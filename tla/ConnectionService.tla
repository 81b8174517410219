-------------------------- MODULE ConnectionService --------------------------
(***************************************************************************)
(* What qemud promises a client of a service of the emulator: once its     *)
(* request is granted it is told so, and after that it gets what the       *)
(* emulator sends it, in the order in which it was sent.                   *)
(***************************************************************************)
EXTENDS Naturals, Sequences

CONSTANT Clients

VARIABLES
    sent,       \* how many messages the emulator has sent to each client
    told,       \* the clients that know that their request is granted
    delivered   \* the numbers of the messages each client has got, in order

Init ==
    /\ sent = [c \in Clients |-> 0]
    /\ told = {}
    /\ delivered = [c \in Clients |-> <<>>]

Send(c) ==
    /\ sent' = [sent EXCEPT ![c] = @ + 1]
    /\ UNCHANGED <<told, delivered>>

Tell(c) ==
    /\ c \notin told
    /\ told' = told \cup {c}
    /\ UNCHANGED <<sent, delivered>>

Deliver(c) ==
    /\ c \in told
    /\ Len(delivered[c]) < sent[c]
    /\ delivered' = [delivered EXCEPT ![c] = Append(@, Len(@) + 1)]
    /\ UNCHANGED <<sent, told>>

Next == \E c \in Clients : Send(c) \/ Tell(c) \/ Deliver(c)

Spec == Init /\ [][Next]_<<sent, told, delivered>>
=============================================================================
