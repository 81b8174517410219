------------------------------ MODULE PacketPipe ------------------------------
(* What the framing of the serial line promises: a pipe of messages, which     *)
(* come out as they went in, in their order, each of them once and all of them *)
(* at last.                                                                    *)
EXTENDS Naturals, Sequences

CONSTANT Messages

VARIABLES sent, posted

Init == sent = <<>> /\ posted = <<>>

Send == \E m \in Messages : sent' = Append(sent, m) /\ UNCHANGED posted

Deliver ==
    /\ Len(posted) < Len(sent)
    /\ posted' = Append(posted, sent[Len(posted) + 1])
    /\ UNCHANGED sent

Next == Send \/ Deliver

Spec == Init /\ [][Next]_<<sent, posted>> /\ WF_<<sent, posted>>(Deliver)
=============================================================================
