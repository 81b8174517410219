------------------------------- MODULE Looper -------------------------------
(***************************************************************************)
(* The event loop of the qemud daemon, over epoll: Looper in qemud/qemud.c.*)
(*                                                                         *)
(* A looper has an array of hooks, one for each descriptor it monitors,    *)
(* and epoll has for each descriptor a mask of events and a pointer into   *)
(* the array.  One round of the loop waits for events, marks the hooks     *)
(* they point to, calls the marked hooks in the order of the array, and    *)
(* removes the hooks that the callbacks have deleted.                      *)
(*                                                                         *)
(* A looper is a record, and the operations map a looper to a looper.  The *)
(* hooks of the serial port and of the control socket, which are the first *)
(* two and are never removed, are kept apart by the module that uses this  *)
(* one.  A descriptor that epoll does not watch has pointer 0.             *)
(***************************************************************************)
EXTENDS Naturals, Sequences, FiniteSets

CONSTANT Fds     \* the descriptors there are, a set of naturals

ASSUME LooperAssumption == Fds \subseteq Nat \ {0} /\ IsFiniteSet(Fds)

Events == {"IN", "OUT", "HUP"}

\* A hook: the handler it calls, the mask asked for, the events it is marked
\* with (none: not pending), and "closing" once it is deleted.
Hooks(Users) == [fd : Fds, user : Users, wanted : SUBSET Events,
                 events : SUBSET Events, state : {"open", "closing"}]

NotWatched == [ptr |-> 0, wanted |-> {}]

Loopers(Users) == [hooks : Seq(Hooks(Users)),
                   epoll : [Fds -> [ptr : Nat, wanted : SUBSET Events]]]

NewLooper == [hooks |-> <<>>, epoll |-> [f \in Fds |-> NotWatched]]

\* looper_find: the first hook with the descriptor.
Found(l, fd) == {i \in 1..Len(l.hooks) : l.hooks[i].fd = fd}
Find(l, fd)  == CHOOSE i \in Found(l, fd) : \A j \in Found(l, fd) : i <= j

\* EPOLL_CTL_MOD of a descriptor that is not watched, being closed, fails.
Modify(l, fd, i, mask) ==
    IF l.epoll[fd].ptr = 0 THEN l
    ELSE [l EXCEPT !.epoll[fd] = [ptr |-> i, wanted |-> mask]]

SetWanted(l, fd, i, mask) == Modify([l EXCEPT !.hooks[i].wanted = mask], fd, i, mask)

\* looper_enable and looper_disable of one event.
Enable(l, fd, event) ==
    LET i == Find(l, fd)
    IN  IF Found(l, fd) = {} \/ event \in l.hooks[i].wanted THEN l
        ELSE SetWanted(l, fd, i, l.hooks[i].wanted \cup {event})

Disable(l, fd, event) ==
    LET i == Find(l, fd)
    IN  IF Found(l, fd) = {} \/ event \notin l.hooks[i].wanted THEN l
        ELSE SetWanted(l, fd, i, l.hooks[i].wanted \ {event})

\* looper_add: the hook comes last, and monitors nothing yet.
AddHook(l, fd, u) ==
    [l EXCEPT !.hooks = Append(@, [fd |-> fd, user |-> u, wanted |-> {}, events |-> {},
                                   state |-> "open"]),
              !.epoll[fd] = [ptr |-> Len(l.hooks) + 1, wanted |-> {}]]

\* looper_del: the hook stays until the end of the round.
Del(l, fd) ==
    IF Found(l, fd) = {} THEN l
    ELSE [l EXCEPT !.hooks[Find(l, fd)].state = "closing", !.epoll[fd] = NotWatched]

-----------------------------------------------------------------------------
(* looper_loop.                                                            *)

\* What epoll_wait reports of a descriptor whose state is ready: the events
\* asked for, and a hang-up in any case.
Reported(l, fd, ready) ==
    IF l.epoll[fd].ptr = 0 THEN {} ELSE ready \cap (l.epoll[fd].wanted \cup {"HUP"})

\* The hooks are marked. Of the descriptors that point to one hook the last one
\* reported is what it is marked with; a pointer past the array marks nothing.
Pointing(l, ready, i) == {f \in Fds : l.epoll[f].ptr = i /\ Reported(l, f, ready[f]) # {}}

Marked(l, ready) ==
    {[l EXCEPT !.hooks = [i \in 1..Len(@) |-> [@[i] EXCEPT
            !.events = IF Pointing(l, ready, i) = {} THEN {}
                       ELSE Reported(l, last[i], ready[last[i]])]]] :
        last \in {g \in [1..Len(l.hooks) -> Fds] : \A i \in 1..Len(l.hooks) :
                     Pointing(l, ready, i) # {} => g[i] \in Pointing(l, ready, i)}}

PendingHooks(l) == {i \in 1..Len(l.hooks) : l.hooks[i].events # {}}
NextPending(l)  == CHOOSE i \in PendingHooks(l) : \A j \in PendingHooks(l) : i <= j
Unmark(l, i)    == [l EXCEPT !.hooks[i].events = {}]

ClosingHooks(l) == {i \in 1..Len(l.hooks) : l.hooks[i].state = "closing"}

\* The first deleted hook is overwritten by the last hook of the array, and what
\* epoll knows of that one's descriptor is set again.
FirstClosing(l) == CHOOSE i \in ClosingHooks(l) : \A j \in ClosingHooks(l) : i <= j
LastHook(l)     == l.hooks[Len(l.hooks)]
Moved(l)        == [l EXCEPT !.hooks = SubSeq([@ EXCEPT ![FirstClosing(l)] = LastHook(l)],
                                              1, Len(@) - 1)]

\* The variant that leaves the pointer of the moved hook as it was.
MovedOnly(l) == Moved(l)
Sweep(l) == Modify(Moved(l), LastHook(l).fd, FirstClosing(l), LastHook(l).wanted)
=============================================================================
