--------------------------- MODULE CaptureService ---------------------------
(***************************************************************************)
(* What a version 3 camera promises of its capture requests: they are      *)
(* accepted one at a time and completed one at a time, in the order of     *)
(* acceptance, each at most once; closing the camera drops what is left.   *)
(***************************************************************************)
EXTENDS Naturals, Sequences

CONSTANT Numbers   \* the numbers requests may have

VARIABLES pending, completed   \* frame numbers, oldest first

Init == pending = <<>> /\ completed = <<>>

\* The number of a request is new.
Accept ==
    /\ \E n \in Numbers :
          /\ pending' = Append(pending, n)
          /\ \A i \in 1..Len(pending) : pending[i] < n
          /\ \A i \in 1..Len(completed) : completed[i] < n
    /\ UNCHANGED completed

Complete ==
    /\ pending # <<>>
    /\ completed' = Append(completed, Head(pending))
    /\ pending' = Tail(pending)

Close == pending' = <<>> /\ UNCHANGED completed

Next == Accept \/ Complete \/ Close

Spec == Init /\ [][Next]_<<pending, completed>>
=============================================================================
