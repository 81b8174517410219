------------------------------ MODULE MCQemud ------------------------------
(* Qemud for TLC: the clients are interchangeable, the descriptors are not.  *)
EXTENDS Qemud, TLC

Symmetry == Permutations(Clients)
=============================================================================
