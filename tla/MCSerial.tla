------------------------------ MODULE MCSerial ------------------------------
(* Serial for TLC.                                                             *)
EXTENDS Serial

\* A payload that reads like the header of a packet, and one that is no number.
SmallPayloads == {<<0, 1, 0, 0, 1>>, <<NotHex>>}

\* A length that is no number; a channel that is no number.
SmallNoise == {<<0, 1, 0, NotHex, 0, 2>>, <<NotHex, 1, 0, 0, 0, 1, 0>>}
=============================================================================
