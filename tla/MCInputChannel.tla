--------------------------- MODULE MCInputChannel ---------------------------
(* Instances of InputChannel for TLC. *)
EXTENDS InputChannel

CONSTANTS s1, s2

TwoSessions == {s1, s2}
=============================================================================
