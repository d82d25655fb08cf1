----------------------- MODULE MCSignallingConnection -----------------------
(* Instances of SignallingConnection for TLC. *)
EXTENDS SignallingConnection

CONSTANTS t1, t2, t3

ThreeThreads == {t1, t2, t3}
=============================================================================
