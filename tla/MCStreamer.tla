----------------------------- MODULE MCStreamer -----------------------------
(* Instances of Streamer for TLC: small sets of players, of calls and of acts. *)
EXTENDS Streamer

OnePlayer == {2}
ThreePlayers == {2, 3, 4}

NoCalls == {}
FreezeAndUnfreeze == {"freeze", "unfreeze"}

Acts == {"open channel", "stop reading"}
OneActs == [p \in OnePlayer |-> Acts]
TwoOfThreeAct == [p \in ThreePlayers |-> IF p = 4 THEN {} ELSE Acts]
=============================================================================
