--------------------------- MODULE QualityControl ---------------------------
(***************************************************************************)
(* What the player sessions promise about quality control, whoever asks    *)
(* and in whatever order: as long as anybody watches, exactly one of those *)
(* who watch is in control - the first to come, until somebody asks for    *)
(* control or the controller leaves and any of the others inherits it.     *)
(***************************************************************************)
CONSTANTS PlayerIds, Nobody  \* Nobody: not one of PlayerIds

VARIABLES players, controller

vars == <<players, controller>>

Init == players = {} /\ controller = Nobody

Join(p) ==
    /\ p \notin players
    /\ players' = players \cup {p}
    /\ controller' = IF players = {} THEN p ELSE controller

Leave(p) ==
    /\ p \in players
    /\ players' = players \ {p}
    /\ \/ players' = {} /\ controller' = Nobody
       \/ controller # p /\ controller' = controller
       \/ controller = p /\ controller' \in players'

LeaveAll == players' = {} /\ controller' = Nobody

Request(p) == p \in players /\ controller' = p /\ UNCHANGED players

Next == LeaveAll \/ \E p \in PlayerIds : Join(p) \/ Leave(p) \/ Request(p)

Spec == Init /\ [][Next]_vars
=============================================================================
