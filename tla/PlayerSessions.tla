--------------------------- MODULE PlayerSessions ---------------------------
(***************************************************************************)
(* FThreadSafePlayerSessions and the FPlayerSession objects it owns: the   *)
(* map from player ids to sessions and the player that controls quality.   *)
(* Every ..._SignallingThread method runs to completion on the WebRTC      *)
(* signalling thread, the only thread that touches the map, so each is one *)
(* action here.  Streamer.tla says which threads ask for them and when.    *)
(***************************************************************************)
EXTENDS Integers

CONSTANTS PlayerIds,         \* ids the signalling server hands out
          SFU_PLAYER_ID,     \* the id reserved for an SFU ("1" in the source)
          INVALID_PLAYER_ID  \* names nobody

\* Ids are strings in the source; the std::map that holds the sessions
\* iterates in the order of operator<, which the integers stand for.
ASSUME PlayerIdsAssumption ==
    /\ PlayerIds \subseteq Int
    /\ INVALID_PLAYER_ID \notin PlayerIds
    /\ \A S \in SUBSET PlayerIds :
          S # {} => \E p \in S : \A q \in S : p <= q

VARIABLES Players,                  \* live sessions by player id
          QualityControllingPlayer  \* whose requests steer the encoder

sessionVars == <<Players, QualityControllingPlayer>>

-----------------------------------------------------------------------------
(* One session.  channel is the state of the data channel the session      *)
(* holds ("none": the pointer is null), bFull says that its buffer has no  *)
(* room for another part of a freeze frame; bFormer says that a channel it *)
(* held before is still open, the observer registered with it.  told and   *)
(* shown are what the browser last received, on whichever channel: who     *)
(* controls quality, and whether the picture is frozen.  A browser that is *)
(* "misled" was told that it controls, and the message that it does so no  *)
(* more did not reach it.  negotiation is the offer/answer exchange.       *)

ChannelStates == {"none", "connecting", "open", "closed"}

NegotiationStates ==
    { "new", "failed", "connected",
      "creatingOffer", "settingOffer", "offered",           \* streamer offers
      "settingRemote", "creatingAnswer", "settingAnswer" }  \* browser offers

Session == [ channel        : ChannelStates,
             bFull          : BOOLEAN,
             bFormer        : BOOLEAN,
             told           : {"nothing", "controls", "watches", "misled"},
             shown          : {"live", "frozen"},
             negotiation    : NegotiationStates,
             bDisconnecting : BOOLEAN ]

NewSession == [ channel |-> "none", bFull |-> FALSE, bFormer |-> FALSE,
                told |-> "nothing", shown |-> "live",
                negotiation |-> "new", bDisconnecting |-> FALSE ]

\* A channel with a full buffer that refuses to send closes, and has nothing
\* buffered then (external).
Refused(s) == IF s.channel = "open" THEN [s EXCEPT !.channel = "closed", !.bFull = FALSE] ELSE s

\* The status does not arrive: the browser goes on believing what it did.
Unaware(s, bIsQualityController) ==
    [s EXCEPT !.told = CASE @ = "controls" /\ ~bIsQualityController -> "misled"
                         [] @ = "misled" /\ bIsQualityController -> "controls"
                         [] OTHER -> @]

\* DataChannel->Send fails on a channel that is not open.
SendQualityControlStatus(s, bIsQualityController) ==
    IF s.channel # "open" THEN Unaware(s, bIsQualityController)
    ELSE [s EXCEPT !.told = IF bIsQualityController THEN "controls" ELSE "watches"]

SendFreezeFrame(s) == IF s.channel # "open" THEN s ELSE [s EXCEPT !.shown = "frozen"]

SendUnfreezeFrame(s) == IF s.channel # "open" THEN s ELSE [s EXCEPT !.shown = "live"]

\* The second call for the same session is a no-op.
DisconnectPlayer(s) == [s EXCEPT !.negotiation = "failed", !.bDisconnecting = TRUE]

-----------------------------------------------------------------------------
(* The map and the controller. *)

EmptyMap == [p \in {} |-> NewSession]

SessionsInit == /\ Players = EmptyMap
                /\ QualityControllingPlayer = INVALID_PLAYER_ID

Live == DOMAIN Players

FirstInMap(S) == CHOOSE p \in S : \A q \in S : p <= q

Without(p) == [q \in Live \ {p} |-> Players[q]]

Including(p, s) == [q \in Live \cup {p} |-> IF q = p THEN s ELSE Players[q]]

UpdateSession(p, s) == Players' = [Players EXCEPT ![p] = s]

\* The sessions whose channel may refuse a message.
Full(M) == {q \in DOMAIN M : M[q].bFull}

\* Mutant: the browser that loses control is not told.
GiveControlTellingOne(M, p) ==
    /\ QualityControllingPlayer' = p
    /\ Players' = [q \in DOMAIN M |->
                     IF q = p THEN SendQualityControlStatus(M[q], TRUE) ELSE M[q]]

\* Make p the controller of the sessions in map M and tell every browser.
GiveControl(M, p) ==
    /\ QualityControllingPlayer' = p
    /\ \E refusing \in SUBSET Full(M) :
          Players' = [q \in DOMAIN M |->
                        SendQualityControlStatus(
                            IF q \in refusing THEN Refused(M[q]) ELSE M[q], q = p)]

\* Mutant: whoever joins takes control.
CreatePlayerSessionInControl(p) ==
    /\ p \notin Live
    /\ GiveControl(Including(p, NewSession), p)

\* A session that exists already, or a peer connection that cannot be
\* created, yields a null pointer and changes nothing.
CreatePlayerSession(p) ==
    /\ p \notin Live
    /\ LET bMakeQualityController == p # SFU_PLAYER_ID /\ Live = {}
           Joined == Including(p, NewSession)
       IN  IF bMakeQualityController
           THEN GiveControl(Joined, p)
           ELSE Players' = Joined /\ UNCHANGED QualityControllingPlayer

\* Mutant: nobody inherits control.
DeletePlayerSessionOnly(p) == Players' = Without(p) /\ UNCHANGED QualityControllingPlayer

DeletePlayerSession(p) ==
    IF p \in Live /\ p = QualityControllingPlayer /\ Live # {p}
    THEN GiveControl(Without(p), FirstInMap(Live \ {p}))
    ELSE Players' = Without(p) /\ UNCHANGED QualityControllingPlayer

DeleteAllPlayerSessions ==
    /\ Players' = EmptyMap
    /\ QualityControllingPlayer' = INVALID_PLAYER_ID

\* Called from the data channel's OnMessage, on the signalling thread, so the
\* assignment under the lock and the task that repeats it run in one go.
SetQualityController(p) == p \in Live /\ GiveControl(Players, p)

\* The session's channel is replaced; what is known of the old one is kept.
Replaced(s) == [s EXCEPT !.channel = "connecting", !.bFull = FALSE,
                         !.bFormer = @ \/ s.channel \in {"connecting", "open"}]

SetPlayerSessionDataChannel(p) ==
    /\ IF p \in Live THEN UpdateSession(p, Replaced(Players[p])) ELSE UNCHANGED Players
    /\ UNCHANGED QualityControllingPlayer

\* The browser's answer is applied to a session that has sent its offer;
\* SetRemoteDescription refuses it in any other state, or for a bad SDP.
OnAnswer(p) ==
    /\ \/ UNCHANGED Players
       \/ /\ p \in Live
          /\ Players[p].negotiation = "offered"
          /\ UpdateSession(p, [Players[p] EXCEPT !.negotiation = "connected"])
    /\ UNCHANGED QualityControllingPlayer

\* The frame goes out in parts; before each of them SendArbitraryData waits,
\* on the signalling thread, for room in the buffer of the channel.
SendFreezeFrameTo(p) ==
    /\ ~Players[p].bFull
    /\ UpdateSession(p, SendFreezeFrame(Players[p]))
    /\ UNCHANGED QualityControllingPlayer

SendUnfreezeFrameAll ==
    /\ \E refusing \in SUBSET Full(Players) :
          Players' = [p \in Live |->
                        SendUnfreezeFrame(
                            IF p \in refusing THEN Refused(Players[p]) ELSE Players[p])]
    /\ UNCHANGED QualityControllingPlayer

-----------------------------------------------------------------------------
SessionsTypeOK ==
    /\ Live \subseteq PlayerIds
    /\ Players \in [Live -> Session]
    /\ QualityControllingPlayer \in PlayerIds \cup {INVALID_PLAYER_ID}
=============================================================================
