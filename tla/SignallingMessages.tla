------------------------- MODULE SignallingMessages -------------------------
(***************************************************************************)
(* What FSignallingServerConnection::OnMessage and the handlers behind it  *)
(* make of the frames that WebSocketFrames delivers.  The client delivers  *)
(* frames again when they were followed by a part of another frame, so     *)
(* handlers see a message once or several times.                           *)
(*                                                                         *)
(* The sessions, the configuration and what was sent are one record: a     *)
(* handler takes it from one value to the next.  A handler with the tasks  *)
(* it posts and the negotiation it starts is one step (Streamer has them   *)
(* step by step); WebRTC (external) answers at once.                       *)
(*                                                                         *)
(* Of the protocol of the signalling server (external) the model keeps     *)
(* that players are numbered from 1 as they come, that each comes once,    *)
(* and that its browser sends an answer, or an offer, before its           *)
(* candidates.  So the SFU, whose id is 1, comes first if it comes.        *)
(***************************************************************************)
EXTENDS WebSocketFrames, WebSocketCodec, FiniteSets

CONSTANTS PlayerIds,            \* ids as the signalling server counts them
          Sent,                 \* the messages it sends
          WordSize,             \* values of an int32: 2 ^ 32 in the code
          Lengths,              \* lengths of the texts of messages, in bytes
          MaskKeys,             \* mask keys
          bTransmitUEAudio,     \* ~WebRTCDisableTransmitAudio
          bReceiveBrowserAudio  \* ~WebRTCDisableReceiveAudio

ASSUME MessagesAssumption ==
    /\ WordSize \in Nat \ {0} /\ WordSize % 2 = 0
    /\ PlayerIds \subseteq 1 .. WordSize - 1
    /\ Lengths \subseteq 0 .. Power2[8 * BitsPerByte] - 1 /\ MaskKeys \subseteq [1 .. 4 -> Bytes]
    /\ bTransmitUEAudio \in BOOLEAN /\ bReceiveBrowserAudio \in BOOLEAN

VARIABLES script,   \* the messages of this connection, one per frame
          handled,  \* how many of those delivered have been handled
          state     \* FStreamer and its sessions

messageVars == <<script, handled, state>>

-----------------------------------------------------------------------------
(* Messages. A field that a type does not have is left out. *)

Sdps == {"good", "bad", "refused"}

Messages ==
    [type : {"identify", "config", "playerCount", "pong", "streamer candidate"}]
        \cup [type : {"playerConnected"}, id : PlayerIds, dataChannel : BOOLEAN]
        \cup [type : {"offer", "answer"}, id : PlayerIds, sdp : Sdps]
        \cup [type : {"iceCandidate", "playerDisconnected"}, id : PlayerIds]

\* GetPlayerIdJson: the number is narrowed to 32 bits and read as signed.
ToPlayerId(n) == IF n < WordSize \div 2 THEN n ELSE n - WordSize

SFU_PLAYER_ID == 1
NoPlayer == WordSize  \* no id of a session: INVALID_PLAYER_ID

\* SetPlayerIdJson: stoi of the id, or the id as it is.
Reply(s, type, p) == [s EXCEPT !.sent = @ \cup {[type |-> type, id |-> p]}]

ASSUME SentAssumption == Sent \subseteq Messages

-----------------------------------------------------------------------------
(* Sessions. *)

StartState == [Players |-> [p \in {} |-> 0], controller |-> NoPlayer, configured |-> FALSE,
               bAudioSource |-> FALSE, bStreamingStarted |-> FALSE, sent |-> {}]

Live(s) == DOMAIN s.Players

NewSession(s, bDataChannel) ==
    [configured |-> s.configured, channel |-> bDataChannel, direction |-> "none",
     track |-> FALSE, sinks |-> 0, negotiation |-> "new", candidates |-> 0,
     bDisconnecting |-> FALSE]

WithSession(s, p, session) ==
    [s EXCEPT !.Players = [q \in Live(s) \cup {p} |-> IF q = p THEN session ELSE s.Players[q]]]

\* Mutant: the session is made anew when there is one.
CreatesAlways(s, p) == p \in Live(s) \cup {p}

\* A session that exists stays, and there is no peer connection to go on with.
Creates(s, p) == p \notin Live(s)

\* CreateSession: the first one controls the quality.
CreateSession(s, p, bDataChannel) ==
    LET joined == WithSession(s, p, NewSession(s, bDataChannel)) IN
    IF p # SFU_PLAYER_ID /\ Live(s) = {} THEN [joined EXCEPT !.controller = p] ELSE joined

\* SetupAudioTrack: one source for all players, a track for each.
SetupAudioTrack(s, p) ==
    IF ~bTransmitUEAudio THEN s
    ELSE [s EXCEPT !.bAudioSource = TRUE, !.Players[p].track = TRUE]

AudioTransceiverDirection ==
    CASE bTransmitUEAudio /\ bReceiveBrowserAudio -> "send and receive"
      [] bTransmitUEAudio /\ ~bReceiveBrowserAudio -> "send"
      [] ~bTransmitUEAudio /\ bReceiveBrowserAudio -> "receive"
      [] OTHER -> "inactive"

\* There is a transceiver when a track was added, or the browser offered one.
ModifyTransceivers(s, p, bOffered) ==
    IF s.Players[p].track \/ bOffered
    THEN [s EXCEPT !.Players[p].direction = AudioTransceiverDirection] ELSE s

AddStreams(s, p, bOffered) == ModifyTransceivers(SetupAudioTrack(s, p), p, bOffered)

\* AddSink adds the sink of the session once more each time: the browser would
\* be heard twice.
AddSinkToAudioTrack(s, p) == [s EXCEPT !.Players[p].sinks = @ + 1]

\* WebRTC tells of the track of the browser when its description is set, if the
\* transceiver receives.
OnTrack(s, p, direction) ==
    IF direction \in {"send and receive", "receive"} THEN AddSinkToAudioTrack(s, p) ELSE s

SendIceCandidate(s, p) == Reply(s, "iceCandidate", p)

\* WebRTC looks for candidates from now on. A session sends each at once; one
\* stands for them all.
SetLocalDescription(s, p) == SendIceCandidate(s, p)

DisconnectPlayer(s, p) ==
    IF s.Players[p].bDisconnecting THEN s
    ELSE Reply([s EXCEPT !.Players[p].bDisconnecting = TRUE], "disconnectPlayer", p)

\* The std::map is in the order of the texts of ids, with 10 before 2. Which
\* player is first does not matter, only that it is the same one each time.
FirstInMap(S) == CHOOSE p \in S : TRUE

DeletePlayerSession(s, p) ==
    LET left == Live(s) \ {p} IN
    [s EXCEPT !.Players = [q \in left |-> s.Players[q]],
              !.controller = IF p \in Live(s) /\ p = s.controller /\ left # {}
                             THEN FirstInMap(left) ELSE s.controller,
              !.bStreamingStarted = s.bStreamingStarted /\ left # {}]

-----------------------------------------------------------------------------
(* Handlers: the state after the message m. *)

OnIdRequested(s) == Reply(s, "endpointId", NoPlayer)

OnConfig(s) == [s EXCEPT !.configured = TRUE]

OnPlayerConnected(s, m) ==
    LET p == ToPlayerId(m.id)
        made == AddStreams(CreateSession(s, p, m.dataChannel), p, FALSE) IN
    IF Creates(s, p)
    THEN Reply(SetLocalDescription([made EXCEPT !.Players[p].negotiation = "offered"], p),
               "offer", p)
    ELSE s

\* SendAnswer, with an offer that WebRTC takes: the browser offers to send audio.
SendAnswer(s, p) ==
    LET answered == SetLocalDescription(AddStreams(OnTrack(s, p, "receive"), p, TRUE), p) IN
    Reply([answered EXCEPT !.Players[p].negotiation = "connected", !.bStreamingStarted = TRUE],
          "answer", p)

\* With an SDP that does not parse the session stays as it is; one that WebRTC
\* refuses makes the player be disconnected.
OnOffer(s, m) ==
    LET p == ToPlayerId(m.id)
        made == CreateSession(s, p, TRUE) IN
    IF ~Creates(s, p) THEN s
    ELSE CASE m.sdp = "bad" -> made
           [] m.sdp = "refused" -> DisconnectPlayer(made, p)
           [] m.sdp = "good" -> SendAnswer(made, p)

\* Mutant: an answer that comes again is an error, and its player goes.
OnAnswerKicking(s, m) ==
    LET p == ToPlayerId(m.id)
        started == [s EXCEPT !.bStreamingStarted = TRUE] IN
    IF p \notin Live(s) THEN started
    ELSE IF m.sdp = "good" /\ s.Players[p].negotiation = "offered"
         THEN OnTrack([started EXCEPT !.Players[p].negotiation = "connected"],
                      p, s.Players[p].direction)
         ELSE DisconnectPlayer(started, p)

\* Streaming starts whether or not the answer is of use; WebRTC refuses one
\* to a session that has not sent an offer, or has got its answer.
OnAnswer(s, m) ==
    LET p == ToPlayerId(m.id)
        started == [s EXCEPT !.bStreamingStarted = TRUE] IN
    IF p \in Live(s) /\ m.sdp = "good" /\ s.Players[p].negotiation = "offered"
    THEN OnTrack([started EXCEPT !.Players[p].negotiation = "connected"],
                 p, s.Players[p].direction)
    ELSE started

\* WebRTC refuses a candidate before the description, and one it has got changes
\* nothing.
AddIceCandidate(s, p) ==
    IF s.Players[p].negotiation = "connected"
    THEN [s EXCEPT !.Players[p].candidates = 1] ELSE s

OnRemoteIceCandidate(s, p) == IF p \in Live(s) THEN AddIceCandidate(s, p) ELSE s

OnPlayerIceCandidate(s, m) == OnRemoteIceCandidate(s, ToPlayerId(m.id))

\* A candidate without a player is read, and the streamer has no use for it.
OnStreamerIceCandidate(s) == s

\* Nor has it for the number of players.
OnPlayerCount(s) == s

OnPlayerDisconnected(s, m) == DeletePlayerSession(s, ToPlayerId(m.id))

OnMessage(s, m) ==
    CASE m.type = "identify" -> OnIdRequested(s)
      [] m.type = "config" -> OnConfig(s)
      [] m.type = "offer" -> OnOffer(s, m)
      [] m.type = "answer" -> OnAnswer(s, m)
      [] m.type = "iceCandidate" -> OnPlayerIceCandidate(s, m)
      [] m.type = "playerConnected" -> OnPlayerConnected(s, m)
      [] m.type = "playerDisconnected" -> OnPlayerDisconnected(s, m)
      [] m.type = "streamer candidate" -> OnStreamerIceCandidate(s)
      [] m.type = "playerCount" -> OnPlayerCount(s)
      [] m.type = "pong" -> s

-----------------------------------------------------------------------------
(* What the signalling server may send: a prefix of "connected, answer,    *)
(* candidates, disconnected" for each player, or the like with an offer.   *)

About(s, p) == {i \in DOMAIN s : "id" \in DOMAIN s[i] /\ s[i].id = p}

MayFollow(s, m) ==
    \/ "id" \notin DOMAIN m
    \/ LET said == About(s, m.id)
           last == IF said = {} THEN "nothing" ELSE s[Max(said)].type IN
       CASE m.type \in {"playerConnected", "offer"} ->
                \A i \in DOMAIN s : "id" \in DOMAIN s[i] => s[i].id < m.id
         [] m.type = "answer" -> last = "playerConnected"
         [] m.type = "iceCandidate" -> last \in {"answer", "offer", "iceCandidate"}
         [] m.type = "playerDisconnected" -> last \notin {"nothing", "playerDisconnected"}

\* Every sequence of N messages that may be sent.
Scripts ==
    {s \in [Frames -> Sent] : \A f \in Frames : MayFollow(SubSeq(s, 1, f - 1), s[f])}

-----------------------------------------------------------------------------
MessagesInit ==
    /\ FramesInit
    /\ script \in Scripts
    /\ handled = 0
    /\ state = StartState

\* OnRecv is called inside the loop: the frames a piece of the stream has
\* completed are handled before the next piece is taken.
AllHandled == handled = Len(delivered)

Receive(bytes) == AllHandled /\ OnMessageReceived(bytes) /\ UNCHANGED messageVars

Handle ==
    /\ ~AllHandled
    /\ handled' = handled + 1
    /\ state' = OnMessage(state, script[delivered[handled']])
    /\ UNCHANGED <<frameVars, script>>

MessagesNext == Handle \/ \E bytes \in 1 .. End[N] : Receive(bytes)

MessagesSpec == MessagesInit /\ [][MessagesNext]_<<frameVars, messageVars>>

-----------------------------------------------------------------------------
\* A text of n bytes, another one for each player.
TextAbout(p, n) == [type |-> Text, data |-> [i \in 1 .. n |-> (p + i) % ByteSize]]

\* Whether the signalling server reads the texts about a player as they were
\* sent, and the client as the server sends them: once all bytes of the frame
\* have arrived and not before, whatever the order of bytes of the host.
Understood ==
    [p \in {ToPlayerId(n) : n \in PlayerIds} \cup {NoPlayer} |->
        \A n \in Lengths, bBig \in BOOLEAN :
            LET msg == TextAbout(p, n)
                frame == ServerFrame(msg) IN
            /\ \A mask_key \in MaskKeys : ServerReads(Send(bBig, msg, mask_key), msg)
            /\ \A arrived \in 0 .. Len(frame.bytes) :
                  ReadFrame(bBig, frame.header, SubSeq(frame.bytes, 1, arrived)) =
                      IF arrived = Len(frame.bytes) THEN {msg} ELSE {}]

\* What was said to the signalling server and by it was understood, whatever
\* the length of the text.
FramesUnderstood == \A reply \in state.sent : Understood[reply.id]

\* The frames that have arrived.
Arrived == {f \in Frames : Complete(received, f)}

\* What browsers and the signalling server can see of a state: the controller
\* when there is one, and not the streaming flag.
Seen(s) ==
    [s EXCEPT !.controller = IF @ \in Live(s) THEN @ ELSE NoPlayer, !.bStreamingStarted = FALSE]

\* The state of a client that hands over every frame once, after n of them.
Told[n \in 0 .. N] == IF n = 0 THEN StartState ELSE OnMessage(Told[n - 1], script[n])

\* Frames come again, but nobody can tell: once all is handled, sessions,
\* controller, configuration and what was sent are those of a client that
\* hands over every frame once. (The streaming flag may be set too early, when
\* an answer comes again and another player has not yet sent its own.)
SessionsAsTold ==
    AllHandled => Seen(state) = Seen(Told[Cardinality(Arrived)])

Gone(p) ==
    \E f \in Arrived : script[f].type = "playerDisconnected" /\ ToPlayerId(script[f].id) = p

\* A message that comes again does nothing to a player that has not left: its
\* session is neither replaced nor set back.
LiveSessionsStay ==
    [][\A p \in Live(state) : ~Gone(p) =>
          /\ p \in Live(state')
          /\ state.Players[p].negotiation = "connected" => state'.Players[p] =
                 [state.Players[p] EXCEPT !.candidates = state'.Players[p].candidates]
          /\ state.Players[p].candidates <= state'.Players[p].candidates]_<<frameVars, messageVars>>
=============================================================================
