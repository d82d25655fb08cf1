------------------------------ MODULE Streamer ------------------------------
(***************************************************************************)
(* FStreamer: the threads that use the player sessions.                    *)
(*                                                                         *)
(*   - the WebSocket thread handles one message of the signalling server   *)
(*     at a time; w is where it is in the handler;                         *)
(*   - the WebRTC signalling thread runs the tasks the others post, in     *)
(*     order, and WebRTC's own callbacks between them;                     *)
(*   - an application thread may freeze and unfreeze the stream.           *)
(*                                                                         *)
(* A method with a return type blocks its caller until its task has run    *)
(* (Invoke); one without is posted and forgotten (PostTask).               *)
(***************************************************************************)
EXTENDS PlayerSessions, Sequences

CONSTANTS AppCalls,     \* which of the calls {"freeze", "unfreeze"} are made
          BrowserActs,  \* which of {"open channel", "stop reading"} a player's browser does
          MaxTasks      \* bound on the tasks waiting when a new call starts

ASSUME StreamerAssumption ==
    /\ AppCalls \subseteq {"freeze", "unfreeze"}
    /\ BrowserActs \in [PlayerIds -> SUBSET {"open channel", "stop reading"}]
    /\ MaxTasks \in Nat \ {0}

VARIABLES tasks,             \* queue of the WebRTC signalling thread
          sending,           \* the sessions it is about to send a freeze frame to
          w,                 \* the WebSocket thread
          app,               \* the application thread
          bStreamingStarted,
          CachedJpegBytes    \* is a freeze frame retained?

vars == <<sessionVars, tasks, sending, w, app, bStreamingStarted, CachedJpegBytes>>

-----------------------------------------------------------------------------
PlayerOps == {"create", "setDataChannel", "getObserver", "answer", "delete"}

AppOps == {"freeze", "unfreeze"}

Task == [op : PlayerOps, player : PlayerIds]
            \cup [op : AppOps \cup {"deleteAll"}, player : {INVALID_PLAYER_ID}]

TaskFor(op, p) == [op |-> op, player |-> p]

TaskForAll(op) == [op |-> op, player |-> INVALID_PLAYER_ID]

HandlerStates == { "idle", "createWait", "created", "observerWait", "bound",
                   "answering", "deleteWait", "deleted", "resetting" }

\* player and bOffer are the handler's arguments (bOffer: the browser sent
\* the offer), bDataChannel its flag, remaining the result of the deletion.
Handler == [ pc : HandlerStates, player : PlayerIds \cup {INVALID_PLAYER_ID},
             bOffer : BOOLEAN, bDataChannel : BOOLEAN, bNoneRemain : BOOLEAN ]

Idle == [ pc |-> "idle", player |-> INVALID_PLAYER_ID, bOffer |-> FALSE,
          bDataChannel |-> FALSE, bNoneRemain |-> FALSE ]

Handling(pc, p) == [Idle EXCEPT !.pc = pc, !.player = p]

Init ==
    /\ SessionsInit
    /\ tasks = <<>>
    /\ sending = {}
    /\ w = Idle
    /\ app = "idle"
    /\ bStreamingStarted = FALSE
    /\ CachedJpegBytes = FALSE

\* Mutant: the latest call comes first.
SubmitFirst(t) == tasks' = <<t>> \o tasks

Submit(t) == tasks' = Append(tasks, t)

CanStart == Len(tasks) < MaxTasks

-----------------------------------------------------------------------------
(* The WebSocket thread: messages of the signalling server. *)

OnPlayerConnected(p, bDataChannel) ==
    /\ w.pc = "idle" /\ CanStart
    /\ Submit(TaskFor("create", p))
    /\ w' = [Handling("createWait", p) EXCEPT !.bDataChannel = bDataChannel]
    /\ UNCHANGED <<sessionVars, sending, app, bStreamingStarted, CachedJpegBytes>>

OnOffer(p) ==
    /\ w.pc = "idle" /\ CanStart
    /\ Submit(TaskFor("create", p))
    /\ w' = [Handling("createWait", p) EXCEPT !.bDataChannel = TRUE, !.bOffer = TRUE]
    /\ UNCHANGED <<sessionVars, sending, app, bStreamingStarted, CachedJpegBytes>>

\* CreateSession goes on with the peer connection it got: the channel is
\* posted to the session, the observer is fetched and waited for.  The peer
\* connection passes calls on to the signalling thread (external), which must
\* be free to take them.
CreateDataChannel ==
    /\ w.pc = "created" /\ w.bDataChannel
    /\ sending = {}
    /\ tasks' = tasks \o << TaskFor("setDataChannel", w.player),
                            TaskFor("getObserver", w.player) >>
    /\ w' = [w EXCEPT !.pc = "observerWait"]
    /\ UNCHANGED <<sessionVars, sending, app, bStreamingStarted, CachedJpegBytes>>

\* Back in OnPlayerConnected: CreateOffer is called; back in OnOffer:
\* SetRemoteDescription is, unless the offer's SDP does not parse.
StartNegotiation ==
    /\ \/ w.pc = "bound"
       \/ w.pc = "created" /\ ~w.bDataChannel
    /\ sending = {}
    /\ \E n \in IF w.bOffer THEN {"settingRemote", "failed"} ELSE {"creatingOffer"} :
          UpdateSession(w.player, [Players[w.player] EXCEPT !.negotiation = n])
    /\ w' = Idle
    /\ UNCHANGED <<QualityControllingPlayer, tasks, sending, app, bStreamingStarted, CachedJpegBytes>>

ReceiveAnswer(p) ==
    /\ w.pc = "idle" /\ CanStart
    /\ Submit(TaskFor("answer", p))
    /\ w' = Handling("answering", p)
    /\ UNCHANGED <<sessionVars, sending, app, bStreamingStarted, CachedJpegBytes>>

SetStreamingStarted ==
    /\ w.pc = "answering"
    /\ bStreamingStarted' = TRUE
    /\ w' = Idle
    /\ UNCHANGED <<sessionVars, tasks, sending, app, CachedJpegBytes>>

OnPlayerDisconnected(p) ==
    /\ w.pc = "idle" /\ CanStart
    /\ Submit(TaskFor("delete", p))
    /\ w' = Handling("deleteWait", p)
    /\ UNCHANGED <<sessionVars, sending, app, bStreamingStarted, CachedJpegBytes>>

AfterDelete ==
    /\ w.pc = "deleted"
    /\ bStreamingStarted' = (bStreamingStarted /\ ~w.bNoneRemain)
    /\ w' = Idle
    /\ UNCHANGED <<sessionVars, tasks, sending, app, CachedJpegBytes>>

\* Mutant: the sessions are left alone.
OnSignallingServerDisconnectedOnly ==
    /\ w.pc = "idle" /\ CanStart
    /\ w' = Handling("resetting", INVALID_PLAYER_ID)
    /\ UNCHANGED <<sessionVars, tasks, sending, app, bStreamingStarted, CachedJpegBytes>>

\* The connection is lost: the deletion is posted, not waited for.
OnSignallingServerDisconnected ==
    /\ w.pc = "idle" /\ CanStart
    /\ Submit(TaskForAll("deleteAll"))
    /\ w' = Handling("resetting", INVALID_PLAYER_ID)
    /\ UNCHANGED <<sessionVars, sending, app, bStreamingStarted, CachedJpegBytes>>

AfterDeleteAll ==
    /\ w.pc = "resetting"
    /\ bStreamingStarted' = FALSE
    /\ w' = Idle
    /\ UNCHANGED <<sessionVars, tasks, sending, app, CachedJpegBytes>>

-----------------------------------------------------------------------------
(* The WebRTC signalling thread runs the first task of its queue. *)

Take(op) ==
    /\ sending = {}
    /\ tasks # <<>>
    /\ Head(tasks).op = op
    /\ tasks' = Tail(tasks)
    /\ UNCHANGED <<app, bStreamingStarted, CachedJpegBytes>>

First == Head(tasks).player

RunCreate ==
    /\ Take("create")
    /\ \/ CreatePlayerSession(First) /\ w' = [w EXCEPT !.pc = "created"]
       \/ UNCHANGED sessionVars /\ w' = Idle
    /\ UNCHANGED sending

RunSetDataChannel ==
    Take("setDataChannel") /\ SetPlayerSessionDataChannel(First) /\ UNCHANGED <<w, sending>>

\* Mutant: the caller is not woken up.
RunGetObserverSilently == Take("getObserver") /\ UNCHANGED <<w, sessionVars, sending>>

RunGetObserver ==
    /\ Take("getObserver")
    /\ w' = [w EXCEPT !.pc = "bound"]
    /\ UNCHANGED <<sessionVars, sending>>

RunAnswer == Take("answer") /\ OnAnswer(First) /\ UNCHANGED <<w, sending>>

RunDelete ==
    /\ Take("delete")
    /\ DeletePlayerSession(First)
    /\ w' = [w EXCEPT !.pc = "deleted", !.bNoneRemain = (DOMAIN Players' = {})]
    /\ UNCHANGED sending

RunDeleteAll == Take("deleteAll") /\ DeleteAllPlayerSessions /\ UNCHANGED <<w, sending>>

RunFreeze == Take("freeze") /\ sending' = Live /\ UNCHANGED <<sessionVars, w>>

RunUnfreeze == Take("unfreeze") /\ SendUnfreezeFrameAll /\ UNCHANGED <<w, sending>>

\* One session after the other, in the order of the map.
SendFreezeFrameToFirst ==
    /\ sending # {}
    /\ SendFreezeFrameTo(FirstInMap(sending))
    /\ sending' = sending \ {FirstInMap(sending)}
    /\ UNCHANGED <<tasks, w, app, bStreamingStarted, CachedJpegBytes>>

RunTask == \/ RunCreate \/ RunSetDataChannel \/ RunGetObserver \/ RunAnswer
           \/ RunDelete \/ RunDeleteAll \/ RunFreeze \/ RunUnfreeze

-----------------------------------------------------------------------------
(* The WebRTC signalling thread runs a callback of WebRTC. *)

Callback(p) ==
    /\ sending = {}
    /\ p \in Live
    /\ UNCHANGED <<QualityControllingPlayer, tasks, w, app, CachedJpegBytes>>

Negotiate(p, from, to) ==
    /\ Players[p].negotiation = from
    /\ UpdateSession(p, [Players[p] EXCEPT !.negotiation = to])

\* A callback that sends nothing and leaves the streamer's flag alone.
Silently == UNCHANGED <<bStreamingStarted, sending>>

\* The streamer's own offer: a failure is logged and goes no further.
OfferProgress(p) ==
    /\ Callback(p) /\ Silently
    /\ \/ Negotiate(p, "creatingOffer", "settingOffer")
       \/ Negotiate(p, "settingOffer", "offered")
       \/ Negotiate(p, "creatingOffer", "failed")
       \/ Negotiate(p, "settingOffer", "failed")

\* The answer to the browser's offer, up to the last step.
AnswerProgress(p) ==
    /\ Callback(p) /\ Silently
    /\ \/ Negotiate(p, "settingRemote", "creatingAnswer")
       \/ Negotiate(p, "creatingAnswer", "settingAnswer")

\* Mutant: only ReceiveAnswer says that streaming has started.
AnswerSentOnly(p) ==
    /\ Callback(p) /\ Silently
    /\ Negotiate(p, "settingAnswer", "connected")

AnswerSent(p) ==
    /\ Callback(p)
    /\ Negotiate(p, "settingAnswer", "connected")
    /\ bStreamingStarted' = TRUE
    /\ UNCHANGED sending

AnswerFailed(p) ==
    /\ Callback(p) /\ Silently
    /\ Players[p].negotiation \in {"settingRemote", "creatingAnswer", "settingAnswer"}
    /\ UpdateSession(p, DisconnectPlayer(Players[p]))

\* The browser opens a channel of its own, which takes the place of the one
\* that the session has, if it has one.
OnDataChannel(p) ==
    /\ "open channel" \in BrowserActs[p]
    /\ Callback(p) /\ Silently
    /\ Players[p].negotiation = "connected"
    /\ UpdateSession(p, Replaced(Players[p]))

\* OnStateChange looks at the channel that the session has now, whichever
\* channel has changed: if it is open, OnDataChannelOpenNative is published,
\* and the streamer sends the player the cached freeze frame, if there is one.
OnStateChange(p, s) ==
    /\ UpdateSession(p, s)
    /\ sending' = IF s.channel = "open" /\ CachedJpegBytes THEN {p} ELSE {}
    /\ UNCHANGED bStreamingStarted

OnDataChannelOpen(p) ==
    /\ Callback(p)
    /\ Players[p].negotiation = "connected" /\ Players[p].channel = "connecting"
    /\ OnStateChange(p, [Players[p] EXCEPT !.channel = "open"])

OnDataChannelClosed(p) ==
    /\ Callback(p)
    /\ Players[p].channel = "open"
    /\ OnStateChange(p, Refused(Players[p]))

FormerChannelChanges(p) ==
    /\ Callback(p)
    /\ Players[p].bFormer
    /\ \E b \in BOOLEAN : OnStateChange(p, [Players[p] EXCEPT !.bFormer = b])

OnRequestQualityControl(p) ==
    /\ sending = {}
    /\ p \in Live
    /\ Players[p].channel = "open" \/ Players[p].bFormer
    /\ SetQualityController(p)
    /\ UNCHANGED <<tasks, sending, w, app, bStreamingStarted, CachedJpegBytes>>

\* Messages to the browser, the video above all, fill the buffer of the channel
\* while the signalling thread sends them; the browser empties it when it reads.
BufferFills(p) ==
    /\ "stop reading" \in BrowserActs[p]
    /\ Callback(p) /\ Silently
    /\ Players[p].channel = "open"
    /\ UpdateSession(p, [Players[p] EXCEPT !.bFull = TRUE])

BufferDrains(p) ==
    /\ p \in Live
    /\ Players[p].bFull
    /\ UpdateSession(p, [Players[p] EXCEPT !.bFull = FALSE])
    /\ UNCHANGED <<QualityControllingPlayer, tasks, sending, w, app,
                   bStreamingStarted, CachedJpegBytes>>

-----------------------------------------------------------------------------
(* The application thread: the task is posted, then the cache is written. *)

PostFreezeFrame ==
    /\ "freeze" \in AppCalls
    /\ app = "idle" /\ CanStart
    /\ bStreamingStarted
    /\ Submit(TaskForAll("freeze"))
    /\ app' = "caching"
    /\ UNCHANGED <<sessionVars, sending, w, bStreamingStarted, CachedJpegBytes>>

PostUnfreezeFrame ==
    /\ "unfreeze" \in AppCalls
    /\ app = "idle" /\ CanStart
    /\ Submit(TaskForAll("unfreeze"))
    /\ app' = "clearing"
    /\ UNCHANGED <<sessionVars, sending, w, bStreamingStarted, CachedJpegBytes>>

WriteCache ==
    /\ app # "idle"
    /\ CachedJpegBytes' = (app = "caching")
    /\ app' = "idle"
    /\ UNCHANGED <<sessionVars, tasks, sending, w, bStreamingStarted>>

-----------------------------------------------------------------------------
Message(p) ==
    \/ \E bDataChannel \in BOOLEAN : OnPlayerConnected(p, bDataChannel)
    \/ OnOffer(p) \/ ReceiveAnswer(p) \/ OnPlayerDisconnected(p)

FinishHandler == \/ CreateDataChannel \/ StartNegotiation \/ SetStreamingStarted
                 \/ AfterDelete \/ AfterDeleteAll

WebRtcCallback(p) ==
    \/ OfferProgress(p) \/ AnswerProgress(p) \/ AnswerSent(p) \/ AnswerFailed(p)
    \/ OnDataChannel(p) \/ OnDataChannelOpen(p) \/ OnDataChannelClosed(p)
    \/ FormerChannelChanges(p) \/ OnRequestQualityControl(p)
    \/ BufferFills(p) \/ BufferDrains(p)

Next ==
    \/ \E p \in PlayerIds : Message(p) \/ WebRtcCallback(p)
    \/ OnSignallingServerDisconnected
    \/ FinishHandler
    \/ RunTask \/ SendFreezeFrameToFirst
    \/ PostFreezeFrame \/ PostUnfreezeFrame \/ WriteCache

\* Both threads run whenever they have something to do; on the signalling thread
\* tasks, callbacks and the calls that wait for it take turns, so that none of
\* them is passed over for ever. Messages, callbacks and application calls may
\* never come, and a browser may never read.
Fairness == /\ SF_vars(RunTask) /\ WF_vars(SendFreezeFrameToFirst)
            /\ SF_vars(FinishHandler) /\ WF_vars(WriteCache)

Spec == Init /\ [][Next]_vars

FairSpec == Spec /\ Fairness

-----------------------------------------------------------------------------
\* The variables hold what their declarations say.
TypeOK ==
    /\ SessionsTypeOK
    /\ tasks \in Seq(Task)
    /\ sending \subseteq Live
    /\ w \in Handler
    /\ app \in {"idle", "caching", "clearing"}
    /\ bStreamingStarted \in BOOLEAN
    /\ CachedJpegBytes \in BOOLEAN

\* Once CreateSession has its session, the raw pointers to the peer connection
\* and to the observer that the WebSocket thread goes on using stay valid: no
\* deletion posted earlier, by a lost connection, can still hit the session.
HandlerSessionAlive ==
    w.pc \in {"created", "observerWait", "bound"} => w.player \in Live

\* While anybody watches, the controlling player is one of those who watch:
\* DeletePlayerSession hands control on, and a stale id left by the last
\* player to leave never survives the next one to come.
ControllerIsLive == Live # {} => QualityControllingPlayer \in Live

\* A browser that was told that it controls the quality does control it, or was
\* sent the message that it does so no more and is misled because that one did
\* not arrive: every change of the controller, by join, departure or request,
\* is sent to everybody whom it concerns.
OnlyControllerTold ==
    \A p \in Live : Players[p].told = "controls" => p = QualityControllingPlayer

\* A player who is being streamed to can be frozen: bStreamingStarted, which
\* SendFreezeFrame tests, is never left cleared by the departure of others or
\* by a reset that came before.  Excepted are the moment between passing on
\* the answer and raising the flag, and sessions about to be deleted.
DeleteAllPosted == \E i \in DOMAIN tasks : tasks[i].op = "deleteAll"

StreamingWhileConnected ==
    (\E p \in Live : Players[p].negotiation = "connected")
        => bStreamingStarted \/ w.pc = "answering" \/ DeleteAllPosted

\* What QualityControl asks for: a controller who is not live is nobody.
Controller == IF QualityControllingPlayer \in Live THEN QualityControllingPlayer
                                                   ELSE INVALID_PLAYER_ID

Abstract == INSTANCE QualityControl
            WITH players <- Live, controller <- Controller,
                 Nobody <- INVALID_PLAYER_ID

\* The sessions of the streamer implement the abstract quality control.
QualityControlSpec == Abstract!Spec

\* The signalling thread is in the wait of SendArbitraryData.
Waiting == sending # {} /\ Players[FirstInMap(sending)].bFull

\* Every browser that a freeze frame is sent to reads on, sooner or later.
BrowsersRead == []<>~Waiting

\* Every blocking call returns, unless a browser stops reading while a freeze
\* frame is sent to it: a handler of the WebSocket thread that waits for the
\* signalling thread gets on and finishes.
HandlersFinish == BrowsersRead => ((w.pc # "idle") ~> (w.pc = "idle"))

\* A lost connection empties the house: the sessions of the old connection
\* are all deleted, and players that join meanwhile cannot prevent it; only a
\* browser that stops reading a freeze frame can.
ResetDeletes == BrowsersRead => ((w.pc = "resetting") ~> (Live = {}))
=============================================================================
