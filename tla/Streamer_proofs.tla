--------------------------- MODULE Streamer_proofs ---------------------------
(***************************************************************************)
(* Proofs about Streamer, for every set of players and every queue bound.  *)
(***************************************************************************)
EXTENDS Streamer, TLAPS

\* One blocking call at a time: whatever is queued behind the task that the
\* WebSocket thread waits for was posted by the application.
OnlyOneWaits ==
    \A i \in DOMAIN tasks :
        LET op == tasks[i].op
        IN  /\ op = "create" => w.pc = "createWait" /\ tasks[i].player = w.player
            /\ op \in {"setDataChannel", "getObserver"} => w.pc = "observerWait"
            /\ op = "delete" => w.pc = "deleteWait"
            /\ op \in {"create", "getObserver", "delete"}
                  => \A j \in DOMAIN tasks : j > i => tasks[j].op \in AppOps

\* While the WebSocket thread works with what such a call gave it, nothing
\* that touches the set of sessions is queued.
Quiet ==
    w.pc \in {"created", "observerWait", "bound", "deleted"} =>
        \A i \in DOMAIN tasks :
            tasks[i].op \in AppOps \cup {"setDataChannel", "getObserver"}

\* What StreamingWhileConnected needs of the queue: an answer still queued
\* finds the flag raised or about to be, or will be undone by a reset.
AnswersCovered ==
    \A i \in DOMAIN tasks : tasks[i].op = "answer" =>
        \/ bStreamingStarted
        \/ w.pc = "answering"
        \/ \E j \in DOMAIN tasks : j > i /\ tasks[j].op = "deleteAll"

\* ... and before the flag is lowered, nobody will be left to need it.
AboutToLower ==
    /\ w.pc = "deleted" /\ w.bNoneRemain => Live = {}
    /\ w.pc = "resetting" =>
          /\ Live # {} => DeleteAllPosted
          /\ \A i \in DOMAIN tasks : tasks[i].op = "answer" =>
                \E j \in DOMAIN tasks : j > i /\ tasks[j].op = "deleteAll"

HandlerInv == TypeOK /\ OnlyOneWaits /\ Quiet /\ HandlerSessionAlive

StreamingInv == HandlerInv /\ AnswersCovered /\ AboutToLower /\ StreamingWhileConnected

-----------------------------------------------------------------------------
(* The queue. *)

LEMMA AppendTask ==
    ASSUME NEW S, NEW s \in Seq(S), NEW t \in S
    PROVE  /\ Append(s, t) \in Seq(S)
           /\ DOMAIN Append(s, t) = DOMAIN s \cup {Len(s) + 1}
           /\ \A i \in DOMAIN s : Append(s, t)[i] = s[i] /\ i <= Len(s) /\ i \in Nat
           /\ Append(s, t)[Len(s) + 1] = t
  OBVIOUS

LEMMA TailTask ==
    ASSUME NEW S, NEW s \in Seq(S), s # <<>>
    PROVE  /\ Tail(s) \in Seq(S)
           /\ Head(s) \in S /\ Head(s) = s[1] /\ 1 \in DOMAIN s
           /\ \A i \in DOMAIN Tail(s) : 
                 i \in Nat /\ i + 1 \in DOMAIN s /\ Tail(s)[i] = s[i + 1]
           /\ \A i \in DOMAIN s : i # 1 => i - 1 \in DOMAIN Tail(s) /\ i > 1
  OBVIOUS

-----------------------------------------------------------------------------
(* Type correctness. *)

LEMMA ChosenFirst ==
    ASSUME NEW S \in SUBSET PlayerIds, S # {}
    PROVE  FirstInMap(S) \in S
  <1>1. \E p \in S : \A q \in S : p <= q
    BY PlayerIdsAssumption
  <1>2. QED
    BY <1>1 DEF FirstInMap

LEMMA SessionOperators ==
    ASSUME NEW s \in Session
    PROVE  /\ Refused(s) \in Session
           /\ \A b \in BOOLEAN : SendQualityControlStatus(s, b) \in Session
           /\ SendFreezeFrame(s) \in Session
           /\ SendUnfreezeFrame(s) \in Session
           /\ DisconnectPlayer(s) \in Session
           /\ Replaced(s) \in Session
           /\ \A n \in NegotiationStates : [s EXCEPT !.negotiation = n] \in Session
           /\ \A c \in ChannelStates : [s EXCEPT !.channel = c] \in Session
           /\ \A b \in BOOLEAN : /\ [s EXCEPT !.bFull = b] \in Session
                                 /\ [s EXCEPT !.bFormer = b] \in Session
  <1>1. /\ Refused(s) \in Session
        /\ SendFreezeFrame(s) \in Session
        /\ SendUnfreezeFrame(s) \in Session
        /\ DisconnectPlayer(s) \in Session
    <2>1. Refused(s) \in Session
      BY DEF Session, Refused, ChannelStates
    <2>2. SendFreezeFrame(s) \in Session /\ SendUnfreezeFrame(s) \in Session
      BY DEF Session, SendFreezeFrame, SendUnfreezeFrame
    <2>3. DisconnectPlayer(s) \in Session
      BY DEF Session, DisconnectPlayer, NegotiationStates
    <2>4. QED
      BY <2>1, <2>2, <2>3
  <1>2. ASSUME NEW b \in BOOLEAN
        PROVE  SendQualityControlStatus(s, b) \in Session
    BY <1>2 DEF Session, SendQualityControlStatus, Unaware
  <1>3. Replaced(s) \in Session
    BY DEF Session, Replaced, ChannelStates
  <1>4. /\ \A n \in NegotiationStates : [s EXCEPT !.negotiation = n] \in Session
        /\ \A c \in ChannelStates : [s EXCEPT !.channel = c] \in Session
    BY DEF Session, NegotiationStates, ChannelStates
  <1>5. \A b \in BOOLEAN : /\ [s EXCEPT !.bFull = b] \in Session
                           /\ [s EXCEPT !.bFormer = b] \in Session
    BY ZenonT(40) DEF Session
  <1>6. QED
    BY <1>1, <1>2, <1>3, <1>4, <1>5

LEMMA NewSessionType == NewSession \in Session
  BY DEF NewSession, Session, ChannelStates, NegotiationStates

LEMMA GiveControlType ==
    ASSUME NEW M, NEW p \in PlayerIds,
           DOMAIN M \subseteq PlayerIds, M \in [DOMAIN M -> Session],
           GiveControl(M, p)
    PROVE  SessionsTypeOK'
  <1>1. PICK refusing \in SUBSET Full(M) :
           Players' = [q \in DOMAIN M |->
                          SendQualityControlStatus(
                              IF q \in refusing THEN Refused(M[q]) ELSE M[q], q = p)]
    BY DEF GiveControl
  <1>2. \A q \in DOMAIN M :
           SendQualityControlStatus(
               IF q \in refusing THEN Refused(M[q]) ELSE M[q], q = p) \in Session
    BY SessionOperators
  <1>3. QED
    BY <1>1, <1>2 DEF GiveControl, SessionsTypeOK, Live

LEMMA UpdateSessionType ==
    ASSUME SessionsTypeOK, NEW p, NEW s \in Session, UpdateSession(p, s),
           UNCHANGED QualityControllingPlayer
    PROVE  SessionsTypeOK'
  BY DEF UpdateSession, SessionsTypeOK, Live

LEMMA CreatePlayerSessionType ==
    ASSUME SessionsTypeOK, NEW p \in PlayerIds, CreatePlayerSession(p)
    PROVE  SessionsTypeOK'
  <1>. DEFINE J == Including(p, NewSession)
  <1>1. DOMAIN J = Live \cup {p} /\ J \in [DOMAIN J -> Session] /\ DOMAIN J \subseteq PlayerIds
    BY NewSessionType DEF Including, SessionsTypeOK, Live
  <1>2. CASE GiveControl(J, p)
    BY <1>1, <1>2, GiveControlType
  <1>3. CASE Players' = J /\ UNCHANGED QualityControllingPlayer
    BY <1>1, <1>3 DEF SessionsTypeOK, Live
  <1>4. QED
    BY <1>2, <1>3 DEF CreatePlayerSession

LEMMA DeletePlayerSessionType ==
    ASSUME SessionsTypeOK, NEW p \in PlayerIds, DeletePlayerSession(p)
    PROVE  SessionsTypeOK'
  <1>. DEFINE R == Without(p)
  <1>1. DOMAIN R = Live \ {p} /\ R \in [DOMAIN R -> Session] /\ DOMAIN R \subseteq PlayerIds
    BY DEF Without, SessionsTypeOK, Live
  <1>2. CASE p \in Live /\ p = QualityControllingPlayer /\ Live # {p}
    <2>1. FirstInMap(Live \ {p}) \in PlayerIds
      <3>1. Live \ {p} # {} /\ Live \ {p} \in SUBSET PlayerIds
        BY <1>2 DEF SessionsTypeOK
      <3>2. QED
        BY <3>1, ChosenFirst
    <2>2. GiveControl(R, FirstInMap(Live \ {p}))
      BY <1>2 DEF DeletePlayerSession
    <2>3. QED
      BY <1>1, <2>1, <2>2, GiveControlType
  <1>3. CASE ~(p \in Live /\ p = QualityControllingPlayer /\ Live # {p})
    BY <1>1, <1>3 DEF DeletePlayerSession, SessionsTypeOK, Live
  <1>4. QED
    BY <1>2, <1>3

LEMMA TaskTypes ==
    /\ \A op \in PlayerOps, p \in PlayerIds : TaskFor(op, p) \in Task
    /\ \A op \in AppOps \cup {"deleteAll"} : TaskForAll(op) \in Task
    /\ \A t \in Task : t.op \in PlayerOps => t.player \in PlayerIds
    /\ \A op, p : TaskFor(op, p).op = op /\ TaskFor(op, p).player = p
    /\ \A op : TaskForAll(op).op = op
  BY DEF TaskFor, TaskForAll, Task, PlayerOps, AppOps

\* Which sessions are live after each operation.
LEMMA LiveAfter ==
    ASSUME NEW p
    PROVE  /\ CreatePlayerSession(p) => Live' = Live \cup {p}
           /\ DeletePlayerSession(p) => Live' = Live \ {p}
           /\ DeleteAllPlayerSessions => Live' = {}
           /\ SetQualityController(p) => Live' = Live
           /\ SetPlayerSessionDataChannel(p) => Live' = Live
           /\ OnAnswer(p) => Live' = Live
           /\ SendFreezeFrameTo(p) => Live' = Live
           /\ SendUnfreezeFrameAll => Live' = Live
           /\ \A s : UpdateSession(p, s) => Live' = Live
  <1>1. \A s : UpdateSession(p, s) => Live' = Live
    BY DEF UpdateSession, Live
  <1>2. CreatePlayerSession(p) => Live' = Live \cup {p}
    BY DEF CreatePlayerSession, GiveControl, Including, Live
  <1>3. DeletePlayerSession(p) => Live' = Live \ {p}
    BY DEF DeletePlayerSession, GiveControl, Without, Live
  <1>4. SetQualityController(p) => Live' = Live
    BY DEF SetQualityController, GiveControl, Live
  <1>5. QED
    BY <1>1, <1>2, <1>3, <1>4
       DEF DeleteAllPlayerSessions, EmptyMap, SetPlayerSessionDataChannel, OnAnswer,
           SendFreezeFrameTo, SendUnfreezeFrameAll, Live

LEMMA CallbackLive ==
    ASSUME NEW p, WebRtcCallback(p)
    PROVE  Live' = Live /\ p \in Live
  BY LiveAfter DEF WebRtcCallback, OfferProgress, AnswerProgress, AnswerSent, AnswerFailed,
         OnDataChannel, OnStateChange, OnDataChannelOpen, OnDataChannelClosed,
         FormerChannelChanges, OnRequestQualityControl, BufferFills, BufferDrains,
         Callback, Negotiate

LEMMA FinishHandlerLive ==
    ASSUME FinishHandler
    PROVE  Live' = Live
  BY LiveAfter DEF FinishHandler, CreateDataChannel, StartNegotiation, SetStreamingStarted,
                   AfterDelete, AfterDeleteAll, sessionVars, Live

\* What taking a task does to the queue.
LEMMA TakeTask ==
    ASSUME TypeOK, NEW op, Take(op)
    PROVE  /\ tasks' \in Seq(Task)
           /\ 1 \in DOMAIN tasks /\ tasks[1].op = op /\ tasks[1].player = First
           /\ op \in PlayerOps => First \in PlayerIds
           /\ \A i \in DOMAIN tasks' :
                 i \in Nat /\ i + 1 \in DOMAIN tasks /\ tasks'[i] = tasks[i + 1]
           /\ \A i \in DOMAIN tasks : i # 1 => i - 1 \in DOMAIN tasks' /\ i > 1
  <1>1. tasks \in Seq(Task) /\ tasks # <<>> /\ tasks' = Tail(tasks) /\ Head(tasks).op = op
    BY DEF TypeOK, Take
  <1>2. Head(tasks) \in Task /\ Head(tasks) = tasks[1]
    BY <1>1, TailTask
  <1>3. QED
    BY <1>1, <1>2, TailTask, TaskTypes DEF First

\* What submitting one does.
LEMMA SubmitTask ==
    ASSUME TypeOK, NEW t \in Task, Submit(t)
    PROVE  /\ tasks' \in Seq(Task)
           /\ DOMAIN tasks' = DOMAIN tasks \cup {Len(tasks) + 1}
           /\ \A i \in DOMAIN tasks : tasks'[i] = tasks[i] /\ i <= Len(tasks) /\ i \in Nat
           /\ tasks'[Len(tasks) + 1] = t
  BY AppendTask DEF TypeOK, Submit

-----------------------------------------------------------------------------
(* Type correctness, from the inductive invariant of the handlers. *)

LEMMA MessageType ==
    ASSUME TypeOK, NEW p \in PlayerIds, Message(p)
    PROVE  TypeOK'
  <1>1. PICK op \in PlayerOps : Submit(TaskFor(op, p))
    BY DEF Message, OnPlayerConnected, OnOffer, ReceiveAnswer, OnPlayerDisconnected,
           PlayerOps
  <1>2. tasks' \in Seq(Task)
    BY <1>1, TaskTypes, SubmitTask
  <1>3. w' \in Handler
    BY DEF Message, OnPlayerConnected, OnOffer, ReceiveAnswer, OnPlayerDisconnected,
           Handling, Idle, Handler, HandlerStates
  <1>4. UNCHANGED <<sessionVars, sending, app, bStreamingStarted, CachedJpegBytes>>
    BY DEF Message, OnPlayerConnected, OnOffer, ReceiveAnswer, OnPlayerDisconnected
  <1>5. QED
    BY <1>2, <1>3, <1>4 DEF TypeOK, SessionsTypeOK, Live, sessionVars

LEMMA FinishHandlerType ==
    ASSUME TypeOK, HandlerSessionAlive, FinishHandler
    PROVE  TypeOK'
  <1>1. CASE CreateDataChannel
    <2>1. w.player \in PlayerIds
      BY <1>1 DEF HandlerSessionAlive, CreateDataChannel, TypeOK, SessionsTypeOK
    <2>2. TaskFor("setDataChannel", w.player) \in Task /\ TaskFor("getObserver", w.player) \in Task
      BY <2>1, TaskTypes DEF PlayerOps
    <2>3. tasks' \in Seq(Task)
      BY <1>1, <2>2 DEF CreateDataChannel, TypeOK
    <2>4. w' \in Handler
      BY <1>1 DEF CreateDataChannel, TypeOK, Handler, HandlerStates
    <2>5. QED
      BY <1>1, <2>3, <2>4 DEF CreateDataChannel, TypeOK, SessionsTypeOK, Live, sessionVars
  <1>2. CASE StartNegotiation
    <2>1. w.player \in Live
      BY <1>2 DEF StartNegotiation, HandlerSessionAlive
    <2>2. PICK n \in NegotiationStates :
             UpdateSession(w.player, [Players[w.player] EXCEPT !.negotiation = n])
      BY <1>2 DEF StartNegotiation, NegotiationStates
    <2>3. [Players[w.player] EXCEPT !.negotiation = n] \in Session
      BY <2>1, SessionOperators DEF TypeOK, SessionsTypeOK
    <2>4. SessionsTypeOK' /\ Live' = Live
      BY <1>2, <2>2, <2>3, UpdateSessionType, LiveAfter DEF StartNegotiation, TypeOK
    <2>5. QED
      BY <1>2, <2>4 DEF StartNegotiation, TypeOK, Handler, HandlerStates, Idle
  <1>3. CASE SetStreamingStarted \/ AfterDelete \/ AfterDeleteAll
    <2>1. bStreamingStarted' \in BOOLEAN
      BY <1>3, Zenon DEF SetStreamingStarted, AfterDelete, AfterDeleteAll
    <2>2. w' = Idle /\ UNCHANGED <<sessionVars, tasks, sending, app, CachedJpegBytes>>
      BY <1>3, Zenon DEF SetStreamingStarted, AfterDelete, AfterDeleteAll
    <2>3. QED
      BY <2>1, <2>2 DEF TypeOK, SessionsTypeOK, Live, sessionVars, Handler, HandlerStates, Idle
  <1>4. QED
    BY <1>1, <1>2, <1>3 DEF FinishHandler

\* The sessions change under their own types, whichever task runs.
LEMMA RunTaskType ==
    ASSUME TypeOK, RunTask
    PROVE  TypeOK'
  <1>1. PICK op \in PlayerOps \cup AppOps \cup {"deleteAll"} : Take(op)
    BY DEF RunTask, RunCreate, RunSetDataChannel, RunGetObserver, RunAnswer, RunDelete,
           RunDeleteAll, RunFreeze, RunUnfreeze, PlayerOps, AppOps
  <1>2. tasks' \in Seq(Task) /\ (Head(tasks).op \in PlayerOps => First \in PlayerIds)
    BY <1>1, TakeTask DEF Take
  <1>3. w' \in Handler
    <2>1. CASE RunCreate
      <3>1. w' = Idle \/ w' = [w EXCEPT !.pc = "created"]
        BY <2>1, Zenon DEF RunCreate
      <3>2. Idle \in Handler
        BY DEF Handler, HandlerStates, Idle
      <3>3. [w EXCEPT !.pc = "created"] \in Handler
        BY DEF TypeOK, Handler, HandlerStates
      <3>4. QED
        BY <3>1, <3>2, <3>3
    <2>2. CASE RunGetObserver
      BY <2>2 DEF RunGetObserver, TypeOK, Handler, HandlerStates
    <2>3. CASE RunDelete
      <3>1. PICK b \in BOOLEAN : w' = [w EXCEPT !.pc = "deleted", !.bNoneRemain = b]
        BY <2>3, Zenon DEF RunDelete
      <3>2. QED
        BY <3>1 DEF TypeOK, Handler, HandlerStates
    <2>4. QED
      BY <2>1, <2>2, <2>3 DEF RunTask, RunSetDataChannel, RunAnswer, RunDeleteAll,
                              RunFreeze, RunUnfreeze, TypeOK
  <1>4. SessionsTypeOK'
    <2>1. CASE RunCreate
      <3>1. First \in PlayerIds
        BY <2>1, <1>2 DEF RunCreate, Take, PlayerOps
      <3>2. QED
        BY <2>1, <3>1, CreatePlayerSessionType
           DEF RunCreate, TypeOK, SessionsTypeOK, Live, sessionVars
    <2>2. CASE RunSetDataChannel
      <3>1. CASE First \in Live
        BY <2>2, <3>1, SessionOperators, UpdateSessionType
           DEF RunSetDataChannel, SetPlayerSessionDataChannel, TypeOK, SessionsTypeOK
      <3>2. CASE First \notin Live
        BY <2>2, <3>2 DEF RunSetDataChannel, SetPlayerSessionDataChannel, TypeOK,
                          SessionsTypeOK, Live
      <3>3. QED
        BY <3>1, <3>2
    <2>3. CASE RunAnswer
      <3>1. CASE UNCHANGED Players
        BY <2>3, <3>1 DEF RunAnswer, OnAnswer, TypeOK, SessionsTypeOK, Live
      <3>2. CASE /\ First \in Live
                 /\ UpdateSession(First, [Players[First] EXCEPT !.negotiation = "connected"])
        BY <2>3, <3>2, SessionOperators, UpdateSessionType
           DEF RunAnswer, OnAnswer, TypeOK, SessionsTypeOK, NegotiationStates
      <3>3. QED
        BY <2>3, <3>1, <3>2 DEF RunAnswer, OnAnswer
    <2>4. CASE RunDelete
      <3>1. First \in PlayerIds
        BY <2>4, <1>2 DEF RunDelete, Take, PlayerOps
      <3>2. QED
        BY <2>4, <3>1, DeletePlayerSessionType DEF RunDelete, TypeOK
    <2>5. CASE RunDeleteAll
      BY <2>5 DEF RunDeleteAll, DeleteAllPlayerSessions, EmptyMap, SessionsTypeOK, Live
    <2>6. CASE RunFreeze
      BY <2>6 DEF RunFreeze, TypeOK, SessionsTypeOK, Live, sessionVars
    <2>7. CASE RunUnfreeze
      <3>1. PICK refusing \in SUBSET Full(Players) :
               Players' = [p \in Live |->
                              SendUnfreezeFrame(
                                  IF p \in refusing THEN Refused(Players[p]) ELSE Players[p])]
        BY <2>7 DEF RunUnfreeze, SendUnfreezeFrameAll
      <3>2. \A p \in Live :
               SendUnfreezeFrame(
                   IF p \in refusing THEN Refused(Players[p]) ELSE Players[p]) \in Session
        BY SessionOperators DEF TypeOK, SessionsTypeOK
      <3>3. QED
        BY <2>7, <3>1, <3>2
           DEF RunUnfreeze, SendUnfreezeFrameAll, TypeOK, SessionsTypeOK, Live
    <2>8. CASE RunGetObserver
      BY <2>8 DEF RunGetObserver, TypeOK, SessionsTypeOK, Live, sessionVars
    <2>9. QED
      BY <2>1, <2>2, <2>3, <2>4, <2>5, <2>6, <2>7, <2>8 DEF RunTask
  <1>5. sending' \subseteq Live'
    <2>1. CASE RunFreeze
      BY <2>1 DEF RunFreeze, sessionVars, Live
    <2>2. CASE ~RunFreeze
      BY <1>1, <2>2
         DEF Take, RunTask, RunCreate, RunSetDataChannel, RunGetObserver, RunAnswer,
             RunDelete, RunDeleteAll, RunUnfreeze
    <2>3. QED
      BY <2>1, <2>2
  <1>6. QED
    BY <1>1, <1>2, <1>3, <1>4, <1>5 DEF TypeOK, Take

\* Sending a freeze frame to one session after the other.
LEMMA SendingType ==
    ASSUME TypeOK, SendFreezeFrameToFirst
    PROVE  TypeOK'
  <1>1. FirstInMap(sending) \in Live
    BY ChosenFirst DEF SendFreezeFrameToFirst, TypeOK, SessionsTypeOK
  <1>2. /\ UpdateSession(FirstInMap(sending), SendFreezeFrame(Players[FirstInMap(sending)]))
        /\ UNCHANGED QualityControllingPlayer
    BY DEF SendFreezeFrameToFirst, SendFreezeFrameTo
  <1>3. SessionsTypeOK' /\ Live' = Live
    BY <1>1, <1>2, SessionOperators, UpdateSessionType, LiveAfter DEF TypeOK, SessionsTypeOK
  <1>4. QED
    BY <1>3 DEF SendFreezeFrameToFirst, TypeOK

LEMMA NegotiateType ==
    ASSUME TypeOK, NEW p \in Live, NEW from, NEW to \in NegotiationStates,
           Callback(p), bStreamingStarted' \in BOOLEAN, sending' = sending,
           Negotiate(p, from, to)
    PROVE  TypeOK'
  <1>1. [Players[p] EXCEPT !.negotiation = to] \in Session
    BY SessionOperators DEF TypeOK, SessionsTypeOK
  <1>2. SessionsTypeOK' /\ Live' = Live
    BY <1>1, UpdateSessionType, LiveAfter DEF Negotiate, Callback, TypeOK
  <1>3. QED
    BY <1>2 DEF Callback, TypeOK

\* A callback that changes its session and, when its channel is open, may
\* start sending a freeze frame.
LEMMA StateChangeType ==
    ASSUME TypeOK, NEW p \in Live, NEW t \in Session, Callback(p), OnStateChange(p, t)
    PROVE  TypeOK'
  <1>1. SessionsTypeOK' /\ Live' = Live
    BY UpdateSessionType, LiveAfter DEF OnStateChange, Callback, TypeOK
  <1>2. QED
    BY <1>1 DEF OnStateChange, Callback, TypeOK

LEMMA CallbackType ==
    ASSUME TypeOK, NEW p \in PlayerIds, WebRtcCallback(p)
    PROVE  TypeOK'
  <1>1. p \in Live /\ Players[p] \in Session
    BY CallbackLive DEF TypeOK, SessionsTypeOK
  <1>2. CASE OfferProgress(p) \/ AnswerProgress(p) \/ AnswerSent(p)
    <2>1. bStreamingStarted' \in BOOLEAN /\ Callback(p) /\ sending' = sending
      BY <1>2 DEF OfferProgress, AnswerProgress, AnswerSent, Silently, TypeOK
    <2>2. PICK from, to \in NegotiationStates : Negotiate(p, from, to)
      BY <1>2 DEF OfferProgress, AnswerProgress, AnswerSent, NegotiationStates
    <2>3. QED
      BY <1>1, <2>1, <2>2, NegotiateType
  <1>3. CASE AnswerFailed(p) \/ OnDataChannel(p) \/ BufferFills(p) \/ BufferDrains(p)
    <2>1. PICK t \in Session : UpdateSession(p, t)
      BY <1>1, <1>3, SessionOperators DEF AnswerFailed, OnDataChannel, BufferFills, BufferDrains
    <2>2. UNCHANGED <<QualityControllingPlayer, tasks, sending, w, app,
                      bStreamingStarted, CachedJpegBytes>>
      BY <1>3 DEF AnswerFailed, OnDataChannel, BufferFills, BufferDrains, Silently, Callback
    <2>3. SessionsTypeOK' /\ Live' = Live
      BY <2>1, <2>2, UpdateSessionType, LiveAfter DEF TypeOK
    <2>4. QED
      BY <2>2, <2>3 DEF TypeOK
  <1>4. CASE OnDataChannelOpen(p) \/ OnDataChannelClosed(p) \/ FormerChannelChanges(p)
    <2>1. PICK t \in Session : OnStateChange(p, t)
      BY <1>1, <1>4, SessionOperators
         DEF OnDataChannelOpen, OnDataChannelClosed, FormerChannelChanges, ChannelStates
    <2>2. QED
      BY <1>1, <1>4, <2>1, StateChangeType
         DEF OnDataChannelOpen, OnDataChannelClosed, FormerChannelChanges
  <1>5. CASE OnRequestQualityControl(p)
    <2>1. SessionsTypeOK'
      BY <1>5, GiveControlType
         DEF OnRequestQualityControl, SetQualityController, TypeOK, SessionsTypeOK, Live
    <2>2. QED
      BY <1>5, <2>1 DEF OnRequestQualityControl, TypeOK
  <1>6. QED
    BY <1>2, <1>3, <1>4, <1>5 DEF WebRtcCallback

\* The calls that leave the sessions and the handler alone.
Application == PostFreezeFrame \/ PostUnfreezeFrame \/ WriteCache

LEMMA ApplicationType ==
    ASSUME TypeOK, Application
    PROVE  TypeOK'
  <1>1. UNCHANGED <<sessionVars, sending, w, bStreamingStarted>>
    BY DEF Application, PostFreezeFrame, PostUnfreezeFrame, WriteCache
  <1>2. tasks' \in Seq(Task)
    <2>1. CASE PostFreezeFrame \/ PostUnfreezeFrame
      <3>1. PICK op \in AppOps : Submit(TaskForAll(op))
        BY <2>1 DEF PostFreezeFrame, PostUnfreezeFrame, AppOps
      <3>2. QED
        BY <3>1, TaskTypes, SubmitTask
    <2>2. CASE WriteCache
      BY <2>2 DEF WriteCache, TypeOK
    <2>3. QED
      BY <2>1, <2>2 DEF Application
  <1>3. app' \in {"idle", "caching", "clearing"}
    BY DEF Application, PostFreezeFrame, PostUnfreezeFrame, WriteCache
  <1>4. CachedJpegBytes' \in BOOLEAN
    <2>1. CASE UNCHANGED CachedJpegBytes
      BY <2>1 DEF TypeOK
    <2>2. CASE CachedJpegBytes' = (app = "caching")
      BY <2>2, Zenon
    <2>3. QED
      BY <2>1, <2>2, Zenon DEF Application, PostFreezeFrame, PostUnfreezeFrame, WriteCache
  <1>5. QED
    BY <1>1, <1>2, <1>3, <1>4 DEF TypeOK, SessionsTypeOK, Live, sessionVars

LEMMA DisconnectedType ==
    ASSUME TypeOK, OnSignallingServerDisconnected
    PROVE  TypeOK'
  <1>1. tasks' \in Seq(Task)
    BY TaskTypes, SubmitTask DEF OnSignallingServerDisconnected
  <1>2. w' \in Handler
    BY DEF OnSignallingServerDisconnected, Handling, Idle, Handler, HandlerStates
  <1>3. QED
    BY <1>1, <1>2 DEF OnSignallingServerDisconnected, TypeOK, SessionsTypeOK, Live, sessionVars

LEMMA TypeStep ==
    ASSUME TypeOK, HandlerSessionAlive, [Next]_vars
    PROVE  TypeOK'
  <1>1. CASE UNCHANGED vars
    BY <1>1 DEF vars, sessionVars, TypeOK, SessionsTypeOK, Live
  <1>2. CASE Next
    BY <1>2, MessageType, CallbackType, DisconnectedType, FinishHandlerType, RunTaskType,
       SendingType, ApplicationType DEF Next, Application
  <1>3. QED
    BY <1>1, <1>2

-----------------------------------------------------------------------------
(* The discipline of the blocking calls. *)

LEMMA TaskOps ==
    ASSUME TypeOK, NEW i \in DOMAIN tasks
    PROVE  tasks[i].op \in PlayerOps \cup AppOps \cup {"deleteAll"}
  BY DEF TypeOK, Task

\* A handler that does not wait has nothing in the queue that answers to it.
LEMMA WhenNotWaiting ==
    ASSUME TypeOK, OnlyOneWaits, w.pc \notin {"createWait", "observerWait", "deleteWait"},
           NEW i \in DOMAIN tasks
    PROVE  tasks[i].op \in AppOps \cup {"answer", "deleteAll"}
  BY TaskOps DEF OnlyOneWaits, PlayerOps

LEMMA WhenQuiet ==
    ASSUME TypeOK, OnlyOneWaits, Quiet, w.pc \in {"created", "bound", "deleted"},
           NEW i \in DOMAIN tasks
    PROVE  tasks[i].op \in AppOps
  BY WhenNotWaiting DEF Quiet, AppOps

LEMMA MessageOneWaits ==
    ASSUME TypeOK, OnlyOneWaits, NEW p \in PlayerIds, Message(p)
    PROVE  OnlyOneWaits'
  <1>1. w.pc = "idle"
    BY DEF Message, OnPlayerConnected, OnOffer, ReceiveAnswer, OnPlayerDisconnected
  <1>2. \A i \in DOMAIN tasks : tasks[i].op \in AppOps \cup {"answer", "deleteAll"}
    BY <1>1, WhenNotWaiting
  <1>3. PICK op \in PlayerOps :
           /\ Submit(TaskFor(op, p))
           /\ op = "create" => w'.pc = "createWait" /\ w'.player = p
           /\ op = "delete" => w'.pc = "deleteWait"
           /\ op \in {"create", "answer", "delete"}
    BY DEF Message, OnPlayerConnected, OnOffer, ReceiveAnswer, OnPlayerDisconnected,
           PlayerOps, Handling, Idle
  <1>4. TaskFor(op, p).op = op /\ TaskFor(op, p).player = p /\ TaskFor(op, p) \in Task
    BY <1>3, TaskTypes
  <1>5. /\ DOMAIN tasks' = DOMAIN tasks \cup {Len(tasks) + 1}
        /\ \A i \in DOMAIN tasks : tasks'[i] = tasks[i] /\ i <= Len(tasks) /\ i \in Nat
        /\ tasks'[Len(tasks) + 1] = TaskFor(op, p)
        /\ Len(tasks) \in Nat
    <2>1. Len(tasks) \in Nat
      BY DEF TypeOK
    <2>2. QED
      BY <1>3, <1>4, <2>1, SubmitTask
  <1>6. ASSUME NEW i \in DOMAIN tasks
        PROVE  tasks'[i].op \in AppOps \cup {"answer", "deleteAll"}
    BY <1>2, <1>5
  <1>7. \A j \in DOMAIN tasks' : ~(j > Len(tasks) + 1)
    BY <1>5
  <1>8. /\ tasks'[Len(tasks) + 1].op = op
        /\ tasks'[Len(tasks) + 1].player = p
    BY <1>4, <1>5
  <1>9. QED
    BY <1>3, <1>5, <1>6, <1>7, <1>8 DEF OnlyOneWaits, AppOps

LEMMA DisconnectedOneWaits ==
    ASSUME TypeOK, OnlyOneWaits, OnSignallingServerDisconnected
    PROVE  OnlyOneWaits'
  <1>1. \A i \in DOMAIN tasks : tasks[i].op \in AppOps \cup {"answer", "deleteAll"}
    BY WhenNotWaiting DEF OnSignallingServerDisconnected
  <1>2. TaskForAll("deleteAll").op = "deleteAll" /\ TaskForAll("deleteAll") \in Task
    BY TaskTypes
  <1>3. /\ DOMAIN tasks' = DOMAIN tasks \cup {Len(tasks) + 1}
        /\ \A i \in DOMAIN tasks : tasks'[i] = tasks[i]
        /\ tasks'[Len(tasks) + 1] = TaskForAll("deleteAll")
    BY <1>2, SubmitTask DEF OnSignallingServerDisconnected
  <1>4. QED
    BY <1>1, <1>2, <1>3 DEF OnlyOneWaits, AppOps

\* CreateSession submits two tasks, the second of which it waits for.
LEMMA CreateDataChannelQueue ==
    ASSUME TypeOK, CreateDataChannel
    PROVE  /\ Len(tasks) \in Nat /\ DOMAIN tasks = 1 .. Len(tasks)
           /\ DOMAIN tasks' = 1 .. Len(tasks) + 2
           /\ \A i \in DOMAIN tasks : tasks'[i] = tasks[i]
           /\ tasks'[Len(tasks) + 1].op = "setDataChannel"
           /\ tasks'[Len(tasks) + 2].op = "getObserver"
  <1>. DEFINE s == TaskFor("setDataChannel", w.player)
              g == TaskFor("getObserver", w.player)
  <1>1. s.op = "setDataChannel" /\ g.op = "getObserver"
    BY TaskTypes
  <1>2. tasks' = tasks \o <<s, g>>
    BY DEF CreateDataChannel
  <1>. HIDE DEF s, g
  <1>3. tasks \in Seq({tasks[i] : i \in DOMAIN tasks} \cup {s, g})
    BY DEF TypeOK
  <1>4. QED
    BY <1>1, <1>2, <1>3

LEMMA FinishHandlerOneWaits ==
    ASSUME TypeOK, OnlyOneWaits, Quiet, FinishHandler
    PROVE  OnlyOneWaits'
  <1>1. CASE CreateDataChannel
    <2>1. \A i \in DOMAIN tasks : tasks[i].op \in AppOps
      BY <1>1, WhenQuiet DEF CreateDataChannel
    <2>2. w'.pc = "observerWait"
      BY <1>1 DEF CreateDataChannel, TypeOK, Handler
    <2>3. QED
      BY <1>1, <2>1, <2>2, CreateDataChannelQueue DEF OnlyOneWaits, AppOps
  <1>2. CASE StartNegotiation \/ AfterDelete
    <2>1. \A i \in DOMAIN tasks : tasks[i].op \in AppOps
      BY <1>2, WhenQuiet DEF StartNegotiation, AfterDelete
    <2>2. UNCHANGED tasks
      BY <1>2 DEF StartNegotiation, AfterDelete
    <2>3. QED
      BY <2>1, <2>2 DEF OnlyOneWaits, AppOps
  <1>3. CASE SetStreamingStarted \/ AfterDeleteAll
    <2>1. \A i \in DOMAIN tasks : tasks[i].op \in AppOps \cup {"answer", "deleteAll"}
      BY <1>3, WhenNotWaiting DEF SetStreamingStarted, AfterDeleteAll
    <2>2. UNCHANGED tasks
      BY <1>3 DEF SetStreamingStarted, AfterDeleteAll
    <2>3. QED
      BY <2>1, <2>2 DEF OnlyOneWaits, AppOps
  <1>4. QED
    BY <1>1, <1>2, <1>3 DEF FinishHandler

LEMMA RunTaskOneWaits ==
    ASSUME TypeOK, OnlyOneWaits, RunTask
    PROVE  OnlyOneWaits'
  <1>1. PICK op \in PlayerOps \cup AppOps \cup {"deleteAll"} :
           Take(op) /\ (op \notin {"create", "getObserver", "delete"} => UNCHANGED w)
    BY DEF RunTask, RunCreate, RunSetDataChannel, RunGetObserver, RunAnswer, RunDelete,
           RunDeleteAll, RunFreeze, RunUnfreeze, PlayerOps, AppOps
  <1>2. /\ 1 \in DOMAIN tasks /\ tasks[1].op = op
        /\ \A i \in DOMAIN tasks' :
              i \in Nat /\ i + 1 \in DOMAIN tasks /\ tasks'[i] = tasks[i + 1] /\ i + 1 > 1
    <2>1. DOMAIN tasks' = 1 .. Len(tasks')
      BY <1>1, TakeTask
    <2>2. QED
      BY <1>1, <2>1, TakeTask
  <1>3. CASE op \in {"create", "getObserver", "delete"}
    <2>1. \A i \in DOMAIN tasks' : tasks'[i].op \in AppOps
      BY <1>2, <1>3 DEF OnlyOneWaits
    <2>2. QED
      BY <2>1 DEF OnlyOneWaits, AppOps
  <1>4. CASE op \notin {"create", "getObserver", "delete"}
    BY <1>1, <1>2, <1>4 DEF OnlyOneWaits
  <1>5. QED
    BY <1>3, <1>4

LEMMA ApplicationQueue ==
    ASSUME TypeOK, Application
    PROVE  /\ UNCHANGED <<sessionVars, w, bStreamingStarted>>
           /\ DOMAIN tasks \subseteq DOMAIN tasks'
           /\ \A i \in DOMAIN tasks : tasks'[i] = tasks[i]
           /\ \A i \in DOMAIN tasks' \ DOMAIN tasks : tasks'[i].op \in AppOps
  <1>1. CASE PostFreezeFrame \/ PostUnfreezeFrame
    <2>1. PICK op \in AppOps : Submit(TaskForAll(op))
      BY <1>1 DEF PostFreezeFrame, PostUnfreezeFrame, AppOps
    <2>2. TaskForAll(op) \in Task /\ TaskForAll(op).op = op
      BY TaskTypes
    <2>3. QED
      BY <1>1, <2>1, <2>2, SubmitTask DEF PostFreezeFrame, PostUnfreezeFrame
  <1>2. CASE WriteCache
    BY <1>2 DEF WriteCache
  <1>3. QED
    BY <1>1, <1>2 DEF Application

LEMMA ApplicationOneWaits ==
    ASSUME TypeOK, OnlyOneWaits, Application
    PROVE  OnlyOneWaits'
  BY ApplicationQueue DEF OnlyOneWaits, AppOps

LEMMA CallbackQueue ==
    ASSUME NEW p, WebRtcCallback(p)
    PROVE  UNCHANGED <<tasks, w, app, CachedJpegBytes>>
  BY DEF WebRtcCallback, OfferProgress, AnswerProgress, AnswerSent, AnswerFailed,
         OnDataChannel, OnDataChannelOpen, OnDataChannelClosed, FormerChannelChanges,
         OnRequestQualityControl, BufferFills, BufferDrains, Callback

\* Sending changes no session but in what its browser shows.
LEMMA SendingQueue ==
    ASSUME SendFreezeFrameToFirst
    PROVE  /\ UNCHANGED <<tasks, w, app, bStreamingStarted, CachedJpegBytes>>
           /\ Live' = Live /\ UNCHANGED QualityControllingPlayer
  BY LiveAfter DEF SendFreezeFrameToFirst, SendFreezeFrameTo

LEMMA OneWaitsStep ==
    ASSUME TypeOK, OnlyOneWaits, Quiet, [Next]_vars
    PROVE  OnlyOneWaits'
  <1>1. CASE UNCHANGED vars
    BY <1>1 DEF vars, OnlyOneWaits
  <1>2. CASE \E p \in PlayerIds : WebRtcCallback(p)
    BY <1>2, CallbackQueue DEF OnlyOneWaits
  <1>3. CASE SendFreezeFrameToFirst
    BY <1>3, SendingQueue DEF OnlyOneWaits
  <1>4. CASE Next /\ ~SendFreezeFrameToFirst /\ ~ \E p \in PlayerIds : WebRtcCallback(p)
    BY <1>4, MessageOneWaits, DisconnectedOneWaits, FinishHandlerOneWaits,
       RunTaskOneWaits, ApplicationOneWaits DEF Next, Application
  <1>5. QED
    BY <1>1, <1>2, <1>3, <1>4

\* A new message starts a handler that waits for its session, or needs none.
LEMMA NewHandler ==
    ASSUME OnSignallingServerDisconnected \/ \E p \in PlayerIds : Message(p)
    PROVE  /\ w'.pc \in {"createWait", "answering", "deleteWait", "resetting"}
           /\ w.pc = "idle"
           /\ UNCHANGED <<sessionVars, app, bStreamingStarted, CachedJpegBytes>>
           /\ Live' = Live
  BY DEF Message, OnPlayerConnected, OnOffer, ReceiveAnswer, OnPlayerDisconnected,
         OnSignallingServerDisconnected, Handling, Idle, sessionVars, Live

\* What is left in the queue once the task of a waiting handler has run.
LEMMA RunWaitedFor ==
    ASSUME TypeOK, OnlyOneWaits, NEW op \in {"create", "getObserver", "delete"}, Take(op)
    PROVE  /\ \A i \in DOMAIN tasks' : tasks'[i].op \in AppOps
           /\ op = "create" => w.pc = "createWait" /\ First = w.player
           /\ op = "getObserver" => w.pc = "observerWait"
           /\ op = "delete" => w.pc = "deleteWait"
  <1>1. /\ 1 \in DOMAIN tasks /\ tasks[1].op = op /\ tasks[1].player = First
        /\ \A i \in DOMAIN tasks' :
              i \in Nat /\ i + 1 \in DOMAIN tasks /\ tasks'[i] = tasks[i + 1] /\ i + 1 > 1
    <2>1. DOMAIN tasks' = 1 .. Len(tasks')
      BY TakeTask
    <2>2. QED
      BY <2>1, TakeTask
  <1>2. QED
    BY <1>1 DEF OnlyOneWaits

LEMMA QuietStep ==
    ASSUME TypeOK, OnlyOneWaits, Quiet, [Next]_vars
    PROVE  Quiet'
  <1>1. CASE UNCHANGED vars
    BY <1>1 DEF vars, Quiet
  <1>2. CASE OnSignallingServerDisconnected \/ \E p \in PlayerIds : Message(p)
    BY <1>2, NewHandler DEF Quiet
  <1>3. CASE \E p \in PlayerIds : WebRtcCallback(p)
    BY <1>3, CallbackQueue DEF Quiet
  <1>4. CASE CreateDataChannel
    <2>1. \A i \in DOMAIN tasks : tasks[i].op \in AppOps
      BY <1>4, WhenQuiet DEF CreateDataChannel
    <2>2. QED
      BY <1>4, <2>1, CreateDataChannelQueue DEF Quiet
  <1>5. CASE StartNegotiation \/ SetStreamingStarted \/ AfterDelete \/ AfterDeleteAll
    BY <1>5 DEF StartNegotiation, SetStreamingStarted, AfterDelete, AfterDeleteAll, Idle, Quiet
  <1>6. CASE RunTask
    <2>1. PICK op \in PlayerOps \cup AppOps \cup {"deleteAll"} :
             Take(op) /\ (op \notin {"create", "getObserver", "delete"} => UNCHANGED w)
      BY <1>6 DEF RunTask, RunCreate, RunSetDataChannel, RunGetObserver, RunAnswer, RunDelete,
             RunDeleteAll, RunFreeze, RunUnfreeze, PlayerOps, AppOps
    <2>2. CASE op \in {"create", "getObserver", "delete"}
      BY <2>1, <2>2, RunWaitedFor DEF Quiet
    <2>3. CASE op \notin {"create", "getObserver", "delete"}
      BY <2>1, <2>3, TakeTask DEF Quiet
    <2>4. QED
      BY <2>2, <2>3
  <1>7. CASE Application
    BY <1>7, ApplicationQueue DEF Quiet
  <1>8. CASE SendFreezeFrameToFirst
    BY <1>8, SendingQueue DEF Quiet
  <1>9. QED
    BY <1>1, <1>2, <1>3, <1>4, <1>5, <1>6, <1>7, <1>8 DEF Next, FinishHandler, Application

LEMMA AliveStep ==
    ASSUME TypeOK, OnlyOneWaits, Quiet, HandlerSessionAlive, [Next]_vars
    PROVE  HandlerSessionAlive'
  <1>1. CASE UNCHANGED vars
    BY <1>1 DEF vars, sessionVars, Live, HandlerSessionAlive
  <1>2. CASE OnSignallingServerDisconnected \/ \E p \in PlayerIds : Message(p)
    BY <1>2, NewHandler DEF HandlerSessionAlive
  <1>3. CASE \E p \in PlayerIds : WebRtcCallback(p)
    BY <1>3, CallbackQueue, CallbackLive DEF HandlerSessionAlive
  <1>4. CASE FinishHandler
    <2>1. (w'.player = w.player /\ w.pc = "created") \/ w' = Idle
      BY <1>4 DEF FinishHandler, CreateDataChannel, StartNegotiation, SetStreamingStarted,
                  AfterDelete, AfterDeleteAll, TypeOK, Handler
    <2>2. QED
      BY <1>4, <2>1, FinishHandlerLive DEF HandlerSessionAlive, Idle
  <1>5. CASE RunTask
    <2>1. CASE RunCreate
      <3>1. CASE CreatePlayerSession(First) /\ w' = [w EXCEPT !.pc = "created"]
        <4>1. First = w.player
          BY <2>1, RunWaitedFor DEF RunCreate
        <4>2. w'.player = w.player
          BY <3>1 DEF TypeOK, Handler
        <4>3. QED
          BY <3>1, <4>1, <4>2, LiveAfter DEF HandlerSessionAlive
      <3>2. CASE w' = Idle
        BY <3>2 DEF Idle, HandlerSessionAlive
      <3>3. QED
        BY <2>1, <3>1, <3>2 DEF RunCreate
    <2>2. CASE RunGetObserver
      <3>1. w.pc = "observerWait"
        BY <2>2, RunWaitedFor DEF RunGetObserver
      <3>2. w'.player = w.player /\ Live' = Live
        BY <2>2 DEF RunGetObserver, TypeOK, Handler, sessionVars, Live
      <3>3. QED
        BY <3>1, <3>2 DEF HandlerSessionAlive
    <2>3. CASE RunDelete
      <3>1. w'.pc = "deleted"
        BY <2>3 DEF RunDelete, TypeOK, Handler
      <3>2. QED
        BY <3>1 DEF HandlerSessionAlive
    <2>4. CASE RunDeleteAll
      <3>1. 1 \in DOMAIN tasks /\ tasks[1].op = "deleteAll" /\ UNCHANGED w
        BY <2>4, TakeTask DEF RunDeleteAll
      <3>2. w.pc \notin {"created", "observerWait", "bound"}
        BY <3>1 DEF Quiet, AppOps
      <3>3. QED
        BY <3>1, <3>2 DEF HandlerSessionAlive
    <2>5. CASE RunSetDataChannel \/ RunAnswer \/ RunFreeze \/ RunUnfreeze
      BY <2>5, LiveAfter DEF RunSetDataChannel, RunAnswer, RunFreeze, RunUnfreeze,
                             sessionVars, Live, HandlerSessionAlive
    <2>6. QED
      BY <1>5, <2>1, <2>2, <2>3, <2>4, <2>5 DEF RunTask
  <1>6. CASE Application
    BY <1>6, ApplicationQueue DEF sessionVars, Live, HandlerSessionAlive
  <1>7. CASE SendFreezeFrameToFirst
    BY <1>7, SendingQueue DEF HandlerSessionAlive
  <1>8. QED
    BY <1>1, <1>2, <1>3, <1>4, <1>5, <1>6, <1>7 DEF Next, Application

LEMMA HandlerInit == Init => HandlerInv
  <1>. SUFFICES ASSUME Init PROVE HandlerInv
    OBVIOUS
  <1>1. w \in Handler /\ w.pc = "idle"
    BY DEF Init, Idle, Handler, HandlerStates
  <1>2. SessionsTypeOK
    BY DEF Init, SessionsInit, EmptyMap, SessionsTypeOK, Live
  <1>3. tasks \in Seq(Task) /\ DOMAIN tasks = {}
    BY DEF Init
  <1>4. QED
    BY <1>1, <1>2, <1>3
       DEF Init, HandlerInv, TypeOK, OnlyOneWaits, Quiet, HandlerSessionAlive

LEMMA HandlerStep == HandlerInv /\ [Next]_vars => HandlerInv'
  BY TypeStep, OneWaitsStep, QuietStep, AliveStep DEF HandlerInv

\* The calls of the WebSocket thread keep the discipline HandlerInv states.
THEOREM HandlersDisciplined == Spec => []HandlerInv
  BY HandlerInit, HandlerStep, PTL DEF Spec

\* The types are right in every reachable state, for any set of players and
\* any length of the queue.
THEOREM TypeCorrect == Spec => []TypeOK
  <1>1. HandlerInv => TypeOK
    BY DEF HandlerInv
  <1>2. QED
    BY <1>1, HandlersDisciplined, PTL

\* The pointers that CreateSession goes on using on the WebSocket thread stay
\* valid until it is done, although sessions are deleted on another thread.
THEOREM SessionStaysAlive == Spec => []HandlerSessionAlive
  <1>1. HandlerInv => HandlerSessionAlive
    BY DEF HandlerInv
  <1>2. QED
    BY <1>1, HandlersDisciplined, PTL

-----------------------------------------------------------------------------
(* The streaming flag. *)

Connected == \E p \in Live : Players[p].negotiation = "connected"

LEMMA KeptBySending ==
    ASSUME NEW s \in Session
    PROVE  /\ Refused(s) \in Session /\ Refused(s).negotiation = s.negotiation
           /\ \A b : SendQualityControlStatus(s, b).negotiation = s.negotiation
           /\ SendFreezeFrame(s).negotiation = s.negotiation
           /\ SendUnfreezeFrame(s).negotiation = s.negotiation
           /\ Replaced(s).negotiation = s.negotiation
  <1>1. Refused(s) \in Session
    BY SessionOperators
  <1>2. QED
    BY <1>1 DEF Refused, SendQualityControlStatus, Unaware, SendFreezeFrame,
                SendUnfreezeFrame, Replaced, Session

\* No operation but an answer makes a session a connected one.
LEMMA ConnectedKept ==
    ASSUME SessionsTypeOK, NEW p
    PROVE  /\ CreatePlayerSession(p) => (Connected' => Connected)
           /\ DeletePlayerSession(p) => (Connected' => Connected)
           /\ SetQualityController(p) => (Connected' => Connected)
           /\ SetPlayerSessionDataChannel(p) => (Connected' => Connected)
           /\ SendFreezeFrameTo(p) => (Connected' => Connected)
           /\ SendUnfreezeFrameAll => (Connected' => Connected)
           /\ UNCHANGED Players => (Connected' => Connected)
           /\ \A s : UpdateSession(p, s) /\ (p \in Live /\ s.negotiation = "connected" =>
                                                Players[p].negotiation = "connected")
                        => (Connected' => Connected)
  <1>1. ASSUME NEW M, NEW c, M \in [DOMAIN M -> Session], GiveControl(M, c), Connected'
        PROVE  \E q \in DOMAIN M : M[q].negotiation = "connected"
    <2>1. PICK refusing \in SUBSET Full(M) :
             Players' = [q \in DOMAIN M |->
                            SendQualityControlStatus(
                                IF q \in refusing THEN Refused(M[q]) ELSE M[q], q = c)]
      BY <1>1 DEF GiveControl
    <2>2. PICK q \in DOMAIN M : Players'[q].negotiation = "connected"
      BY <1>1, <2>1 DEF Connected, Live
    <2>3. Players'[q].negotiation = M[q].negotiation
      <3>. DEFINE t == IF q \in refusing THEN Refused(M[q]) ELSE M[q]
      <3>1. t \in Session /\ t.negotiation = M[q].negotiation
        BY <1>1, <2>2, KeptBySending
      <3>2. Players'[q] = SendQualityControlStatus(t, q = c)
        BY <2>1, <2>2
      <3>. HIDE DEF t
      <3>3. QED
        BY <3>1, <3>2, KeptBySending
    <2>4. QED
      BY <2>2, <2>3
  <1>2. CreatePlayerSession(p) => (Connected' => Connected)
    <2>. DEFINE J == Including(p, NewSession)
    <2>1. J \in [DOMAIN J -> Session]
      BY NewSessionType DEF Including, SessionsTypeOK, Live
    <2>2. (\E q \in DOMAIN J : J[q].negotiation = "connected") => Connected
      BY DEF Including, Connected, Live, NewSession
    <2>3. Players' = J => (Connected' => \E q \in DOMAIN J : J[q].negotiation = "connected")
      BY DEF Connected, Live
    <2>. HIDE DEF J
    <2>4. CreatePlayerSession(p) => Players' = J \/ GiveControl(J, p)
      BY DEF CreatePlayerSession, J
    <2>5. QED
      BY <1>1, <2>1, <2>2, <2>3, <2>4
  <1>3. DeletePlayerSession(p) => (Connected' => Connected)
    <2>. DEFINE R == Without(p)
    <2>1. R \in [DOMAIN R -> Session]
      BY DEF Without, SessionsTypeOK, Live
    <2>2. (\E q \in DOMAIN R : R[q].negotiation = "connected") => Connected
      BY DEF Without, Connected, Live
    <2>3. Players' = R => (Connected' => \E q \in DOMAIN R : R[q].negotiation = "connected")
      BY DEF Connected, Live
    <2>. HIDE DEF R
    <2>4. DeletePlayerSession(p) => Players' = R \/ \E c : GiveControl(R, c)
      BY DEF DeletePlayerSession, R
    <2>5. QED
      BY <1>1, <2>1, <2>2, <2>3, <2>4
  <1>4. SetQualityController(p) => (Connected' => Connected)
    BY <1>1 DEF SetQualityController, SessionsTypeOK, Connected, Live
  <1>5. SetPlayerSessionDataChannel(p) => (Connected' => Connected)
    BY KeptBySending DEF SetPlayerSessionDataChannel, UpdateSession, SessionsTypeOK,
                         Connected, Live
  <1>6. SendUnfreezeFrameAll => (Connected' => Connected)
    <2>1. ASSUME NEW refusing,
                 Players' = [q \in Live |->
                                SendUnfreezeFrame(
                                    IF q \in refusing THEN Refused(Players[q]) ELSE Players[q])]
          PROVE  Connected' => Connected
      <3>1. \A q \in Live : Players'[q].negotiation = Players[q].negotiation
        <4>1. \A q \in Live : LET t == IF q \in refusing THEN Refused(Players[q]) ELSE Players[q]
                              IN  t \in Session /\ t.negotiation = Players[q].negotiation
          BY KeptBySending DEF SessionsTypeOK
        <4>2. QED
          BY <2>1, <4>1, KeptBySending
      <3>2. QED
        BY <2>1, <3>1 DEF Connected, Live
    <2>2. QED
      BY <2>1 DEF SendUnfreezeFrameAll
  <1>7. ASSUME NEW s, UpdateSession(p, s),
               p \in Live /\ s.negotiation = "connected" =>
                   Players[p].negotiation = "connected"
        PROVE  Connected' => Connected
    BY <1>7 DEF UpdateSession, Connected, Live, SessionsTypeOK
  <1>8. UNCHANGED Players => (Connected' => Connected)
    BY DEF Connected, Live
  <1>9. SendFreezeFrameTo(p) => (Connected' => Connected)
    BY <1>7, KeptBySending DEF SendFreezeFrameTo, SessionsTypeOK
  <1>10. QED
    BY <1>2, <1>3, <1>4, <1>5, <1>6, <1>7, <1>8, <1>9

\* A reset that is queued behind a task still is when the queue has moved up.
LEMMA TakeShifts ==
    ASSUME TypeOK, NEW op, Take(op)
    PROVE  /\ \A i \in DOMAIN tasks' :
                 /\ i + 1 \in DOMAIN tasks /\ tasks'[i] = tasks[i + 1]
                 /\ (\E j \in DOMAIN tasks : j > i + 1 /\ tasks[j].op = "deleteAll")
                       => \E j \in DOMAIN tasks' : j > i /\ tasks'[j].op = "deleteAll"
           /\ (\E j \in DOMAIN tasks : j > 1 /\ tasks[j].op = "deleteAll")
                 => DeleteAllPosted'
           /\ DeleteAllPosted /\ op # "deleteAll" => DeleteAllPosted'
  <1>1. /\ \A i \in DOMAIN tasks' :
              i \in Nat /\ i + 1 \in DOMAIN tasks /\ tasks'[i] = tasks[i + 1]
        /\ \A i \in DOMAIN tasks : i # 1 => i - 1 \in DOMAIN tasks' /\ i > 1
        /\ \A i \in DOMAIN tasks : i \in Nat
        /\ tasks[1].op = op
    BY TakeTask DEF TypeOK
  <1>2. \A i \in DOMAIN tasks : i # 1 => tasks'[i - 1] = tasks[i]
    BY <1>1
  <1>3. QED
    BY <1>1, <1>2 DEF DeleteAllPosted

LEMMA MessageStreaming ==
    ASSUME StreamingInv, NEW p \in PlayerIds, Message(p)
    PROVE  AnswersCovered' /\ AboutToLower' /\ StreamingWhileConnected'
  <1>1. /\ w'.pc \in {"createWait", "answering", "deleteWait", "resetting"}
        /\ w.pc = "idle" /\ UNCHANGED <<sessionVars, bStreamingStarted>>
    BY NewHandler
  <1>2. PICK op \in PlayerOps :
           /\ Submit(TaskFor(op, p)) /\ w'.pc # "resetting"
           /\ op = "answer" => w'.pc = "answering"
    BY DEF Message, OnPlayerConnected, OnOffer, ReceiveAnswer, OnPlayerDisconnected,
           PlayerOps, Handling, Idle
  <1>3. TaskFor(op, p).op = op /\ TaskFor(op, p) \in Task
    BY TaskTypes
  <1>4. /\ DOMAIN tasks' = DOMAIN tasks \cup {Len(tasks) + 1}
        /\ \A i \in DOMAIN tasks : tasks'[i] = tasks[i]
        /\ tasks'[Len(tasks) + 1].op = op
    BY <1>2, <1>3, SubmitTask DEF StreamingInv, HandlerInv
  <1>5. QED
    BY <1>1, <1>2, <1>4
       DEF StreamingInv, AnswersCovered, AboutToLower, StreamingWhileConnected,
           DeleteAllPosted, sessionVars, Live

LEMMA DisconnectedStreaming ==
    ASSUME StreamingInv, OnSignallingServerDisconnected
    PROVE  AnswersCovered' /\ AboutToLower' /\ StreamingWhileConnected'
  <1>1. TaskForAll("deleteAll").op = "deleteAll" /\ TaskForAll("deleteAll") \in Task
    BY TaskTypes
  <1>2. /\ DOMAIN tasks' = DOMAIN tasks \cup {Len(tasks) + 1}
        /\ \A i \in DOMAIN tasks : tasks'[i] = tasks[i] /\ i <= Len(tasks) /\ i \in Nat
        /\ tasks'[Len(tasks) + 1].op = "deleteAll"
    BY <1>1, SubmitTask DEF OnSignallingServerDisconnected, StreamingInv, HandlerInv
  <1>3. \A i \in DOMAIN tasks : Len(tasks) + 1 > i
    BY <1>2 DEF StreamingInv, HandlerInv, TypeOK
  <1>4. w'.pc = "resetting"
    BY DEF OnSignallingServerDisconnected, Handling, Idle
  <1>5. QED
    BY <1>2, <1>3, <1>4
       DEF AnswersCovered, AboutToLower, StreamingWhileConnected, DeleteAllPosted

LEMMA FinishHandlerStreaming ==
    ASSUME StreamingInv, FinishHandler
    PROVE  AnswersCovered' /\ AboutToLower' /\ StreamingWhileConnected'
  <1>. USE DEF StreamingInv, HandlerInv
  <1>1. CASE CreateDataChannel
    <2>1. \A i \in DOMAIN tasks' : tasks'[i].op \notin {"answer", "deleteAll"}
      BY <1>1, WhenQuiet, CreateDataChannelQueue, SMTT(20) DEF CreateDataChannel, AppOps
    <2>2. w'.pc = "observerWait" /\ UNCHANGED <<sessionVars, bStreamingStarted>>
      BY <1>1 DEF CreateDataChannel, TypeOK, Handler
    <2>3. Connected => bStreamingStarted
      BY <1>1, WhenQuiet
         DEF CreateDataChannel, StreamingWhileConnected, DeleteAllPosted, Connected, AppOps
    <2>4. QED
      BY <2>1, <2>2, <2>3 DEF AnswersCovered, AboutToLower, StreamingWhileConnected,
                              Connected, sessionVars, Live
  <1>2. CASE StartNegotiation
    <2>1. \A i \in DOMAIN tasks' : tasks'[i].op \notin {"answer", "deleteAll"}
      BY <1>2, WhenQuiet DEF StartNegotiation, AppOps
    <2>2. w'.pc = "idle" /\ UNCHANGED bStreamingStarted
      BY <1>2 DEF StartNegotiation, Idle
    <2>3. Connected => bStreamingStarted
      BY <1>2, WhenQuiet
         DEF StartNegotiation, StreamingWhileConnected, DeleteAllPosted, Connected, AppOps
    <2>4. Connected' => Connected
      <3>1. PICK n \in {"settingRemote", "failed", "creatingOffer"} :
               UpdateSession(w.player, [Players[w.player] EXCEPT !.negotiation = n])
        BY <1>2 DEF StartNegotiation
      <3>2. w.player \in Live
        BY <1>2 DEF StartNegotiation, HandlerSessionAlive
      <3>3. [Players[w.player] EXCEPT !.negotiation = n].negotiation = n
        BY <3>2 DEF TypeOK, SessionsTypeOK, Session
      <3>4. QED
        BY <3>1, <3>3, ConnectedKept DEF TypeOK
    <2>5. QED
      BY <2>1, <2>2, <2>3, <2>4 DEF AnswersCovered, AboutToLower, StreamingWhileConnected,
                                    Connected
  <1>3. CASE SetStreamingStarted
    BY <1>3 DEF SetStreamingStarted, Idle, AnswersCovered, AboutToLower,
                StreamingWhileConnected
  <1>4. CASE AfterDelete
    <2>1. \A i \in DOMAIN tasks' : tasks'[i].op \notin {"answer", "deleteAll"}
      BY <1>4, WhenQuiet DEF AfterDelete, AppOps
    <2>2. w'.pc = "idle" /\ UNCHANGED sessionVars
      BY <1>4 DEF AfterDelete, Idle
    <2>3. Connected => bStreamingStarted'
      <3>1. Connected => bStreamingStarted /\ ~w.bNoneRemain
        BY <1>4, WhenQuiet
           DEF AfterDelete, StreamingWhileConnected, DeleteAllPosted, AboutToLower,
               Connected, AppOps
      <3>2. QED
        BY <1>4, <3>1, Zenon DEF AfterDelete
    <2>4. QED
      BY <2>1, <2>2, <2>3 DEF AnswersCovered, AboutToLower, StreamingWhileConnected,
                              Connected, sessionVars, Live
  <1>5. CASE AfterDeleteAll
    <2>1. /\ w.pc = "resetting" /\ w'.pc = "idle"
          /\ UNCHANGED <<sessionVars, tasks>>
      BY <1>5 DEF AfterDeleteAll, Idle
    <2>2. QED
      BY <2>1 DEF AnswersCovered, AboutToLower, StreamingWhileConnected, DeleteAllPosted,
                  sessionVars, Live
  <1>6. QED
    BY <1>1, <1>2, <1>3, <1>4, <1>5 DEF FinishHandler

LEMMA RunTaskStreaming ==
    ASSUME StreamingInv, RunTask
    PROVE  AnswersCovered' /\ AboutToLower' /\ StreamingWhileConnected'
  <1>. USE DEF StreamingInv, HandlerInv
  <1>1. CASE RunCreate \/ RunGetObserver \/ RunDelete
    <2>1. PICK op \in {"create", "getObserver", "delete"} : Take(op)
      BY <1>1 DEF RunCreate, RunGetObserver, RunDelete
    <2>2. /\ \A i \in DOMAIN tasks' : tasks'[i].op \in AppOps
          /\ w.pc \in {"createWait", "observerWait", "deleteWait"}
      BY <2>1, RunWaitedFor
    <2>3. Connected => bStreamingStarted
      <3>1. ~DeleteAllPosted
        BY <2>1, <2>2, TakeShifts DEF DeleteAllPosted, AppOps
      <3>2. QED
        BY <2>2, <3>1 DEF StreamingWhileConnected, Connected
    <2>4. Connected' => Connected
      BY <1>1, ConnectedKept DEF RunCreate, RunGetObserver, RunDelete, TypeOK, sessionVars
    <2>5. UNCHANGED bStreamingStarted
      BY <2>1 DEF Take
    <2>6. w'.pc # "resetting" /\ (w'.pc = "deleted" /\ w'.bNoneRemain => Live' = {})
      <3>1. CASE RunCreate \/ RunGetObserver
        BY <3>1 DEF RunCreate, RunGetObserver, Idle, TypeOK, Handler
      <3>2. CASE RunDelete
        <4>1. PICK b \in BOOLEAN : /\ w' = [w EXCEPT !.pc = "deleted", !.bNoneRemain = b]
                                   /\ b => DOMAIN Players' = {}
          BY <3>2, Zenon DEF RunDelete
        <4>2. QED
          BY <4>1 DEF TypeOK, Handler, Live
      <3>3. QED
        BY <1>1, <3>1, <3>2
    <2>7. QED
      BY <2>2, <2>3, <2>4, <2>5, <2>6
         DEF AnswersCovered, AboutToLower, StreamingWhileConnected, Connected, AppOps
  <1>2. CASE RunAnswer
    <2>1. Take("answer") /\ UNCHANGED <<w, bStreamingStarted>> /\ Live' = Live
      BY <1>2, LiveAfter DEF RunAnswer, Take
    <2>2. 1 \in DOMAIN tasks /\ tasks[1].op = "answer"
      BY <2>1, TakeTask
    <2>3. bStreamingStarted \/ w.pc = "answering" \/ DeleteAllPosted'
      BY <2>1, <2>2, TakeShifts DEF AnswersCovered
    <2>4. w.pc # "deleted"
      BY <2>2 DEF Quiet, AppOps
    <2>5. QED
      BY <2>1, <2>2, <2>3, <2>4, TakeShifts
         DEF AnswersCovered, AboutToLower, StreamingWhileConnected
  <1>3. CASE RunDeleteAll
    <2>1. Take("deleteAll") /\ UNCHANGED <<w, bStreamingStarted>> /\ Live' = {}
      BY <1>3, LiveAfter DEF RunDeleteAll, Take
    <2>2. QED
      BY <2>1, TakeShifts DEF AnswersCovered, AboutToLower, StreamingWhileConnected
  <1>4. CASE RunSetDataChannel \/ RunFreeze \/ RunUnfreeze
    <2>1. PICK op \in {"setDataChannel", "freeze", "unfreeze"} : Take(op)
      BY <1>4 DEF RunSetDataChannel, RunFreeze, RunUnfreeze
    <2>2. UNCHANGED <<w, bStreamingStarted>> /\ Live' = Live
      BY <1>4, LiveAfter DEF RunSetDataChannel, RunFreeze, RunUnfreeze, Take, sessionVars, Live
    <2>3. Connected' => Connected
      BY <1>4, ConnectedKept DEF RunSetDataChannel, RunFreeze, RunUnfreeze, sessionVars, TypeOK
    <2>4. QED
      BY <2>1, <2>2, <2>3, TakeShifts
         DEF AnswersCovered, AboutToLower, StreamingWhileConnected, Connected
  <1>5. QED
    BY <1>1, <1>2, <1>3, <1>4 DEF RunTask

LEMMA CallbackStreaming ==
    ASSUME StreamingInv, NEW p \in PlayerIds, WebRtcCallback(p)
    PROVE  AnswersCovered' /\ AboutToLower' /\ StreamingWhileConnected'
  <1>. USE DEF StreamingInv, HandlerInv
  <1>1. UNCHANGED <<tasks, w>> /\ Live' = Live /\ p \in Live
    BY CallbackQueue, CallbackLive
  <1>2. CASE AnswerSent(p)
    BY <1>1, <1>2 DEF AnswerSent, AnswersCovered, AboutToLower, StreamingWhileConnected,
                      DeleteAllPosted
  <1>3. CASE ~AnswerSent(p)
    <2>1. UNCHANGED bStreamingStarted
      BY <1>3 DEF WebRtcCallback, OfferProgress, AnswerProgress, AnswerFailed, OnDataChannel,
                  OnDataChannelOpen, OnDataChannelClosed, FormerChannelChanges, OnStateChange,
                  OnRequestQualityControl, BufferFills, BufferDrains, Silently
    <2>2. Connected' => Connected
      <3>. Players[p] \in Session
        BY <1>1 DEF TypeOK, SessionsTypeOK
      <3>1. CASE OfferProgress(p) \/ AnswerProgress(p)
        BY <3>1, ConnectedKept DEF OfferProgress, AnswerProgress, Negotiate, TypeOK, Session
      <3>2. CASE AnswerFailed(p)
        BY <3>2, ConnectedKept DEF AnswerFailed, DisconnectPlayer, TypeOK, Session
      <3>3. CASE OnDataChannel(p) \/ OnDataChannelClosed(p)
        BY <3>3, KeptBySending, ConnectedKept
           DEF OnDataChannel, OnDataChannelClosed, OnStateChange, TypeOK
      <3>4. CASE OnDataChannelOpen(p) \/ FormerChannelChanges(p)
                    \/ BufferFills(p) \/ BufferDrains(p)
        <4>1. ASSUME NEW t, UpdateSession(p, t), t.negotiation = Players[p].negotiation
              PROVE  Connected' => Connected
          BY <4>1, ConnectedKept DEF TypeOK
        <4>2. /\ [Players[p] EXCEPT !.channel = "open"].negotiation = Players[p].negotiation
              /\ \A b : /\ [Players[p] EXCEPT !.bFull = b].negotiation = Players[p].negotiation
                        /\ [Players[p] EXCEPT !.bFormer = b].negotiation = Players[p].negotiation
          BY DEF Session
        <4>3. CASE FormerChannelChanges(p)
          <5>1. PICK b \in BOOLEAN : UpdateSession(p, [Players[p] EXCEPT !.bFormer = b])
            BY <4>3 DEF FormerChannelChanges, OnStateChange
          <5>2. QED
            BY <4>1, <4>2, <5>1
        <4>4. QED
          BY <3>4, <4>1, <4>2, <4>3
             DEF OnDataChannelOpen, OnStateChange, BufferFills, BufferDrains
      <3>5. CASE OnRequestQualityControl(p)
        BY <3>5, ConnectedKept DEF OnRequestQualityControl, TypeOK
      <3>6. QED
        BY <1>3, <3>1, <3>2, <3>3, <3>4, <3>5 DEF WebRtcCallback
    <2>3. QED
      BY <1>1, <2>1, <2>2 DEF AnswersCovered, AboutToLower, StreamingWhileConnected,
                              DeleteAllPosted, Connected
  <1>4. QED
    BY <1>2, <1>3

LEMMA StreamingStep == StreamingInv /\ [Next]_vars => StreamingInv'
  <1>. SUFFICES ASSUME StreamingInv, [Next]_vars PROVE StreamingInv'
    OBVIOUS
  <1>1. HandlerInv'
    BY HandlerStep DEF StreamingInv
  <1>2. AnswersCovered' /\ AboutToLower' /\ StreamingWhileConnected'
    <2>1. CASE UNCHANGED vars
      BY <2>1 DEF vars, sessionVars, StreamingInv, AnswersCovered, AboutToLower,
                  StreamingWhileConnected, DeleteAllPosted, Live
    <2>2. CASE Application
      BY <2>2, ApplicationQueue
         DEF StreamingInv, HandlerInv, AnswersCovered, AboutToLower, StreamingWhileConnected,
             DeleteAllPosted, AppOps, sessionVars, Live
    <2>3. CASE SendFreezeFrameToFirst
      <3>1. Connected' => Connected
        BY <2>3, ConnectedKept DEF SendFreezeFrameToFirst, StreamingInv, HandlerInv, TypeOK
      <3>2. QED
        BY <2>3, <3>1, SendingQueue
           DEF StreamingInv, AnswersCovered, AboutToLower, StreamingWhileConnected,
               DeleteAllPosted, Connected
    <2>4. QED
      BY <2>1, <2>2, <2>3, MessageStreaming, DisconnectedStreaming, FinishHandlerStreaming,
         RunTaskStreaming, CallbackStreaming DEF Next, Application
  <1>3. QED
    BY <1>1, <1>2 DEF StreamingInv

\* A player who is being streamed to finds the streaming flag raised, whatever
\* the order in which players leave, connections are lost and answers arrive.
THEOREM StreamingStaysOn == Spec => []StreamingWhileConnected
  <1>1. Init => StreamingInv
    BY HandlerInit DEF Init, SessionsInit, EmptyMap, StreamingInv, AnswersCovered,
                       AboutToLower, StreamingWhileConnected, Live, Idle
  <1>2. StreamingInv => StreamingWhileConnected
    BY DEF StreamingInv
  <1>3. QED
    BY <1>1, <1>2, StreamingStep, PTL DEF Spec

-----------------------------------------------------------------------------
(***************************************************************************)
(* The quality control of the player sessions: who is in control, what the *)
(* browsers have been told of it, and that the sessions implement          *)
(* QualityControl.  Where it matters, no player has the id that is         *)
(* reserved for the SFU.  With it the theorems are false: a player who     *)
(* joins after such a session does not take control, as the map is not     *)
(* empty, and nobody has it.                                               *)
(***************************************************************************)

(* The controller after each operation on the sessions. *)

LEMMA ControllerAfter ==
    ASSUME SessionsTypeOK, SFU_PLAYER_ID \notin PlayerIds, NEW p \in PlayerIds
    PROVE  /\ CreatePlayerSession(p) =>
                 /\ p \notin Live
                 /\ QualityControllingPlayer' =
                       IF Live = {} THEN p ELSE QualityControllingPlayer
           /\ DeletePlayerSession(p) =>
                 \/ /\ ~(p \in Live /\ p = QualityControllingPlayer /\ Live # {p})
                    /\ QualityControllingPlayer' = QualityControllingPlayer
                 \/ /\ p \in Live /\ p = QualityControllingPlayer
                    /\ QualityControllingPlayer' \in Live \ {p}
  <1>1. CreatePlayerSession(p) =>
           /\ p \notin Live
           /\ QualityControllingPlayer' =
                 IF Live = {} THEN p ELSE QualityControllingPlayer
    BY DEF CreatePlayerSession, GiveControl
  <1>2. CASE p \in Live /\ p = QualityControllingPlayer /\ Live # {p}
    <2>1. FirstInMap(Live \ {p}) \in Live \ {p}
      <3>1. Live \ {p} # {} /\ Live \ {p} \in SUBSET PlayerIds
        BY <1>2 DEF SessionsTypeOK
      <3>2. QED
        BY <3>1, ChosenFirst
    <2>2. QED
      BY <1>1, <1>2, <2>1 DEF DeletePlayerSession, GiveControl
  <1>3. CASE ~(p \in Live /\ p = QualityControllingPlayer /\ Live # {p})
    BY <1>1, <1>3 DEF DeletePlayerSession
  <1>4. QED
    BY <1>2, <1>3

\* What a step does to the set of live sessions and to the controller.
SessionsStep ==
    \/ UNCHANGED <<Live, QualityControllingPlayer>>
    \/ \E p \in PlayerIds : CreatePlayerSession(p) /\ Live' = Live \cup {p}
    \/ \E p \in PlayerIds : DeletePlayerSession(p) /\ Live' = Live \ {p}
    \/ DeleteAllPlayerSessions /\ Live' = {}
    \/ \E p \in Live : QualityControllingPlayer' = p /\ UNCHANGED Live

LEMMA StepOfSessions ==
    ASSUME TypeOK, [Next]_vars
    PROVE  SessionsStep
  <1>1. CASE UNCHANGED vars
    BY <1>1 DEF vars, sessionVars, Live, SessionsStep
  <1>2. CASE OnSignallingServerDisconnected \/ \E p \in PlayerIds : Message(p)
    BY <1>2, NewHandler DEF sessionVars, Live, SessionsStep
  <1>3. CASE FinishHandler
    BY <1>3, FinishHandlerLive
       DEF FinishHandler, CreateDataChannel, StartNegotiation, SetStreamingStarted,
           AfterDelete, AfterDeleteAll, sessionVars, SessionsStep
  <1>4. CASE \E p \in PlayerIds : WebRtcCallback(p)
    <2>1. PICK p \in PlayerIds : WebRtcCallback(p)
      BY <1>4
    <2>2. CASE OnRequestQualityControl(p)
      BY <2>2, LiveAfter DEF OnRequestQualityControl, SetQualityController, GiveControl,
                             SessionsStep
    <2>3. CASE ~OnRequestQualityControl(p)
      <3>1. UNCHANGED QualityControllingPlayer
        BY <2>1, <2>3 DEF WebRtcCallback, OfferProgress, AnswerProgress, AnswerSent,
                          AnswerFailed, OnDataChannel, OnDataChannelOpen,
                          OnDataChannelClosed, FormerChannelChanges, BufferFills,
                          BufferDrains, Callback
      <3>2. QED
        BY <2>1, <3>1, CallbackLive DEF SessionsStep
    <2>4. QED
      BY <2>2, <2>3
  <1>5. CASE RunTask
    <2>1. CASE RunCreate
      <3>1. First \in PlayerIds
        BY <2>1, TakeTask DEF RunCreate, PlayerOps
      <3>2. QED
        BY <2>1, <3>1, LiveAfter DEF RunCreate, sessionVars, Live, SessionsStep
    <2>2. CASE RunDelete
      <3>1. First \in PlayerIds
        BY <2>2, TakeTask DEF RunDelete, PlayerOps
      <3>2. QED
        BY <2>2, <3>1, LiveAfter DEF RunDelete, SessionsStep
    <2>3. CASE RunDeleteAll
      BY <2>3, LiveAfter DEF RunDeleteAll, SessionsStep
    <2>4. CASE RunSetDataChannel \/ RunGetObserver \/ RunAnswer \/ RunFreeze \/ RunUnfreeze
      BY <2>4, LiveAfter
         DEF RunSetDataChannel, RunGetObserver, RunAnswer, RunFreeze, RunUnfreeze,
             SetPlayerSessionDataChannel, OnAnswer, SendUnfreezeFrameAll,
             sessionVars, Live, SessionsStep
    <2>5. QED
      BY <1>5, <2>1, <2>2, <2>3, <2>4 DEF RunTask
  <1>6. CASE Application
    BY <1>6, ApplicationQueue DEF sessionVars, Live, SessionsStep
  <1>7. CASE SendFreezeFrameToFirst
    BY <1>7, SendingQueue DEF SessionsStep
  <1>8. QED
    BY <1>1, <1>2, <1>3, <1>4, <1>5, <1>6, <1>7 DEF Next, Application

LEMMA ControllerStep ==
    ASSUME SFU_PLAYER_ID \notin PlayerIds, TypeOK, ControllerIsLive, [Next]_vars
    PROVE  ControllerIsLive'
  <1>1. SessionsStep /\ SessionsTypeOK
    BY StepOfSessions DEF TypeOK
  <1>2. QED
    BY <1>1, ControllerAfter DEF SessionsStep, ControllerIsLive, DeleteAllPlayerSessions

\* While anybody watches, the controlling player is one of those who watch.
THEOREM ControllerStaysLive ==
    ASSUME SFU_PLAYER_ID \notin PlayerIds
    PROVE  Spec => []ControllerIsLive
  <1>1. Init => ControllerIsLive
    BY DEF Init, SessionsInit, EmptyMap, ControllerIsLive, Live
  <1>2. TypeOK /\ ControllerIsLive /\ [Next]_vars => ControllerIsLive'
    BY ControllerStep
  <1>3. QED
    BY <1>1, <1>2, TypeCorrect, PTL DEF Spec

-----------------------------------------------------------------------------
(* The abstract quality control. *)

LEMMA ImplementsStep ==
    ASSUME SFU_PLAYER_ID \notin PlayerIds, TypeOK, ControllerIsLive, ControllerIsLive',
           [Next]_vars
    PROVE  [Abstract!Next]_(Abstract!vars)
  <1>. USE DEF Controller
  <1>1. SessionsTypeOK /\ INVALID_PLAYER_ID \notin PlayerIds
    BY PlayerIdsAssumption DEF TypeOK
  <1>2. CASE UNCHANGED <<Live, QualityControllingPlayer>>
    BY <1>2 DEF Abstract!vars
  <1>3. ASSUME NEW p \in PlayerIds, CreatePlayerSession(p), Live' = Live \cup {p}
        PROVE  Abstract!Join(p)
    BY <1>1, <1>3, ControllerAfter DEF Abstract!Join, ControllerIsLive
  <1>4. ASSUME NEW p \in PlayerIds, DeletePlayerSession(p), Live' = Live \ {p}
        PROVE  Abstract!Leave(p) \/ UNCHANGED <<Live, Controller>>
    <2>1. CASE p \notin Live
      BY <1>1, <1>4, <2>1, ControllerAfter
    <2>2. CASE p \in Live /\ Live = {p}
      BY <1>4, <2>2 DEF Abstract!Leave
    <2>3. CASE p \in Live /\ Live # {p}
      BY <1>1, <1>4, <2>3, ControllerAfter DEF Abstract!Leave, ControllerIsLive
    <2>4. QED
      BY <2>1, <2>2, <2>3
  <1>5. ASSUME DeleteAllPlayerSessions, Live' = {}
        PROVE  Abstract!LeaveAll
    BY <1>5 DEF Abstract!LeaveAll
  <1>6. ASSUME NEW p \in Live, QualityControllingPlayer' = p, UNCHANGED Live
        PROVE  Abstract!Request(p)
    BY <1>6 DEF Abstract!Request
  <1>7. Live \subseteq PlayerIds
    BY <1>1 DEF SessionsTypeOK
  <1>8. QED
    BY <1>2, <1>3, <1>4, <1>5, <1>6, <1>7, StepOfSessions
       DEF SessionsStep, Abstract!Next, Abstract!vars

\* The sessions implement QualityControl: as long as anybody watches exactly
\* one of those who watch is in control, and control changes hands only when
\* it is asked for or its owner leaves.
THEOREM ImplementsQualityControl ==
    ASSUME SFU_PLAYER_ID \notin PlayerIds
    PROVE  Spec => QualityControlSpec
  <1>1. Init => Abstract!Init
    BY DEF Init, SessionsInit, EmptyMap, Abstract!Init, Controller, Live
  <1>2. TypeOK /\ ControllerIsLive /\ ControllerIsLive' /\ [Next]_vars
            => [Abstract!Next]_(Abstract!vars)
    BY ImplementsStep
  <1>3. QED
    BY <1>1, <1>2, TypeCorrect, ControllerStaysLive, PTL
       DEF Spec, QualityControlSpec, Abstract!Spec

-----------------------------------------------------------------------------
(* What the browsers have been told. *)

\* Whoever is sent a status believes it, or is misled if it does not arrive.
LEMMA StatusTold ==
    ASSUME NEW s \in Session, NEW b \in BOOLEAN
    PROVE  SendQualityControlStatus(s, b).told = "controls" => b
  BY DEF SendQualityControlStatus, Unaware, Session

LEMMA GiveControlTold ==
    ASSUME NEW M, NEW c, M \in [DOMAIN M -> Session], GiveControl(M, c)
    PROVE  OnlyControllerTold'
  <1>1. PICK refusing \in SUBSET Full(M) :
           Players' = [q \in DOMAIN M |->
                          SendQualityControlStatus(
                              IF q \in refusing THEN Refused(M[q]) ELSE M[q], q = c)]
    BY DEF GiveControl
  <1>2. \A q \in DOMAIN M : (IF q \in refusing THEN Refused(M[q]) ELSE M[q]) \in Session
    BY SessionOperators
  <1>3. \A q \in DOMAIN M : Players'[q].told = "controls" => q = c
    BY <1>1, <1>2, StatusTold
  <1>4. QED
    BY <1>1, <1>3 DEF GiveControl, OnlyControllerTold, Live

\* A change of one session that leaves its browser's belief alone.
LEMMA UpdateTold ==
    ASSUME OnlyControllerTold, NEW p, NEW s, UpdateSession(p, s),
           UNCHANGED QualityControllingPlayer, p \in Live => s.told = Players[p].told
    PROVE  OnlyControllerTold'
  BY DEF UpdateSession, OnlyControllerTold, Live

\* What the other operations on a session leave alone.
LEMMA ToldKept ==
    ASSUME NEW s \in Session
    PROVE  /\ Refused(s).told = s.told
           /\ SendFreezeFrame(s).told = s.told
           /\ SendUnfreezeFrame(s).told = s.told
           /\ Replaced(s).told = s.told
           /\ DisconnectPlayer(s).told = s.told
           /\ \A x : /\ [s EXCEPT !.negotiation = x].told = s.told
                     /\ [s EXCEPT !.channel = x].told = s.told
                     /\ [s EXCEPT !.bFull = x].told = s.told
                     /\ [s EXCEPT !.bFormer = x].told = s.told
  BY DEF Session, Refused, SendFreezeFrame, SendUnfreezeFrame, Replaced, DisconnectPlayer

LEMMA CreateTold ==
    ASSUME SessionsTypeOK, OnlyControllerTold, NEW p, CreatePlayerSession(p)
    PROVE  OnlyControllerTold'
  <1>. DEFINE J == Including(p, NewSession)
  <1>1. J \in [DOMAIN J -> Session]
    BY NewSessionType DEF Including, SessionsTypeOK, Live
  <1>2. CASE GiveControl(J, p)
    <2>. HIDE DEF J
    <2>1. QED
      BY <1>1, <1>2, GiveControlTold
  <1>3. CASE Players' = J /\ UNCHANGED QualityControllingPlayer
    BY <1>3 DEF OnlyControllerTold, Including, NewSession, Live
  <1>4. QED
    BY <1>2, <1>3 DEF CreatePlayerSession

LEMMA DeleteTold ==
    ASSUME SessionsTypeOK, OnlyControllerTold, NEW p, DeletePlayerSession(p)
    PROVE  OnlyControllerTold'
  <1>. DEFINE R == Without(p)
  <1>1. R \in [DOMAIN R -> Session]
    BY DEF Without, SessionsTypeOK, Live
  <1>2. ASSUME NEW c, GiveControl(R, c) PROVE OnlyControllerTold'
    <2>. HIDE DEF R
    <2>1. QED
      BY <1>1, <1>2, GiveControlTold
  <1>3. CASE Players' = R /\ UNCHANGED QualityControllingPlayer
    BY <1>3 DEF OnlyControllerTold, Without, Live
  <1>4. QED
    BY <1>2, <1>3 DEF DeletePlayerSession

LEMMA UnfreezeTold ==
    ASSUME SessionsTypeOK, OnlyControllerTold, SendUnfreezeFrameAll
    PROVE  OnlyControllerTold'
  <1>1. PICK refusing \in SUBSET Full(Players) :
           Players' = [p \in Live |->
                          SendUnfreezeFrame(
                              IF p \in refusing THEN Refused(Players[p]) ELSE Players[p])]
    BY DEF SendUnfreezeFrameAll
  <1>2. \A p \in Live : LET t == IF p \in refusing THEN Refused(Players[p]) ELSE Players[p]
                        IN  t \in Session /\ t.told = Players[p].told
    BY SessionOperators, ToldKept DEF SessionsTypeOK
  <1>3. \A p \in Live : Players'[p].told = Players[p].told
    BY <1>1, <1>2, ToldKept
  <1>4. QED
    BY <1>1, <1>3 DEF SendUnfreezeFrameAll, OnlyControllerTold, Live

LEMMA CallbackTold ==
    ASSUME TypeOK, OnlyControllerTold, NEW p \in PlayerIds, WebRtcCallback(p)
    PROVE  OnlyControllerTold'
  <1>1. p \in Live /\ Players[p] \in Session
    BY CallbackLive DEF TypeOK, SessionsTypeOK
  <1>2. CASE OnRequestQualityControl(p)
    <2>1. Players \in [DOMAIN Players -> Session]
      BY DEF TypeOK, SessionsTypeOK, Live
    <2>2. QED
      BY <1>2, <2>1, GiveControlTold DEF OnRequestQualityControl, SetQualityController
  <1>3. CASE ~OnRequestQualityControl(p)
    <2>1. UNCHANGED QualityControllingPlayer
      BY <1>3 DEF WebRtcCallback, OfferProgress, AnswerProgress, AnswerSent, AnswerFailed,
                  OnDataChannel, OnDataChannelOpen, OnDataChannelClosed,
                  FormerChannelChanges, BufferFills, BufferDrains, Callback
    <2>2. ASSUME NEW t, UpdateSession(p, t), t.told = Players[p].told
          PROVE  OnlyControllerTold'
      BY <2>1, <2>2, UpdateTold
    <2>3. CASE OfferProgress(p) \/ AnswerProgress(p) \/ AnswerSent(p)
      <3>1. PICK n : UpdateSession(p, [Players[p] EXCEPT !.negotiation = n])
        BY <2>3 DEF OfferProgress, AnswerProgress, AnswerSent, Negotiate
      <3>2. QED
        BY <1>1, <2>2, <3>1, ToldKept
    <2>4. CASE AnswerFailed(p)
      BY <1>1, <2>2, <2>4, ToldKept DEF AnswerFailed
    <2>5. CASE OnDataChannel(p)
      BY <1>1, <2>2, <2>5, ToldKept DEF OnDataChannel
    <2>6. CASE OnDataChannelOpen(p)
      BY <1>1, <2>2, <2>6, ToldKept DEF OnDataChannelOpen, OnStateChange
    <2>7. CASE OnDataChannelClosed(p)
      BY <1>1, <2>2, <2>7, ToldKept DEF OnDataChannelClosed, OnStateChange
    <2>8. CASE FormerChannelChanges(p)
      <3>1. PICK b \in BOOLEAN : UpdateSession(p, [Players[p] EXCEPT !.bFormer = b])
        BY <2>8 DEF FormerChannelChanges, OnStateChange
      <3>2. QED
        BY <1>1, <2>2, <3>1, ToldKept
    <2>9. CASE BufferFills(p) \/ BufferDrains(p)
      BY <1>1, <2>2, <2>9, ToldKept DEF BufferFills, BufferDrains
    <2>10. QED
      BY <1>3, <2>3, <2>4, <2>5, <2>6, <2>7, <2>8, <2>9 DEF WebRtcCallback
  <1>4. QED
    BY <1>2, <1>3

LEMMA ToldStep ==
    ASSUME TypeOK, HandlerSessionAlive, OnlyControllerTold, [Next]_vars
    PROVE  OnlyControllerTold'
  <1>1. CASE UNCHANGED sessionVars
    BY <1>1 DEF sessionVars, OnlyControllerTold, Live
  <1>2. CASE StartNegotiation
    <2>1. Players[w.player] \in Session
      BY <1>2 DEF StartNegotiation, HandlerSessionAlive, TypeOK, SessionsTypeOK
    <2>2. QED
      BY <1>2, <2>1, ToldKept, UpdateTold DEF StartNegotiation
  <1>3. CASE RunTask
    <2>1. CASE RunCreate
      BY <1>1, <2>1, CreateTold DEF RunCreate, TypeOK
    <2>2. CASE RunSetDataChannel \/ RunAnswer
      <3>1. First \in Live => Players[First] \in Session
        BY DEF TypeOK, SessionsTypeOK
      <3>2. UNCHANGED QualityControllingPlayer
        BY <2>2 DEF RunSetDataChannel, SetPlayerSessionDataChannel, RunAnswer, OnAnswer
      <3>3. CASE UNCHANGED Players
        BY <1>1, <3>2, <3>3 DEF sessionVars
      <3>4. CASE First \in Live /\ UpdateSession(First, Replaced(Players[First]))
        BY <3>1, <3>2, <3>4, ToldKept, UpdateTold
      <3>5. CASE /\ First \in Live
                 /\ UpdateSession(First, [Players[First] EXCEPT !.negotiation = "connected"])
        BY <3>1, <3>2, <3>5, ToldKept, UpdateTold
      <3>6. QED
        BY <2>2, <3>3, <3>4, <3>5
           DEF RunSetDataChannel, SetPlayerSessionDataChannel, RunAnswer, OnAnswer
    <2>3. CASE RunDelete
      BY <2>3, DeleteTold DEF RunDelete, TypeOK
    <2>4. CASE RunDeleteAll
      BY <2>4, LiveAfter DEF RunDeleteAll, OnlyControllerTold
    <2>5. CASE RunUnfreeze
      BY <2>5, UnfreezeTold DEF RunUnfreeze, TypeOK
    <2>6. QED
      BY <1>1, <1>3, <2>1, <2>2, <2>3, <2>4, <2>5 DEF RunTask, RunGetObserver, RunFreeze
  <1>4. CASE SendFreezeFrameToFirst
    <2>1. Players[FirstInMap(sending)] \in Session
      BY <1>4, ChosenFirst DEF SendFreezeFrameToFirst, TypeOK, SessionsTypeOK
    <2>2. QED
      BY <1>4, <2>1, ToldKept, UpdateTold DEF SendFreezeFrameToFirst, SendFreezeFrameTo
  <1>5. CASE UNCHANGED vars \/ Application \/ CreateDataChannel \/ SetStreamingStarted
               \/ AfterDelete \/ AfterDeleteAll \/ OnSignallingServerDisconnected
               \/ \E p \in PlayerIds : Message(p)
    BY <1>1, <1>5, NewHandler, ApplicationQueue
       DEF vars, CreateDataChannel, SetStreamingStarted, AfterDelete, AfterDeleteAll
  <1>6. QED
    BY <1>2, <1>3, <1>4, <1>5, CallbackTold DEF Next, FinishHandler, Application

\* Of the browsers that the streamer's last message on the matter reached, at most
\* one believes that it controls the quality, and it is right, whichever channels
\* are replaced, filled or closed; those that a message missed are told apart.
THEOREM OnlyTheControllerIsTold == Spec => []OnlyControllerTold
  <1>1. Init => OnlyControllerTold
    BY DEF Init, SessionsInit, EmptyMap, OnlyControllerTold, Live
  <1>2. TypeOK /\ HandlerSessionAlive /\ OnlyControllerTold /\ [Next]_vars
            => OnlyControllerTold'
    BY ToldStep
  <1>3. QED
    BY <1>1, <1>2, TypeCorrect, SessionStaysAlive, PTL DEF Spec
=============================================================================
