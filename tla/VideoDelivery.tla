--------------------------- MODULE VideoDelivery ---------------------------
(***************************************************************************)
(* How a player comes to be pumped for, and how the pictures reach its     *)
(* browser: FStreamer, the sessions and the pump together.                 *)
(*                                                                         *)
(*   - The WebSocket thread makes a session (CreateSession, whose steps    *)
(*     are in Streamer, is one task here) and then a video source, which   *)
(*     it gives to the session by a task it does not wait for and to the   *)
(*     pump at once.                                                       *)
(*   - The signalling thread owns the sessions. A video source is counted  *)
(*     by reference; whoever drops the last reference unregisters it, for  *)
(*     which it needs SourcesGuard.                                        *)
(*   - The pump holds SourcesGuard while it encodes and publishes what it  *)
(*     has encoded, as MP4, to FStreamer::SendVideo, which sends it over   *)
(*     the data channels of all sessions, by a task.                       *)
(*                                                                         *)
(* The MP4 writer is external: GetMp4Buffer returns what was written since *)
(* it was last called. Of the messages the model keeps how many of those   *)
(* published a browser has not got, counted from the first one it got.     *)
(***************************************************************************)
EXTENDS VideoPump, FiniteSets

CONSTANTS MaxTasks  \* bound on the tasks that wait when another thread goes on

ASSUME DeliveryAssumption == MaxTasks \in Nat \ {0}

VARIABLES tasks,       \* the queue of the signalling thread
          ws,          \* where the WebSocket thread is, and with what
          Players,     \* the sessions
          alive,       \* the video sources that have not been deleted
          registered,  \* the source that VideoSources has for a player
          bFirst,      \* has the encoder still to write the MP4 header?
          framecount,  \* frames written since the last message
          behind       \* messages published and not got, by a browser

streamVars == <<bFirst, framecount>>
deliveryVars == <<tasks, ws, Players, alive, registered, streamVars, behind>>
allVars == <<vars, deliveryVars>>

-----------------------------------------------------------------------------
NoneYet == -1

Sources == PlayerIds \X {1, 2}
NoSource == <<>>
NoSession == [source |-> NoSource, channel |-> "deleted", adds |-> FALSE]

\* "adds": the remote description is on its way to be set, and once it is,
\* AddStreams runs on the signalling thread.
NewSession(offered) == [source |-> NoSource, channel |-> "connecting", adds |-> offered]

Idle == [pc |-> "idle", player |-> <<>>, source |-> NoSource]

HasSession(p) == Players[p] # NoSession

DeliveryInit ==
    /\ Init
    /\ tasks = <<>> /\ ws = Idle
    /\ Players = [p \in PlayerIds |-> NoSession]
    /\ alive = {} /\ registered = [p \in PlayerIds |-> NoSource]
    /\ bFirst = TRUE /\ framecount = 0
    /\ behind = [p \in PlayerIds |-> NoneYet]

Post(task) == tasks' = Append(tasks, task)

Room == Len(tasks) < MaxTasks

-----------------------------------------------------------------------------
(* The references to a video source: of its session, of tasks, of the      *)
(* local variable of SetupVideoSource.                                     *)

Queued(q) == {q[i].source : i \in DOMAIN q}

ReferencedNext == {Players'[p].source : p \in PlayerIds} \cup Queued(tasks') \cup {ws'.source}

\* Mutant: a source that goes stays with the pump.
ReleaseOnly ==
    /\ alive' = alive \cap ReferencedNext
    /\ UNCHANGED <<registered, VideoSources, pump>>

\* Mutant: SourcesGuard is not taken to unregister.
ReleaseUnlocked ==
    LET gone == {s[1] : s \in alive \ ReferencedNext} IN
    /\ alive' = alive \cap ReferencedNext
    /\ registered' = [p \in PlayerIds |-> IF p \in gone THEN NoSource ELSE registered[p]]
    /\ VideoSources' = VideoSources \ gone
    /\ Notify

\* Release, of every reference that the step drops: a source without any is
\* taken from the pump, whatever the pump has for its player, and deleted.
Release ==
    LET dead == alive \ ReferencedNext
        gone == {s[1] : s \in dead} IN
    /\ alive' = alive \ dead
    /\ IF dead = {} THEN UNCHANGED <<registered, VideoSources, pump>>
       ELSE /\ SourcesGuardFree
            /\ registered' = [p \in PlayerIds |-> IF p \in gone THEN NoSource ELSE registered[p]]
            /\ VideoSources' = VideoSources \ gone
            /\ Notify

\* RegisterVideoSource: the source takes the place of another one.
Register(p, s) ==
    /\ SourcesGuardFree
    /\ registered' = [registered EXCEPT ![p] = s]
    /\ VideoSources' = VideoSources \cup {p}
    /\ Notify

NewSource(p, s) == s \in Sources \ alive /\ s[1] = p

-----------------------------------------------------------------------------
(* The WebSocket thread. It waits inside a call when pc says so. *)

WsUnchanged == UNCHANGED <<Players, behind, streamVars, bThreadRunning, textureVars>>

Call(pc, p, task) ==
    /\ ws = Idle /\ Room
    /\ ws' = [Idle EXCEPT !.pc = pc, !.player = p]
    /\ Post(task)
    /\ WsUnchanged /\ UNCHANGED <<alive, registered, VideoSources, pump>>

OnPlayerConnected(p) == Call("connecting", p, [op |-> "create", player |-> p, source |-> NoSource])
OnOffer(p) == Call("offered", p, [op |-> "create", player |-> p, source |-> NoSource])
OnPlayerDisconnected(p) == Call("deleting", p, [op |-> "delete", player |-> p, source |-> NoSource])

OnSignallingServerDisconnected ==
    /\ ws = Idle /\ Room
    /\ Post([op |-> "delete all", player |-> <<>>, source |-> NoSource])
    /\ WsUnchanged /\ UNCHANGED <<ws, alive, registered, VideoSources, pump>>

\* SetupVideoSource: SetVideoSource is posted, ...
SetVideoSource ==
    /\ ws.pc = "adding"
    /\ \E s \in Sources :
          /\ NewSource(ws.player, s)
          /\ alive' = alive \cup {s}
          /\ ws' = [ws EXCEPT !.pc = "registering", !.source = s]
          /\ Post([op |-> "set source", player |-> ws.player, source |-> s])
    /\ WsUnchanged /\ UNCHANGED <<registered, VideoSources, pump>>

\* ... Initialize registers the source, ...
Initialize ==
    /\ ws.pc = "registering"
    /\ Register(ws.player, ws.source)
    /\ ws' = [ws EXCEPT !.pc = "returning"]
    /\ WsUnchanged /\ UNCHANGED <<tasks, alive>>

\* ... and the reference of the local variable goes.
ReturnFromSetup ==
    /\ ws.pc = "returning"
    /\ ws' = Idle
    /\ WsUnchanged /\ UNCHANGED <<tasks, Players>>
    /\ Release

-----------------------------------------------------------------------------
(* The signalling thread: tasks, and callbacks of WebRTC between them. *)

Run(op) ==
    /\ tasks # <<>> /\ Head(tasks).op = op
    /\ tasks' = Tail(tasks)
    /\ UNCHANGED <<streamVars, bThreadRunning, textureVars>>

\* A session that exists already is left alone, and the handler returns.
CreatePlayerSession ==
    LET p == Head(tasks).player IN
    /\ Run("create")
    /\ IF HasSession(p) THEN ws' = Idle /\ UNCHANGED Players
       ELSE /\ Players' = [Players EXCEPT ![p] = NewSession(ws.pc = "offered")]
            /\ ws' = IF ws.pc = "offered" THEN Idle ELSE [ws EXCEPT !.pc = "adding"]
    /\ UNCHANGED <<alive, registered, behind, VideoSources, pump>>

SetVideoSource_SignallingThread ==
    LET task == Head(tasks) IN
    /\ Run("set source")
    /\ Players' = IF HasSession(task.player)
                  THEN [Players EXCEPT ![task.player].source = task.source] ELSE Players
    /\ UNCHANGED <<ws, behind>>
    /\ Release

DeletePlayerSession ==
    /\ Run("delete")
    /\ Players' = [Players EXCEPT ![Head(tasks).player] = NoSession]
    /\ behind' = [behind EXCEPT ![Head(tasks).player] = NoneYet]
    /\ ws' = Idle
    /\ Release

\* The sessions go one by one, and the task with the last.
DeleteAllPlayerSessions ==
    /\ tasks # <<>> /\ Head(tasks).op = "delete all"
    /\ \/ \E p \in PlayerIds :
             /\ HasSession(p)
             /\ Players' = [Players EXCEPT ![p] = NoSession]
             /\ behind' = [behind EXCEPT ![p] = NoneYet]
             /\ UNCHANGED tasks
       \/ /\ \A p \in PlayerIds : ~HasSession(p)
          /\ tasks' = Tail(tasks)
          /\ UNCHANGED <<Players, behind>>
    /\ UNCHANGED <<ws, streamVars, bThreadRunning, textureVars>>
    /\ Release

OnTheWay(q) == Cardinality({i \in DOMAIN q : q[i].op = "send video"})

Open == {p \in PlayerIds : Players[p].channel = "open"}

\* Mutant: a full channel loses the message and stays open.
SendMessageAllLosing ==
    /\ Run("send video")
    /\ \E full \in SUBSET Open :
          behind' = [p \in PlayerIds |->
                 IF p \notin Open THEN NoneYet
                 ELSE IF p \in full THEN behind[p]
                 ELSE IF behind[p] = NoneYet THEN OnTheWay(tasks') ELSE behind[p] - 1]
    /\ UNCHANGED <<ws, Players, alive, registered, VideoSources, pump>>

\* The task of the queue is destroyed after it has run. A channel whose
\* buffer is full refuses to send, and closes (external).
SendMessageAll ==
    /\ Run("send video")
    /\ \E full \in SUBSET Open :
          /\ Players' = [p \in PlayerIds |->
                 IF p \in full THEN [Players[p] EXCEPT !.channel = "closed"] ELSE Players[p]]
          /\ behind' = [p \in PlayerIds |->
                 IF p \notin Open \ full THEN NoneYet
                 ELSE IF behind[p] = NoneYet THEN OnTheWay(tasks') ELSE behind[p] - 1]
    /\ UNCHANGED <<ws, alive, registered, VideoSources, pump>>

CallbackUnchanged == UNCHANGED <<tasks, ws, streamVars, bThreadRunning, textureVars>>

\* OnDataChannelOpen, and the browser that goes away (external).
ChannelChanges(p) ==
    /\ HasSession(p)
    /\ \E to \in {"open", "closed"} :
          /\ Players[p].channel = "connecting" \/ (Players[p].channel = "open" /\ to = "closed")
          /\ Players' = [Players EXCEPT ![p].channel = to]
    /\ behind' = [behind EXCEPT ![p] = NoneYet]
    /\ CallbackUnchanged /\ UNCHANGED <<alive, registered, VideoSources, pump>>

\* OnSetRemoteDescriptionSuccess: on this thread the session has the source
\* before the pump has. The session holds it from then on.
AddStreamsOnAnswer(p) ==
    /\ HasSession(p) /\ Players[p].adds
    /\ \E s \in Sources :
          /\ NewSource(p, s)
          /\ alive' = alive \cup {s}
          /\ Players' = [Players EXCEPT ![p].source = s, ![p].adds = FALSE]
          /\ Register(p, s)
    /\ CallbackUnchanged /\ UNCHANGED behind

Signalling ==
    \/ CreatePlayerSession \/ SetVideoSource_SignallingThread
    \/ DeletePlayerSession \/ DeleteAllPlayerSessions \/ SendMessageAll

-----------------------------------------------------------------------------
(* The pump thread. *)

\* FStreamer::SendVideo, by way of the message centre.
Publish ==
    /\ Post([op |-> "send video", player |-> <<>>, source |-> NoSource])
    /\ behind' = [p \in PlayerIds |-> IF behind[p] = NoneYet THEN NoneYet ELSE behind[p] + 1]

\* TransmitD3D12: the first frame publishes the header, every third frame
\* what has been written.
WriteMp4 ==
    /\ bFirst' = FALSE
    /\ framecount' = (framecount + 1) % 3
    /\ IF bFirst \/ framecount = 2 THEN Publish ELSE UNCHANGED <<tasks, behind>>

\* Mutant: the pump waits for the signalling thread, with SourcesGuard.
EncodeFrameWaiting ==
    /\ tasks = <<>>
    /\ Transmit
    /\ \/ RHIName = "D3D12" /\ pump' = "sleeping" /\ WriteMp4
       \/ UNCHANGED <<streamVars, tasks, behind>>
    /\ UNCHANGED <<ws, Players, alive, registered>>

\* Nothing is encoded when the texture has no shared handle, and nothing but
\* D3D12 writes what was encoded.
EncodeFrame ==
    /\ Transmit
    /\ \/ RHIName = "D3D12" /\ pump' = "sleeping" /\ WriteMp4
       \/ UNCHANGED <<streamVars, tasks, behind>>
    /\ UNCHANGED <<ws, Players, alive, registered>>

Pump ==
    \/ (TestRunning \/ TestSources \/ Wait \/ Sleep) /\ UNCHANGED deliveryVars
    \/ PumpFrame /\ Room /\ UNCHANGED deliveryVars
    \/ EncodeFrame

-----------------------------------------------------------------------------
WebSocketThread == SetVideoSource \/ Initialize \/ ReturnFromSetup

DeliveryNext ==
    /\ Running
    /\ \/ \E p \in PlayerIds :
             \/ OnPlayerConnected(p) \/ OnOffer(p) \/ OnPlayerDisconnected(p)
             \/ ChannelChanges(p) \/ AddStreamsOnAnswer(p)
       \/ OnSignallingServerDisconnected
       \/ WebSocketThread \/ Signalling \/ Pump
       \/ /\ WakeSpuriously \/ Shutdown \/ OnTextureReceived \/ Receiver
          /\ UNCHANGED deliveryVars

\* Every thread of a running process goes on when it can; messages, browsers, pictures and the end
\* of the program need not come. A thread that waits for SourcesGuard gets
\* it in the end, although the pump takes it again and again; and calls that
\* fill the queue, which has room in the code, do not keep the pump waiting.
DeliverySpec ==
    /\ DeliveryInit /\ [][DeliveryNext]_allVars
    /\ SF_allVars(Pump) /\ WF_allVars(Running /\ Receiver /\ UNCHANGED deliveryVars)
    /\ SF_allVars(Running /\ WebSocketThread) /\ SF_allVars(Running /\ Signalling)

-----------------------------------------------------------------------------
\* What a browser gets over one channel is a run of the published messages
\* without a gap or a repetition: of those published since it got its first,
\* it lacks the ones that are still on their way. A fragment is of no use
\* without the one before it.
NoGaps ==
    \A p \in Open : behind[p] # NoneYet => behind[p] = OnTheWay(tasks)

\* The pump never has a video source that was deleted, and when the threads
\* are at rest it has those of the sessions and no other.
PumpedForSessions ==
    /\ \A p \in PlayerIds : registered[p] = NoSource \/ registered[p] \in alive
    /\ tasks = <<>> /\ ws = Idle =>
         \A p \in PlayerIds : registered[p] = Players[p].source

\* What the threads of the sessions do to the pump is what VideoPump lets
\* them do: its specification is implemented, and what is said of it holds.
PumpSpec == Spec

\* As long as no frame crashes the process, handlers return: the signalling
\* thread may wait for SourcesGuard, which the pump holds while it encodes and
\* publishes, and must not be waited for there.
HandlersReturn == ws # Idle ~> (ws = Idle \/ pump = "crashed")
=============================================================================
