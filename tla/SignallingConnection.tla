------------------------ MODULE SignallingConnection ------------------------
(***************************************************************************)
(* The WebSocket to the signalling server: WebSocketClientImplCurl, the    *)
(* FSignallingServerConnection on top of it, and what FStreamer does when  *)
(* the connection fails.                                                   *)
(*                                                                         *)
(* Every attempt to connect runs ConnProc on a detached thread of its own, *)
(* in which libcurl calls back for the response header and for messages.   *)
(* All attempts share one curl handle and one m_state, without a lock.     *)
(***************************************************************************)
CONSTANTS ConnThreads,  \* bound on the ConnProc threads alive at a time
          Endings,      \* how connections end, see EndingKinds
          NoThread

EndingKinds == { "refused",    \* no connection, or a timeout: curl fails
                 "rejected",   \* the response is not 101
                 "dropped",    \* curl fails while it receives
                 "closed" }    \* the server ends it: curl reports CURLE_OK

ASSUME SignallingAssumption ==
    /\ ConnThreads # {} /\ NoThread \notin ConnThreads
    /\ Endings \subseteq EndingKinds

VARIABLES m_state,
          at,                  \* where each ConnProc thread is
          curl,                \* the thread that performs on the handle
          PingThread,
          bPingThreadExiting,
          bSessions,           \* has the connection brought player sessions?
          crashed,             \* a join on no thread ended the process
          rejections           \* history: has a response not been 101?

vars == <<m_state, at, curl, PingThread, bPingThreadExiting, bSessions, crashed, rejections>>

\* ConnProc, and within it OnConnectionError (from "onError" to "reconnect")
\* which curl may also call while it performs ("draining" is what follows).
Places == { "none", "start", "begin", "perform", "connecting", "receiving",
            "returnedOk", "returnedError", "onError", "stopPing", "joining",
            "reconnect", "draining" }

TypeOK ==
    /\ m_state \in {"Disconnected", "Connecting", "Connected"}
    /\ at \in [ConnThreads -> Places]
    /\ curl \in ConnThreads \cup {NoThread}
    /\ PingThread \in {"uninitialized", "null", "running", "finished"}
    /\ bPingThreadExiting \in BOOLEAN
    /\ bSessions \in BOOLEAN
    /\ crashed \in BOOLEAN
    /\ rejections \in BOOLEAN

\* The constructor of FStreamer connects; that of the connection leaves
\* PingThread as it finds it, which may happen to be null.
Init ==
    /\ m_state = "Disconnected"
    /\ \E t \in ConnThreads : at = [u \in ConnThreads |-> IF u = t THEN "start" ELSE "none"]
    /\ curl = NoThread
    /\ PingThread \in {"uninitialized", "null"}
    /\ bPingThreadExiting = FALSE
    /\ bSessions = FALSE
    /\ crashed = FALSE
    /\ rejections = FALSE

Goto(t, place) == at' = [at EXCEPT ![t] = place]

-----------------------------------------------------------------------------
(* ConnProc *)

CheckState(t) ==
    /\ at[t] = "start"
    /\ Goto(t, IF m_state = "Disconnected" THEN "begin" ELSE "none")
    /\ UNCHANGED <<m_state, curl, PingThread, bPingThreadExiting, bSessions, crashed, rejections>>

SetConnecting(t) ==
    /\ at[t] = "begin"
    /\ m_state' = "Connecting"
    /\ Goto(t, "perform")
    /\ UNCHANGED <<curl, PingThread, bPingThreadExiting, bSessions, crashed, rejections>>

\* A handle that is being performed on cannot be performed on again.
Perform(t) ==
    /\ at[t] = "perform"
    /\ IF curl = NoThread
       THEN curl' = t /\ Goto(t, "connecting")
       ELSE UNCHANGED curl /\ Goto(t, "returnedError")
    /\ UNCHANGED <<m_state, PingThread, bPingThreadExiting, bSessions, crashed, rejections>>

\* Mutant: the state stays that of the connection.
SetDisconnectedNever(t) ==
    /\ at[t] \in {"returnedOk", "returnedError"}
    /\ Goto(t, IF at[t] = "returnedOk" THEN "none" ELSE "onError")
    /\ UNCHANGED <<m_state, curl, PingThread, bPingThreadExiting, bSessions, crashed, rejections>>

SetDisconnected(t) ==
    /\ at[t] \in {"returnedOk", "returnedError"}
    /\ m_state' = "Disconnected"
    /\ Goto(t, IF at[t] = "returnedOk" THEN "none" ELSE "onError")
    /\ UNCHANGED <<curl, PingThread, bPingThreadExiting, bSessions, crashed, rejections>>

-----------------------------------------------------------------------------
(* libcurl: the callbacks of curl_easy_perform, and its return. *)

Return(t, result) ==
    /\ curl' = NoThread
    /\ Goto(t, result)
    /\ UNCHANGED <<m_state, PingThread, bPingThreadExiting, bSessions, crashed, rejections>>

\* OnHeaderReceived with code 101, and OnConnected.
Accepted(t) ==
    /\ at[t] = "connecting"
    /\ m_state' = "Connected"
    /\ PingThread' = "running"
    /\ Goto(t, "receiving")
    /\ UNCHANGED <<curl, bPingThreadExiting, bSessions, crashed, rejections>>

\* OnHeaderReceived with another code calls OnConnect(Reject), inside curl.
Rejected(t) ==
    /\ "rejected" \in Endings
    /\ at[t] = "connecting"
    /\ m_state' = "Disconnected"
    /\ Goto(t, "onError")
    /\ rejections' = TRUE
    /\ UNCHANGED <<curl, PingThread, bPingThreadExiting, bSessions, crashed>>

\* OnMessageReceived: players connect over this connection.
Received(t) ==
    /\ at[t] = "receiving"
    /\ bSessions' = TRUE
    /\ UNCHANGED <<m_state, at, curl, PingThread, bPingThreadExiting, crashed, rejections>>

Ended(t) ==
    \/ "refused" \in Endings /\ at[t] = "connecting" /\ Return(t, "returnedError")
    \/ "dropped" \in Endings /\ at[t] = "receiving" /\ Return(t, "returnedError")
    \/ "closed" \in Endings /\ at[t] = "receiving" /\ Return(t, "returnedOk")
    \/ at[t] = "draining" /\ \E r \in {"returnedOk", "returnedError"} : Return(t, r)

-----------------------------------------------------------------------------
(* OnConnectionError: FStreamer::OnSignallingServerDisconnected. *)

DeleteAllPlayerSessions(t) ==
    /\ at[t] = "onError"
    /\ bSessions' = FALSE
    /\ Goto(t, "stopPing")
    /\ UNCHANGED <<m_state, curl, PingThread, bPingThreadExiting, crashed, rejections>>

\* Mutant: the ping thread is told to exit and not joined.
StopPingThreadNoJoin(t) ==
    /\ at[t] = "stopPing"
    /\ bPingThreadExiting' = TRUE
    /\ Goto(t, "reconnect")
    /\ UNCHANGED <<m_state, curl, PingThread, bSessions, crashed, rejections>>

\* Mutant: the ping thread is joined and not told to exit.
StopPingThreadUntold(t) ==
    /\ at[t] = "stopPing"
    /\ Goto(t, IF PingThread = "null" THEN "reconnect" ELSE "joining")
    /\ UNCHANGED <<m_state, curl, PingThread, bPingThreadExiting, bSessions, crashed, rejections>>

StopPingThread(t) ==
    /\ at[t] = "stopPing"
    /\ IF PingThread = "null"
       THEN Goto(t, "reconnect") /\ UNCHANGED bPingThreadExiting
       ELSE Goto(t, "joining") /\ bPingThreadExiting' = TRUE
    /\ UNCHANGED <<m_state, curl, PingThread, bSessions, crashed, rejections>>

\* To join what is no thread, or what another thread has joined and deleted,
\* ends the process.
Join(t) ==
    /\ at[t] = "joining"
    /\ PingThread # "running"
    /\ IF PingThread = "finished"
       THEN /\ PingThread' = "null"
            /\ Goto(t, "reconnect")
            /\ UNCHANGED crashed
       ELSE crashed' = TRUE /\ UNCHANGED <<PingThread, at>>
    /\ UNCHANGED <<m_state, curl, bPingThreadExiting, bSessions, rejections>>

\* Disconnect's Close sends a frame that nobody waits for; then Connect.  The
\* thread ends, or goes on in curl if the call came from there.
Connect(t) ==
    /\ at[t] = "reconnect"
    /\ LET next == [at EXCEPT ![t] = IF curl = t THEN "draining" ELSE "none"]
       IN  IF m_state = "Disconnected"
           THEN \E u \in ConnThreads : next[u] = "none" /\ at' = [next EXCEPT ![u] = "start"]
           ELSE at' = next
    /\ UNCHANGED <<m_state, curl, PingThread, bPingThreadExiting, bSessions, crashed, rejections>>

-----------------------------------------------------------------------------
\* KeepAlive pings until it is told to exit.
KeepAliveExits ==
    /\ PingThread = "running" /\ bPingThreadExiting
    /\ PingThread' = "finished"
    /\ UNCHANGED <<m_state, at, curl, bPingThreadExiting, bSessions, crashed, rejections>>

\* The steps a thread takes on its own, without the network.
ConnProc(t) ==
    \/ CheckState(t) \/ SetConnecting(t) \/ Perform(t) \/ SetDisconnected(t)
    \/ DeleteAllPlayerSessions(t) \/ StopPingThread(t) \/ Join(t) \/ Connect(t)

Network(t) == Accepted(t) \/ Rejected(t) \/ Received(t) \/ Ended(t)

Next ==
    /\ ~crashed
    /\ (\E t \in ConnThreads : ConnProc(t) \/ Network(t)) \/ KeepAliveExits

\* Threads run; the network may stay silent for ever.
Fairness == /\ \A t \in ConnThreads : WF_vars(~crashed /\ ConnProc(t))
            /\ WF_vars(~crashed /\ KeepAliveExits)

Spec == Init /\ [][Next]_vars /\ Fairness

-----------------------------------------------------------------------------
\* Send, which any thread may call, tests m_state: whenever it lets a message
\* pass, the socket is that of a connection that curl still serves, or that
\* has ended in curl and not yet in ConnProc.
SendsOnlyWhenAlive ==
    m_state = "Connected" =>
        \E t \in ConnThreads : at[t] \in {"receiving", "returnedOk", "returnedError"}

\* OnConnected overwrites PingThread: the thread of an earlier connection is
\* gone by then, or it would ping for ever with nobody left to join it.  (A
\* rejected attempt lives on in curl beside the one that follows it, and its
\* end may come between the start and the end of another connection.)
PingThreadNotLost ==
    [][(\E t \in ConnThreads : Accepted(t)) /\ ~rejections
          => PingThread \in {"uninitialized", "null"}]_vars

\* An attempt that failed, or a connection that was dropped, is followed by
\* another attempt, by this thread or one that came before it: joining the
\* ping thread never blocks it for good.
Reconnects ==
    \A t \in ConnThreads : at[t] = "onError" ~> (m_state # "Disconnected" \/ crashed)
=============================================================================
