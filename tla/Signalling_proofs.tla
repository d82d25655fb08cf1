------------------------- MODULE Signalling_proofs -------------------------
(***************************************************************************)
(* Proofs about the client of the signalling server: its connection, for   *)
(* any number of threads; the frames it cuts the stream into, for any      *)
(* frames and any cut; what the handlers make of messages that come again, *)
(* in the end nothing that anyone could tell; and the bytes of a frame.    *)
(***************************************************************************)
EXTENDS SignallingConnection, SignallingMessages, FiniteSetTheorems, TLAPS

-----------------------------------------------------------------------------
(* SignallingConnection. *)

\* The connection keeps its types.
THEOREM TypeCorrect == Spec => []TypeOK
<1>1. Init => TypeOK
  BY DEF Init, TypeOK, Places
<1>2. TypeOK /\ [Next]_vars => TypeOK'
  <2> SUFFICES ASSUME TypeOK, [Next]_vars PROVE TypeOK'
    OBVIOUS
  <2> USE DEF TypeOK, Places
  <2>1. CASE UNCHANGED vars
    BY <2>1 DEF vars
  <2>2. ASSUME NEW t \in ConnThreads, CheckState(t) \/ SetConnecting(t) \/ SetDisconnected(t)
        PROVE TypeOK'
    BY <2>2 DEF CheckState, SetConnecting, SetDisconnected, Goto
  <2>3. ASSUME NEW t \in ConnThreads, Perform(t) PROVE TypeOK'
    BY <2>3 DEF Perform, Goto
  <2>4. ASSUME NEW t \in ConnThreads, DeleteAllPlayerSessions(t) \/ StopPingThread(t) \/ Join(t)
        PROVE TypeOK'
    BY <2>4 DEF DeleteAllPlayerSessions, StopPingThread, Join, Goto
  <2>5. ASSUME NEW t \in ConnThreads, Connect(t) PROVE TypeOK'
    BY <2>5 DEF Connect
  <2>6. ASSUME NEW t \in ConnThreads, Accepted(t) \/ Rejected(t) \/ Received(t) PROVE TypeOK'
    BY <2>6 DEF Accepted, Rejected, Received, Goto
  <2>7. ASSUME NEW t \in ConnThreads, Ended(t) PROVE TypeOK'
    BY <2>7 DEF Ended, Return, Goto
  <2>8. CASE KeepAliveExits
    BY <2>8 DEF KeepAliveExits
  <2>9. QED
    BY <2>1, <2>2, <2>3, <2>4, <2>5, <2>6, <2>7, <2>8 DEF Next, ConnProc, Network
<1>3. QED
  BY <1>1, <1>2, PTL DEF Spec

-----------------------------------------------------------------------------
\* Nothing is sent but on a connection that curl serves, or has only just
\* ended, whatever the threads do between the test and the setting of m_state.
THEOREM SendsAlive == Spec => []SendsOnlyWhenAlive
<1>1. Init => SendsOnlyWhenAlive
  BY DEF Init, SendsOnlyWhenAlive
<1>2. TypeOK /\ SendsOnlyWhenAlive /\ [Next]_vars => SendsOnlyWhenAlive'
  <2> SUFFICES ASSUME TypeOK, SendsOnlyWhenAlive, [Next]_vars, m_state' = "Connected"
               PROVE  \E t \in ConnThreads :
                          at'[t] \in {"receiving", "returnedOk", "returnedError"}
    BY DEF SendsOnlyWhenAlive
  <2>1. ASSUME NEW t \in ConnThreads, Accepted(t)
        PROVE at'[t] \in {"receiving", "returnedOk", "returnedError"}
    BY <2>1 DEF Accepted, Goto, TypeOK
  <2>2. CASE \A t \in ConnThreads : ~Accepted(t)
    <3>1. m_state = "Connected"
      BY <2>2 DEF Next, ConnProc, Network, CheckState, SetConnecting, Perform, SetDisconnected,
         DeleteAllPlayerSessions, StopPingThread, Join, Connect, Rejected, Received, Ended,
         Return, KeepAliveExits, vars
    <3>2. PICK t \in ConnThreads : at[t] \in {"receiving", "returnedOk", "returnedError"}
      BY <3>1 DEF SendsOnlyWhenAlive
    \* Only a step of the thread itself moves it on, and the one that follows
    \* the end of curl clears m_state.
    <3>3. CASE UNCHANGED at
      BY <3>2, <3>3
    <3>4. ASSUME NEW u \in ConnThreads, ConnProc(u) \/ Network(u), at' # at
          PROVE at'[t] \in {"receiving", "returnedOk", "returnedError"}
      <4>1. CASE u = t
        BY <2>2, <3>2, <3>4, <4>1 DEF ConnProc, Network, CheckState, SetConnecting, Perform,
           SetDisconnected, DeleteAllPlayerSessions, StopPingThread, Join, Connect, Rejected,
           Received, Ended, Return, Goto, TypeOK
      <4>2. CASE u # t /\ ~Connect(u)
        BY <2>2, <3>2, <3>4, <4>2 DEF ConnProc, Network, CheckState, SetConnecting, Perform,
           SetDisconnected, DeleteAllPlayerSessions, StopPingThread, Join, Rejected,
           Received, Ended, Return, Goto, TypeOK
      <4>3. CASE u # t /\ Connect(u)
        BY <3>2, <4>3 DEF Connect, TypeOK
      <4>4. QED
        BY <4>1, <4>2, <4>3
    <3>5. QED
      BY <3>2, <3>3, <3>4 DEF Next, KeepAliveExits, vars
  <2>3. QED
    BY <2>1, <2>2
<1>3. QED
  BY <1>1, <1>2, TypeCorrect, PTL DEF Spec

-----------------------------------------------------------------------------
\* As long as no response has been refused there is one connection thread at a
\* time, and the handle is its own while it is in curl.
OneThread ==
    /\ \A t, u \in ConnThreads : at[t] # "none" /\ at[u] # "none" => t = u
    /\ \A t \in ConnThreads : at[t] # "draining"
    /\ \A t \in ConnThreads : at[t] \in {"connecting", "receiving"} <=> (curl = t)

\* Before a connection there is no ping thread: that of the last one was joined.
NoneBefore ==
    \A t \in ConnThreads : at[t] \in {"start", "begin", "perform", "connecting", "reconnect"}
                               => PingThread \in {"uninitialized", "null"}

PingInv == ~rejections => OneThread /\ NoneBefore

\* The inductive invariant behind PingThreadNotLost.
THEOREM OnePingThread == Spec => []PingInv
<1>1. Init => PingInv
  BY SignallingAssumption DEF Init, PingInv, OneThread, NoneBefore
<1>2. TypeOK /\ PingInv /\ [Next]_vars => PingInv'
  <2> SUFFICES ASSUME TypeOK, PingInv, [Next]_vars, ~rejections'
               PROVE  OneThread' /\ NoneBefore'
    BY DEF PingInv
  <2>0. ~rejections
    BY DEF Next, ConnProc, Network, CheckState, SetConnecting, Perform, SetDisconnected,
       DeleteAllPlayerSessions, StopPingThread, Join, Connect, Accepted, Rejected, Received,
       Ended, Return, KeepAliveExits, vars
  <2> USE SignallingAssumption, <2>0 DEF PingInv, OneThread, NoneBefore, TypeOK
  <2>1. CASE UNCHANGED vars
    BY <2>1 DEF vars
  <2>2. ASSUME NEW t \in ConnThreads, CheckState(t) \/ SetConnecting(t) \/ SetDisconnected(t)
        PROVE OneThread' /\ NoneBefore'
    BY <2>2 DEF CheckState, SetConnecting, SetDisconnected, Goto
  <2>3. ASSUME NEW t \in ConnThreads, Perform(t) PROVE OneThread' /\ NoneBefore'
    BY <2>3 DEF Perform, Goto
  <2>4. ASSUME NEW t \in ConnThreads, DeleteAllPlayerSessions(t) \/ StopPingThread(t) \/ Join(t)
        PROVE OneThread' /\ NoneBefore'
    BY <2>4 DEF DeleteAllPlayerSessions, StopPingThread, Join, Goto
  <2>5. ASSUME NEW t \in ConnThreads, Connect(t) PROVE OneThread' /\ NoneBefore'
    <3>1. curl # t
      BY <2>5 DEF Connect
    <3>2. \A u \in ConnThreads \ {t} : at[u] = "none"
      BY <2>5 DEF Connect
    <3>3. PingThread \in {"uninitialized", "null"}
      BY <2>5 DEF Connect
    <3>4. QED
      BY <2>5, <3>1, <3>2, <3>3 DEF Connect
  <2>6. ASSUME NEW t \in ConnThreads, Accepted(t) \/ Received(t) PROVE OneThread' /\ NoneBefore'
    BY <2>6 DEF Accepted, Received, Goto
  <2>7. ASSUME NEW t \in ConnThreads, Ended(t) PROVE OneThread' /\ NoneBefore'
    BY <2>7 DEF Ended, Return, Goto
  <2>8. CASE KeepAliveExits
    BY <2>8 DEF KeepAliveExits
  <2>9. ASSUME NEW t \in ConnThreads PROVE ~Rejected(t)
    BY DEF Rejected
  <2>10. QED
    BY <2>1, <2>2, <2>3, <2>4, <2>5, <2>6, <2>7, <2>8, <2>9 DEF Next, ConnProc, Network
<1>3. QED
  BY <1>1, <1>2, TypeCorrect, PTL DEF Spec

\* A connection that is accepted never overwrites the ping thread of another
\* one, as long as no response has been refused.
THEOREM PingThreadKept == Spec => PingThreadNotLost
<1>1. PingInv /\ [Next]_vars =>
        [(\E t \in ConnThreads : Accepted(t)) /\ ~rejections
             => PingThread \in {"uninitialized", "null"}]_vars
  BY DEF PingInv, NoneBefore, Accepted
<1>2. QED
  BY <1>1, OnePingThread, PTL DEF Spec, PingThreadNotLost

-----------------------------------------------------------------------------
(* WebSocketFrames. *)

\* What the parser has already dropped from its buffer was complete.
DroppedComplete == \A f \in Frames : f < first => Complete(received, f)

FramesInv == FramesTypeOK /\ DroppedComplete /\ NothingHeldBack /\ NothingEarly /\ NewestLast

LEMMA FrameRunIs ==
    ASSUME NEW from \in Nat \ {0}, NEW to \in 0 .. N
    PROVE  /\ FrameRun(from, to) \in Seq(Frames)
           /\ to < from => FrameRun(from, to) = <<>>
           /\ to >= from => /\ Len(FrameRun(from, to)) = to - from + 1
                            /\ FrameRun(from, to)[to - from + 1] = to
           /\ \A f \in from .. to :
                 /\ f - from + 1 \in 1 .. Len(FrameRun(from, to))
                 /\ FrameRun(from, to)[f - from + 1] = f
           /\ \A i \in 1 .. Len(FrameRun(from, to)) : FrameRun(from, to)[i] \in from .. to
  <1>1. CASE to < from
    <2>1. 1 .. (to - from + 1) = {}
      BY <1>1, FramesAssumption
    <2>2. FrameRun(from, to) = <<>>
      BY <2>1 DEF FrameRun
    <2>3. QED
      BY <1>1, <2>2, FramesAssumption
  <1>2. CASE to >= from
    <2>. DEFINE n == to - from + 1
    <2>1. n \in Nat /\ \A i \in 1 .. n : from + i - 1 \in Frames /\ from + i - 1 \in from .. to
      BY <1>2, FramesAssumption DEF Frames
    <2>2. FrameRun(from, to) \in [1 .. n -> Frames]
      BY <2>1 DEF FrameRun
    <2>3. FrameRun(from, to) \in Seq(Frames) /\ Len(FrameRun(from, to)) = n
      BY <2>1, <2>2
    <2>4. QED
      BY <1>2, <2>1, <2>3, FramesAssumption DEF FrameRun
  <1>3. QED
    BY <1>1, <1>2, FramesAssumption

LEMMA FramesInvStep == FramesInv /\ [FramesNext]_frameVars => FramesInv'
  <1>. SUFFICES ASSUME FramesInv, [FramesNext]_frameVars PROVE FramesInv'
    OBVIOUS
  <1>1. CASE UNCHANGED frameVars
    BY <1>1 DEF frameVars, FramesInv, FramesTypeOK, DroppedComplete, NothingHeldBack, NothingEarly,
                NewestLast, DeliveredSet, Complete
  <1>2. CASE FramesNext
    <2>1. PICK bytes \in 1 .. End[N] : OnMessageReceived(bytes)
      BY <1>2 DEF FramesNext
    <2>2. PICK last \in 0 .. N :
             /\ \A f \in Frames : f <= last <=> Complete(received', f)
             /\ delivered' = delivered \o FrameRun(first, last)
             /\ first' = IF last \in Frames /\ received' = End[last] THEN last + 1 ELSE first
      BY <2>1 DEF OnMessageReceived
    <2>. DEFINE run == FrameRun(first, last)
    <2>3. /\ End[N] \in Nat /\ received \in Nat /\ received' \in 0 .. End[N]
          /\ received <= received' /\ N \in Nat \ {0}
          /\ first \in Nat \ {0} /\ first <= N + 1
      BY <2>1, FramesAssumption DEF OnMessageReceived, FramesInv, FramesTypeOK, Frames
    <2>4. \A f : Complete(received, f) => Complete(received', f)
      BY <2>3, FramesAssumption DEF Complete
    <2>5. /\ run \in Seq(Frames) /\ delivered \in Seq(Frames)
          /\ last < first => run = <<>>
          /\ last >= first => Len(run) = last - first + 1 /\ run[last - first + 1] = last
          /\ \A f \in first .. last : f - first + 1 \in 1 .. Len(run) /\ run[f - first + 1] = f
          /\ \A i \in 1 .. Len(run) : run[i] \in first .. last
      BY <2>3, FrameRunIs DEF FramesInv, FramesTypeOK
    <2>. HIDE DEF run
    <2>6. /\ delivered' \in Seq(Frames) /\ Len(delivered') = Len(delivered) + Len(run)
          /\ \A i \in 1 .. Len(delivered) : delivered'[i] = delivered[i]
          /\ \A i \in 1 .. Len(run) : delivered'[Len(delivered) + i] = run[i]
          /\ DOMAIN delivered' = 1 .. (Len(delivered) + Len(run))
          /\ Len(delivered) \in Nat /\ Len(run) \in Nat
      <3>1. delivered' = delivered \o run
        BY <2>2 DEF run
      <3>2. QED
        BY <2>5, <3>1
    <2>7. DeliveredSet' = DeliveredSet \cup {run[i] : i \in 1 .. Len(run)}
      <3>1. \A i \in DOMAIN delivered' : \/ i \in DOMAIN delivered
                                          \/ i - Len(delivered) \in 1 .. Len(run)
        BY <2>5, <2>6
      <3>2. ASSUME NEW i \in DOMAIN delivered'
            PROVE  delivered'[i] \in DeliveredSet \cup {run[j] : j \in 1 .. Len(run)}
        <4>1. CASE i \in DOMAIN delivered
          BY <2>5, <2>6, <4>1 DEF DeliveredSet
        <4>2. CASE i - Len(delivered) \in 1 .. Len(run)
          <5>1. delivered'[Len(delivered) + (i - Len(delivered))] = run[i - Len(delivered)]
            BY <2>6, <4>2
          <5>2. Len(delivered) + (i - Len(delivered)) = i
            BY <2>6
          <5>3. QED
            BY <4>2, <5>1, <5>2
        <4>3. QED
          BY <3>1, <4>1, <4>2
      <3>3. \A i \in DOMAIN delivered : i \in DOMAIN delivered' /\ delivered'[i] = delivered[i]
        BY <2>5, <2>6
      <3>4. \A i \in 1 .. Len(run) : /\ Len(delivered) + i \in DOMAIN delivered'
                                     /\ delivered'[Len(delivered) + i] = run[i]
        BY <2>6
      <3>5. QED
        BY <3>2, <3>3, <3>4 DEF DeliveredSet
    <2>8. \A f \in Frames : f < first => f <= last
      BY <2>2, <2>4 DEF FramesInv, DroppedComplete
    <2>9. FramesTypeOK'
      BY <2>2, <2>3, <2>6 DEF FramesTypeOK, Frames
    <2>10. DroppedComplete'
      <3>1. \A f \in Frames : f < first' => f <= last
        BY <2>2, <2>3, <2>8 DEF Frames
      <3>2. QED
        BY <2>2, <3>1 DEF DroppedComplete
    <2>11. NothingHeldBack'
      <3>1. ASSUME NEW f \in Frames, Complete(received', f) PROVE f \in DeliveredSet'
        <4>1. f <= last
          BY <2>2, <3>1
        <4>2. CASE f < first
          BY <2>7, <4>2 DEF FramesInv, DroppedComplete, NothingHeldBack
        <4>3. CASE f >= first
          <5>1. f \in first .. last
            BY <2>3, <4>1, <4>3 DEF Frames
          <5>2. QED
            BY <2>5, <2>7, <5>1
        <4>4. QED
          BY <2>3, <4>2, <4>3 DEF Frames
      <3>2. QED
        BY <3>1 DEF NothingHeldBack
    <2>12. NothingEarly'
      <3>1. \A i \in 1 .. Len(run) : run[i] \in Frames /\ run[i] <= last
        <4>1. \A f \in first .. last : f \in Frames /\ f <= last
          BY <2>3 DEF Frames
        <4>2. QED
          BY <2>5, <4>1
      <3>2. \A i \in 1 .. Len(run) : Complete(received', run[i])
        BY <2>2, <3>1
      <3>3. \A f \in DeliveredSet : Complete(received', f)
        BY <2>4 DEF FramesInv, NothingEarly
      <3>4. \A f \in DeliveredSet' : Complete(received', f)
        BY <2>7, <3>2, <3>3
      <3>5. QED
        BY <3>4 DEF NothingEarly
    <2>13. NewestLast'
      <3>1. CASE last >= first
        <4>1. Len(run) = last - first + 1 /\ delivered'[Len(delivered')] = last
          BY <2>3, <2>5, <2>6, <3>1
        <4>2. ~ Complete(received', last + 1)
          BY <2>2 DEF Complete, Frames
        <4>3. QED
          BY <4>1, <4>2 DEF NewestLast, Complete
      <3>2. CASE last < first
        <4>1. run = <<>> /\ delivered' = delivered
          BY <2>2, <2>5, <3>2 DEF run
        <4>. DEFINE d == delivered[Len(delivered)]
        <4>2. CASE delivered = <<>>
          BY <4>1, <4>2 DEF NewestLast
        <4>3. CASE delivered # <<>>
          <5>1. d \in Frames /\ ~ Complete(received, d + 1)
            BY <2>5, <4>3 DEF FramesInv, NewestLast
          <5>. HIDE DEF d
          <5>2. d + 1 \in Frames => d + 1 >= first
            BY <2>3, <5>1 DEF FramesInv, DroppedComplete, Frames
          <5>3. ~ Complete(received', d + 1)
            BY <2>2, <2>3, <3>2, <5>2 DEF Complete, Frames
          <5>4. QED
            BY <4>1, <5>3 DEF NewestLast, Complete, d
        <4>4. QED
          BY <4>2, <4>3
      <3>3. QED
        BY <2>3, <3>1, <3>2
    <2>14. QED
      BY <2>9, <2>10, <2>11, <2>12, <2>13 DEF FramesInv
  <1>3. QED
    BY <1>1, <1>2

LEMMA FramesInitInv == FramesInit => FramesInv
  <1>. SUFFICES ASSUME FramesInit PROVE FramesInv
    OBVIOUS
  <1>1. /\ N \in Nat \ {0} /\ N \in Frames /\ End[N] \in Nat
        /\ \A f \in Frames : ~ Complete(0, f)
    BY FramesAssumption DEF Frames, Complete
  <1>2. DOMAIN delivered = {} /\ delivered \in Seq(Frames)
    BY DEF FramesInit
  <1>3. QED
    BY <1>1, <1>2 DEF FramesInit, FramesInv, FramesTypeOK, DroppedComplete, NothingHeldBack,
                      NothingEarly, NewestLast, DeliveredSet, Frames

\* However the stream is cut, no frame that has arrived is held back.
THEOREM FramesDelivered == FramesSpec => []NothingHeldBack
  <1>1. FramesInv => NothingHeldBack
    BY DEF FramesInv
  <1>2. QED
    BY <1>1, FramesInitInv, FramesInvStep, PTL DEF FramesSpec

\* Nothing is handed to OnRecv before it is complete.
THEOREM FramesWhole == FramesSpec => []NothingEarly
  <1>1. FramesInv => NothingEarly
    BY DEF FramesInv
  <1>2. QED
    BY <1>1, FramesInitInv, FramesInvStep, PTL DEF FramesSpec

\* What the handlers saw last is the newest frame, although frames come again.
THEOREM NewestFrameLast == FramesSpec => []NewestLast
  <1>1. FramesInv => NewestLast
    BY DEF FramesInv
  <1>2. QED
    BY <1>1, FramesInitInv, FramesInvStep, PTL DEF FramesSpec

-----------------------------------------------------------------------------
(* SignallingMessages: the handlers, for any messages in any order that the *)
(* signalling server may send them in.                                      *)

Session ==
    [configured : BOOLEAN, channel : BOOLEAN,
     direction : {"none", "send and receive", "send", "receive", "inactive"},
     track : BOOLEAN, sinks : Nat, negotiation : {"new", "offered", "connected"},
     candidates : {0, 1}, bDisconnecting : BOOLEAN]

PlayerMaps == UNION {[S -> Session] : S \in SUBSET Int}

\* The controller and what was sent may be anything.
StateOK(s) ==
    s \in [Players : PlayerMaps, controller : {s.controller}, configured : BOOLEAN,
           bAudioSource : BOOLEAN, bStreamingStarted : BOOLEAN, sent : {s.sent}]

\* What a message does to a session that stays.
Stays(s, t, p) ==
    /\ p \in Live(t)
    /\ s.Players[p].negotiation = "connected" => t.Players[p] =
           [s.Players[p] EXCEPT !.candidates = t.Players[p].candidates]
    /\ s.Players[p].candidates <= t.Players[p].candidates

\* From s to t nothing changes but the session of p, and what all share.
Only(s, t, p) ==
    /\ StateOK(t) /\ Live(t) = Live(s)
    /\ \A q \in Live(s) \ {p} : t.Players[q] = s.Players[q]

LEMMA PlayersOf ==
    ASSUME NEW s, StateOK(s)
    PROVE  /\ Live(s) \subseteq Int /\ s.Players \in [Live(s) -> Session]
           /\ s.configured \in BOOLEAN
  BY DEF StateOK, PlayerMaps, Live

LEMMA SessionChanges ==
    ASSUME NEW r \in Session
    PROVE  /\ [r EXCEPT !.track = TRUE] \in Session
           /\ \A d \in {"none", "send and receive", "send", "receive", "inactive"} :
                 [r EXCEPT !.direction = d] \in Session
           /\ [r EXCEPT !.sinks = @ + 1] \in Session
           /\ [r EXCEPT !.sinks = @ + 1].candidates = r.candidates
           /\ [r EXCEPT !.bDisconnecting = TRUE] \in Session
           /\ \A n \in {"new", "offered", "connected"} :
                 /\ [r EXCEPT !.negotiation = n] \in Session
                 /\ [r EXCEPT !.negotiation = n].candidates = r.candidates
  <1>1. [r EXCEPT !.track = TRUE] \in Session
    BY DEF Session
  <1>2. \A d \in {"none", "send and receive", "send", "receive", "inactive"} :
           [r EXCEPT !.direction = d] \in Session
    BY DEF Session
  <1>3. [r EXCEPT !.sinks = @ + 1] \in Session
    <2>1. r.sinks + 1 \in Nat
      <3>1. r.sinks \in Nat
        BY DEF Session
      <3>2. \A i \in Nat : i + 1 \in Nat
        OBVIOUS
      <3>3. QED
        BY <3>1, <3>2
    <2>2. \A k \in Nat : [r EXCEPT !.sinks = k] \in Session
      BY DEF Session
    <2>3. QED
      BY <2>1, <2>2
  <1>4. [r EXCEPT !.sinks = @ + 1].candidates = r.candidates
    BY DEF Session
  <1>5. [r EXCEPT !.bDisconnecting = TRUE] \in Session
    BY DEF Session
  <1>6. \A n \in {"new", "offered", "connected"} :
           /\ [r EXCEPT !.negotiation = n] \in Session
           /\ [r EXCEPT !.negotiation = n].candidates = r.candidates
    BY DEF Session
  <1>7. QED
    BY <1>1, <1>2, <1>3, <1>4, <1>5, <1>6

\* A record of the sessions takes the place of the one before.
LEMMA Replaced ==
    ASSUME NEW s, StateOK(s), NEW S \in SUBSET Int, NEW players \in [S -> Session]
    PROVE  /\ StateOK([s EXCEPT !.Players = players])
           /\ Live([s EXCEPT !.Players = players]) = S
           /\ [s EXCEPT !.Players = players].Players = players
           /\ [s EXCEPT !.Players = players].configured = s.configured
  <1>1. players \in PlayerMaps
    BY DEF PlayerMaps
  <1>2. QED
    BY <1>1 DEF StateOK, Live

\* One session takes the place of the one before.
LEMMA OneReplaced ==
    ASSUME NEW s, StateOK(s), NEW p \in Live(s), NEW session \in Session
    PROVE  LET t == [s EXCEPT !.Players[p] = session] IN
           Only(s, t, p) /\ t.Players[p] = session
  <1>. DEFINE players == [s.Players EXCEPT ![p] = session]
              t == [s EXCEPT !.Players[p] = session]
  <1>1. players \in [Live(s) -> Session] /\ Live(s) \subseteq Int
    BY PlayersOf
  <1>2. t = [s EXCEPT !.Players = players]
    BY DEF StateOK
  <1>4. players[p] = session /\ \A q \in Live(s) \ {p} : players[q] = s.Players[q]
    BY PlayersOf
  <1>. HIDE DEF players, t
  <1>3. StateOK(t) /\ Live(t) = Live(s) /\ t.Players = players
    BY <1>1, <1>2, Replaced
  <1>5. QED
    BY <1>3, <1>4 DEF Only, t

LEMMA OnlySame == ASSUME NEW s, StateOK(s), NEW p PROVE Only(s, s, p)
  BY DEF Only

LEMMA OnlyThen ==
    ASSUME NEW s, NEW t, NEW u, NEW p, Only(s, t, p), Only(t, u, p)
    PROVE  Only(s, u, p)
  BY DEF Only

\* What is sent and that streaming has started do not touch the sessions.
LEMMA Replied ==
    ASSUME NEW s, StateOK(s), NEW type, NEW id
    PROVE  /\ StateOK(Reply(s, type, id)) /\ Reply(s, type, id).Players = s.Players
           /\ Live(Reply(s, type, id)) = Live(s)
  BY DEF StateOK, Reply, Live

LEMMA Started ==
    ASSUME NEW s, StateOK(s)
    PROVE  LET t == [s EXCEPT !.bStreamingStarted = TRUE] IN
           StateOK(t) /\ t.Players = s.Players /\ Live(t) = Live(s)
  BY DEF StateOK, Live

LEMMA SourceMade ==
    ASSUME NEW s, StateOK(s)
    PROVE  LET t == [s EXCEPT !.bAudioSource = TRUE] IN
           StateOK(t) /\ t.Players = s.Players /\ Live(t) = Live(s)
  BY DEF StateOK, Live

-----------------------------------------------------------------------------
(* The steps of the handlers. *)

LEMMA Tracked ==
    ASSUME NEW s, StateOK(s), NEW p \in Live(s)
    PROVE  Only(s, SetupAudioTrack(s, p), p)
  <1>. DEFINE u == [s EXCEPT !.bAudioSource = TRUE]
              session == [s.Players[p] EXCEPT !.track = TRUE]
  <1>1. CASE ~bTransmitUEAudio
    BY <1>1, OnlySame DEF SetupAudioTrack
  <1>2. CASE bTransmitUEAudio
    <2>1. StateOK(u) /\ u.Players = s.Players /\ Live(u) = Live(s)
      BY SourceMade
    <2>2. session \in Session
      BY PlayersOf, SessionChanges
    <2>. HIDE DEF session
    <2>3. Only(u, [u EXCEPT !.Players[p] = session], p)
      BY <2>1, <2>2, OneReplaced
    <2>4. SetupAudioTrack(s, p) = [u EXCEPT !.Players[p] = session]
      BY <1>2 DEF SetupAudioTrack, StateOK, session
    <2>5. QED
      BY <2>1, <2>3, <2>4 DEF Only
  <1>3. QED
    BY <1>1, <1>2

LEMMA Modified ==
    ASSUME NEW s, StateOK(s), NEW p \in Live(s), NEW bOffered
    PROVE  Only(s, ModifyTransceivers(s, p, bOffered), p)
  <1>. DEFINE session == [s.Players[p] EXCEPT !.direction = AudioTransceiverDirection]
  <1>1. AudioTransceiverDirection \in {"none", "send and receive", "send", "receive", "inactive"}
    BY MessagesAssumption DEF AudioTransceiverDirection
  <1>2. session \in Session
    BY <1>1, PlayersOf, SessionChanges
  <1>3. [s EXCEPT !.Players[p].direction = AudioTransceiverDirection] =
           [s EXCEPT !.Players[p] = session]
    BY DEF StateOK
  <1>. HIDE DEF session
  <1>4. Only(s, [s EXCEPT !.Players[p] = session], p)
    BY <1>2, OneReplaced
  <1>5. QED
    BY <1>3, <1>4, OnlySame DEF ModifyTransceivers

LEMMA Streamed ==
    ASSUME NEW s, StateOK(s), NEW p \in Live(s), NEW bOffered
    PROVE  Only(s, AddStreams(s, p, bOffered), p)
  <1>. DEFINE t == SetupAudioTrack(s, p)
  <1>1. Only(s, t, p)
    BY Tracked
  <1>2. StateOK(t) /\ p \in Live(t)
    BY <1>1 DEF Only
  <1>. HIDE DEF t
  <1>3. Only(t, ModifyTransceivers(t, p, bOffered), p)
    BY <1>2, Modified
  <1>4. QED
    BY <1>1, <1>3, OnlyThen DEF AddStreams, t

\* A track of the browser adds a sink and changes nothing else of the session.
LEMMA OnTracked ==
    ASSUME NEW s, StateOK(s), NEW p \in Live(s), NEW direction
    PROVE  /\ Only(s, OnTrack(s, p, direction), p)
           /\ OnTrack(s, p, direction).Players[p].candidates = s.Players[p].candidates
  <1>. DEFINE session == [s.Players[p] EXCEPT !.sinks = @ + 1]
  <1>1. session \in Session /\ session.candidates = s.Players[p].candidates
    BY PlayersOf, SessionChanges
  <1>2. AddSinkToAudioTrack(s, p) = [s EXCEPT !.Players[p] = session]
    BY DEF AddSinkToAudioTrack, StateOK
  <1>. HIDE DEF session
  <1>3. Only(s, [s EXCEPT !.Players[p] = session], p) /\ [s EXCEPT !.Players[p] = session].Players[p] = session
    BY <1>1, OneReplaced
  <1>4. QED
    BY <1>1, <1>2, <1>3, OnlySame DEF OnTrack

LEMMA Disconnecting ==
    ASSUME NEW s, StateOK(s), NEW p \in Live(s)
    PROVE  Only(s, DisconnectPlayer(s, p), p)
  <1>. DEFINE session == [s.Players[p] EXCEPT !.bDisconnecting = TRUE]
              t == [s EXCEPT !.Players[p] = session]
  <1>1. session \in Session
    BY PlayersOf, SessionChanges
  <1>2. [s EXCEPT !.Players[p].bDisconnecting = TRUE] = t
    BY DEF StateOK
  <1>. HIDE DEF session
  <1>3. Only(s, t, p)
    BY <1>1, OneReplaced
  <1>. HIDE DEF t
  <1>4. StateOK(t)
    BY <1>3 DEF Only
  <1>5. Only(s, Reply(t, "disconnectPlayer", p), p)
    BY <1>3, <1>4, Replied DEF Only
  <1>6. QED
    BY <1>2, <1>5, OnlySame DEF DisconnectPlayer

LEMMA Negotiated ==
    ASSUME NEW s, StateOK(s), NEW p \in Live(s), NEW n \in {"new", "offered", "connected"}
    PROVE  LET t == [s EXCEPT !.Players[p].negotiation = n] IN
           Only(s, t, p) /\ t.Players[p].candidates = s.Players[p].candidates
  <1>. DEFINE session == [s.Players[p] EXCEPT !.negotiation = n]
  <1>1. session \in Session /\ session.candidates = s.Players[p].candidates
    BY PlayersOf, SessionChanges
  <1>2. [s EXCEPT !.Players[p].negotiation = n] = [s EXCEPT !.Players[p] = session]
    BY DEF StateOK
  <1>. HIDE DEF session
  <1>3. QED
    BY <1>1, <1>2, OneReplaced

\* A session is made where there was none.
LEMMA Created ==
    ASSUME NEW s, StateOK(s), NEW p \in Int, p \notin Live(s), NEW bDataChannel \in BOOLEAN
    PROVE  LET t == CreateSession(s, p, bDataChannel) IN
           /\ StateOK(t) /\ Live(t) = Live(s) \cup {p}
           /\ \A q \in Live(s) : t.Players[q] = s.Players[q]
  <1>. DEFINE session == NewSession(s, bDataChannel)
              players == [q \in Live(s) \cup {p} |-> IF q = p THEN session ELSE s.Players[q]]
              joined == WithSession(s, p, session)
  <1>1. session \in Session
    BY PlayersOf DEF NewSession, Session
  <1>. HIDE DEF session
  <1>2. players \in [Live(s) \cup {p} -> Session] /\ Live(s) \cup {p} \in SUBSET Int
    BY <1>1, PlayersOf
  <1>3. joined = [s EXCEPT !.Players = players]
    BY DEF WithSession
  <1>5. \A q \in Live(s) : players[q] = s.Players[q]
    OBVIOUS
  <1>. HIDE DEF players, joined
  <1>4. StateOK(joined) /\ Live(joined) = Live(s) \cup {p} /\ joined.Players = players
    BY <1>2, <1>3, Replaced
  <1>6. LET t == [joined EXCEPT !.controller = p] IN
        StateOK(t) /\ Live(t) = Live(joined) /\ t.Players = joined.Players
    BY <1>4 DEF StateOK, Live
  <1>7. CreateSession(s, p, bDataChannel) \in {joined, [joined EXCEPT !.controller = p]}
    BY DEF CreateSession, joined, session
  <1>8. QED
    BY <1>4, <1>5, <1>6, <1>7

-----------------------------------------------------------------------------
(* The handlers. *)

\* Every session stays, but perhaps that of p.
KeptBut(s, t, p) == StateOK(t) /\ \A q \in Live(s) : q = p \/ Stays(s, t, q)

Kept(s, t) == StateOK(t) /\ \A q \in Live(s) : Stays(s, t, q)

LEMMA Unchanged ==
    ASSUME NEW s, StateOK(s), NEW t, NEW q \in Live(s), q \in Live(t), t.Players[q] = s.Players[q]
    PROVE  Stays(s, t, q)
  <1>1. s.Players[q] \in Session
    BY PlayersOf
  <1>2. [s.Players[q] EXCEPT !.candidates = s.Players[q].candidates] = s.Players[q]
    BY <1>1 DEF Session
  <1>3. s.Players[q].candidates <= s.Players[q].candidates
    <2>1. s.Players[q].candidates \in {0, 1}
      BY <1>1 DEF Session
    <2>2. QED
      BY <2>1
  <1>4. QED
    BY <1>2, <1>3 DEF Stays

\* A session of its own that is changed, or made, leaves the others.
LEMMA OthersStay ==
    ASSUME NEW s, StateOK(s), NEW t, StateOK(t), NEW p, Live(s) \subseteq Live(t),
           \A q \in Live(s) \ {p} : t.Players[q] = s.Players[q],
           p \in Live(s) => Stays(s, t, p)
    PROVE  Kept(s, t)
  BY Unchanged DEF Kept

LEMMA IdIsInt ==
    ASSUME NEW n \in PlayerIds
    PROVE  ToPlayerId(n) \in Int
  <1>1. n \in Int /\ WordSize \in Int
    BY MessagesAssumption
  <1>2. n - WordSize \in Int
    BY <1>1
  <1>3. QED
    BY <1>1, <1>2 DEF ToPlayerId

LEMMA ConnectedStep ==
    ASSUME NEW s, StateOK(s), NEW m, m.id \in PlayerIds, m.dataChannel \in BOOLEAN
    PROVE  Kept(s, OnPlayerConnected(s, m))
  <1>. DEFINE p == ToPlayerId(m.id)
              c == CreateSession(s, p, m.dataChannel)
              made == AddStreams(c, p, FALSE)
              n == [made EXCEPT !.Players[p].negotiation = "offered"]
              t == OnPlayerConnected(s, m)
  <1>. SUFFICES Kept(s, t)
    OBVIOUS
  <1>1. CASE p \in Live(s)
    <2>1. t = s
      BY <1>1 DEF OnPlayerConnected, Creates
    <2>2. QED
      BY <2>1, Unchanged DEF Kept
  <1>2. CASE p \notin Live(s)
    <2>1. p \in Int
      BY IdIsInt
    <2>2. t = Reply(Reply(n, "iceCandidate", p), "offer", p)
      BY <1>2 DEF OnPlayerConnected, Creates, SetLocalDescription, SendIceCandidate
    <2>. HIDE DEF p, t
    <2>3. /\ StateOK(c) /\ Live(c) = Live(s) \cup {p}
          /\ \A q \in Live(s) : c.Players[q] = s.Players[q]
      BY <1>2, <2>1, Created
    <2>. HIDE DEF c
    <2>4. Only(c, made, p)
      BY <2>3, Streamed
    <2>. HIDE DEF made
    <2>9. StateOK(made) /\ p \in Live(made)
      BY <2>3, <2>4 DEF Only
    <2>5. Only(made, n, p)
      BY <2>9, Negotiated
    <2>. HIDE DEF n
    <2>6. Only(c, n, p)
      BY <2>4, <2>5, OnlyThen
    <2>7. StateOK(t) /\ t.Players = n.Players /\ Live(t) = Live(n)
      BY <2>2, <2>6, Replied DEF Only
    <2>8. QED
      BY <1>2, <2>3, <2>6, <2>7, OthersStay DEF Only
  <1>3. QED
    BY <1>1, <1>2

LEMMA AnswerSent ==
    ASSUME NEW s, StateOK(s), NEW p \in Live(s)
    PROVE  Only(s, SendAnswer(s, p), p)
  <1>. DEFINE a == OnTrack(s, p, "receive")
              b == AddStreams(a, p, TRUE)
              c == Reply(b, "iceCandidate", p)
              d == [c EXCEPT !.Players[p].negotiation = "connected"]
              e == [d EXCEPT !.bStreamingStarted = TRUE]
  <1>1. Only(s, a, p)
    BY OnTracked
  <1>2. StateOK(a) /\ p \in Live(a)
    BY <1>1 DEF Only
  <1>. HIDE DEF a
  <1>3. Only(s, b, p)
    BY <1>1, <1>2, Streamed, OnlyThen
  <1>. HIDE DEF b
  <1>4. Only(s, c, p)
    BY <1>3, Replied DEF Only
  <1>5. SetLocalDescription(b, p) = c
    BY DEF SetLocalDescription, SendIceCandidate
  <1>. HIDE DEF c
  <1>6. StateOK(c) /\ p \in Live(c)
    BY <1>4 DEF Only
  <1>7. Only(c, d, p)
    BY <1>6, Negotiated
  <1>8. [c EXCEPT !.Players[p].negotiation = "connected", !.bStreamingStarted = TRUE] = e
    BY <1>6 DEF StateOK
  <1>. HIDE DEF d
  <1>9. Only(s, d, p)
    BY <1>4, <1>7, OnlyThen
  <1>10. Only(s, e, p)
    BY <1>9, Started DEF Only
  <1>. HIDE DEF e
  <1>11. Only(s, Reply(e, "answer", p), p)
    BY <1>10, Replied DEF Only
  <1>12. SendAnswer(s, p) = Reply(e, "answer", p)
    BY <1>5, <1>8 DEF SendAnswer, a, b
  <1>13. QED
    BY <1>11, <1>12

LEMMA OfferStep ==
    ASSUME NEW s, StateOK(s), NEW m, m.id \in PlayerIds, m.sdp \in Sdps
    PROVE  Kept(s, OnOffer(s, m))
  <1>. DEFINE p == ToPlayerId(m.id)
              c == CreateSession(s, p, TRUE)
              t == OnOffer(s, m)
  <1>. SUFFICES Kept(s, t)
    OBVIOUS
  <1>1. CASE p \in Live(s)
    <2>1. t = s
      BY <1>1 DEF OnOffer, Creates
    <2>2. QED
      BY <2>1, Unchanged DEF Kept
  <1>2. CASE p \notin Live(s)
    <2>1. p \in Int
      BY IdIsInt
    <2>2. t \in {c, DisconnectPlayer(c, p), SendAnswer(c, p)}
      BY <1>2 DEF OnOffer, Creates, Sdps
    <2>. HIDE DEF p, t
    <2>3. /\ StateOK(c) /\ Live(c) = Live(s) \cup {p}
          /\ \A q \in Live(s) : c.Players[q] = s.Players[q]
      BY <1>2, <2>1, Created
    <2>. HIDE DEF c
    <2>4. Only(c, t, p)
      BY <2>2, <2>3, OnlySame, Disconnecting, AnswerSent
    <2>5. QED
      BY <1>2, <2>3, <2>4, OthersStay DEF Only
  <1>3. QED
    BY <1>1, <1>2

LEMMA AnswerStep ==
    ASSUME NEW s, StateOK(s), NEW m
    PROVE  Kept(s, OnAnswer(s, m))
  <1>. DEFINE p == ToPlayerId(m.id)
              u == [s EXCEPT !.bStreamingStarted = TRUE]
              n == [u EXCEPT !.Players[p].negotiation = "connected"]
              t == OnAnswer(s, m)
  <1>. SUFFICES Kept(s, t)
    OBVIOUS
  <1>1. StateOK(u) /\ u.Players = s.Players /\ Live(u) = Live(s)
    BY Started
  <1>2. CASE t = u
    BY <1>1, <1>2, Unchanged DEF Kept
  <1>3. CASE /\ p \in Live(s) /\ s.Players[p].negotiation = "offered"
             /\ t = OnTrack(n, p, s.Players[p].direction)
    <2>. HIDE DEF p, u, t
    <2>1. Only(u, n, p) /\ n.Players[p].candidates = u.Players[p].candidates
      BY <1>1, <1>3, Negotiated
    <2>2. StateOK(n) /\ p \in Live(n)
      BY <1>1, <1>3, <2>1 DEF Only
    <2>. HIDE DEF n
    <2>3. Only(n, t, p) /\ t.Players[p].candidates = n.Players[p].candidates
      BY <1>3, <2>2, OnTracked
    <2>4. Only(u, t, p)
      BY <2>1, <2>3, OnlyThen
    <2>5. t.Players[p].candidates = s.Players[p].candidates /\ s.Players[p].candidates \in {0, 1}
      <3>1. s.Players[p] \in Session
        BY <1>3, PlayersOf
      <3>2. QED
        BY <1>1, <2>1, <2>3, <3>1 DEF Session
    <2>6. Stays(s, t, p)
      <3>1. s.Players[p].candidates <= t.Players[p].candidates
        BY <2>5
      <3>2. p \in Live(t)
        BY <1>1, <1>3, <2>4 DEF Only
      <3>3. QED
        BY <1>3, <3>1, <3>2 DEF Stays
    <2>7. QED
      BY <1>1, <2>4, <2>6, OthersStay DEF Only
  <1>4. QED
    BY <1>2, <1>3 DEF OnAnswer

LEMMA CandidateStep ==
    ASSUME NEW s, StateOK(s), NEW m
    PROVE  Kept(s, OnPlayerIceCandidate(s, m))
  <1>. DEFINE p == ToPlayerId(m.id)
              session == [s.Players[p] EXCEPT !.candidates = 1]
              t == OnPlayerIceCandidate(s, m)
  <1>. SUFFICES Kept(s, t)
    OBVIOUS
  <1>1. CASE t = s
    BY <1>1, Unchanged DEF Kept
  <1>2. CASE p \in Live(s) /\ t = [s EXCEPT !.Players[p].candidates = 1]
    <2>1. s.Players[p] \in Session
      BY <1>2, PlayersOf
    <2>2. session \in Session /\ session.candidates = 1 /\ s.Players[p].candidates \in {0, 1}
      BY <2>1 DEF Session
    <2>3. t = [s EXCEPT !.Players[p] = session]
      BY <1>2 DEF StateOK
    <2>. HIDE DEF p, t
    <2>4. Only(s, t, p) /\ t.Players[p] = session
      <3>. HIDE DEF session
      <3>1. LET u == [s EXCEPT !.Players[p] = session] IN Only(s, u, p) /\ u.Players[p] = session
        BY <1>2, <2>2, OneReplaced
      <3>2. QED
        BY <2>3, <3>1
    <2>5. Stays(s, t, p)
      <3>1. s.Players[p].candidates <= t.Players[p].candidates
        BY <2>2, <2>4
      <3>2. t.Players[p] = [s.Players[p] EXCEPT !.candidates = t.Players[p].candidates]
        BY <2>2, <2>4
      <3>3. QED
        BY <1>2, <2>4, <3>1, <3>2 DEF Only, Stays
    <2>6. QED
      BY <2>4, <2>5, OthersStay DEF Only
  <1>3. QED
    BY <1>1, <1>2 DEF OnPlayerIceCandidate, OnRemoteIceCandidate, AddIceCandidate

LEMMA DisconnectedStep ==
    ASSUME NEW s, StateOK(s), NEW m
    PROVE  KeptBut(s, OnPlayerDisconnected(s, m), ToPlayerId(m.id))
  <1>. DEFINE p == ToPlayerId(m.id)
              left == Live(s) \ {p}
              players == [q \in left |-> s.Players[q]]
              u == [s EXCEPT !.Players = players]
              t == OnPlayerDisconnected(s, m)
  <1>. SUFFICES KeptBut(s, t, p)
    OBVIOUS
  <1>1. players \in [left -> Session] /\ left \in SUBSET Int
    BY PlayersOf
  <1>2. \A q \in Live(s) \ {p} : q \in left /\ players[q] = s.Players[q]
    OBVIOUS
  <1>3. \E controller : \E bStarted \in BOOLEAN :
           t = [u EXCEPT !.controller = controller, !.bStreamingStarted = bStarted]
    <2>1. PICK bStarted \in BOOLEAN : bStarted <=> (s.bStreamingStarted /\ left # {})
      OBVIOUS
    <2>2. bStarted = (s.bStreamingStarted /\ left # {})
      BY <2>1
    <2>3. t = [s EXCEPT !.Players = players,
                        !.controller = IF p \in Live(s) /\ p = s.controller /\ left # {}
                                       THEN FirstInMap(left) ELSE s.controller,
                        !.bStreamingStarted = s.bStreamingStarted /\ left # {}]
      BY DEF OnPlayerDisconnected, DeletePlayerSession
    <2>. HIDE DEF left, players, t
    <2>4. \E controller : t = [u EXCEPT !.controller = controller, !.bStreamingStarted = bStarted]
      BY <2>2, <2>3 DEF StateOK
    <2>5. QED
      BY <2>4
  <1>. HIDE DEF left, players, t
  <1>4. StateOK(u) /\ u.Players = players /\ Live(u) = left
    BY <1>1, Replaced
  <1>. HIDE DEF u
  <1>5. StateOK(t) /\ t.Players = players /\ Live(t) = left
    BY <1>3, <1>4 DEF StateOK, Live
  <1>6. QED
    BY <1>2, <1>5, Unchanged DEF KeptBut

-----------------------------------------------------------------------------
(* All handlers together. *)

LEMMA MessageFields ==
    ASSUME NEW m \in Messages
    PROVE  /\ m.type \in {"identify", "config", "playerCount", "pong", "streamer candidate",
                          "playerConnected", "offer", "answer", "iceCandidate",
                          "playerDisconnected"}
           /\ m.type = "playerConnected" => m.id \in PlayerIds /\ m.dataChannel \in BOOLEAN
           /\ m.type = "offer" => m.id \in PlayerIds /\ m.sdp \in Sdps
  BY DEF Messages

\* The handlers of messages that are about no player.
LEMMA NoPlayerStep ==
    ASSUME NEW s, StateOK(s)
    PROVE  Kept(s, s) /\ Kept(s, OnIdRequested(s)) /\ Kept(s, OnConfig(s))
  <1>1. Kept(s, s)
    BY Unchanged DEF Kept
  <1>. DEFINE u == OnIdRequested(s)
              v == OnConfig(s)
  <1>2. StateOK(u) /\ u.Players = s.Players /\ Live(u) = Live(s)
    BY Replied DEF OnIdRequested
  <1>3. StateOK(v) /\ v.Players = s.Players /\ Live(v) = Live(s)
    BY DEF OnConfig, StateOK, Live
  <1>. HIDE DEF u, v
  <1>4. Kept(s, u) /\ Kept(s, v)
    BY <1>2, <1>3, Unchanged DEF Kept
  <1>5. QED
    BY <1>1, <1>4 DEF u, v

\* Any message leaves every session as it is, but that of a player it says has
\* left.
LEMMA MessageStep ==
    ASSUME NEW s, StateOK(s), NEW m \in Messages
    PROVE  /\ StateOK(OnMessage(s, m))
           /\ \A q \in Live(s) :
                 \/ Stays(s, OnMessage(s, m), q)
                 \/ m.type = "playerDisconnected" /\ q = ToPlayerId(m.id)
  <1>. DEFINE t == OnMessage(s, m)
  <1>1. CASE m.type = "playerDisconnected"
    <2>1. t = OnPlayerDisconnected(s, m)
      BY <1>1 DEF OnMessage
    <2>2. QED
      BY <1>1, <2>1, DisconnectedStep DEF KeptBut
  <1>2. CASE m.type # "playerDisconnected"
    <2>1. CASE m.type = "playerConnected"
      <3>1. t = OnPlayerConnected(s, m)
        BY <2>1 DEF OnMessage
      <3>2. QED
        BY <2>1, <3>1, MessageFields, ConnectedStep DEF Kept
    <2>2. CASE m.type = "offer"
      <3>1. t = OnOffer(s, m)
        BY <2>2 DEF OnMessage
      <3>2. QED
        BY <2>2, <3>1, MessageFields, OfferStep DEF Kept
    <2>3. CASE m.type = "answer"
      <3>1. t = OnAnswer(s, m)
        BY <2>3 DEF OnMessage
      <3>2. QED
        BY <3>1, AnswerStep DEF Kept
    <2>4. CASE m.type = "iceCandidate"
      <3>1. t = OnPlayerIceCandidate(s, m)
        BY <2>4 DEF OnMessage
      <3>2. QED
        BY <3>1, CandidateStep DEF Kept
    <2>5. CASE m.type \in {"identify", "config", "playerCount", "pong", "streamer candidate"}
      <3>1. t \in {OnIdRequested(s), OnConfig(s), s}
        BY <2>5 DEF OnMessage, OnStreamerIceCandidate, OnPlayerCount
      <3>2. QED
        BY <3>1, NoPlayerStep DEF Kept
    <2>6. QED
      BY <1>2, <2>1, <2>2, <2>3, <2>4, <2>5, MessageFields
  <1>3. QED
    BY <1>1, <1>2

-----------------------------------------------------------------------------
\* Handlers run behind the frames delivered, over sessions of their type.
MessagesInv ==
    /\ FramesInv
    /\ script \in [Frames -> Sent]
    /\ handled \in Nat /\ handled <= Len(delivered)
    /\ StateOK(state)

LEMMA MessagesInitInv == MessagesInit => MessagesInv
  <1>. SUFFICES ASSUME MessagesInit PROVE MessagesInv
    OBVIOUS
  <1>1. FramesInv /\ delivered = <<>>
    BY FramesInitInv DEF MessagesInit, FramesInit
  <1>2. script \in [Frames -> Sent] /\ handled = 0 /\ state = StartState
    BY DEF MessagesInit, Scripts
  <1>3. [p \in {} |-> 0] \in PlayerMaps
    <2>1. [p \in {} |-> 0] \in [{} -> Session] /\ {} \in SUBSET Int
      OBVIOUS
    <2>2. QED
      BY <2>1 DEF PlayerMaps
  <1>4. StateOK(StartState)
    BY <1>3 DEF StateOK, StartState
  <1>5. QED
    BY <1>1, <1>2, <1>4 DEF MessagesInv

\* The message that is handled next: it is one of those the server sends, and
\* its frame has arrived.
LEMMA NextMessage ==
    ASSUME MessagesInv, Handle
    PROVE  /\ handled' \in Nat /\ handled' <= Len(delivered)
           /\ delivered[handled'] \in Arrived
           /\ script[delivered[handled']] \in Messages
  <1>1. delivered \in Seq(Frames)
    BY DEF MessagesInv, FramesInv, FramesTypeOK
  <1>2. handled' \in 1 .. Len(delivered)
    <2>1. Len(delivered) \in Nat /\ handled \in Nat /\ handled <= Len(delivered)
      BY <1>1 DEF MessagesInv
    <2>2. handled # Len(delivered) /\ handled' = handled + 1
      BY DEF Handle, AllHandled
    <2>3. QED
      BY <2>1, <2>2
  <1>3. delivered[handled'] \in Frames /\ delivered[handled'] \in DeliveredSet
    BY <1>1, <1>2 DEF DeliveredSet
  <1>4. Complete(received, delivered[handled'])
    BY <1>3 DEF MessagesInv, FramesInv, NothingEarly
  <1>5. script[delivered[handled']] \in Messages
    BY <1>3, SentAssumption DEF MessagesInv
  <1>6. QED
    BY <1>1, <1>2, <1>3, <1>4, <1>5 DEF Arrived

LEMMA ReceiveIsFrames ==
    ASSUME NEW bytes \in 1 .. End[N], Receive(bytes)
    PROVE  FramesNext /\ UNCHANGED messageVars
  BY DEF Receive, FramesNext

LEMMA MessagesInvStep ==
    MessagesInv /\ [MessagesNext]_<<frameVars, messageVars>> => MessagesInv'
  <1>. SUFFICES ASSUME MessagesInv, [MessagesNext]_<<frameVars, messageVars>> PROVE MessagesInv'
    OBVIOUS
  <1>1. CASE Handle
    <2>1. UNCHANGED frameVars /\ script' = script
      BY <1>1 DEF Handle
    <2>2. FramesInv'
      BY <2>1, FramesInvStep DEF MessagesInv
    <2>3. delivered' = delivered
      BY <2>1 DEF frameVars
    <2>4. state' = OnMessage(state, script[delivered[handled']])
      BY <1>1 DEF Handle
    <2>5. StateOK(state)'
      <3>1. StateOK(OnMessage(state, script[delivered[handled']]))
        BY <1>1, NextMessage, MessageStep DEF MessagesInv
      <3>2. QED
        BY <2>4, <3>1 DEF StateOK
    <2>6. QED
      BY <1>1, <2>1, <2>2, <2>3, <2>5, NextMessage DEF MessagesInv
  <1>2. CASE \E bytes \in 1 .. End[N] : Receive(bytes)
    <2>1. FramesNext /\ UNCHANGED messageVars
      BY <1>2, ReceiveIsFrames
    <2>2. FramesInv'
      BY <2>1, FramesInvStep DEF MessagesInv
    <2>3. handled \in Nat /\ handled' = handled /\ handled = Len(delivered)
      BY <1>2, <2>1 DEF MessagesInv, Receive, AllHandled, messageVars
    <2>4. Len(delivered') >= Len(delivered)
      <3>1. PICK bytes \in 1 .. End[N] : OnMessageReceived(bytes)
        BY <1>2 DEF Receive
      <3>2. PICK last \in 0 .. N : delivered' = delivered \o FrameRun(first, last)
        BY <3>1 DEF OnMessageReceived
      <3>3. first \in Nat \ {0} /\ delivered \in Seq(Frames)
        BY FramesAssumption DEF MessagesInv, FramesInv, FramesTypeOK
      <3>4. FrameRun(first, last) \in Seq(Frames)
        BY <3>3, FrameRunIs
      <3>5. QED
        BY <3>2, <3>3, <3>4
    <2>5. delivered' \in Seq(Frames)
      BY <2>2 DEF FramesInv, FramesTypeOK
    <2>6. StateOK(state)' /\ script' = script
      BY <2>1 DEF MessagesInv, messageVars, StateOK
    <2>7. handled' \in Nat /\ handled' <= Len(delivered')
      BY <2>3, <2>4, <2>5
    <2>8. QED
      BY <2>2, <2>6, <2>7 DEF MessagesInv
  <1>3. CASE UNCHANGED <<frameVars, messageVars>>
    <2>1. FramesInv'
      BY <1>3, FramesInvStep DEF MessagesInv
    <2>2. QED
      BY <1>3, <2>1 DEF MessagesInv, frameVars, messageVars, StateOK
  <1>4. QED
    BY <1>1, <1>2, <1>3 DEF MessagesNext

\* The inductive invariant: the frames as WebSocketFrames has them, no message
\* handled that has not been delivered, and sessions that are of their type,
\* whatever was sent and however often it came.
THEOREM MessagesInvariant == MessagesSpec => []MessagesInv
  BY MessagesInitInv, MessagesInvStep, PTL DEF MessagesSpec

\* The frames are still cut as WebSocketFrames says when each is handled
\* before more bytes are taken: WebSocketClientImplCurl.cpp calls OnRecv in its loop.
THEOREM MessagesImplementFrames == MessagesSpec => FramesSpec
  <1>1. MessagesInit => FramesInit
    BY DEF MessagesInit
  <1>2. [MessagesNext]_<<frameVars, messageVars>> => [FramesNext]_frameVars
    BY ReceiveIsFrames DEF MessagesNext, Handle
  <1>3. QED
    BY <1>1, <1>2, PTL DEF MessagesSpec, FramesSpec

\* A message that comes again does nothing to a player that has not left: its
\* session is neither replaced nor set back, for any messages the signalling
\* server may send and any cut of the stream.
THEOREM SessionsKept == MessagesSpec => LiveSessionsStay
  <1>. DEFINE allVars == <<frameVars, messageVars>>
              Stay == \A p \in Live(state) : ~Gone(p) =>
                         /\ p \in Live(state')
                         /\ state.Players[p].negotiation = "connected" => state'.Players[p] =
                              [state.Players[p] EXCEPT !.candidates = state'.Players[p].candidates]
                         /\ state.Players[p].candidates <= state'.Players[p].candidates
  <1>1. ASSUME MessagesInv, [MessagesNext]_allVars PROVE [Stay]_allVars
    <2>1. CASE Handle
      <3>. DEFINE m == script[delivered[handled']]
      <3>1. state' = OnMessage(state, m) /\ m \in Messages /\ delivered[handled'] \in Arrived
        BY <1>1, <2>1, NextMessage DEF Handle
      <3>2. \A p \in Live(state) : m.type = "playerDisconnected" /\ p = ToPlayerId(m.id) => Gone(p)
        BY <3>1 DEF Gone
      <3>. HIDE DEF m
      <3>3. \A p \in Live(state) :
               \/ Stays(state, state', p)
               \/ m.type = "playerDisconnected" /\ p = ToPlayerId(m.id)
        BY <1>1, <3>1, MessageStep DEF MessagesInv
      <3>4. QED
        BY <3>2, <3>3 DEF Stays
    <2>2. CASE \E bytes \in 1 .. End[N] : Receive(bytes)
      <3>1. state' = state
        BY <2>2, ReceiveIsFrames DEF messageVars
      <3>2. \A p \in Live(state) : Stays(state, state, p)
        BY <1>1, Unchanged DEF MessagesInv
      <3>3. QED
        BY <3>1, <3>2 DEF Stays
    <2>3. CASE UNCHANGED allVars
      BY <2>3
    <2>4. QED
      BY <1>1, <2>1, <2>2, <2>3 DEF MessagesNext
  <1>2. QED
    BY <1>1, MessagesInvariant, PTL DEF MessagesSpec, LiveSessionsStay

\* So no handler waits for a message whose last byte is in, but for those that
\* are handled right now.
COROLLARY MessagesDelivered == MessagesSpec => []NothingHeldBack
  BY MessagesImplementFrames, FramesDelivered, PTL

-----------------------------------------------------------------------------
\* Any set of numbers that has one has a least one: the strict subsets of a
\* finite set are well-founded, and n is the size of what lies below it.
LEMMA LeastNumber ==
    ASSUME NEW S, S \subseteq Nat, S # {}
    PROVE  \E n \in S : \A m \in S : n <= m
<1>. DEFINE upTo(n) == S \cap (0 .. n)
            R == StrictSubsetOrdering(Nat)
<1>1. \A n \in S : upTo(n) \in FiniteSubsetsOf(Nat)
  <2>1. ASSUME NEW n \in S PROVE IsFiniteSet(0 .. n)
    BY FS_Interval
  <2>2. ASSUME NEW n \in S PROVE IsFiniteSet(upTo(n))
    BY <2>1, FS_Intersection
  <2>3. QED
    BY <2>2 DEF FiniteSubsetsOf
<1>. DEFINE T == {upTo(n) : n \in S}
<1>2. IsWellFoundedOn(R, FiniteSubsetsOf(Nat))
  BY FS_StrictSubsetOrderingWellFounded
<1>3. PICK t \in T : \A u \in T : ~(<<u, t>> \in R)
  <2>. HIDE DEF upTo, R
  <2>1. T \subseteq FiniteSubsetsOf(Nat) /\ T # {}
    BY <1>1
  <2>. HIDE DEF T
  <2>2. QED
    BY <1>2, <2>1, WFMin, Zenon
<1>4. PICK n \in S : t = upTo(n)
  OBVIOUS
<1>5. ASSUME NEW m \in S, m < n PROVE FALSE
  <2>1. upTo(m) \subseteq upTo(n) /\ upTo(m) # upTo(n) /\ upTo(m) \in SUBSET Nat /\ upTo(n) \in SUBSET Nat
    BY <1>5
  <2>2. <<upTo(m), upTo(n)>> \in R
    <3>. HIDE DEF upTo
    <3>1. QED
      BY <2>1 DEF StrictSubsetOrdering
  <2>3. QED
    BY <1>3, <1>4, <2>2
<1>6. QED
  BY <1>5

LEMMA MaxProperties ==
    ASSUME NEW n \in Nat, NEW S, S \subseteq 1 .. n, S # {}
    PROVE  Max(S) \in S /\ \A m \in S : Max(S) >= m
<1>. DEFINE below == {n - m : m \in S}
<1>1. below \subseteq Nat /\ below # {}
  <2>1. \A m \in S : n - m \in Nat
    OBVIOUS
  <2>2. PICK m \in S : TRUE
    OBVIOUS
  <2>3. n - m \in below
    OBVIOUS
  <2>4. QED
    BY <2>1, <2>3
<1>2. PICK least \in below : \A m \in below : least <= m
  <2>. HIDE DEF below
  <2>1. QED
    BY <1>1, LeastNumber
<1>3. PICK most \in S : least = n - most
  BY <1>2
<1>4. \A m \in S : most >= m
  <2>. TAKE m \in S
  <2>1. n - most <= n - m
    BY <1>2, <1>3
  <2>2. QED
    BY <2>1
<1>5. QED
  BY <1>3, <1>4, Zenon DEF Max

-----------------------------------------------------------------------------
(* SignallingMessages: messages that come again leave no trace. *)

\* The messages that are about a player.
PlayerTypes == {"playerConnected", "offer", "answer", "iceCandidate", "playerDisconnected"}

\* A player comes with a message of its own or with an offer.
Comes(m) == m.type \in {"playerConnected", "offer"}

Leaves(m) == m.type = "playerDisconnected"

\* Messages about a player that change its session, and make none.
Updates(m) == m.type \in {"answer", "iceCandidate"}

\* What the proof needs of the protocol: nothing is said about a player before
\* it comes, and its answer comes before its candidates.
InOrder(c) ==
    /\ c \in [Frames -> Messages]
    /\ \A f, g \in Frames :
          f < g /\ Comes(c[g]) /\ c[f].type \in PlayerTypes => c[f].id < c[g].id
    /\ \A f, g \in Frames :
          f < g /\ c[g].type = "answer" /\ c[f].type = "iceCandidate" => c[f].id # c[g].id

LEMMA MessageKinds ==
    ASSUME NEW m \in Messages
    PROVE  /\ m.type \in PlayerTypes \cup
                  {"identify", "config", "playerCount", "pong", "streamer candidate"}
           /\ "id" \in DOMAIN m <=> m.type \in PlayerTypes
           /\ m.type \in PlayerTypes => m.id \in PlayerIds
           /\ m.type = "playerConnected" => m.dataChannel \in BOOLEAN
           /\ m.type \in {"offer", "answer"} => m.sdp \in Sdps
  <1>1. CASE m \in [type : {"identify", "config", "playerCount", "pong", "streamer candidate"}]
    BY <1>1 DEF PlayerTypes
  <1>2. CASE m \in [type : {"playerConnected"}, id : PlayerIds, dataChannel : BOOLEAN]
    BY <1>2 DEF PlayerTypes
  <1>3. CASE m \in [type : {"offer", "answer"}, id : PlayerIds, sdp : Sdps]
    BY <1>3 DEF PlayerTypes
  <1>4. CASE m \in [type : {"iceCandidate", "playerDisconnected"}, id : PlayerIds]
    BY <1>4 DEF PlayerTypes
  <1>5. QED
    BY <1>1, <1>2, <1>3, <1>4 DEF Messages

LEMMA PlayerIdsAreInts == PlayerIds \subseteq Int
  BY MessagesAssumption

\* No two players have the same id after the conversion, and none the id of
\* nobody.
LEMMA IdsDiffer ==
    ASSUME NEW m \in PlayerIds, NEW n \in PlayerIds
    PROVE  /\ ToPlayerId(m) = ToPlayerId(n) => m = n
           /\ ToPlayerId(m) # NoPlayer
           /\ ToPlayerId(m) = SFU_PLAYER_ID => m <= n
  <1>1. /\ WordSize \in Nat /\ m \in 1 .. WordSize - 1 /\ n \in 1 .. WordSize - 1
        /\ ToPlayerId(m) \in {m, m - WordSize} /\ ToPlayerId(n) \in {n, n - WordSize}
    BY MessagesAssumption DEF ToPlayerId
  <1>2. QED
    BY <1>1 DEF NoPlayer, SFU_PLAYER_ID

LEMMA ScriptInOrder ==
    ASSUME NEW c \in Scripts
    PROVE  InOrder(c)
  <1>1. /\ c \in [Frames -> Sent] /\ N \in Nat
        /\ \A f \in Frames : MayFollow(SubSeq(c, 1, f - 1), c[f])
    BY FramesAssumption DEF Scripts
  <1>2. c \in [Frames -> Messages]
    BY <1>1, SentAssumption
  <1>3. ASSUME NEW g \in Frames
        PROVE  /\ DOMAIN SubSeq(c, 1, g - 1) = 1 .. g - 1
               /\ \A f \in 1 .. g - 1 : SubSeq(c, 1, g - 1)[f] = c[f]
               /\ g \in Nat /\ \A f \in 1 .. g - 1 : f \in Frames
    <2>1. c \in Seq(Sent) /\ Len(c) = N
      BY <1>1 DEF Frames
    <2>2. g \in 1 .. N
      BY DEF Frames
    <2>3. QED
      BY <1>1, <2>1, <2>2 DEF Frames
  <1>4. ASSUME NEW f \in Frames, NEW g \in Frames, f < g, Comes(c[g]), c[f].type \in PlayerTypes
        PROVE  c[f].id < c[g].id
    <2>. DEFINE s == SubSeq(c, 1, g - 1)
    <2>1. f \in 1 .. g - 1
      BY <1>1, <1>4 DEF Frames
    <2>2. f \in DOMAIN s /\ s[f] = c[f]
      BY <1>3, <2>1
    <2>3. "id" \in DOMAIN c[f] /\ "id" \in DOMAIN c[g]
      <3>1. c[f] \in Messages /\ c[g] \in Messages /\ c[g].type \in PlayerTypes
        BY <1>2, <1>4 DEF Comes, PlayerTypes
      <3>2. QED
        BY <1>4, <3>1, MessageKinds
    <2>4. MayFollow(s, c[g])
      BY <1>1
    <2>. HIDE DEF s
    <2>5. \A i \in DOMAIN s : "id" \in DOMAIN s[i] => s[i].id < c[g].id
      BY <1>4, <2>3, <2>4 DEF MayFollow, Comes
    <2>6. QED
      BY <2>2, <2>3, <2>5
  <1>5. ASSUME NEW f \in Frames, NEW g \in Frames, f < g, c[g].type = "answer",
               c[f].type = "iceCandidate", c[f].id = c[g].id
        PROVE  FALSE
    <2>. DEFINE s == SubSeq(c, 1, g - 1)
                p == c[g].id
                last == Max(About(s, p))
    <2>1. f \in 1 .. g - 1
      BY <1>1, <1>5 DEF Frames
    <2>2. /\ DOMAIN s = 1 .. g - 1 /\ \A i \in 1 .. g - 1 : s[i] = c[i] /\ i \in Frames
          /\ g \in Nat
      BY <1>3
    <2>3. "id" \in DOMAIN c[f] /\ "id" \in DOMAIN c[g]
      <3>1. c[f] \in Messages /\ c[g] \in Messages /\ c[g].type \in PlayerTypes /\ c[f].type \in PlayerTypes
        BY <1>2, <1>5 DEF PlayerTypes
      <3>2. QED
        BY <1>5, <3>1, MessageKinds
    <2>4. MayFollow(s, c[g])
      BY <1>1
    <2>. HIDE DEF s
    <2>5. f \in About(s, p)
      BY <1>5, <2>1, <2>2, <2>3 DEF About
    <2>6. s[last].type = "playerConnected"
      BY <1>5, <2>3, <2>4, <2>5 DEF MayFollow
    <2>7. last \in About(s, p) /\ \A i \in About(s, p) : last >= i
      <3>1. About(s, p) \subseteq 1 .. g - 1 /\ About(s, p) # {}
        BY <2>2, <2>5 DEF About
      <3>2. QED
        BY <2>2, <3>1, MaxProperties
    <2>. HIDE DEF last
    <2>8. /\ last \in 1 .. g - 1 /\ s[last] = c[last] /\ last \in Frames /\ c[last].id = p
      BY <2>2, <2>7 DEF About
    <2>9. last # f
      BY <1>5, <2>6, <2>8
    <2>10. f < last
      BY <1>1, <2>1, <2>2, <2>5, <2>7, <2>8, <2>9
    <2>11. c[f].id < c[last].id
      <3>1. Comes(c[last]) /\ c[f].type \in PlayerTypes
        BY <1>5, <2>6, <2>8 DEF Comes, PlayerTypes
      <3>2. QED
        BY <1>4, <2>8, <2>10, <3>1
    <2>12. c[f].id \in Int
      <3>1. c[f] \in Messages /\ c[f].type \in PlayerTypes
        BY <1>2, <1>5 DEF PlayerTypes
      <3>2. QED
        BY <3>1, MessageKinds, PlayerIdsAreInts
    <2>13. QED
      BY <1>5, <2>8, <2>11, <2>12
  <1>6. QED
    BY <1>2, <1>4, <1>5 DEF InOrder

-----------------------------------------------------------------------------
(* What the handlers do to the session they are about, as functions of that *)
(* session, and to what all sessions share.                                 *)

TrackOf(r) == IF bTransmitUEAudio THEN [r EXCEPT !.track = TRUE] ELSE r

DirectionOf(r, bOffered) ==
    IF r.track \/ bOffered THEN [r EXCEPT !.direction = AudioTransceiverDirection] ELSE r

SinkOf(r, direction) ==
    IF direction \in {"send and receive", "receive"} THEN [r EXCEPT !.sinks = @ + 1] ELSE r

NewOf(configured, bDataChannel) == NewSession([configured |-> configured], bDataChannel)

ConnectedSession(configured, bDataChannel) ==
    [DirectionOf(TrackOf(NewOf(configured, bDataChannel)), FALSE) EXCEPT !.negotiation = "offered"]

OfferedSession(configured, sdp) ==
    CASE sdp = "bad" -> NewOf(configured, TRUE)
      [] sdp = "refused" -> [NewOf(configured, TRUE) EXCEPT !.bDisconnecting = TRUE]
      [] sdp = "good" ->
            [DirectionOf(TrackOf(SinkOf(NewOf(configured, TRUE), "receive")), TRUE)
                EXCEPT !.negotiation = "connected"]

Saying(type, p) == [type |-> type, id |-> p]

\* The session of a player that comes, what is sent then, and whether the audio
\* source is made if there is none.
ComingSession(configured, m) ==
    IF m.type = "offer" THEN OfferedSession(configured, m.sdp)
                        ELSE ConnectedSession(configured, m.dataChannel)

ComingReplies(m) ==
    LET p == ToPlayerId(m.id) IN
    CASE m.type = "playerConnected" -> {Saying("iceCandidate", p), Saying("offer", p)}
      [] m.type = "offer" /\ m.sdp = "good" -> {Saying("iceCandidate", p), Saying("answer", p)}
      [] m.type = "offer" /\ m.sdp = "refused" -> {Saying("disconnectPlayer", p)}
      [] OTHER -> {}

NeedsSource(m) == bTransmitUEAudio /\ (m.type = "offer" => m.sdp = "good")

\* The session after an answer or a candidate.
AnsweredSession(r, m) ==
    IF m.sdp = "good" /\ r.negotiation = "offered"
    THEN SinkOf([r EXCEPT !.negotiation = "connected"], r.direction) ELSE r

ReachedSession(r) == IF r.negotiation = "connected" THEN [r EXCEPT !.candidates = 1] ELSE r

UpdatedSession(r, m) == IF m.type = "answer" THEN AnsweredSession(r, m) ELSE ReachedSession(r)

\* What all sessions share is the same in s and t.
SameShared(s, t) ==
    /\ t.configured = s.configured /\ t.controller = s.controller
    /\ t.bAudioSource = s.bAudioSource /\ t.sent = s.sent

\* From s to t the session of p becomes r, and nothing else is touched.
Becomes(s, t, p, r) == Only(s, t, p) /\ t.Players[p] = r /\ SameShared(s, t)

LEMMA ReplacedBecomes ==
    ASSUME NEW s, StateOK(s), NEW p \in Live(s), NEW r \in Session
    PROVE  Becomes(s, [s EXCEPT !.Players[p] = r], p, r)
  <1>. DEFINE t == [s EXCEPT !.Players[p] = r]
  <1>1. Only(s, t, p) /\ t.Players[p] = r
    BY OneReplaced
  <1>2. SameShared(s, t)
    BY DEF StateOK, SameShared
  <1>3. QED
    BY <1>1, <1>2 DEF Becomes

LEMMA SameBecomes ==
    ASSUME NEW s, StateOK(s), NEW p \in Live(s)
    PROVE  Becomes(s, s, p, s.Players[p])
  BY OnlySame DEF Becomes, SameShared

LEMMA BecomesThen ==
    ASSUME NEW s, NEW t, NEW u, NEW p, NEW q, NEW r, Becomes(s, t, p, q), Becomes(t, u, p, r)
    PROVE  Becomes(s, u, p, r)
  BY OnlyThen DEF Becomes, SameShared

LEMMA RepliedShared ==
    ASSUME NEW s, StateOK(s), NEW type, NEW p
    PROVE  /\ Reply(s, type, p).configured = s.configured
           /\ Reply(s, type, p).controller = s.controller
           /\ Reply(s, type, p).bAudioSource = s.bAudioSource
           /\ Reply(s, type, p).sent = s.sent \cup {Saying(type, p)}
  BY DEF StateOK, Reply, Saying

LEMMA TrackBecomes ==
    ASSUME NEW s, StateOK(s), NEW p \in Live(s)
    PROVE  LET t == SetupAudioTrack(s, p) IN
           /\ Only(s, t, p) /\ t.Players[p] = TrackOf(s.Players[p])
           /\ t.configured = s.configured /\ t.controller = s.controller /\ t.sent = s.sent
           /\ IF bTransmitUEAudio THEN t.bAudioSource = TRUE ELSE t.bAudioSource = s.bAudioSource
  <1>. DEFINE u == [s EXCEPT !.bAudioSource = TRUE]
              session == [s.Players[p] EXCEPT !.track = TRUE]
              t == SetupAudioTrack(s, p)
  <1>1. CASE ~bTransmitUEAudio
    BY <1>1, OnlySame DEF SetupAudioTrack, TrackOf
  <1>2. CASE bTransmitUEAudio
    <2>1. /\ StateOK(u) /\ u.Players = s.Players /\ Live(u) = Live(s)
          /\ u.configured = s.configured /\ u.controller = s.controller /\ u.sent = s.sent
          /\ u.bAudioSource = TRUE
      BY SourceMade DEF StateOK
    <2>2. session \in Session
      BY PlayersOf, SessionChanges
    <2>. HIDE DEF session
    <2>3. Becomes(u, [u EXCEPT !.Players[p] = session], p, session)
      BY <2>1, <2>2, ReplacedBecomes
    <2>4. t = [u EXCEPT !.Players[p] = session]
      BY <1>2 DEF SetupAudioTrack, StateOK, session
    <2>5. Only(s, t, p)
      BY Tracked
    <2>6. session = TrackOf(s.Players[p])
      BY <1>2 DEF TrackOf, session
    <2>. HIDE DEF u, t
    <2>7. QED
      BY <1>2, <2>1, <2>3, <2>4, <2>5, <2>6 DEF Becomes, SameShared, t
  <1>3. QED
    BY <1>1, <1>2

LEMMA DirectionBecomes ==
    ASSUME NEW s, StateOK(s), NEW p \in Live(s), NEW bOffered \in BOOLEAN
    PROVE  Becomes(s, ModifyTransceivers(s, p, bOffered), p, DirectionOf(s.Players[p], bOffered))
  <1>. DEFINE session == [s.Players[p] EXCEPT !.direction = AudioTransceiverDirection]
  <1>1. AudioTransceiverDirection \in {"none", "send and receive", "send", "receive", "inactive"}
    BY MessagesAssumption DEF AudioTransceiverDirection
  <1>2. session \in Session
    BY <1>1, PlayersOf, SessionChanges
  <1>3. [s EXCEPT !.Players[p].direction = AudioTransceiverDirection] = [s EXCEPT !.Players[p] = session]
    BY DEF StateOK
  <1>. HIDE DEF session
  <1>4. Becomes(s, [s EXCEPT !.Players[p] = session], p, session)
    BY <1>2, ReplacedBecomes
  <1>5. CASE s.Players[p].track \/ bOffered
    BY <1>3, <1>4, <1>5 DEF ModifyTransceivers, DirectionOf, session
  <1>6. CASE ~(s.Players[p].track \/ bOffered)
    BY <1>6, SameBecomes DEF ModifyTransceivers, DirectionOf
  <1>7. QED
    BY <1>5, <1>6

LEMMA SinkBecomes ==
    ASSUME NEW s, StateOK(s), NEW p \in Live(s), NEW direction
    PROVE  Becomes(s, OnTrack(s, p, direction), p, SinkOf(s.Players[p], direction))
  <1>. DEFINE session == [s.Players[p] EXCEPT !.sinks = @ + 1]
  <1>1. session \in Session
    BY PlayersOf, SessionChanges
  <1>2. AddSinkToAudioTrack(s, p) = [s EXCEPT !.Players[p] = session]
    BY DEF AddSinkToAudioTrack, StateOK
  <1>. HIDE DEF session
  <1>3. Becomes(s, [s EXCEPT !.Players[p] = session], p, session)
    BY <1>1, ReplacedBecomes
  <1>4. CASE direction \in {"send and receive", "receive"}
    BY <1>2, <1>3, <1>4 DEF OnTrack, SinkOf, session
  <1>5. CASE direction \notin {"send and receive", "receive"}
    BY <1>5, SameBecomes DEF OnTrack, SinkOf
  <1>6. QED
    BY <1>4, <1>5

LEMMA NegotiationBecomes ==
    ASSUME NEW s, StateOK(s), NEW p \in Live(s), NEW n \in {"new", "offered", "connected"}
    PROVE  Becomes(s, [s EXCEPT !.Players[p].negotiation = n], p,
                   [s.Players[p] EXCEPT !.negotiation = n])
  <1>. DEFINE session == [s.Players[p] EXCEPT !.negotiation = n]
  <1>1. session \in Session
    <2>1. s.Players[p] \in Session
      BY PlayersOf
    <2>2. \A r \in Session : [r EXCEPT !.negotiation = n] \in Session
      BY DEF Session
    <2>3. QED
      BY <2>1, <2>2, Zenon
  <1>2. [s EXCEPT !.Players[p].negotiation = n] = [s EXCEPT !.Players[p] = session]
    BY DEF StateOK
  <1>. HIDE DEF session
  <1>3. Becomes(s, [s EXCEPT !.Players[p] = session], p, session)
    BY <1>1, ReplacedBecomes
  <1>4. QED
    BY <1>2, <1>3 DEF session

LEMMA StreamsBecome ==
    ASSUME NEW s, StateOK(s), NEW p \in Live(s), NEW bOffered \in BOOLEAN
    PROVE  LET t == AddStreams(s, p, bOffered) IN
           /\ Only(s, t, p) /\ t.Players[p] = DirectionOf(TrackOf(s.Players[p]), bOffered)
           /\ t.configured = s.configured /\ t.controller = s.controller /\ t.sent = s.sent
           /\ IF bTransmitUEAudio THEN t.bAudioSource = TRUE ELSE t.bAudioSource = s.bAudioSource
  <1>. DEFINE u == SetupAudioTrack(s, p)
              t == ModifyTransceivers(u, p, bOffered)
  <1>1. /\ Only(s, u, p) /\ u.Players[p] = TrackOf(s.Players[p])
        /\ u.configured = s.configured /\ u.controller = s.controller /\ u.sent = s.sent
        /\ IF bTransmitUEAudio THEN u.bAudioSource = TRUE ELSE u.bAudioSource = s.bAudioSource
    BY TrackBecomes
  <1>2. StateOK(u) /\ p \in Live(u)
    BY <1>1 DEF Only
  <1>. HIDE DEF u
  <1>3. Becomes(u, t, p, DirectionOf(u.Players[p], bOffered))
    BY <1>2, DirectionBecomes
  <1>4. AddStreams(s, p, bOffered) = t
    BY DEF AddStreams, u
  <1>. HIDE DEF t
  <1>5. Only(s, t, p)
    BY <1>1, <1>3, OnlyThen DEF Becomes
  <1>6. QED
    BY <1>1, <1>3, <1>4, <1>5 DEF Becomes, SameShared

-----------------------------------------------------------------------------
(* What each handler does, as one formula. *)

\* From s to t the player p joins with the session r.
Joins(s, t, p, r, replies, bSource) ==
    /\ StateOK(t) /\ Live(t) = Live(s) \cup {p}
    /\ \A q \in Live(s) \ {p} : t.Players[q] = s.Players[q]
    /\ t.Players[p] = r
    /\ t.configured = s.configured
    /\ t.controller = IF p # SFU_PLAYER_ID /\ Live(s) = {} THEN p ELSE s.controller
    /\ t.sent = s.sent \cup replies
    /\ IF bSource THEN t.bAudioSource = TRUE ELSE t.bAudioSource = s.bAudioSource

LEMMA CreateJoins ==
    ASSUME NEW s, StateOK(s), NEW p \in Int, p \notin Live(s), NEW bDataChannel \in BOOLEAN
    PROVE  Joins(s, CreateSession(s, p, bDataChannel), p, NewOf(s.configured, bDataChannel), {}, FALSE)
  <1>. DEFINE session == NewSession(s, bDataChannel)
              players == [q \in Live(s) \cup {p} |-> IF q = p THEN session ELSE s.Players[q]]
              joined == [s EXCEPT !.Players = players]
              t == CreateSession(s, p, bDataChannel)
  <1>1. StateOK(t) /\ Live(t) = Live(s) \cup {p} /\ \A q \in Live(s) : t.Players[q] = s.Players[q]
    BY Created
  <1>2. t = IF p # SFU_PLAYER_ID /\ Live(s) = {} THEN [joined EXCEPT !.controller = p] ELSE joined
    BY DEF CreateSession, WithSession
  <1>3. session = NewOf(s.configured, bDataChannel)
    BY DEF NewSession, NewOf
  <1>4. players[p] = session
    OBVIOUS
  <1>. HIDE DEF players, session, t
  <1>5. /\ joined.Players = players /\ joined.configured = s.configured
        /\ joined.controller = s.controller /\ joined.sent = s.sent
        /\ joined.bAudioSource = s.bAudioSource
    BY DEF StateOK
  <1>6. /\ [joined EXCEPT !.controller = p].Players = players
        /\ [joined EXCEPT !.controller = p].configured = s.configured
        /\ [joined EXCEPT !.controller = p].controller = p
        /\ [joined EXCEPT !.controller = p].sent = s.sent
        /\ [joined EXCEPT !.controller = p].bAudioSource = s.bAudioSource
    BY DEF StateOK
  <1>. HIDE DEF joined
  <1>7. QED
    BY <1>1, <1>2, <1>3, <1>4, <1>5, <1>6 DEF Joins, t

\* What is done to the session afterwards is part of the joining.
LEMMA JoinsThen ==
    ASSUME NEW s, NEW t, NEW u, NEW p, NEW q, NEW r, NEW replies, NEW bSource,
           Joins(s, t, p, q, replies, bSource), Becomes(t, u, p, r)
    PROVE  Joins(s, u, p, r, replies, bSource)
  <1>1. p \in Live(t) /\ Live(u) = Live(t) /\ StateOK(u)
    BY DEF Joins, Becomes, Only
  <1>2. \A x \in Live(s) \ {p} : u.Players[x] = s.Players[x]
    BY <1>1 DEF Joins, Becomes, Only
  <1>3. QED
    BY <1>1, <1>2 DEF Joins, Becomes, SameShared

LEMMA JoinsStreams ==
    ASSUME NEW s, NEW t, NEW p, NEW q, Joins(s, t, p, q, {}, FALSE), NEW bOffered \in BOOLEAN
    PROVE  Joins(s, AddStreams(t, p, bOffered), p, DirectionOf(TrackOf(q), bOffered), {}, bTransmitUEAudio)
  <1>. DEFINE u == AddStreams(t, p, bOffered)
  <1>1. StateOK(t) /\ p \in Live(t) /\ t.Players[p] = q
    BY DEF Joins
  <1>2. /\ Only(t, u, p) /\ u.Players[p] = DirectionOf(TrackOf(q), bOffered)
        /\ u.configured = t.configured /\ u.controller = t.controller /\ u.sent = t.sent
        /\ IF bTransmitUEAudio THEN u.bAudioSource = TRUE ELSE u.bAudioSource = t.bAudioSource
    BY <1>1, StreamsBecome
  <1>. HIDE DEF u
  <1>3. \A x \in Live(s) \ {p} : u.Players[x] = s.Players[x]
    BY <1>1, <1>2 DEF Joins, Only
  <1>4. QED
    BY <1>2, <1>3 DEF Joins, Only, u

LEMMA JoinsReply ==
    ASSUME NEW s, NEW t, NEW p, NEW q, NEW replies, NEW bSource, Joins(s, t, p, q, replies, bSource),
           NEW type
    PROVE  Joins(s, Reply(t, type, p), p, q, replies \cup {Saying(type, p)}, bSource)
  <1>. DEFINE u == Reply(t, type, p)
  <1>1. StateOK(t)
    BY DEF Joins
  <1>2. StateOK(u) /\ u.Players = t.Players /\ Live(u) = Live(t)
    BY <1>1, Replied
  <1>3. /\ u.configured = t.configured /\ u.controller = t.controller
        /\ u.bAudioSource = t.bAudioSource /\ u.sent = t.sent \cup {Saying(type, p)}
    BY <1>1, RepliedShared
  <1>. HIDE DEF u
  <1>4. QED
    BY <1>2, <1>3 DEF Joins, u

\* The streaming flag is no part of it.
LEMMA JoinsStarted ==
    ASSUME NEW s, NEW t, NEW p, NEW q, NEW replies, NEW bSource, Joins(s, t, p, q, replies, bSource)
    PROVE  Joins(s, [t EXCEPT !.bStreamingStarted = TRUE], p, q, replies, bSource)
  <1>. DEFINE u == [t EXCEPT !.bStreamingStarted = TRUE]
  <1>1. StateOK(t)
    BY DEF Joins
  <1>2. StateOK(u) /\ u.Players = t.Players /\ Live(u) = Live(t)
    BY <1>1, Started
  <1>3. /\ u.configured = t.configured /\ u.controller = t.controller
        /\ u.bAudioSource = t.bAudioSource /\ u.sent = t.sent
    BY <1>1 DEF StateOK
  <1>. HIDE DEF u
  <1>4. QED
    BY <1>2, <1>3 DEF Joins, u

LEMMA ConnectedJoins ==
    ASSUME NEW s, StateOK(s), NEW m \in Messages, m.type = "playerConnected",
           ToPlayerId(m.id) \notin Live(s)
    PROVE  Joins(s, OnPlayerConnected(s, m), ToPlayerId(m.id), ComingSession(s.configured, m),
                 ComingReplies(m), NeedsSource(m))
  <1>. DEFINE p == ToPlayerId(m.id)
              a == CreateSession(s, p, m.dataChannel)
              b == AddStreams(a, p, FALSE)
              c == [b EXCEPT !.Players[p].negotiation = "offered"]
              d == Reply(c, "iceCandidate", p)
              q == DirectionOf(TrackOf(NewOf(s.configured, m.dataChannel)), FALSE)
              r == [q EXCEPT !.negotiation = "offered"]
  <1>1. m.id \in PlayerIds /\ m.dataChannel \in BOOLEAN /\ p \in Int
    BY MessageFields, IdIsInt
  <1>2. OnPlayerConnected(s, m) = Reply(d, "offer", p)
    BY DEF OnPlayerConnected, Creates, SetLocalDescription, SendIceCandidate
  <1>3. r = ComingSession(s.configured, m)
    BY DEF ComingSession, ConnectedSession
  <1>4. ComingReplies(m) = ({} \cup {Saying("iceCandidate", p)}) \cup {Saying("offer", p)}
    BY DEF ComingReplies
  <1>5. NeedsSource(m) = bTransmitUEAudio
    BY MessagesAssumption DEF NeedsSource
  <1>. HIDE DEF p
  <1>6. Joins(s, a, p, NewOf(s.configured, m.dataChannel), {}, FALSE)
    BY <1>1, CreateJoins DEF p
  <1>. HIDE DEF a
  <1>7. Joins(s, b, p, q, {}, bTransmitUEAudio)
    BY <1>6, JoinsStreams
  <1>. HIDE DEF b, q
  <1>8. StateOK(b) /\ p \in Live(b) /\ b.Players[p] = q
    BY <1>7 DEF Joins
  <1>9. Becomes(b, c, p, r)
    BY <1>8, NegotiationBecomes
  <1>. HIDE DEF c, r
  <1>10. Joins(s, c, p, r, {}, bTransmitUEAudio)
    BY <1>7, <1>9, JoinsThen
  <1>11. Joins(s, d, p, r, {} \cup {Saying("iceCandidate", p)}, bTransmitUEAudio)
    BY <1>10, JoinsReply
  <1>. HIDE DEF d
  <1>12. Joins(s, Reply(d, "offer", p), p, r,
               ({} \cup {Saying("iceCandidate", p)}) \cup {Saying("offer", p)}, bTransmitUEAudio)
    BY <1>11, JoinsReply
  <1>13. QED
    BY <1>2, <1>3, <1>4, <1>5, <1>12 DEF p

LEMMA AnswerJoins ==
    ASSUME NEW s, NEW t, NEW p, NEW q, Joins(s, t, p, q, {}, FALSE)
    PROVE  Joins(s, SendAnswer(t, p), p,
                 [DirectionOf(TrackOf(SinkOf(q, "receive")), TRUE) EXCEPT !.negotiation = "connected"],
                 ({} \cup {Saying("iceCandidate", p)}) \cup {Saying("answer", p)}, bTransmitUEAudio)
  <1>. DEFINE a == OnTrack(t, p, "receive")
              b == AddStreams(a, p, TRUE)
              c == Reply(b, "iceCandidate", p)
              d == [c EXCEPT !.Players[p].negotiation = "connected"]
              e == [d EXCEPT !.bStreamingStarted = TRUE]
              r == DirectionOf(TrackOf(SinkOf(q, "receive")), TRUE)
              u == [r EXCEPT !.negotiation = "connected"]
  <1>1. StateOK(t) /\ p \in Live(t) /\ t.Players[p] = q
    BY DEF Joins
  <1>2. Becomes(t, a, p, SinkOf(q, "receive"))
    BY <1>1, SinkBecomes
  <1>. HIDE DEF a
  <1>3. Joins(s, a, p, SinkOf(q, "receive"), {}, FALSE)
    BY <1>2, JoinsThen
  <1>4. Joins(s, b, p, r, {}, bTransmitUEAudio)
    BY <1>3, JoinsStreams
  <1>5. SetLocalDescription(b, p) = c
    BY DEF SetLocalDescription, SendIceCandidate
  <1>. HIDE DEF b, r
  <1>6. Joins(s, c, p, r, {} \cup {Saying("iceCandidate", p)}, bTransmitUEAudio)
    BY <1>4, JoinsReply
  <1>. HIDE DEF c
  <1>7. StateOK(c) /\ p \in Live(c) /\ c.Players[p] = r
    BY <1>6 DEF Joins
  <1>8. Becomes(c, d, p, u)
    BY <1>7, NegotiationBecomes
  <1>9. [c EXCEPT !.Players[p].negotiation = "connected", !.bStreamingStarted = TRUE] = e
    BY <1>7 DEF StateOK
  <1>. HIDE DEF d, u
  <1>10. Joins(s, d, p, u, {} \cup {Saying("iceCandidate", p)}, bTransmitUEAudio)
    BY <1>6, <1>8, JoinsThen
  <1>11. Joins(s, e, p, u, {} \cup {Saying("iceCandidate", p)}, bTransmitUEAudio)
    BY <1>10, JoinsStarted
  <1>. HIDE DEF e
  <1>12. Joins(s, Reply(e, "answer", p), p, u,
               ({} \cup {Saying("iceCandidate", p)}) \cup {Saying("answer", p)}, bTransmitUEAudio)
    BY <1>11, JoinsReply
  <1>13. SendAnswer(t, p) = Reply(e, "answer", p)
    BY <1>5, <1>9 DEF SendAnswer, a, b
  <1>14. QED
    BY <1>12, <1>13 DEF u, r

LEMMA DisconnectJoins ==
    ASSUME NEW s, NEW t, NEW p, NEW configured \in BOOLEAN, Joins(s, t, p, NewOf(configured, TRUE), {}, FALSE)
    PROVE  Joins(s, DisconnectPlayer(t, p), p, [NewOf(configured, TRUE) EXCEPT !.bDisconnecting = TRUE],
                 {} \cup {Saying("disconnectPlayer", p)}, FALSE)
  <1>. DEFINE q == NewOf(configured, TRUE)
              r == [q EXCEPT !.bDisconnecting = TRUE]
              u == [t EXCEPT !.Players[p] = r]
  <1>1. StateOK(t) /\ p \in Live(t) /\ t.Players[p] = q
    BY DEF Joins
  <1>2. q \in Session /\ ~q.bDisconnecting
    BY DEF NewOf, NewSession, Session
  <1>. HIDE DEF q
  <1>3. r \in Session
    BY <1>2, SessionChanges
  <1>4. [t EXCEPT !.Players[p].bDisconnecting = TRUE] = u
    BY <1>1 DEF StateOK
  <1>. HIDE DEF r
  <1>5. Becomes(t, u, p, r)
    BY <1>1, <1>3, ReplacedBecomes
  <1>. HIDE DEF u
  <1>6. Joins(s, u, p, r, {}, FALSE)
    BY <1>5, JoinsThen DEF q
  <1>7. Joins(s, Reply(u, "disconnectPlayer", p), p, r, {} \cup {Saying("disconnectPlayer", p)}, FALSE)
    BY <1>6, JoinsReply
  <1>8. DisconnectPlayer(t, p) = Reply(u, "disconnectPlayer", p)
    BY <1>1, <1>2, <1>4 DEF DisconnectPlayer
  <1>9. QED
    BY <1>7, <1>8 DEF r, q

LEMMA OfferJoins ==
    ASSUME NEW s, StateOK(s), NEW m \in Messages, m.type = "offer", ToPlayerId(m.id) \notin Live(s)
    PROVE  Joins(s, OnOffer(s, m), ToPlayerId(m.id), ComingSession(s.configured, m),
                 ComingReplies(m), NeedsSource(m))
  <1>. DEFINE p == ToPlayerId(m.id)
              a == CreateSession(s, p, TRUE)
              r == ComingSession(s.configured, m)
  <1>1. m.id \in PlayerIds /\ m.sdp \in {"bad", "refused", "good"} /\ p \in Int
    BY MessageFields, IdIsInt DEF Sdps
  <1>2. Creates(s, p)
    BY DEF Creates
  <1>3. r = OfferedSession(s.configured, m.sdp)
    BY DEF ComingSession
  <1>. HIDE DEF p
  <1>4. Joins(s, a, p, NewOf(s.configured, TRUE), {}, FALSE)
    BY <1>1, CreateJoins DEF p
  <1>. HIDE DEF a
  <1>5. CASE m.sdp = "bad"
    <2>1. OnOffer(s, m) = a
      BY <1>2, <1>5 DEF OnOffer, a, p
    <2>2. r = NewOf(s.configured, TRUE)
      BY <1>3, <1>5 DEF OfferedSession
    <2>3. ComingReplies(m) = {}
      BY <1>5 DEF ComingReplies
    <2>4. NeedsSource(m) = FALSE
      BY <1>5 DEF NeedsSource
    <2>5. QED
      BY <1>4, <2>1, <2>2, <2>3, <2>4 DEF p
  <1>6. CASE m.sdp = "refused"
    <2>1. OnOffer(s, m) = DisconnectPlayer(a, p)
      BY <1>2, <1>6 DEF OnOffer, a, p
    <2>2. r = [NewOf(s.configured, TRUE) EXCEPT !.bDisconnecting = TRUE]
      BY <1>3, <1>6 DEF OfferedSession
    <2>3. ComingReplies(m) = {} \cup {Saying("disconnectPlayer", p)}
      BY <1>6 DEF ComingReplies, p
    <2>4. NeedsSource(m) = FALSE
      BY <1>6 DEF NeedsSource
    <2>5. s.configured \in BOOLEAN
      BY PlayersOf
    <2>6. Joins(s, DisconnectPlayer(a, p), p, [NewOf(s.configured, TRUE) EXCEPT !.bDisconnecting = TRUE],
                {} \cup {Saying("disconnectPlayer", p)}, FALSE)
      BY <1>4, <2>5, DisconnectJoins
    <2>7. QED
      BY <2>1, <2>2, <2>3, <2>4, <2>6 DEF p
  <1>7. CASE m.sdp = "good"
    <2>1. OnOffer(s, m) = SendAnswer(a, p)
      BY <1>2, <1>7 DEF OnOffer, a, p
    <2>2. r = [DirectionOf(TrackOf(SinkOf(NewOf(s.configured, TRUE), "receive")), TRUE)
                  EXCEPT !.negotiation = "connected"]
      BY <1>3, <1>7 DEF OfferedSession
    <2>3. ComingReplies(m) = ({} \cup {Saying("iceCandidate", p)}) \cup {Saying("answer", p)}
      BY <1>7 DEF ComingReplies, p
    <2>4. NeedsSource(m) = bTransmitUEAudio
      BY <1>7, MessagesAssumption DEF NeedsSource
    <2>5. Joins(s, SendAnswer(a, p), p,
                [DirectionOf(TrackOf(SinkOf(NewOf(s.configured, TRUE), "receive")), TRUE)
                    EXCEPT !.negotiation = "connected"],
                ({} \cup {Saying("iceCandidate", p)}) \cup {Saying("answer", p)}, bTransmitUEAudio)
      BY <1>4, AnswerJoins
    <2>6. QED
      BY <2>1, <2>2, <2>3, <2>4, <2>5 DEF p
  <1>8. QED
    BY <1>1, <1>5, <1>6, <1>7

-----------------------------------------------------------------------------
\* From s to t the player p leaves, and the first of those left controls the
\* quality if p did.
Departs(s, t, p) ==
    /\ StateOK(t) /\ Live(t) = Live(s) \ {p}
    /\ \A q \in Live(t) : t.Players[q] = s.Players[q]
    /\ t.configured = s.configured /\ t.bAudioSource = s.bAudioSource /\ t.sent = s.sent
    /\ t.controller = IF p \in Live(s) /\ p = s.controller /\ Live(t) # {}
                      THEN FirstInMap(Live(t)) ELSE s.controller

\* From s to t nothing changes but the session of the player m is about, if it
\* has one.
Changes(s, t, m) ==
    LET p == ToPlayerId(m.id) IN
    /\ StateOK(t) /\ Live(t) = Live(s) /\ SameShared(s, t)
    /\ \A q \in Live(s) \ {p} : t.Players[q] = s.Players[q]
    /\ p \in Live(s) => t.Players[p] = UpdatedSession(s.Players[p], m)

\* From s to t no session changes.
Replies(m) == IF m.type = "identify" THEN {Saying("endpointId", NoPlayer)} ELSE {}

Notes(s, t, m) ==
    /\ StateOK(t) /\ t.Players = s.Players /\ Live(t) = Live(s)
    /\ t.controller = s.controller /\ t.bAudioSource = s.bAudioSource
    /\ IF m.type = "config" THEN t.configured = TRUE ELSE t.configured = s.configured
    /\ t.sent = s.sent \cup Replies(m)

LEMMA DisconnectDeparts ==
    ASSUME NEW s, StateOK(s), NEW m \in Messages, Leaves(m)
    PROVE  Departs(s, OnMessage(s, m), ToPlayerId(m.id))
  <1>. DEFINE p == ToPlayerId(m.id)
              left == Live(s) \ {p}
              players == [q \in left |-> s.Players[q]]
              controller == IF p \in Live(s) /\ p = s.controller /\ left # {}
                            THEN FirstInMap(left) ELSE s.controller
              t == OnMessage(s, m)
  <1>1. players \in [left -> Session] /\ left \in SUBSET Int
    BY PlayersOf
  <1>2. \A q \in left : players[q] = s.Players[q]
    OBVIOUS
  <1>3. PICK bStarted \in BOOLEAN : bStarted = (s.bStreamingStarted /\ left # {})
    <2>1. (s.bStreamingStarted /\ left # {}) \in BOOLEAN
      OBVIOUS
    <2>2. QED
      BY <2>1
  <1>4. t = [s EXCEPT !.Players = players, !.controller = controller, !.bStreamingStarted = bStarted]
    <2>1. t = OnPlayerDisconnected(s, m)
      BY DEF Leaves, OnMessage
    <2>2. QED
      BY <1>3, <2>1 DEF OnPlayerDisconnected, DeletePlayerSession
  <1>5. players \in PlayerMaps /\ DOMAIN players = left
    <2>. HIDE DEF left, players
    <2>1. QED
      BY <1>1 DEF PlayerMaps
  <1>. HIDE DEF players, left, controller, t
  <1>6. /\ StateOK(t) /\ t.Players = players /\ Live(t) = left /\ t.controller = controller
        /\ t.configured = s.configured /\ t.bAudioSource = s.bAudioSource /\ t.sent = s.sent
    BY <1>4, <1>5 DEF StateOK, Live
  <1>7. t.controller = IF p \in Live(s) /\ p = s.controller /\ Live(t) # {}
                       THEN FirstInMap(Live(t)) ELSE s.controller
    BY <1>6 DEF controller
  <1>8. Live(t) = Live(s) \ {p}
    BY <1>6 DEF left
  <1>. HIDE DEF p
  <1>9. QED
    BY <1>2, <1>6, <1>7, <1>8 DEF Departs, t, p

LEMMA AnswerChanges ==
    ASSUME NEW s, StateOK(s), NEW m \in Messages, m.type = "answer"
    PROVE  Changes(s, OnMessage(s, m), m)
  <1>. DEFINE p == ToPlayerId(m.id)
              u == [s EXCEPT !.bStreamingStarted = TRUE]
              n == [u EXCEPT !.Players[p].negotiation = "connected"]
              t == OnAnswer(s, m)
  <1>1. StateOK(u) /\ u.Players = s.Players /\ Live(u) = Live(s)
    BY Started
  <1>2. SameShared(s, u)
    BY DEF StateOK, SameShared
  <1>3. OnMessage(s, m) = t
    BY DEF OnMessage
  <1>4. CASE p \in Live(s) /\ m.sdp = "good" /\ s.Players[p].negotiation = "offered"
    <2>1. t = OnTrack(n, p, s.Players[p].direction)
      BY <1>4 DEF OnAnswer
    <2>2. UpdatedSession(s.Players[p], m) =
              SinkOf([s.Players[p] EXCEPT !.negotiation = "connected"], s.Players[p].direction)
      BY <1>4 DEF UpdatedSession, AnsweredSession
    <2>. HIDE DEF p, u, t
    <2>3. Becomes(u, n, p, [u.Players[p] EXCEPT !.negotiation = "connected"])
      BY <1>1, <1>4, NegotiationBecomes
    <2>. DEFINE r == [u.Players[p] EXCEPT !.negotiation = "connected"]
                direction == s.Players[p].direction
    <2>4. StateOK(n) /\ p \in Live(n) /\ n.Players[p] = r
      BY <1>1, <1>4, <2>3 DEF Becomes, Only
    <2>. HIDE DEF n, r, direction
    <2>5. Becomes(n, OnTrack(n, p, direction), p, SinkOf(n.Players[p], direction))
      BY <2>4, SinkBecomes
    <2>6. Becomes(u, t, p, SinkOf(r, direction))
      BY <2>1, <2>3, <2>4, <2>5, BecomesThen DEF direction, r
    <2>7. SinkOf(r, direction) = UpdatedSession(s.Players[p], m)
      BY <1>1, <2>2 DEF r, direction
    <2>8. QED
      BY <1>1, <1>2, <1>3, <2>6, <2>7 DEF Changes, Becomes, Only, SameShared, p
  <1>5. CASE ~(p \in Live(s) /\ m.sdp = "good" /\ s.Players[p].negotiation = "offered")
    <2>1. t = u
      BY <1>5 DEF OnAnswer
    <2>2. p \in Live(s) => UpdatedSession(s.Players[p], m) = s.Players[p]
      BY <1>5 DEF UpdatedSession, AnsweredSession
    <2>. HIDE DEF u, t, p
    <2>3. QED
      BY <1>1, <1>2, <1>3, <2>1, <2>2 DEF Changes, p
  <1>6. QED
    BY <1>4, <1>5

LEMMA CandidateChanges ==
    ASSUME NEW s, StateOK(s), NEW m \in Messages, m.type = "iceCandidate"
    PROVE  Changes(s, OnMessage(s, m), m)
  <1>. DEFINE p == ToPlayerId(m.id)
              r == [s.Players[p] EXCEPT !.candidates = 1]
              t == OnMessage(s, m)
  <1>1. t = OnRemoteIceCandidate(s, p)
    BY DEF OnMessage, OnPlayerIceCandidate
  <1>2. CASE p \in Live(s) /\ s.Players[p].negotiation = "connected"
    <2>1. t = [s EXCEPT !.Players[p].candidates = 1]
      BY <1>1, <1>2 DEF OnRemoteIceCandidate, AddIceCandidate
    <2>2. r \in Session
      <3>1. s.Players[p] \in Session
        BY <1>2, PlayersOf
      <3>2. QED
        BY <3>1 DEF Session
    <2>3. t = [s EXCEPT !.Players[p] = r]
      BY <1>2, <2>1 DEF StateOK
    <2>4. UpdatedSession(s.Players[p], m) = r
      BY <1>2 DEF UpdatedSession, ReachedSession
    <2>. HIDE DEF r, t, p
    <2>5. Becomes(s, t, p, r)
      BY <1>2, <2>2, <2>3, ReplacedBecomes
    <2>6. QED
      BY <2>4, <2>5 DEF Becomes, Only, Changes, t, p
  <1>3. CASE p \in Live(s) /\ s.Players[p].negotiation # "connected"
    <2>1. t = s /\ UpdatedSession(s.Players[p], m) = s.Players[p]
      BY <1>1, <1>3 DEF OnRemoteIceCandidate, AddIceCandidate, UpdatedSession, ReachedSession
    <2>2. QED
      BY <2>1 DEF Changes, SameShared
  <1>4. CASE p \notin Live(s)
    <2>1. t = s
      BY <1>1, <1>4 DEF OnRemoteIceCandidate
    <2>2. QED
      BY <1>4, <2>1 DEF Changes, SameShared
  <1>5. QED
    BY <1>2, <1>3, <1>4

LEMMA OtherNotes ==
    ASSUME NEW s, StateOK(s), NEW m \in Messages, m.type \notin PlayerTypes
    PROVE  Notes(s, OnMessage(s, m), m)
  <1>. DEFINE t == OnMessage(s, m)
  <1>1. m.type \in {"identify", "config", "playerCount", "pong", "streamer candidate"}
    BY MessageKinds
  <1>2. CASE m.type = "identify"
    <2>1. t = Reply(s, "endpointId", NoPlayer)
      BY <1>2 DEF OnMessage, OnIdRequested
    <2>2. Replies(m) = {Saying("endpointId", NoPlayer)}
      BY <1>2 DEF Replies
    <2>. HIDE DEF t
    <2>3. StateOK(t) /\ t.Players = s.Players /\ Live(t) = Live(s)
      BY <2>1, Replied
    <2>4. /\ t.configured = s.configured /\ t.controller = s.controller
          /\ t.bAudioSource = s.bAudioSource /\ t.sent = s.sent \cup {Saying("endpointId", NoPlayer)}
      BY <2>1, RepliedShared
    <2>5. QED
      BY <1>2, <2>2, <2>3, <2>4 DEF Notes, t
  <1>3. CASE m.type = "config"
    <2>1. t = [s EXCEPT !.configured = TRUE]
      BY <1>3 DEF OnMessage, OnConfig
    <2>2. Replies(m) = {}
      BY <1>3 DEF Replies
    <2>. HIDE DEF t
    <2>3. /\ StateOK(t) /\ t.Players = s.Players /\ Live(t) = Live(s)
          /\ t.configured = TRUE /\ t.controller = s.controller
          /\ t.bAudioSource = s.bAudioSource /\ t.sent = s.sent
      BY <2>1 DEF StateOK, Live
    <2>4. QED
      BY <1>3, <2>2, <2>3 DEF Notes, t
  <1>4. CASE m.type \in {"playerCount", "pong", "streamer candidate"}
    <2>1. t = s
      BY <1>4 DEF OnMessage, OnStreamerIceCandidate, OnPlayerCount
    <2>2. Replies(m) = {} /\ m.type # "config"
      BY <1>4 DEF Replies
    <2>. HIDE DEF t
    <2>3. QED
      BY <2>1, <2>2 DEF Notes, t
  <1>5. QED
    BY <1>1, <1>2, <1>3, <1>4

\* Every message, by what it does.
LEMMA MessageEffect ==
    ASSUME NEW s, StateOK(s), NEW m \in Messages
    PROVE  LET p == ToPlayerId(m.id)
               t == OnMessage(s, m) IN
           /\ StateOK(t)
           /\ Comes(m) /\ p \in Live(s) => t = s
           /\ Comes(m) /\ p \notin Live(s) =>
                 Joins(s, t, p, ComingSession(s.configured, m), ComingReplies(m), NeedsSource(m))
           /\ Updates(m) => Changes(s, t, m)
           /\ Leaves(m) => Departs(s, t, p)
           /\ m.type \notin PlayerTypes => Notes(s, t, m)
  <1>. DEFINE p == ToPlayerId(m.id)
              t == OnMessage(s, m)
  <1>1. StateOK(t)
    BY MessageStep
  <1>2. ASSUME m.type = "playerConnected" PROVE t = OnPlayerConnected(s, m)
    BY <1>2 DEF OnMessage
  <1>3. ASSUME m.type = "offer" PROVE t = OnOffer(s, m)
    BY <1>3 DEF OnMessage
  <1>4. ASSUME Comes(m), p \in Live(s) PROVE t = s
    BY <1>2, <1>3, <1>4 DEF Comes, OnPlayerConnected, OnOffer, Creates
  <1>5. ASSUME Comes(m), p \notin Live(s)
        PROVE  Joins(s, t, p, ComingSession(s.configured, m), ComingReplies(m), NeedsSource(m))
    BY <1>2, <1>3, <1>5, ConnectedJoins, OfferJoins DEF Comes
  <1>6. ASSUME Updates(m) PROVE Changes(s, t, m)
    BY <1>6, AnswerChanges, CandidateChanges DEF Updates
  <1>7. ASSUME Leaves(m) PROVE Departs(s, t, p)
    BY <1>7, DisconnectDeparts
  <1>8. ASSUME m.type \notin PlayerTypes PROVE Notes(s, t, m)
    BY <1>8, OtherNotes
  <1>9. QED
    BY <1>1, <1>4, <1>5, <1>6, <1>7, <1>8

\* A message is of one of these kinds.
LEMMA KindsApart ==
    ASSUME NEW m \in Messages
    PROVE  /\ Comes(m) \/ Updates(m) \/ Leaves(m) \/ m.type \notin PlayerTypes
           /\ Comes(m) => ~Updates(m) /\ ~Leaves(m) /\ m.type \in PlayerTypes
           /\ Updates(m) => ~Leaves(m) /\ m.type \in PlayerTypes
           /\ Leaves(m) => m.type \in PlayerTypes
  BY DEF Comes, Updates, Leaves, PlayerTypes

-----------------------------------------------------------------------------
Player(m) == ToPlayerId(m.id)

\* The first of some players is one of them.
LEMMA FirstInMapIs == ASSUME NEW S, S # {} PROVE FirstInMap(S) \in S
  BY DEF FirstInMap

\* Nothing was said before about a player that comes, and if anything was, it
\* is not the SFU.
LEMMA NewPlayer ==
    ASSUME NEW c, InOrder(c), NEW f \in Frames, NEW g \in Frames, f < g, Comes(c[g]),
           c[f].type \in PlayerTypes
    PROVE  Player(c[f]) # Player(c[g]) /\ Player(c[g]) # SFU_PLAYER_ID
  <1>1. c[f].id < c[g].id
    BY DEF InOrder
  <1>2. c[f].id \in PlayerIds /\ c[g].id \in PlayerIds
    <2>1. c[f] \in Messages /\ c[g] \in Messages
      BY DEF InOrder
    <2>2. c[g].type \in PlayerTypes
      BY <2>1, KindsApart
    <2>3. QED
      BY <2>1, <2>2, MessageKinds
  <1>3. c[f].id \in Int /\ c[g].id \in Int
    BY <1>2, PlayerIdsAreInts
  <1>4. ~ (c[g].id <= c[f].id) /\ c[f].id # c[g].id
    BY <1>1, <1>3
  <1>5. QED
    BY <1>2, <1>4, IdsDiffer DEF Player

\* A candidate is not followed by an answer of the same player.
LEMMA AnswerFirst ==
    ASSUME NEW c, InOrder(c), NEW f \in Frames, NEW g \in Frames, f < g, c[g].type = "answer",
           c[f].type = "iceCandidate"
    PROVE  Player(c[f]) # Player(c[g])
  <1>1. c[f].id # c[g].id
    BY DEF InOrder
  <1>2. c[f].id \in PlayerIds /\ c[g].id \in PlayerIds
    <2>1. c[f] \in Messages /\ c[g] \in Messages
      BY DEF InOrder
    <2>2. QED
      BY <2>1, MessageKinds DEF PlayerTypes
  <1>3. QED
    BY <1>1, <1>2, IdsDiffer DEF Player

\* A message that has had its effect has none after a later one either, and
\* none when it comes again.
LEMMA UpdatedTwice ==
    ASSUME NEW r \in Session, NEW m \in Messages, NEW n \in Messages, Updates(m), Updates(n),
           n = m \/ UpdatedSession(r, n) = r,
           ~(m.type = "answer" /\ n.type = "iceCandidate")
    PROVE  UpdatedSession(UpdatedSession(r, m), n) = UpdatedSession(r, m)
  <1>. DEFINE u == UpdatedSession(r, m)
  <1>1. CASE m.type = "answer"
    <2>1. n.type = "answer"
      BY <1>1 DEF Updates
    <2>2. u = AnsweredSession(r, m) /\ UpdatedSession(u, n) = AnsweredSession(u, n)
          /\ UpdatedSession(r, n) = AnsweredSession(r, n)
      BY <1>1, <2>1 DEF UpdatedSession
    <2>3. CASE m.sdp = "good" /\ r.negotiation = "offered"
      <3>1. u.negotiation = "connected"
        BY <2>2, <2>3 DEF AnsweredSession, SinkOf, Session
      <3>2. QED
        BY <2>2, <3>1 DEF AnsweredSession
    <2>4. CASE ~(m.sdp = "good" /\ r.negotiation = "offered")
      <3>1. u = r
        BY <2>2, <2>4 DEF AnsweredSession
      <3>2. QED
        BY <2>2, <2>4, <3>1 DEF AnsweredSession
    <2>5. QED
      BY <2>3, <2>4
  <1>2. CASE m.type = "iceCandidate" /\ n.type = "iceCandidate"
    <2>1. u = ReachedSession(r) /\ UpdatedSession(u, n) = ReachedSession(u)
      BY <1>2 DEF UpdatedSession
    <2>2. [[r EXCEPT !.candidates = 1] EXCEPT !.candidates = 1] = [r EXCEPT !.candidates = 1]
          /\ [r EXCEPT !.candidates = 1].negotiation = r.negotiation
      BY DEF Session
    <2>3. QED
      BY <2>1, <2>2 DEF ReachedSession
  <1>3. CASE m.type = "iceCandidate" /\ n.type = "answer"
    <2>1. u = ReachedSession(r) /\ UpdatedSession(u, n) = AnsweredSession(u, n)
          /\ UpdatedSession(r, n) = AnsweredSession(r, n)
      BY <1>3 DEF UpdatedSession
    <2>2. AnsweredSession(r, n) = r
      BY <1>3, <2>1
    <2>3. u.negotiation = r.negotiation
      BY <2>1 DEF ReachedSession, Session
    <2>4. CASE n.sdp = "good" /\ r.negotiation = "offered"
      <3>1. AnsweredSession(r, n).negotiation = "connected"
        BY <2>4 DEF AnsweredSession, SinkOf, Session
      <3>2. QED
        BY <2>2, <2>4, <3>1
    <2>5. CASE ~(n.sdp = "good" /\ r.negotiation = "offered")
      BY <2>1, <2>3, <2>5 DEF AnsweredSession
    <2>6. QED
      BY <2>4, <2>5
  <1>4. QED
    BY <1>1, <1>2, <1>3 DEF Updates

-----------------------------------------------------------------------------
(* What is true of the state t after the first k messages, told once each. *)

Known(c, t, k) ==
    \A q \in Live(t) : \E f \in 1 .. k : Comes(c[f]) /\ Player(c[f]) = q

NotBack(c, t, k) ==
    \A f \in 1 .. k : Leaves(c[f]) => Player(c[f]) \notin Live(t)

Stayed(c, t, k) ==
    \A f \in 1 .. k : Comes(c[f]) =>
        \/ Player(c[f]) \in Live(t)
        \/ \E d \in f + 1 .. k : Leaves(c[d]) /\ Player(c[d]) = Player(c[f])

Said(c, t, k) ==
    \A f \in 1 .. k :
        /\ Comes(c[f]) => /\ ComingReplies(c[f]) \subseteq t.sent
                          /\ NeedsSource(c[f]) => t.bAudioSource = TRUE
        /\ c[f].type \notin PlayerTypes => /\ Replies(c[f]) \subseteq t.sent
                                           /\ c[f].type = "config" => t.configured = TRUE

Settled(c, t, k) ==
    \A f \in 1 .. k : Updates(c[f]) /\ Player(c[f]) \in Live(t) =>
        UpdatedSession(t.Players[Player(c[f])], c[f]) = t.Players[Player(c[f])]

\* A controller that has left may still be noted when nobody is there.
Controlled(t) == Live(t) # {} => t.controller \in Live(t) \cup {NoPlayer}

NobodyBefore(c, k) == \A f \in 1 .. k : c[f].type \notin PlayerTypes

Facts(c, t, k) ==
    /\ StateOK(t)
    /\ Known(c, t, k)
    /\ NotBack(c, t, k)
    /\ Stayed(c, t, k)
    /\ Said(c, t, k)
    /\ Settled(c, t, k)
    /\ Controlled(t)
    /\ NobodyBefore(c, k) => t.controller = NoPlayer

LEMMA FactsStart == ASSUME NEW c PROVE Facts(c, StartState, 0)
  <1>1. StateOK(StartState)
    <2>1. [p \in {} |-> 0] \in [{} -> Session] /\ {} \in SUBSET Int
      OBVIOUS
    <2>2. [p \in {} |-> 0] \in PlayerMaps
      BY <2>1 DEF PlayerMaps
    <2>3. QED
      BY <2>2 DEF StateOK, StartState
  <1>2. Live(StartState) = {} /\ StartState.controller = NoPlayer
    BY DEF Live, StartState
  <1>3. 1 .. 0 = {}
    OBVIOUS
  <1>4. QED
    BY <1>1, <1>2, <1>3 DEF Facts, Known, NotBack, Stayed, Said, Settled, Controlled

\* What the lemmas below say of one more message.
LEMMA OneMore ==
    ASSUME NEW c, InOrder(c), NEW k \in Nat, k + 1 \in Frames
    PROVE  /\ c[k + 1] \in Messages
           /\ \A f \in 1 .. k : f \in Frames /\ f \in Nat /\ f < k + 1 /\ c[f] \in Messages
           /\ \A f \in 1 .. k + 1 : f \in 1 .. k \/ f = k + 1
           /\ \A f \in 1 .. k : f \in 1 .. k + 1
           /\ k + 1 \in 1 .. k + 1
           /\ \A f \in 1 .. k : /\ k + 1 \in f + 1 .. k + 1
                                /\ \A d \in f + 1 .. k : d \in f + 1 .. k + 1
  BY FramesAssumption DEF InOrder, Frames

LEMMA NotThere ==
    ASSUME NEW c, InOrder(c), NEW k \in Nat, k + 1 \in Frames, NEW t, Known(c, t, k), Comes(c[k + 1])
    PROVE  Player(c[k + 1]) \notin Live(t)
  <1>. SUFFICES ASSUME Player(c[k + 1]) \in Live(t) PROVE FALSE
    OBVIOUS
  <1>1. PICK f \in 1 .. k : Comes(c[f]) /\ Player(c[f]) = Player(c[k + 1])
    BY DEF Known
  <1>2. f \in Frames /\ f < k + 1 /\ c[f].type \in PlayerTypes
    BY <1>1, OneMore, KindsApart
  <1>3. QED
    BY <1>1, <1>2, NewPlayer

\* The players after one more message.
LEMMA NextPlayers ==
    ASSUME NEW c, InOrder(c), NEW k \in Nat, k + 1 \in Frames, NEW t, Facts(c, t, k)
    PROVE  LET m == c[k + 1]
               p == Player(m)
               u == OnMessage(t, m) IN
           /\ Comes(m) => /\ p \notin Live(t) /\ Live(u) = Live(t) \cup {p}
                          /\ \A q \in Live(t) : u.Players[q] = t.Players[q]
           /\ Leaves(m) => /\ Live(u) = Live(t) \ {p}
                           /\ \A q \in Live(u) : u.Players[q] = t.Players[q]
           /\ ~Comes(m) /\ ~Leaves(m) => Live(u) = Live(t)
           /\ m.type \notin PlayerTypes => u.Players = t.Players
  <1>. DEFINE m == c[k + 1]
              p == Player(m)
              u == OnMessage(t, m)
  <1>1. m \in Messages /\ StateOK(t)
    BY OneMore DEF Facts
  <1>2. Comes(m) => p \notin Live(t)
    BY NotThere DEF Facts
  <1>. HIDE DEF m
  <1>3. /\ Comes(m) /\ p \notin Live(t) =>
              Joins(t, u, p, ComingSession(t.configured, m), ComingReplies(m), NeedsSource(m))
        /\ Updates(m) => Changes(t, u, m)
        /\ Leaves(m) => Departs(t, u, p)
        /\ m.type \notin PlayerTypes => Notes(t, u, m)
    BY <1>1, MessageEffect DEF Player
  <1>4. Comes(m) \/ Updates(m) \/ Leaves(m) \/ m.type \notin PlayerTypes
    BY <1>1, KindsApart
  <1>. HIDE DEF p, u
  <1>5. Comes(m) => /\ Live(u) = Live(t) \cup {p}
                    /\ \A q \in Live(t) : u.Players[q] = t.Players[q]
    BY <1>2, <1>3 DEF Joins
  <1>6. Leaves(m) => /\ Live(u) = Live(t) \ {p}
                     /\ \A q \in Live(u) : u.Players[q] = t.Players[q]
    BY <1>3 DEF Departs
  <1>7. ~Comes(m) /\ ~Leaves(m) => Live(u) = Live(t)
    BY <1>3, <1>4 DEF Changes, Notes
  <1>8. m.type \notin PlayerTypes => u.Players = t.Players
    BY <1>3 DEF Notes
  <1>9. QED
    BY <1>2, <1>5, <1>6, <1>7, <1>8 DEF m, p, u

LEMMA KnownStep ==
    ASSUME NEW c, InOrder(c), NEW k \in Nat, k + 1 \in Frames, NEW t, Facts(c, t, k)
    PROVE  Known(c, OnMessage(t, c[k + 1]), k + 1)
  <1>. DEFINE u == OnMessage(t, c[k + 1])
  <1>1. \A q \in Live(u) : q \in Live(t) \/ (Comes(c[k + 1]) /\ q = Player(c[k + 1]))
    BY NextPlayers
  <1>. HIDE DEF u
  <1>2. \A q \in Live(t) : \E f \in 1 .. k : Comes(c[f]) /\ Player(c[f]) = q
    BY DEF Facts, Known
  <1>3. QED
    BY <1>1, <1>2, OneMore DEF Known, u

LEMMA NotBackStep ==
    ASSUME NEW c, InOrder(c), NEW k \in Nat, k + 1 \in Frames, NEW t, Facts(c, t, k)
    PROVE  NotBack(c, OnMessage(t, c[k + 1]), k + 1)
  <1>. DEFINE u == OnMessage(t, c[k + 1])
  <1>1. ASSUME NEW f \in 1 .. k, Leaves(c[f]) PROVE Player(c[f]) \notin Live(u)
    <2>1. Player(c[f]) \notin Live(t)
      BY <1>1 DEF Facts, NotBack
    <2>2. Comes(c[k + 1]) => Player(c[f]) # Player(c[k + 1])
      <3>1. f \in Frames /\ f < k + 1 /\ c[f].type \in PlayerTypes
        BY <1>1, OneMore, KindsApart
      <3>2. QED
        BY <3>1, NewPlayer
    <2>3. \A q \in Live(u) : q \in Live(t) \/ (Comes(c[k + 1]) /\ q = Player(c[k + 1]))
      BY NextPlayers
    <2>. HIDE DEF u
    <2>4. QED
      BY <2>1, <2>2, <2>3
  <1>2. Leaves(c[k + 1]) => Player(c[k + 1]) \notin Live(u)
    BY NextPlayers
  <1>. HIDE DEF u
  <1>3. QED
    BY <1>1, <1>2, OneMore DEF NotBack, u

LEMMA StayedStep ==
    ASSUME NEW c, InOrder(c), NEW k \in Nat, k + 1 \in Frames, NEW t, Facts(c, t, k)
    PROVE  Stayed(c, OnMessage(t, c[k + 1]), k + 1)
  <1>. DEFINE u == OnMessage(t, c[k + 1])
  <1>1. \A q \in Live(t) : q \in Live(u) \/ (Leaves(c[k + 1]) /\ Player(c[k + 1]) = q)
    BY NextPlayers
  <1>2. Comes(c[k + 1]) => Player(c[k + 1]) \in Live(u)
    BY NextPlayers
  <1>. HIDE DEF u
  <1>3. ASSUME NEW f \in 1 .. k, Comes(c[f])
        PROVE  \/ Player(c[f]) \in Live(u)
               \/ \E d \in f + 1 .. k + 1 : Leaves(c[d]) /\ Player(c[d]) = Player(c[f])
    <2>1. \/ Player(c[f]) \in Live(t)
          \/ \E d \in f + 1 .. k : Leaves(c[d]) /\ Player(c[d]) = Player(c[f])
      BY <1>3 DEF Facts, Stayed
    <2>2. QED
      BY <1>1, <2>1, OneMore
  <1>4. QED
    BY <1>2, <1>3, OneMore DEF Stayed, u

LEMMA SaidStep ==
    ASSUME NEW c, InOrder(c), NEW k \in Nat, k + 1 \in Frames, NEW t, Facts(c, t, k)
    PROVE  Said(c, OnMessage(t, c[k + 1]), k + 1)
  <1>. DEFINE m == c[k + 1]
              p == Player(m)
              u == OnMessage(t, m)
  <1>1. m \in Messages /\ StateOK(t)
    BY OneMore DEF Facts
  <1>2. Comes(m) => p \notin Live(t)
    BY NotThere DEF Facts
  <1>. HIDE DEF m
  <1>3. /\ Comes(m) /\ p \notin Live(t) =>
              Joins(t, u, p, ComingSession(t.configured, m), ComingReplies(m), NeedsSource(m))
        /\ Updates(m) => Changes(t, u, m)
        /\ Leaves(m) => Departs(t, u, p)
        /\ m.type \notin PlayerTypes => Notes(t, u, m)
    BY <1>1, MessageEffect DEF Player
  <1>4. Comes(m) \/ Updates(m) \/ Leaves(m) \/ m.type \notin PlayerTypes
    BY <1>1, KindsApart
  <1>. HIDE DEF p, u
  <1>5. /\ Comes(m) => ComingReplies(m) \subseteq u.sent
        /\ Comes(m) /\ NeedsSource(m) => u.bAudioSource = TRUE
    BY <1>2, <1>3 DEF Joins
  <1>6. m.type \notin PlayerTypes => /\ Replies(m) \subseteq u.sent
                                     /\ m.type = "config" => u.configured = TRUE
    BY <1>3 DEF Notes
  <1>7. /\ t.sent \subseteq u.sent
        /\ t.bAudioSource = TRUE => u.bAudioSource = TRUE
        /\ t.configured = TRUE => u.configured = TRUE
    <2>1. CASE Comes(m)
      BY <1>2, <1>3, <2>1 DEF Joins
    <2>2. CASE Updates(m)
      BY <1>3, <2>2 DEF Changes, SameShared
    <2>3. CASE Leaves(m)
      BY <1>3, <2>3 DEF Departs
    <2>4. CASE m.type \notin PlayerTypes
      BY <1>3, <2>4 DEF Notes
    <2>5. QED
      BY <1>4, <2>1, <2>2, <2>3, <2>4
  <1>8. ASSUME NEW f \in 1 .. k
        PROVE  /\ Comes(c[f]) => /\ ComingReplies(c[f]) \subseteq u.sent
                                 /\ NeedsSource(c[f]) => u.bAudioSource = TRUE
               /\ c[f].type \notin PlayerTypes => /\ Replies(c[f]) \subseteq u.sent
                                                  /\ c[f].type = "config" => u.configured = TRUE
    <2>1. /\ Comes(c[f]) => /\ ComingReplies(c[f]) \subseteq t.sent
                            /\ NeedsSource(c[f]) => t.bAudioSource = TRUE
          /\ c[f].type \notin PlayerTypes => /\ Replies(c[f]) \subseteq t.sent
                                             /\ c[f].type = "config" => t.configured = TRUE
      BY DEF Facts, Said
    <2>2. QED
      BY <1>7, <2>1
  <1>9. QED
    BY <1>5, <1>6, <1>8, OneMore DEF Said, u, m

LEMMA SettledStep ==
    ASSUME NEW c, InOrder(c), NEW k \in Nat, k + 1 \in Frames, NEW t, Facts(c, t, k)
    PROVE  Settled(c, OnMessage(t, c[k + 1]), k + 1)
  <1>. DEFINE m == c[k + 1]
              p == Player(m)
              u == OnMessage(t, m)
              same(q, n) == UpdatedSession(u.Players[q], n) = u.Players[q]
  <1>1. m \in Messages /\ StateOK(t)
    BY OneMore DEF Facts
  <1>2. ASSUME NEW f \in 1 .. k, Updates(c[f]), Player(c[f]) \in Live(u)
        PROVE  same(Player(c[f]), c[f])
    <2>. DEFINE q == Player(c[f])
    <2>1. c[f] \in Messages /\ f \in Frames /\ f < k + 1 /\ c[f].type \in PlayerTypes
      BY <1>2, OneMore, KindsApart
    <2>2. q \in Live(t) => UpdatedSession(t.Players[q], c[f]) = t.Players[q]
      BY <1>2 DEF Facts, Settled
    <2>3. CASE ~Updates(m)
      <3>1. q \in Live(t) /\ u.Players[q] = t.Players[q]
        <4>1. CASE Comes(m)
          <5>1. q # p
            BY <2>1, <4>1, NewPlayer
          <5>2. /\ Live(u) = Live(t) \cup {p} /\ \A x \in Live(t) : u.Players[x] = t.Players[x]
            BY <4>1, NextPlayers
          <5>. HIDE DEF u, p
          <5>3. QED
            BY <1>2, <5>1, <5>2
        <4>2. CASE Leaves(m)
          <5>1. /\ Live(u) = Live(t) \ {p} /\ \A x \in Live(u) : u.Players[x] = t.Players[x]
            BY <4>2, NextPlayers
          <5>. HIDE DEF u, p
          <5>2. QED
            BY <1>2, <5>1
        <4>3. CASE m.type \notin PlayerTypes
          <5>1. u.Players = t.Players
            BY <4>3, NextPlayers
          <5>. HIDE DEF u
          <5>2. QED
            BY <1>2, <5>1 DEF Live
        <4>4. QED
          BY <1>1, <2>3, <4>1, <4>2, <4>3, KindsApart
      <3>2. QED
        BY <2>2, <3>1
    <2>4. CASE Updates(m)
      <3>1. Changes(t, u, m)
        BY <1>1, <2>4, MessageEffect
      <3>. HIDE DEF m, u
      <3>2. /\ Live(u) = Live(t) /\ \A x \in Live(t) \ {p} : u.Players[x] = t.Players[x]
            /\ p \in Live(t) => u.Players[p] = UpdatedSession(t.Players[p], m)
        BY <3>1 DEF Changes, Player
      <3>3. CASE q # p
        <4>1. q \in Live(t) /\ u.Players[q] = t.Players[q]
          BY <1>2, <3>2, <3>3
        <4>2. QED
          BY <2>2, <4>1
      <3>4. CASE q = p
        <4>1. p \in Live(t) /\ u.Players[q] = UpdatedSession(t.Players[q], m)
          BY <1>2, <3>2, <3>4
        <4>2. t.Players[q] \in Session
          BY <1>1, <3>4, <4>1, PlayersOf
        <4>3. ~(m.type = "answer" /\ c[f].type = "iceCandidate")
          BY <2>1, <3>4, AnswerFirst DEF m
        <4>4. UpdatedSession(t.Players[q], c[f]) = t.Players[q]
          BY <2>2, <3>4, <4>1
        <4>. HIDE DEF q
        <4>5. UpdatedSession(UpdatedSession(t.Players[q], m), c[f]) = UpdatedSession(t.Players[q], m)
          BY <1>1, <1>2, <2>1, <2>4, <4>2, <4>3, <4>4, UpdatedTwice
        <4>6. QED
          BY <4>1, <4>5 DEF q
      <3>5. QED
        BY <3>3, <3>4
    <2>5. QED
      BY <2>3, <2>4
  <1>3. ASSUME Updates(m), p \in Live(u) PROVE same(p, m)
    <2>1. Changes(t, u, m)
      BY <1>1, <1>3, MessageEffect
    <2>. HIDE DEF m, u
    <2>2. p \in Live(t) /\ u.Players[p] = UpdatedSession(t.Players[p], m)
      BY <1>3, <2>1 DEF Changes, Player
    <2>3. t.Players[p] \in Session
      BY <1>1, <2>2, PlayersOf
    <2>4. ~(m.type = "answer" /\ m.type = "iceCandidate")
      OBVIOUS
    <2>. HIDE DEF p
    <2>5. UpdatedSession(UpdatedSession(t.Players[p], m), m) = UpdatedSession(t.Players[p], m)
      BY <1>1, <1>3, <2>3, <2>4, UpdatedTwice
    <2>6. QED
      BY <2>2, <2>5
  <1>. HIDE DEF u
  <1>4. QED
    BY <1>2, <1>3, OneMore DEF Settled, u

LEMMA ControlledStep ==
    ASSUME NEW c, InOrder(c), NEW k \in Nat, k + 1 \in Frames, NEW t, Facts(c, t, k)
    PROVE  LET u == OnMessage(t, c[k + 1]) IN
           Controlled(u) /\ (NobodyBefore(c, k + 1) => u.controller = NoPlayer)
  <1>. DEFINE m == c[k + 1]
              p == Player(m)
              u == OnMessage(t, m)
  <1>1. m \in Messages /\ StateOK(t)
    BY OneMore DEF Facts
  <1>2. Comes(m) => p \notin Live(t)
    BY NotThere DEF Facts
  <1>3. ASSUME Comes(m), p = SFU_PLAYER_ID PROVE t.controller = NoPlayer
    <2>1. ASSUME NEW f \in 1 .. k, c[f].type \in PlayerTypes PROVE FALSE
      BY <1>3, <2>1, OneMore, NewPlayer
    <2>2. QED
      BY <2>1 DEF Facts, NobodyBefore
  <1>4. NobodyBefore(c, k + 1) => NobodyBefore(c, k) /\ m.type \notin PlayerTypes
    BY OneMore DEF NobodyBefore
  <1>5. Controlled(t) /\ (NobodyBefore(c, k) => t.controller = NoPlayer)
    BY DEF Facts
  <1>. HIDE DEF m
  <1>6. /\ Comes(m) /\ p \notin Live(t) =>
              Joins(t, u, p, ComingSession(t.configured, m), ComingReplies(m), NeedsSource(m))
        /\ Updates(m) => Changes(t, u, m)
        /\ Leaves(m) => Departs(t, u, p)
        /\ m.type \notin PlayerTypes => Notes(t, u, m)
    BY <1>1, MessageEffect DEF Player
  <1>7. Comes(m) \/ Updates(m) \/ Leaves(m) \/ m.type \notin PlayerTypes
    BY <1>1, KindsApart
  <1>. HIDE DEF p, u
  <1>8. Controlled(u)
    <2>1. CASE Comes(m)
      <3>1. /\ Live(u) = Live(t) \cup {p}
            /\ u.controller = IF p # SFU_PLAYER_ID /\ Live(t) = {} THEN p ELSE t.controller
        BY <1>2, <1>6, <2>1 DEF Joins
      <3>2. QED
        BY <1>3, <1>5, <2>1, <3>1 DEF Controlled
    <2>2. CASE Updates(m)
      BY <1>5, <1>6, <2>2 DEF Changes, SameShared, Controlled
    <2>3. CASE Leaves(m)
      <3>1. /\ Live(u) = Live(t) \ {p}
            /\ u.controller = IF p \in Live(t) /\ p = t.controller /\ Live(u) # {}
                              THEN FirstInMap(Live(u)) ELSE t.controller
        BY <1>6, <2>3 DEF Departs
      <3>2. Live(u) # {} => FirstInMap(Live(u)) \in Live(u)
        BY FirstInMapIs
      <3>3. QED
        BY <1>5, <3>1, <3>2 DEF Controlled
    <2>4. CASE m.type \notin PlayerTypes
      BY <1>5, <1>6, <2>4 DEF Notes, Controlled
    <2>5. QED
      BY <1>7, <2>1, <2>2, <2>3, <2>4
  <1>9. NobodyBefore(c, k + 1) => u.controller = NoPlayer
    BY <1>4, <1>5, <1>6 DEF Notes
  <1>10. QED
    BY <1>8, <1>9 DEF u, m

LEMMA FactsStep ==
    ASSUME NEW c, InOrder(c), NEW k \in Nat, k + 1 \in Frames, NEW t, Facts(c, t, k)
    PROVE  Facts(c, OnMessage(t, c[k + 1]), k + 1)
  <1>1. StateOK(OnMessage(t, c[k + 1]))
    BY OneMore, MessageEffect DEF Facts
  <1>2. QED
    BY <1>1, KnownStep, NotBackStep, StayedStep, SaidStep, SettledStep, ControlledStep DEF Facts

-----------------------------------------------------------------------------
(* The state s of a client that is about to hand over frame next again,     *)
(* against the state t of one that has handed over k frames once each: s    *)
(* may have ghosts, players that have left and came again, and a frame that *)
(* lets each go is still to come.                                           *)

Agrees(c, s, t, next, k) ==
    /\ StateOK(s)
    /\ \A q \in Live(t) : q \in Live(s) /\ s.Players[q] = t.Players[q]
    /\ \A q \in Live(s) \ Live(t) : \E d \in next .. k : Leaves(c[d]) /\ Player(c[d]) = q
    /\ s.configured = t.configured /\ s.bAudioSource = t.bAudioSource /\ s.sent = t.sent
    /\ Live(t) # {} => s.controller = t.controller
    /\ NobodyBefore(c, k) => s.controller = NoPlayer

LEMMA AgreesStart == ASSUME NEW c PROVE Agrees(c, StartState, StartState, 1, 0)
  <1>1. StateOK(StartState) /\ StartState.controller = NoPlayer
    BY FactsStart DEF Facts, StartState
  <1>2. QED
    BY <1>1 DEF Agrees

\* A frame that comes again.
LEMMA AgreesAgain ==
    ASSUME NEW c, InOrder(c), NEW k \in Nat, k <= N, NEW t, Facts(c, t, k),
           NEW f \in 1 .. k, NEW s, Agrees(c, s, t, f, k)
    PROVE  Agrees(c, OnMessage(s, c[f]), t, f + 1, k)
  <1>. DEFINE m == c[f]
              p == Player(m)
              u == OnMessage(s, m)
  <1>1. m \in Messages /\ StateOK(s)
    BY FramesAssumption DEF InOrder, Frames, Agrees
  <1>2. \A d \in f .. k : d = f \/ d \in f + 1 .. k
    OBVIOUS
  <1>3. /\ Comes(m) => \/ p \in Live(t)
                       \/ \E d \in f + 1 .. k : Leaves(c[d]) /\ Player(c[d]) = p
        /\ Comes(m) => ComingReplies(m) \subseteq t.sent /\ (NeedsSource(m) => t.bAudioSource = TRUE)
        /\ m.type \notin PlayerTypes => /\ Replies(m) \subseteq t.sent
                                        /\ m.type = "config" => t.configured = TRUE
        /\ Updates(m) /\ p \in Live(t) => UpdatedSession(t.Players[p], m) = t.Players[p]
        /\ Leaves(m) => p \notin Live(t)
    BY DEF Facts, Stayed, Said, Settled, NotBack
  <1>4. m.type \in PlayerTypes => ~NobodyBefore(c, k)
    BY DEF NobodyBefore
  <1>5. \A q \in Live(s) \ Live(t) :
           \/ \E d \in f + 1 .. k : Leaves(c[d]) /\ Player(c[d]) = q
           \/ Leaves(m) /\ p = q
    BY <1>2 DEF Agrees
  <1>6. Controlled(t)
    BY DEF Facts
  <1>7. m.type \in PlayerTypes => p # NoPlayer
    BY <1>1, MessageKinds, IdsDiffer DEF Player
  <1>8. Comes(m) \/ Updates(m) \/ Leaves(m) \/ m.type \notin PlayerTypes
    BY <1>1, KindsApart
  <1>9. /\ Comes(m) => m.type \in PlayerTypes /\ ~Leaves(m)
        /\ Updates(m) => m.type \in PlayerTypes /\ ~Leaves(m)
        /\ Leaves(m) => m.type \in PlayerTypes
    BY <1>1, KindsApart
  <1>. HIDE DEF m
  <1>10. /\ StateOK(u)
         /\ Comes(m) /\ p \in Live(s) => u = s
         /\ Comes(m) /\ p \notin Live(s) =>
               Joins(s, u, p, ComingSession(s.configured, m), ComingReplies(m), NeedsSource(m))
         /\ Updates(m) => Changes(s, u, m)
         /\ Leaves(m) => Departs(s, u, p)
         /\ m.type \notin PlayerTypes => Notes(s, u, m)
    BY <1>1, MessageEffect DEF Player
  <1>. DEFINE ghosts(v) == \A q \in Live(v) \ Live(t) :
                              \E d \in f + 1 .. k : Leaves(c[d]) /\ Player(c[d]) = q
              kept(v) == \A q \in Live(t) : q \in Live(v) /\ v.Players[q] = t.Players[q]
  <1>11. kept(s)
    BY DEF Agrees
  <1>. HIDE DEF p, u
  <1>12. CASE Comes(m) /\ p \in Live(s)
    <2>1. ghosts(s)
      BY <1>5, <1>9, <1>12
    <2>2. u = s
      BY <1>10, <1>12
    <2>3. QED
      BY <2>1, <2>2 DEF Agrees, u, m
  <1>13. CASE Comes(m) /\ p \notin Live(s)
    <2>1. Joins(s, u, p, ComingSession(s.configured, m), ComingReplies(m), NeedsSource(m))
      BY <1>10, <1>13
    <2>2. p \notin Live(t)
      BY <1>11, <1>13
    <2>3. ghosts(u)
      <3>1. Live(u) = Live(s) \cup {p}
        BY <2>1 DEF Joins
      <3>2. QED
        BY <1>3, <1>5, <1>9, <1>13, <2>2, <3>1
    <2>4. kept(u)
      BY <1>11, <1>13, <2>1 DEF Joins
    <2>5. u.configured = t.configured /\ u.sent = t.sent /\ u.bAudioSource = t.bAudioSource
      BY <1>3, <1>13, <2>1 DEF Joins, Agrees
    <2>6. Live(t) # {} => u.controller = t.controller
      BY <1>11, <2>1 DEF Joins, Agrees
    <2>7. ~NobodyBefore(c, k)
      BY <1>4, <1>9, <1>13
    <2>8. QED
      BY <1>10, <2>3, <2>4, <2>5, <2>6, <2>7 DEF Agrees, u, m
  <1>14. CASE Updates(m)
    <2>1. Changes(s, u, m)
      BY <1>10, <1>14
    <2>2. /\ Live(u) = Live(s) /\ \A q \in Live(s) \ {p} : u.Players[q] = s.Players[q]
          /\ p \in Live(s) => u.Players[p] = UpdatedSession(s.Players[p], m)
      BY <2>1 DEF Changes, p, Player
    <2>3. ghosts(u)
      BY <1>5, <1>9, <1>14, <2>2
    <2>4. kept(u)
      <3>1. ASSUME NEW q \in Live(t) PROVE u.Players[q] = t.Players[q]
        <4>1. CASE q = p
          BY <1>3, <1>11, <1>14, <2>2, <4>1
        <4>2. CASE q # p
          BY <1>11, <2>2, <4>2
        <4>3. QED
          BY <4>1, <4>2
      <3>2. QED
        BY <1>11, <2>2, <3>1
    <2>5. ~NobodyBefore(c, k)
      BY <1>4, <1>9, <1>14
    <2>6. /\ u.configured = t.configured /\ u.sent = t.sent /\ u.bAudioSource = t.bAudioSource
          /\ Live(t) # {} => u.controller = t.controller
      BY <2>1 DEF Changes, SameShared, Agrees
    <2>7. QED
      BY <1>10, <2>3, <2>4, <2>5, <2>6 DEF Agrees, u, m
  <1>15. CASE Leaves(m)
    <2>1. Departs(s, u, p) /\ p \notin Live(t)
      BY <1>3, <1>10, <1>15
    <2>2. ghosts(u)
      BY <1>5, <2>1 DEF Departs
    <2>3. kept(u)
      BY <1>11, <2>1 DEF Departs
    <2>4. Live(t) # {} => u.controller = t.controller
      <3>1. Live(t) # {} => p # s.controller
        BY <1>6, <1>7, <1>9, <1>15, <2>1 DEF Controlled, Agrees
      <3>2. p # s.controller => u.controller = s.controller
        BY <2>1 DEF Departs
      <3>3. QED
        BY <3>1, <3>2 DEF Agrees
    <2>5. ~NobodyBefore(c, k)
      BY <1>4, <1>9, <1>15
    <2>6. u.configured = t.configured /\ u.sent = t.sent /\ u.bAudioSource = t.bAudioSource
      BY <2>1 DEF Departs, Agrees
    <2>7. QED
      BY <1>10, <2>2, <2>3, <2>4, <2>5, <2>6 DEF Agrees, u, m
  <1>16. CASE m.type \notin PlayerTypes
    <2>1. Notes(s, u, m)
      BY <1>10, <1>16
    <2>2. u.Players = s.Players /\ Live(u) = Live(s) /\ u.controller = s.controller
      BY <2>1 DEF Notes
    <2>3. ghosts(u)
      BY <1>5, <1>9, <1>16, <2>2
    <2>4. kept(u)
      BY <1>11, <2>2
    <2>5. u.configured = t.configured /\ u.sent = t.sent /\ u.bAudioSource = t.bAudioSource
      BY <1>3, <1>16, <2>1 DEF Notes, Agrees
    <2>6. /\ Live(t) # {} => u.controller = t.controller
          /\ NobodyBefore(c, k) => u.controller = NoPlayer
      BY <2>2 DEF Agrees
    <2>7. QED
      BY <1>10, <2>3, <2>4, <2>5, <2>6 DEF Agrees, u, m
  <1>17. QED
    BY <1>8, <1>12, <1>13, <1>14, <1>15, <1>16

\* With nothing left to come again there are no ghosts.
LEMMA NoGhosts ==
    ASSUME NEW c, NEW s, NEW t, NEW k \in Nat, Agrees(c, s, t, k + 1, k), StateOK(t)
    PROVE  Live(s) = Live(t) /\ s.Players = t.Players
  <1>1. k + 1 .. k = {}
    OBVIOUS
  <1>2. Live(s) = Live(t)
    BY <1>1 DEF Agrees
  <1>3. \A q \in Live(t) : s.Players[q] = t.Players[q]
    BY DEF Agrees
  <1>4. s.Players \in [Live(s) -> Session] /\ t.Players \in [Live(t) -> Session]
    BY PlayersOf DEF Agrees
  <1>5. QED
    BY <1>2, <1>3, <1>4

\* A frame that comes for the first time.
LEMMA AgreesNew ==
    ASSUME NEW c, InOrder(c), NEW k \in Nat, k + 1 \in Frames, NEW t, Facts(c, t, k),
           NEW s, Agrees(c, s, t, k + 1, k)
    PROVE  Agrees(c, OnMessage(s, c[k + 1]), OnMessage(t, c[k + 1]), k + 2, k + 1)
  <1>. DEFINE m == c[k + 1]
              p == Player(m)
              u == OnMessage(s, m)
              v == OnMessage(t, m)
  <1>1. m \in Messages /\ StateOK(s) /\ StateOK(t)
    BY OneMore DEF Agrees, Facts
  <1>2. Live(s) = Live(t) /\ s.Players = t.Players
    BY <1>1, NoGhosts
  <1>3. Comes(m) => p \notin Live(t)
    BY NotThere DEF Facts
  <1>4. ASSUME Comes(m), p = SFU_PLAYER_ID PROVE s.controller = NoPlayer /\ t.controller = NoPlayer
    <2>1. ASSUME NEW f \in 1 .. k, c[f].type \in PlayerTypes PROVE FALSE
      BY <1>4, <2>1, OneMore, NewPlayer
    <2>2. QED
      BY <2>1 DEF Facts, Agrees, NobodyBefore
  <1>5. NobodyBefore(c, k + 1) => NobodyBefore(c, k) /\ m.type \notin PlayerTypes
    BY OneMore DEF NobodyBefore
  <1>6. NobodyBefore(c, k) => s.controller = NoPlayer
    BY DEF Agrees
  <1>7. /\ s.configured = t.configured /\ s.bAudioSource = t.bAudioSource /\ s.sent = t.sent
        /\ Live(t) # {} => s.controller = t.controller
    BY DEF Agrees
  <1>. HIDE DEF m
  <1>8. /\ StateOK(u)
        /\ Comes(m) /\ p \notin Live(s) =>
              Joins(s, u, p, ComingSession(s.configured, m), ComingReplies(m), NeedsSource(m))
        /\ Updates(m) => Changes(s, u, m)
        /\ Leaves(m) => Departs(s, u, p)
        /\ m.type \notin PlayerTypes => Notes(s, u, m)
    BY <1>1, MessageEffect DEF Player
  <1>9. /\ StateOK(v)
        /\ Comes(m) /\ p \notin Live(t) =>
              Joins(t, v, p, ComingSession(t.configured, m), ComingReplies(m), NeedsSource(m))
        /\ Updates(m) => Changes(t, v, m)
        /\ Leaves(m) => Departs(t, v, p)
        /\ m.type \notin PlayerTypes => Notes(t, v, m)
    BY <1>1, MessageEffect DEF Player
  <1>10. Comes(m) \/ Updates(m) \/ Leaves(m) \/ m.type \notin PlayerTypes
    BY <1>1, KindsApart
  <1>. HIDE DEF p, u, v
  <1>. DEFINE same == /\ Live(u) = Live(v) /\ \A q \in Live(v) : u.Players[q] = v.Players[q]
                      /\ u.configured = v.configured /\ u.bAudioSource = v.bAudioSource
                      /\ u.sent = v.sent
                      /\ Live(v) # {} => u.controller = v.controller
  <1>11. same
    <2>1. CASE Comes(m)
      <3>1. /\ Joins(s, u, p, ComingSession(s.configured, m), ComingReplies(m), NeedsSource(m))
            /\ Joins(t, v, p, ComingSession(s.configured, m), ComingReplies(m), NeedsSource(m))
        BY <1>2, <1>3, <1>7, <1>8, <1>9, <2>1
      <3>. DEFINE r == ComingSession(s.configured, m)
                  replies == ComingReplies(m)
                  bSource == NeedsSource(m)
      <3>. HIDE DEF r, replies, bSource
      <3>2. Live(u) = Live(v) /\ \A q \in Live(v) : u.Players[q] = v.Players[q]
        BY <1>2, <3>1 DEF Joins
      <3>3. u.configured = v.configured /\ u.bAudioSource = v.bAudioSource /\ u.sent = v.sent
        BY <1>7, <3>1 DEF Joins
      <3>4. u.controller = v.controller
        BY <1>2, <1>4, <1>7, <2>1, <3>1 DEF Joins
      <3>5. QED
        BY <3>2, <3>3, <3>4
    <2>2. CASE Updates(m)
      <3>1. Changes(s, u, m) /\ Changes(t, v, m)
        BY <1>8, <1>9, <2>2
      <3>2. Live(u) = Live(v) /\ \A q \in Live(v) : u.Players[q] = v.Players[q]
        BY <1>2, <3>1 DEF Changes
      <3>3. QED
        BY <1>2, <1>7, <3>1, <3>2 DEF Changes, SameShared
    <2>3. CASE Leaves(m)
      <3>1. Departs(s, u, p) /\ Departs(t, v, p)
        BY <1>8, <1>9, <2>3
      <3>2. Live(u) = Live(v) /\ \A q \in Live(v) : u.Players[q] = v.Players[q]
        BY <1>2, <3>1 DEF Departs
      <3>3. Live(v) # {} => u.controller = v.controller
        BY <1>2, <1>7, <3>1 DEF Departs
      <3>4. QED
        BY <1>7, <3>1, <3>2, <3>3 DEF Departs
    <2>4. CASE m.type \notin PlayerTypes
      <3>1. Notes(s, u, m) /\ Notes(t, v, m)
        BY <1>8, <1>9, <2>4
      <3>2. QED
        BY <1>2, <1>7, <3>1 DEF Notes
    <2>5. QED
      BY <1>10, <2>1, <2>2, <2>3, <2>4
  <1>12. NobodyBefore(c, k + 1) => u.controller = NoPlayer
    BY <1>5, <1>6, <1>8 DEF Notes
  <1>13. QED
    BY <1>8, <1>11, <1>12 DEF Agrees, u, v, m

\* Nobody can tell the two states apart then.
LEMMA AgreesSeen ==
    ASSUME NEW c, NEW s, NEW t, NEW k \in Nat, Agrees(c, s, t, k + 1, k), StateOK(t), Controlled(t)
    PROVE  Seen(s) = Seen(t)
  <1>1. Live(s) = Live(t) /\ s.Players = t.Players
    BY NoGhosts
  <1>2. StateOK(s)
    BY DEF Agrees
  <1>. DEFINE shown(x) == IF x.controller \in Live(x) THEN x.controller ELSE NoPlayer
  <1>3. shown(s) = shown(t)
    BY <1>1 DEF Agrees
  <1>4. Seen(s) = [s EXCEPT !.controller = shown(s), !.bStreamingStarted = FALSE]
        /\ Seen(t) = [t EXCEPT !.controller = shown(t), !.bStreamingStarted = FALSE]
    BY DEF Seen
  <1>. HIDE DEF shown
  <1>5. s.configured = t.configured /\ s.bAudioSource = t.bAudioSource /\ s.sent = t.sent
    BY DEF Agrees
  <1>6. ASSUME NEW x, StateOK(x), NEW y
        PROVE  LET a == [x EXCEPT !.controller = y, !.bStreamingStarted = FALSE] IN
               /\ StateOK(a) /\ a.Players = x.Players /\ a.controller = y
               /\ a.configured = x.configured /\ a.bAudioSource = x.bAudioSource
               /\ a.bStreamingStarted = FALSE /\ a.sent = x.sent
    <2>. DEFINE a == [x EXCEPT !.controller = y]
    <2>1. StateOK(a) /\ a.Players = x.Players /\ a.controller = y
          /\ a.configured = x.configured /\ a.bAudioSource = x.bAudioSource /\ a.sent = x.sent
      BY <1>6 DEF StateOK
    <2>. HIDE DEF a
    <2>. DEFINE b == [a EXCEPT !.bStreamingStarted = FALSE]
    <2>2. StateOK(b) /\ b.Players = a.Players /\ b.controller = a.controller
          /\ b.configured = a.configured /\ b.bAudioSource = a.bAudioSource
          /\ b.bStreamingStarted = FALSE /\ b.sent = a.sent
      BY <2>1 DEF StateOK
    <2>3. [x EXCEPT !.controller = y, !.bStreamingStarted = FALSE] = b
      BY DEF a
    <2>. HIDE DEF b
    <2>4. QED
      BY <2>1, <2>2, <2>3
  <1>7. ASSUME NEW x, NEW y, StateOK(x), StateOK(y), x.Players = y.Players,
               x.controller = y.controller, x.configured = y.configured,
               x.bAudioSource = y.bAudioSource, x.bStreamingStarted = y.bStreamingStarted,
               x.sent = y.sent
        PROVE  x = y
    BY <1>7 DEF StateOK
  <1>8. /\ StateOK(Seen(s)) /\ Seen(s).Players = s.Players /\ Seen(s).controller = shown(s)
        /\ Seen(s).configured = s.configured /\ Seen(s).bAudioSource = s.bAudioSource
        /\ Seen(s).bStreamingStarted = FALSE /\ Seen(s).sent = s.sent
    <2>1. LET a == [s EXCEPT !.controller = shown(s), !.bStreamingStarted = FALSE] IN
          /\ StateOK(a) /\ a.Players = s.Players /\ a.controller = shown(s)
          /\ a.configured = s.configured /\ a.bAudioSource = s.bAudioSource
          /\ a.bStreamingStarted = FALSE /\ a.sent = s.sent
      BY <1>2, <1>6, Zenon
    <2>2. QED
      BY <1>4, <2>1, Zenon
  <1>9. /\ StateOK(Seen(t)) /\ Seen(t).Players = t.Players /\ Seen(t).controller = shown(t)
        /\ Seen(t).configured = t.configured /\ Seen(t).bAudioSource = t.bAudioSource
        /\ Seen(t).bStreamingStarted = FALSE /\ Seen(t).sent = t.sent
    <2>1. LET a == [t EXCEPT !.controller = shown(t), !.bStreamingStarted = FALSE] IN
          /\ StateOK(a) /\ a.Players = t.Players /\ a.controller = shown(t)
          /\ a.configured = t.configured /\ a.bAudioSource = t.bAudioSource
          /\ a.bStreamingStarted = FALSE /\ a.sent = t.sent
      BY <1>6, Zenon
    <2>2. QED
      BY <1>4, <2>1, Zenon
  <1>10. QED
    BY <1>1, <1>3, <1>5, <1>7, <1>8, <1>9

-----------------------------------------------------------------------------
\* The states of a client that hands over every frame once, up to the n-th.
IsTold(c, told, n) ==
    told = [i \in 0 .. n |-> IF i = 0 THEN StartState ELSE OnMessage(told[i - 1], c[i])]

\* There are such states: those up to n make those up to n + 1.
LEMMA ToldExists == ASSUME NEW c, NEW n \in Nat PROVE \E told : IsTold(c, told, n)
  <1>. DEFINE bad == {i \in Nat : ~ \E told : IsTold(c, told, i)}
  <1>. SUFFICES bad = {}
    OBVIOUS
  <1>. SUFFICES ASSUME bad # {} PROVE FALSE
    OBVIOUS
  <1>1. PICK k \in bad : \A i \in bad : k <= i
    <2>1. bad \subseteq Nat
      OBVIOUS
    <2>. HIDE DEF bad
    <2>2. QED
      BY <2>1, LeastNumber
  <1>2. k \in Nat /\ ~ \E told : IsTold(c, told, k)
    OBVIOUS
  <1>3. CASE k = 0
    <2>. DEFINE told == [i \in 0 .. 0 |-> StartState]
    <2>1. \A i \in 0 .. 0 : i = 0
      OBVIOUS
    <2>2. told = [i \in 0 .. 0 |-> IF i = 0 THEN StartState ELSE OnMessage(told[i - 1], c[i])]
      BY <2>1
    <2>3. QED
      BY <1>2, <1>3, <2>2 DEF IsTold
  <1>4. CASE k > 0
    <2>1. k - 1 \in Nat /\ ~ k <= k - 1
      BY <1>2, <1>4
    <2>2. k - 1 \notin bad
      BY <1>1, <2>1
    <2>3. PICK f : IsTold(c, f, k - 1)
      BY <2>1, <2>2
    <2>. DEFINE g == [i \in 0 .. k |-> IF i = k THEN OnMessage(f[k - 1], c[k]) ELSE f[i]]
                h == [i \in 0 .. k |-> IF i = 0 THEN StartState ELSE OnMessage(g[i - 1], c[i])]
    <2>4. ASSUME NEW i \in 0 .. k PROVE g[i] = h[i]
      <3>1. CASE i = k
        <4>1. k - 1 \in 0 .. k /\ k - 1 # k /\ k \in 0 .. k /\ k # 0
          BY <1>2, <1>4
        <4>2. g[k - 1] = f[k - 1] /\ g[k] = OnMessage(f[k - 1], c[k])
          BY <4>1
        <4>. HIDE DEF g
        <4>3. h[k] = OnMessage(g[k - 1], c[k])
          BY <4>1
        <4>4. QED
          BY <3>1, <4>2, <4>3
      <3>2. CASE i # k
        <4>1. i \in 0 .. k - 1 /\ i # 0 => i - 1 \in 0 .. k /\ i - 1 # k
          BY <1>2, <3>2
        <4>2. f[i] = IF i = 0 THEN StartState ELSE OnMessage(f[i - 1], c[i])
          <5>1. i \in 0 .. k - 1
            BY <1>2, <3>2
          <5>2. QED
            BY <2>3, <5>1, Zenon DEF IsTold
        <4>3. g[i] = f[i]
          BY <3>2
        <4>4. i # 0 => g[i - 1] = f[i - 1]
          <5>1. i # 0 => i - 1 \in 0 .. k /\ i - 1 # k
            BY <1>2, <3>2
          <5>2. QED
            BY <5>1
        <4>. HIDE DEF g
        <4>5. QED
          BY <4>2, <4>3, <4>4
      <3>3. QED
        BY <3>1, <3>2
    <2>5. g = h
      BY <2>4
    <2>6. IsTold(c, g, k)
      <3>. HIDE DEF g
      <3>1. QED
        BY <2>5 DEF IsTold
    <2>7. QED
      BY <1>2, <2>6
  <1>5. QED
    BY <1>2, <1>3, <1>4

LEMMA ToldIs == IsTold(script, Told, N)
  <1>1. PICK told : IsTold(script, told, N)
    BY ToldExists, FramesAssumption
  <1>2. QED
    BY <1>1 DEF Told, IsTold

LEMMA ToldSteps ==
    ASSUME NEW c, NEW told, IsTold(c, told, N)
    PROVE  /\ told[0] = StartState
           /\ \A k \in Nat : k + 1 \in Frames => told[k + 1] = OnMessage(told[k], c[k + 1])
  <1>1. 0 \in 0 .. N
    BY FramesAssumption
  <1>2. told[0] = StartState
    BY <1>1, Zenon DEF IsTold
  <1>3. ASSUME NEW k \in Nat, k + 1 \in Frames PROVE told[k + 1] = OnMessage(told[k], c[k + 1])
    <2>1. k + 1 \in 0 .. N /\ k + 1 # 0 /\ (k + 1) - 1 = k
      BY <1>3, FramesAssumption DEF Frames
    <2>2. told[k + 1] = IF k + 1 = 0 THEN StartState ELSE OnMessage(told[(k + 1) - 1], c[k + 1])
      BY <2>1, Zenon DEF IsTold
    <2>3. QED
      BY <2>1, <2>2
  <1>4. QED
    BY <1>2, <1>3

\* The facts hold after any number of frames.
LEMMA FactsOfTold ==
    ASSUME NEW c, InOrder(c), NEW told, IsTold(c, told, N), NEW k \in 0 .. N
    PROVE  Facts(c, told[k], k)
  <1>. DEFINE bad == {i \in 0 .. N : ~Facts(c, told[i], i)}
  <1>. SUFFICES ASSUME bad # {} PROVE FALSE
    OBVIOUS
  <1>1. PICK n \in bad : \A i \in bad : n <= i
    <2>1. bad \subseteq Nat
      OBVIOUS
    <2>. HIDE DEF bad
    <2>2. QED
      BY <2>1, LeastNumber
  <1>2. n \in 0 .. N /\ ~Facts(c, told[n], n) /\ N \in Nat
    BY FramesAssumption
  <1>3. CASE n = 0
    BY <1>2, <1>3, FactsStart, ToldSteps
  <1>4. CASE n > 0
    <2>. DEFINE j == n - 1
    <2>1. j \in Nat /\ j \in 0 .. N /\ ~ n <= j /\ n = j + 1 /\ j + 1 \in Frames
      BY <1>2, <1>4 DEF Frames
    <2>2. Facts(c, told[j], j)
      BY <1>1, <2>1
    <2>. HIDE DEF j
    <2>3. Facts(c, OnMessage(told[j], c[j + 1]), j + 1)
      BY <2>1, <2>2, FactsStep
    <2>4. told[j + 1] = OnMessage(told[j], c[j + 1])
      BY <2>1, ToldSteps
    <2>5. QED
      BY <1>2, <2>1, <2>3, <2>4
  <1>5. QED
    BY <1>2, <1>3, <1>4

-----------------------------------------------------------------------------
\* The client has handed over k frames at least once, is about to hand over
\* frame next, and goes on to the last that is complete.
Replay(k, next, last) ==
    /\ \A f \in Frames : f <= last <=> Complete(received, f)
    /\ k <= last /\ next <= k + 1
    /\ Len(delivered) - handled = last + 1 - next
    /\ \A i \in handled + 1 .. Len(delivered) : delivered[i] = next + (i - handled - 1)
    /\ Agrees(script, state, Told[k], next, k)

ToldInv ==
    /\ MessagesInv
    /\ script \in Scripts
    /\ \E k \in 0 .. N, next \in 1 .. N + 1, last \in 0 .. N : Replay(k, next, last)

LEMMA ToldInitInv == MessagesInit => ToldInv
  <1>. SUFFICES ASSUME MessagesInit PROVE ToldInv
    OBVIOUS
  <1>1. MessagesInv /\ script \in Scripts
    BY MessagesInitInv DEF MessagesInit
  <1>2. received = 0 /\ delivered = <<>> /\ handled = 0 /\ state = StartState
    BY DEF MessagesInit, FramesInit
  <1>3. \A f \in Frames : ~(f <= 0) /\ ~Complete(received, f)
    BY <1>2, FramesAssumption DEF Complete, Frames
  <1>4. Agrees(script, state, Told[0], 1, 0)
    <2>1. Told[0] = StartState
      BY ToldIs, ToldSteps
    <2>2. QED
      BY <1>2, <2>1, AgreesStart
  <1>5. Replay(0, 1, 0)
    BY <1>2, <1>3, <1>4 DEF Replay
  <1>6. 0 \in 0 .. N /\ 1 \in 1 .. N + 1
    BY FramesAssumption
  <1>7. QED
    BY <1>1, <1>5, <1>6 DEF ToldInv

LEMMA ToldHandle == ToldInv /\ Handle => ToldInv'
  <1>. SUFFICES ASSUME ToldInv, Handle PROVE ToldInv'
    OBVIOUS
  <1>1. PICK k \in 0 .. N, next \in 1 .. N + 1, last \in 0 .. N : Replay(k, next, last)
    BY DEF ToldInv
  <1>. DEFINE m == script[next]
  <1>2. /\ received' = received /\ first' = first /\ delivered' = delivered /\ script' = script
        /\ handled' = handled + 1 /\ handled # Len(delivered)
        /\ state' = OnMessage(state, script[delivered[handled']])
    BY DEF Handle, frameVars, AllHandled
  <1>3. /\ handled \in Nat /\ Len(delivered) \in Nat /\ handled + 1 <= Len(delivered) /\ N \in Nat
    <2>1. delivered \in Seq(Frames) /\ handled \in Nat /\ handled <= Len(delivered)
      BY DEF ToldInv, MessagesInv, FramesInv, FramesTypeOK
    <2>2. Len(delivered) \in Nat
      BY <2>1
    <2>3. QED
      BY <1>2, <2>1, <2>2, FramesAssumption
  <1>4. /\ k \in Nat /\ next \in Nat \ {0} /\ last \in Nat /\ next <= last /\ next <= k + 1 /\ k <= last
        /\ last <= N /\ Len(delivered) - handled = last + 1 - next
    BY <1>1, <1>3 DEF Replay
  <1>5. delivered[handled + 1] = next
    <2>1. handled + 1 \in handled + 1 .. Len(delivered)
      BY <1>3
    <2>2. delivered[handled + 1] = next + ((handled + 1) - handled - 1)
      BY <1>1, <2>1 DEF Replay
    <2>3. QED
      BY <1>3, <1>4, <2>2
  <1>6. state' = OnMessage(state, m)
    BY <1>2, <1>5
  <1>7. InOrder(script)
    BY ScriptInOrder DEF ToldInv
  <1>8. Told' = Told
    BY <1>2 DEF Told
  <1>9. /\ Facts(script, Told[k], k)
        /\ \A i \in Nat : i + 1 \in Frames => Told[i + 1] = OnMessage(Told[i], script[i + 1])
    <2>1. Facts(script, Told[k], k)
      BY <1>7, ToldIs, FactsOfTold
    <2>2. QED
      BY <2>1, ToldIs, ToldSteps
  <1>10. Agrees(script, state, Told[k], next, k)
    BY <1>1 DEF Replay
  <1>11. /\ \A f \in Frames : f <= last <=> Complete(received, f)
         /\ \A i \in handled + 1 .. Len(delivered) : delivered[i] = next + (i - handled - 1)
    BY <1>1 DEF Replay
  <1>. DEFINE next1 == next + 1
  <1>12. \A i \in handled' + 1 .. Len(delivered') : delivered'[i] = next1 + (i - handled' - 1)
    <2>. SUFFICES ASSUME NEW i \in handled' + 1 .. Len(delivered')
                  PROVE  delivered'[i] = next1 + (i - handled' - 1)
      OBVIOUS
    <2>1. i \in handled + 1 .. Len(delivered) /\ i \in Int
      BY <1>2, <1>3
    <2>2. delivered[i] = next + (i - handled - 1)
      BY <1>11, <2>1
    <2>3. QED
      BY <1>2, <1>3, <1>4, <2>1, <2>2
  <1>13. Len(delivered') - handled' = last + 1 - next1
    BY <1>2, <1>3, <1>4
  <1>14. \A f \in Frames : f <= last <=> Complete(received', f)
    BY <1>2, <1>11
  <1>15. next1 \in 1 .. N + 1
    BY <1>3, <1>4
  <1>16. MessagesInv' /\ (script \in Scripts)'
    <2>1. MessagesInv'
      BY MessagesInvStep DEF ToldInv, MessagesNext
    <2>2. QED
      BY <1>2, <2>1 DEF ToldInv, Scripts
  <1>17. CASE next <= k
    <2>1. Agrees(script, OnMessage(state, m), Told[k], next1, k)
      <3>1. next \in 1 .. k /\ k <= N
        BY <1>4, <1>17
      <3>2. QED
        BY <1>4, <1>7, <1>9, <1>10, <3>1, AgreesAgain
    <2>. HIDE DEF m
    <2>2. Agrees(script, state, Told[k], next1, k)'
      BY <1>2, <1>6, <1>8, <2>1
    <2>3. k <= last /\ next1 <= k + 1
      BY <1>4, <1>17
    <2>. HIDE DEF next1
    <2>4. Replay(k, next1, last)'
      BY <1>12, <1>13, <1>14, <2>2, <2>3 DEF Replay
    <2>5. QED
      BY <1>15, <1>16, <2>4 DEF ToldInv
  <1>18. CASE next = k + 1
    <2>. DEFINE k1 == k + 1
    <2>1. k1 \in Frames /\ k1 \in 0 .. N /\ k1 <= last /\ next1 <= k1 + 1 /\ next1 = k + 2
      BY <1>3, <1>4, <1>18 DEF Frames
    <2>2. Agrees(script, OnMessage(state, script[k + 1]), OnMessage(Told[k], script[k + 1]), k + 2, k + 1)
      BY <1>4, <1>7, <1>9, <1>10, <1>18, <2>1, AgreesNew
    <2>3. Told[k1] = OnMessage(Told[k], script[k1])
      BY <1>4, <1>9, <2>1
    <2>4. Agrees(script, OnMessage(state, m), Told[k1], next1, k1)
      BY <1>18, <2>1, <2>2, <2>3
    <2>. HIDE DEF m, k1
    <2>5. Agrees(script, state, Told[k1], next1, k1)'
      BY <1>2, <1>6, <1>8, <2>4
    <2>. HIDE DEF next1
    <2>6. Replay(k1, next1, last)'
      BY <1>12, <1>13, <1>14, <2>1, <2>5 DEF Replay
    <2>7. QED
      BY <1>15, <1>16, <2>1, <2>6 DEF ToldInv
  <1>19. QED
    BY <1>4, <1>17, <1>18

\* Once all is handled, the client has handed over every frame that is complete.
LEMMA ReplayEnds ==
    ASSUME ToldInv, AllHandled
    PROVE  \E k \in 0 .. N : Replay(k, k + 1, k)
  <1>1. PICK k \in 0 .. N, next \in 1 .. N + 1, last \in 0 .. N : Replay(k, next, last)
    BY DEF ToldInv
  <1>2. Len(delivered) - handled = 0
    <2>1. handled \in Nat /\ handled = Len(delivered)
      BY DEF AllHandled, ToldInv, MessagesInv
    <2>2. QED
      BY <2>1
  <1>3. k <= last /\ next <= k + 1 /\ Len(delivered) - handled = last + 1 - next
    BY <1>1 DEF Replay
  <1>4. k = last /\ next = k + 1
    BY <1>2, <1>3, FramesAssumption
  <1>5. QED
    BY <1>1, <1>4

LEMMA ToldReceive ==
    ASSUME ToldInv, NEW bytes \in 1 .. End[N], Receive(bytes)
    PROVE  ToldInv'
  <1>1. PICK k \in 0 .. N : Replay(k, k + 1, k)
    BY ReplayEnds DEF Receive
  <1>2. /\ received' = received + bytes /\ handled' = handled /\ script' = script /\ state' = state
        /\ handled = Len(delivered)
    BY DEF Receive, OnMessageReceived, messageVars, AllHandled
  <1>3. PICK last \in 0 .. N :
           /\ \A f \in Frames : f <= last <=> Complete(received', f)
           /\ delivered' = delivered \o FrameRun(first, last)
    BY DEF Receive, OnMessageReceived
  <1>. DEFINE run == FrameRun(first, last)
  <1>4. /\ received \in Nat /\ bytes \in Nat /\ received <= received' /\ N \in Nat \ {0}
        /\ first \in Nat \ {0} /\ first <= N + 1 /\ delivered \in Seq(Frames)
    BY <1>2, FramesAssumption DEF ToldInv, MessagesInv, FramesInv, FramesTypeOK, Frames
  <1>5. /\ run \in Seq(Frames)
        /\ last < first => run = <<>>
        /\ last >= first => Len(run) = last - first + 1
        /\ \A i \in 1 .. Len(run) : run[i] \in first .. last
        /\ \A f \in first .. last : f - first + 1 \in 1 .. Len(run) /\ run[f - first + 1] = f
    BY <1>4, FrameRunIs
  <1>. HIDE DEF run
  <1>6. /\ Len(delivered') = Len(delivered) + Len(run) /\ Len(delivered) \in Nat /\ Len(run) \in Nat
        /\ \A i \in 1 .. Len(run) : delivered'[Len(delivered) + i] = run[i]
    <2>1. delivered' = delivered \o run
      BY <1>3 DEF run
    <2>2. QED
      BY <1>4, <1>5, <2>1
  <1>7. \A f \in Frames : f <= k <=> Complete(received, f)
    BY <1>1 DEF Replay
  <1>8. k <= last
    <2>1. CASE k = 0
      BY <1>3, <2>1
    <2>2. CASE k > 0
      <3>1. k \in Frames /\ k <= k
        BY <1>4, <2>2 DEF Frames
      <3>2. Complete(received, k)
        BY <1>7, <3>1
      <3>3. Complete(received', k)
        <4>1. End[k] \in Nat /\ End[k] <= received
          BY <3>1, <3>2, FramesAssumption DEF Complete
        <4>2. End[k] <= received'
          BY <1>2, <1>4, <4>1
        <4>3. QED
          BY <3>1, <4>2 DEF Complete
      <3>4. QED
        BY <1>3, <3>1, <3>3
    <2>3. QED
      BY <2>1, <2>2
  <1>9. first <= k + 1
    <2>1. CASE first = 1
      BY <2>1
    <2>2. CASE first > 1
      <3>1. first - 1 \in Frames /\ first - 1 < first
        BY <1>4, <2>2 DEF Frames
      <3>2. Complete(received, first - 1)
        BY <3>1 DEF ToldInv, MessagesInv, FramesInv, DroppedComplete
      <3>3. first - 1 <= k
        BY <1>7, <3>1, <3>2
      <3>4. QED
        BY <1>4, <3>3
    <2>3. QED
      BY <1>4, <2>1, <2>2
  <1>10. Agrees(script, state, Told[k], k + 1, k)
    BY <1>1 DEF Replay
  <1>11. Told' = Told
    BY <1>2 DEF Told
  <1>12. ASSUME NEW next \in Nat PROVE Agrees(script, state, Told[k], next, k)'
    <2>1. \A q \in Live(state) \ Live(Told[k]) :
             \E d \in next .. k : Leaves(script[d]) /\ Player(script[d]) = q
      <3>1. k + 1 .. k = {}
        OBVIOUS
      <3>2. QED
        BY <1>10, <3>1 DEF Agrees
    <2>2. Agrees(script, state, Told[k], next, k)
      BY <1>10, <2>1 DEF Agrees
    <2>3. QED
      BY <1>2, <1>11, <2>2
  <1>13. MessagesInv' /\ (script \in Scripts)'
    <2>1. MessagesInv'
      BY MessagesInvStep DEF ToldInv, MessagesNext
    <2>2. QED
      BY <1>2, <2>1 DEF ToldInv, Scripts
  <1>14. CASE last >= first
    <2>1. PICK next \in 1 .. N + 1 : next = first
      BY <1>4
    <2>2. Len(delivered') - handled' = last + 1 - next
      BY <1>2, <1>4, <1>5, <1>6, <1>14, <2>1
    <2>3. ASSUME NEW i \in handled' + 1 .. Len(delivered')
          PROVE  delivered'[i] = next + (i - handled' - 1)
      <3>. DEFINE j == i - Len(delivered)
                  f == first + j - 1
      <3>1. j \in 1 .. Len(run) /\ Len(delivered) + j = i /\ Len(run) = last - first + 1
        BY <1>2, <1>5, <1>6, <1>14
      <3>2. f \in first .. last /\ f - first + 1 = j
        BY <1>4, <3>1
      <3>3. delivered'[i] = run[j]
        BY <1>6, <3>1
      <3>4. run[j] = f
        BY <1>5, <3>2
      <3>5. QED
        BY <1>2, <1>4, <1>6, <2>1, <3>3, <3>4
    <2>4. Agrees(script, state, Told[k], next, k)'
      BY <1>12
    <2>5. next <= k + 1
      BY <1>9, <2>1
    <2>6. Replay(k, next, last)'
      BY <1>3, <1>8, <2>2, <2>3, <2>4, <2>5 DEF Replay
    <2>7. QED
      BY <1>13, <2>6 DEF ToldInv
  <1>15. CASE last < first
    <2>1. last = k
      BY <1>4, <1>8, <1>9, <1>15
    <2>2. delivered' = delivered
      <3>1. run = <<>>
        BY <1>5, <1>15
      <3>2. QED
        BY <1>3, <1>4, <3>1 DEF run
    <2>3. Len(delivered') - handled' = last + 1 - (k + 1)
      BY <1>2, <1>6, <2>1, <2>2
    <2>4. handled' + 1 .. Len(delivered') = {}
      BY <1>2, <1>6, <2>2
    <2>5. Agrees(script, state, Told[k], k + 1, k)'
      BY <1>12
    <2>6. Replay(k, k + 1, last)'
      BY <1>3, <2>1, <2>3, <2>4, <2>5 DEF Replay
    <2>7. k + 1 \in 1 .. N + 1
      BY <1>4
    <2>8. QED
      BY <1>13, <2>6, <2>7 DEF ToldInv
  <1>16. QED
    BY <1>4, <1>14, <1>15

LEMMA ToldInvStep == ToldInv /\ [MessagesNext]_<<frameVars, messageVars>> => ToldInv'
  <1>. SUFFICES ASSUME ToldInv, [MessagesNext]_<<frameVars, messageVars>> PROVE ToldInv'
    OBVIOUS
  <1>1. CASE Handle
    BY <1>1, ToldHandle
  <1>2. ASSUME NEW bytes \in 1 .. End[N], Receive(bytes) PROVE ToldInv'
    BY <1>2, ToldReceive
  <1>3. CASE UNCHANGED <<frameVars, messageVars>>
    <2>1. MessagesInv'
      BY MessagesInvStep DEF ToldInv
    <2>2. /\ received' = received /\ delivered' = delivered /\ script' = script
          /\ handled' = handled /\ state' = state
      BY <1>3 DEF frameVars, messageVars
    <2>3. Told' = Told
      BY <2>2 DEF Told
    <2>4. PICK k \in 0 .. N, next \in 1 .. N + 1, last \in 0 .. N : Replay(k, next, last)
      BY DEF ToldInv
    <2>5. Replay(k, next, last)'
      BY <2>2, <2>3, <2>4 DEF Replay
    <2>6. (script \in Scripts)'
      BY <2>2 DEF ToldInv, Scripts
    <2>7. QED
      BY <2>1, <2>5, <2>6 DEF ToldInv
  <1>4. QED
    BY <1>1, <1>2, <1>3 DEF MessagesNext

\* The inductive invariant: up to ghosts that are still to be let go, the
\* client is where it would be had it handed over every frame once.
THEOREM ToldInvariant == MessagesSpec => []ToldInv
  BY ToldInitInv, ToldInvStep, PTL DEF MessagesSpec

\* Frames come again, but nobody can tell: once all is handled, sessions,
\* controller, configuration and what was sent are those of a client that hands
\* over every frame once, for any messages the signalling server may send and
\* any cut of the stream.
THEOREM AgainAsOnce == MessagesSpec => []SessionsAsTold
  <1>1. ToldInv => SessionsAsTold
    <2>. SUFFICES ASSUME ToldInv, AllHandled PROVE Seen(state) = Seen(Told[Cardinality(Arrived)])
      BY DEF SessionsAsTold
    <2>1. PICK k \in 0 .. N : Replay(k, k + 1, k)
      BY ReplayEnds
    <2>2. Cardinality(Arrived) = k
      <3>1. Arrived = 1 .. k
        BY <2>1, FramesAssumption DEF Replay, Arrived, Frames
      <3>2. QED
        BY <3>1, FS_Interval, FramesAssumption
    <2>3. Facts(script, Told[k], k)
      BY ScriptInOrder, ToldIs, FactsOfTold DEF ToldInv
    <2>4. k \in Nat /\ Agrees(script, state, Told[k], k + 1, k)
      BY <2>1, FramesAssumption DEF Replay
    <2>5. QED
      BY <2>2, <2>3, <2>4, AgreesSeen DEF Facts
  <1>2. QED
    BY <1>1, ToldInvariant, PTL

-----------------------------------------------------------------------------
(* WebSocketCodec: powers of two. *)

\* power is the function that Power2 is, for the numbers up to n.
IsPower(power, n) == power = [i \in 0 .. n |-> IF i = 0 THEN 1 ELSE 2 * power[i - 1]]

\* There are such numbers: those up to n make those up to n + 1.
LEMMA PowerExists == ASSUME NEW n \in Nat PROVE \E power : IsPower(power, n)
  <1>. DEFINE bad == {i \in Nat : ~ \E power : IsPower(power, i)}
  <1>. SUFFICES bad = {}
    OBVIOUS
  <1>. SUFFICES ASSUME bad # {} PROVE FALSE
    OBVIOUS
  <1>1. PICK k \in bad : \A i \in bad : k <= i
    <2>1. bad \subseteq Nat
      OBVIOUS
    <2>. HIDE DEF bad
    <2>2. QED
      BY <2>1, LeastNumber
  <1>2. k \in Nat /\ ~ \E power : IsPower(power, k)
    OBVIOUS
  <1>3. CASE k = 0
    <2>. DEFINE power == [i \in 0 .. 0 |-> 1]
    <2>1. \A i \in 0 .. 0 : i = 0
      OBVIOUS
    <2>2. power = [i \in 0 .. 0 |-> IF i = 0 THEN 1 ELSE 2 * power[i - 1]]
      BY <2>1
    <2>3. QED
      BY <1>2, <1>3, <2>2 DEF IsPower
  <1>4. CASE k > 0
    <2>1. k - 1 \in Nat /\ ~ k <= k - 1
      BY <1>2, <1>4
    <2>2. k - 1 \notin bad
      BY <1>1, <2>1
    <2>3. PICK f : IsPower(f, k - 1)
      BY <2>1, <2>2
    <2>. DEFINE g == [i \in 0 .. k |-> IF i = k THEN 2 * f[k - 1] ELSE f[i]]
                h == [i \in 0 .. k |-> IF i = 0 THEN 1 ELSE 2 * g[i - 1]]
    <2>4. ASSUME NEW i \in 0 .. k PROVE g[i] = h[i]
      <3>1. CASE i = k
        BY <1>2, <1>4, <3>1
      <3>2. CASE i # k
        <4>1. f[i] = IF i = 0 THEN 1 ELSE 2 * f[i - 1]
          <5>1. i \in 0 .. k - 1
            BY <1>2, <3>2
          <5>2. QED
            BY <2>3, <5>1, Zenon DEF IsPower
        <4>2. i # 0 => i - 1 \in 0 .. k /\ i - 1 # k
          BY <1>2, <3>2
        <4>3. g[i] = f[i] /\ (i # 0 => g[i - 1] = f[i - 1])
          BY <3>2, <4>2
        <4>. HIDE DEF g
        <4>4. QED
          BY <4>1, <4>3
      <3>3. QED
        BY <3>1, <3>2
    <2>5. g = h
      BY <2>4
    <2>6. IsPower(g, k)
      <3>. HIDE DEF g
      <3>1. QED
        BY <2>5 DEF IsPower
    <2>7. QED
      BY <1>2, <2>6
  <1>5. QED
    BY <1>2, <1>3, <1>4

LEMMA BitsOfLength == 8 * BitsPerByte \in Nat /\ 24 <= 8 * BitsPerByte
  BY CodecAssumption

LEMMA PowerIs ==
    \A i \in 0 .. 8 * BitsPerByte : Power2[i] = IF i = 0 THEN 1 ELSE 2 * Power2[i - 1]
  <1>1. PICK power : IsPower(power, 8 * BitsPerByte)
    BY PowerExists, BitsOfLength
  <1>2. IsPower(Power2, 8 * BitsPerByte)
    BY <1>1, Zenon DEF IsPower, Power2
  <1>3. QED
    BY <1>2, Zenon DEF IsPower

\* A statement about numbers that holds of 0 and of n + 1 when it holds of n
\* holds of all up to the last: good is where it holds.
LEMMA UpTo ==
    ASSUME NEW last \in Nat, NEW good, 0 \in good,
           \A i \in 0 .. last : i # 0 /\ i - 1 \in good => i \in good
    PROVE  \A i \in 0 .. last : i \in good
  <1>. DEFINE bad == {i \in 0 .. last : i \notin good}
  <1>. SUFFICES ASSUME bad # {} PROVE FALSE
    OBVIOUS
  <1>1. PICK k \in bad : \A i \in bad : k <= i
    <2>1. bad \subseteq Nat
      OBVIOUS
    <2>. HIDE DEF bad
    <2>2. QED
      BY <2>1, LeastNumber
  <1>2. k \in 0 .. last /\ k # 0 /\ k \notin good
    OBVIOUS
  <1>3. k - 1 \in 0 .. last /\ ~ k <= k - 1
    BY <1>2
  <1>4. k - 1 \notin bad
    BY <1>1, <1>3
  <1>5. k - 1 \in good
    BY <1>3, <1>4
  <1>6. QED
    BY <1>2, <1>5

LEMMA PowerType == \A i \in 0 .. 8 * BitsPerByte : Power2[i] \in Nat \ {0}
  <1>. DEFINE good == {i \in 0 .. 8 * BitsPerByte : Power2[i] \in Nat \ {0}}
  <1>1. 0 \in good
    BY PowerIs, BitsOfLength
  <1>2. ASSUME NEW i \in 0 .. 8 * BitsPerByte, i # 0, i - 1 \in good PROVE i \in good
    <2>1. Power2[i] = 2 * Power2[i - 1]
      BY <1>2, PowerIs
    <2>2. Power2[i - 1] \in Nat \ {0}
      BY <1>2
    <2>3. Power2[i] \in Nat \ {0}
      BY <2>1, <2>2
    <2>4. QED
      BY <2>3
  <1>. HIDE DEF good
  <1>3. \A i \in 0 .. 8 * BitsPerByte : i \in good
    BY <1>1, <1>2, BitsOfLength, UpTo
  <1>4. QED
    BY <1>3 DEF good

\* The power of a sum is the product.
LEMMA PowerSum ==
    ASSUME NEW m \in Nat, NEW n \in Nat, m + n <= 8 * BitsPerByte
    PROVE  Power2[m + n] = Power2[m] * Power2[n]
  <1>. DEFINE good == {i \in Nat : m + i <= 8 * BitsPerByte => Power2[m + i] = Power2[m] * Power2[i]}
  <1>0. \A i \in Nat : m + i <= 8 * BitsPerByte =>
            m + i \in 0 .. 8 * BitsPerByte /\ i \in 0 .. 8 * BitsPerByte /\ m \in 0 .. 8 * BitsPerByte
    BY BitsOfLength
  <1>1. 0 \in good
    <2>1. m + 0 = m /\ m \in 0 .. 8 * BitsPerByte /\ 0 \in 0 .. 8 * BitsPerByte
      BY BitsOfLength
    <2>2. Power2[0] = 1 /\ Power2[m] \in Nat
      BY <2>1, PowerIs, PowerType
    <2>3. QED
      BY <2>1, <2>2
  <1>2. ASSUME NEW i \in 0 .. n, i # 0, i - 1 \in good PROVE i \in good
    <2>. SUFFICES ASSUME m + i <= 8 * BitsPerByte PROVE Power2[m + i] = Power2[m] * Power2[i]
      OBVIOUS
    <2>1. m + (i - 1) <= 8 * BitsPerByte /\ (m + i) - 1 = m + (i - 1) /\ m + i # 0 /\ i - 1 \in Nat
      BY <1>2, BitsOfLength
    <2>2. Power2[m + (i - 1)] = Power2[m] * Power2[i - 1]
      BY <1>2, <2>1
    <2>3. m + i \in 0 .. 8 * BitsPerByte /\ i \in 0 .. 8 * BitsPerByte /\ m \in 0 .. 8 * BitsPerByte
          /\ i - 1 \in 0 .. 8 * BitsPerByte
      BY <1>0, <1>2, <2>1
    <2>4. Power2[m + i] = 2 * Power2[m + (i - 1)]
      BY <2>1, <2>3, PowerIs
    <2>5. Power2[i] = 2 * Power2[i - 1]
      BY <1>2, <2>3, PowerIs
    <2>6. Power2[m] \in Nat /\ Power2[i - 1] \in Nat
      BY <2>3, PowerType
    <2>7. \A x, y \in Nat : 2 * (x * y) = x * (2 * y)
      BY SMT
    <2>8. QED
      BY <2>2, <2>4, <2>5, <2>6, <2>7
  <1>. HIDE DEF good
  <1>3. \A i \in 0 .. n : i \in good
    BY <1>1, <1>2, UpTo
  <1>4. n \in good
    BY <1>3
  <1>5. QED
    BY <1>4 DEF good

-----------------------------------------------------------------------------
(* WebSocketCodec: division. *)

LEMMA Divided ==
    ASSUME NEW n \in Nat, NEW b \in Nat \ {0}
    PROVE  /\ n \div b \in Nat /\ n % b \in 0 .. b - 1
           /\ n = b * (n \div b) + (n % b)
  <1>1. n \div b \in Nat /\ n % b \in 0 .. b - 1
    BY SMTT(20)
  <1>2. n = b * (n \div b) + (n % b)
    BY SMTT(20)
  <1>3. QED
    BY <1>1, <1>2

\* Only one quotient and remainder make up a number.
LEMMA OneQuotient ==
    ASSUME NEW b \in Nat \ {0}, NEW q \in Nat, NEW r \in 0 .. b - 1
    PROVE  (b * q + r) \div b = q /\ (b * q + r) % b = r
  <1>. DEFINE n == b * q + r
              p == n \div b
  <1>0. n \in Nat
    BY SMTT(20)
  <1>1. n \in Nat /\ p \in Nat /\ n % b \in 0 .. b - 1 /\ n = b * p + (n % b)
    <2>. HIDE DEF n
    <2>1. QED
      BY <1>0, Divided
  <1>2. p = q
    <2>. HIDE DEF p
    <2>1. p \in Nat /\ n = b * p + (n % b) /\ n % b \in 0 .. b - 1
      BY <1>1
    <2>2. n = b * q + r
      OBVIOUS
    <2>. HIDE DEF n
    <2>3. ~ p > q
      <3>. SUFFICES ASSUME p > q PROVE FALSE
        OBVIOUS
      <3>1. PICK d \in Nat : p = q + 1 + d
        <4>1. p - q - 1 \in Nat /\ p = q + 1 + (p - q - 1)
          BY <2>1
        <4>2. QED
          BY <4>1
      <3>2. b * p = b * q + b + b * d /\ b * d \in Nat
        BY <3>1, SMTT(20)
      <3>3. QED
        BY <2>1, <2>2, <3>2, SMTT(20)
    <2>4. ~ p < q
      <3>. SUFFICES ASSUME p < q PROVE FALSE
        OBVIOUS
      <3>1. PICK d \in Nat : q = p + 1 + d
        <4>1. q - p - 1 \in Nat /\ q = p + 1 + (q - p - 1)
          BY <2>1
        <4>2. QED
          BY <4>1
      <3>2. b * q = b * p + b + b * d /\ b * d \in Nat
        BY <2>1, <3>1, SMTT(20)
      <3>3. QED
        BY <2>1, <2>2, <3>2, SMTT(20)
    <2>5. QED
      BY <2>1, <2>3, <2>4
  <1>. HIDE DEF p
  <1>3. n = b * q + (n % b)
    BY <1>1, <1>2
  <1>4. n % b \in 0 .. b - 1
    BY <1>1
  <1>5. n = b * q + r
    OBVIOUS
  <1>6. b * q \in Nat
    BY SMTT(20)
  <1>. HIDE DEF n
  <1>7. n % b = r
    BY <1>3, <1>4, <1>5, <1>6
  <1>8. QED
    BY <1>2, <1>7 DEF n, p

\* Dividing twice is dividing by the product.
LEMMA DividedTwice ==
    ASSUME NEW n \in Nat, NEW m \in Nat \ {0}, NEW b \in Nat \ {0}
    PROVE  (n \div m) \div b = n \div (m * b)
  <1>. DEFINE q == n \div m
              r == n % m
              p == q \div b
              c == q % b
  <1>1. q \in Nat /\ r \in 0 .. m - 1 /\ n = m * q + r
    BY Divided
  <1>2. p \in Nat /\ c \in 0 .. b - 1 /\ q = b * p + c
    BY <1>1, Divided
  <1>. HIDE DEF p, c, q, r
  <1>3. m * b \in Nat \ {0}
    BY SMTT(20)
  <1>4. m * q = (m * b) * p + m * c
    BY <1>2, SMTT(20)
  <1>5. m * c + r \in 0 .. (m * b) - 1
    <2>1. PICK d \in Nat : b = c + 1 + d
      <3>1. b - c - 1 \in Nat /\ b = c + 1 + (b - c - 1)
        BY <1>2
      <3>2. QED
        BY <3>1
    <2>2. m * b = m * c + m + m * d /\ m * d \in Nat /\ m * c \in Nat
      BY <1>2, <2>1, SMTT(20)
    <2>3. QED
      BY <1>1, <1>3, <2>2
  <1>6. n = (m * b) * p + (m * c + r)
    <2>1. m * c \in Nat /\ (m * b) * p \in Nat
      BY <1>2, <1>3, SMTT(20)
    <2>2. QED
      BY <1>1, <1>4, <2>1
  <1>7. n \div (m * b) = p
    <2>. DEFINE rest == m * c + r
                d == m * b
    <2>1. rest \in 0 .. d - 1 /\ d \in Nat \ {0} /\ n = d * p + rest
      BY <1>3, <1>5, <1>6
    <2>. HIDE DEF rest, d
    <2>2. n \div d = p
      BY <1>2, <2>1, OneQuotient
    <2>3. QED
      BY <2>2 DEF d
  <1>8. QED
    BY <1>7 DEF p, q

\* A byte has at least three bits.
LEMMA ByteIs ==
    /\ ByteSize \in Nat /\ ByteSize >= 8 /\ ByteSize = 2 * (ByteSize \div 2)
    /\ Power2[2 * BitsPerByte] = ByteSize * ByteSize
  <1>1. BitsPerByte \in Nat /\ BitsPerByte >= 3 /\ 2 * BitsPerByte <= 8 * BitsPerByte
    BY CodecAssumption
  <1>2. Power2[BitsPerByte] = Power2[3] * Power2[BitsPerByte - 3]
    <2>1. BitsPerByte - 3 \in Nat /\ 3 + (BitsPerByte - 3) = BitsPerByte
          /\ 3 + (BitsPerByte - 3) <= 8 * BitsPerByte
      BY <1>1
    <2>2. Power2[3 + (BitsPerByte - 3)] = Power2[3] * Power2[BitsPerByte - 3]
      BY <2>1, PowerSum
    <2>3. QED
      BY <2>1, <2>2
  <1>3. Power2[3] = 8
    <2>1. \A i \in 0 .. 3 : i \in 0 .. 8 * BitsPerByte
      BY BitsOfLength
    <2>2. Power2[0] = 1
      BY <2>1, PowerIs
    <2>3. Power2[1] = 2 * Power2[0]
      BY <2>1, PowerIs
    <2>4. Power2[2] = 2 * Power2[1]
      BY <2>1, PowerIs
    <2>5. Power2[3] = 2 * Power2[2]
      BY <2>1, PowerIs
    <2>6. QED
      BY <2>2, <2>3, <2>4, <2>5
  <1>4. Power2[BitsPerByte - 3] \in Nat \ {0}
    <2>1. BitsPerByte - 3 \in 0 .. 8 * BitsPerByte
      BY <1>1
    <2>2. QED
      BY <2>1, PowerType
  <1>5. Power2[2 * BitsPerByte] = Power2[BitsPerByte] * Power2[BitsPerByte]
    <2>1. BitsPerByte + BitsPerByte = 2 * BitsPerByte
      BY <1>1
    <2>2. Power2[BitsPerByte + BitsPerByte] = Power2[BitsPerByte] * Power2[BitsPerByte]
      BY <1>1, PowerSum
    <2>3. QED
      BY <2>1, <2>2
  <1>6. QED
    BY <1>2, <1>3, <1>4, <1>5 DEF ByteSize

-----------------------------------------------------------------------------
(* WebSocketCodec: the bytes of a length. *)

LEMMA BytesOfLength ==
    ASSUME NEW n \in Nat, NEW k \in {0, 2, 8}
    PROVE  /\ BigEndian(n, k) \in Seq(Bytes) /\ Len(BigEndian(n, k)) = k
           /\ \A i \in 1 .. k : BigEndian(n, k)[i] = (n \div Power2[BitsPerByte * (k - i)]) % ByteSize
  <1>1. ASSUME NEW i \in 1 .. k
        PROVE  (n \div Power2[BitsPerByte * (k - i)]) % ByteSize \in Bytes
    <2>1. BitsPerByte * (k - i) \in 0 .. 8 * BitsPerByte
      BY CodecAssumption
    <2>. DEFINE p == Power2[BitsPerByte * (k - i)]
    <2>2. p \in Nat \ {0}
      BY <2>1, PowerType
    <2>. HIDE DEF p
    <2>. DEFINE q == n \div p
    <2>3. q \in Nat
      BY <2>2, Divided
    <2>4. ByteSize \in Nat \ {0}
      BY ByteIs
    <2>. HIDE DEF q
    <2>5. q % ByteSize \in 0 .. ByteSize - 1
      BY <2>3, <2>4, Divided
    <2>6. QED
      BY <2>5 DEF Bytes, p, q
  <1>. DEFINE byte(i) == (n \div Power2[BitsPerByte * (k - i)]) % ByteSize
  <1>2. \A i \in 1 .. k : byte(i) \in Bytes
    BY <1>1
  <1>. HIDE DEF byte
  <1>3. [i \in 1 .. k |-> byte(i)] \in Seq(Bytes) /\ Len([i \in 1 .. k |-> byte(i)]) = k
    BY <1>2
  <1>4. BigEndian(n, k) = [i \in 1 .. k |-> byte(i)]
    BY Zenon DEF BigEndian, byte
  <1>5. QED
    BY <1>3, <1>4 DEF byte

LEMMA ValueOfBytes ==
    ASSUME NEW n \in Nat, NEW k \in {2, 8}, n < Power2[BitsPerByte * k]
    PROVE  ValueOf(BigEndian(n, k)) = n
  <1>. DEFINE bytes == BigEndian(n, k)
              high == [i \in 0 .. k |-> n \div Power2[BitsPerByte * (k - i)]]
              IsValue(v) == v = [i \in 0 .. k |-> IF i = 0 THEN 0 ELSE v[i - 1] * ByteSize + bytes[i]]
  <1>1. \A i \in 0 .. k : BitsPerByte * (k - i) \in 0 .. 8 * BitsPerByte
    BY CodecAssumption
  <1>2. high[0] = 0
    <2>1. BitsPerByte * (k - 0) = BitsPerByte * k /\ 0 \in 0 .. k
      BY CodecAssumption
    <2>. DEFINE p == Power2[BitsPerByte * k]
    <2>2. p \in Nat \ {0}
      BY <1>1, <2>1, PowerType
    <2>3. high[0] = n \div p
      BY <2>1
    <2>. HIDE DEF p
    <2>4. n < p
      BY DEF p
    <2>5. p * 0 + n = n /\ n \in 0 .. p - 1
      BY <2>2, <2>4
    <2>6. (p * 0 + n) \div p = 0
      BY <2>2, <2>5, OneQuotient
    <2>7. QED
      BY <2>3, <2>5, <2>6
  <1>3. ASSUME NEW i \in 0 .. k, i # 0 PROVE high[i] = high[i - 1] * ByteSize + bytes[i]
    <2>1. i \in 1 .. k /\ i - 1 \in 0 .. k
      BY <1>3
    <2>2. BitsPerByte * (k - (i - 1)) = BitsPerByte * (k - i) + BitsPerByte
          /\ BitsPerByte * (k - i) \in Nat /\ BitsPerByte \in Nat
          /\ BitsPerByte * (k - i) + BitsPerByte <= 8 * BitsPerByte
      BY <2>1, CodecAssumption
    <2>. DEFINE p == Power2[BitsPerByte * (k - i)]
                q == n \div p
    <2>3. Power2[BitsPerByte * (k - (i - 1))] = p * ByteSize
      BY <2>2, PowerSum DEF ByteSize
    <2>4. p \in Nat \ {0} /\ ByteSize \in Nat \ {0}
      BY <1>1, <1>3, PowerType, ByteIs
    <2>5. high[i] = q /\ high[i - 1] = n \div (p * ByteSize)
      BY <2>1, <2>3
    <2>6. bytes[i] = q % ByteSize
      <3>1. k \in {0, 2, 8}
        OBVIOUS
      <3>2. \A j \in 1 .. k : BigEndian(n, k)[j] = (n \div Power2[BitsPerByte * (k - j)]) % ByteSize
        BY <3>1, BytesOfLength
      <3>3. QED
        BY <2>1, <3>2, Zenon
    <2>. HIDE DEF high, bytes, p
    <2>7. high[i - 1] = q \div ByteSize
      BY <2>4, <2>5, DividedTwice
    <2>8. q \in Nat
      BY <2>4, Divided
    <2>. HIDE DEF q
    <2>9. q \div ByteSize \in Nat /\ q % ByteSize \in Nat /\ q = ByteSize * (q \div ByteSize) + (q % ByteSize)
      BY <2>4, <2>8, Divided
    <2>10. \A x, y \in Nat : x * y = y * x
      BY SMT
    <2>11. q = (q \div ByteSize) * ByteSize + (q % ByteSize)
      BY <2>4, <2>9, <2>10
    <2>12. QED
      BY <2>5, <2>6, <2>7, <2>11
  <1>4. IsValue(high)
    <2>. DEFINE f == [i \in 0 .. k |-> IF i = 0 THEN 0 ELSE high[i - 1] * ByteSize + bytes[i]]
    <2>1. \A i \in 0 .. k : high[i] = f[i]
      <3>. HIDE DEF high, bytes
      <3>1. QED
        BY <1>2, <1>3
    <2>2. high = [i \in 0 .. k |-> high[i]] /\ f = [i \in 0 .. k |-> f[i]]
      OBVIOUS
    <2>3. QED
      BY <2>1, <2>2, Zenon
  <1>5. high[k] = n
    <2>1. BitsPerByte * (k - k) = 0 /\ k \in 0 .. k
      BY CodecAssumption
    <2>2. Power2[0] = 1
      BY PowerIs, BitsOfLength
    <2>3. high[k] = n \div 1
      BY <2>1, <2>2
    <2>4. QED
      BY <2>3
  <1>6. Len(bytes) = k
    BY BytesOfLength
  <1>7. PICK v : IsValue(v) /\ ValueOf(bytes) = v[k]
    <2>. HIDE DEF high, bytes
    <2>1. QED
      BY <1>4, <1>6 DEF ValueOf
  <1>8. \A i \in 0 .. k : v[i] = high[i]
    <2>. HIDE DEF high, bytes
    <2>. DEFINE good == {i \in 0 .. k : v[i] = high[i]}
    <2>1. 0 \in good
      BY <1>2, <1>7
    <2>2. ASSUME NEW i \in 0 .. k, i # 0, i - 1 \in good PROVE i \in good
      <3>1. v[i] = v[i - 1] * ByteSize + bytes[i]
        BY <1>7, <2>2
      <3>2. QED
        BY <1>3, <2>2, <3>1
    <2>. HIDE DEF good
    <2>3. \A i \in 0 .. k : i \in good
      BY <2>1, <2>2, UpTo
    <2>4. QED
      BY <2>3 DEF good
  <1>9. QED
    <2>1. v[k] = high[k]
      BY <1>8
    <2>. HIDE DEF high, bytes
    <2>2. QED
      BY <1>5, <1>7, <2>1 DEF bytes

-----------------------------------------------------------------------------
(* WebSocketCodec: masking. *)

\* xor is the function that Xor is, for the first bytes up to n.
IsXor(xor, n) ==
    xor = [a \in 0 .. n |->
             [b \in Bytes |-> IF a = 0 THEN b ELSE ((a + b) % 2) + 2 * xor[a \div 2][b \div 2]]]

LEMMA Halves ==
    \A a \in Nat : /\ a \div 2 \in Nat /\ a % 2 \in 0 .. 1 /\ a = 2 * (a \div 2) + (a % 2)
                   /\ a # 0 => a \div 2 \in 0 .. a - 1
  OBVIOUS

LEMMA XorExists == ASSUME NEW n \in Nat PROVE \E xor : IsXor(xor, n)
  <1>. DEFINE bad == {i \in Nat : ~ \E xor : IsXor(xor, i)}
  <1>. SUFFICES bad = {}
    OBVIOUS
  <1>. SUFFICES ASSUME bad # {} PROVE FALSE
    OBVIOUS
  <1>1. PICK k \in bad : \A i \in bad : k <= i
    <2>1. bad \subseteq Nat
      OBVIOUS
    <2>. HIDE DEF bad
    <2>2. QED
      BY <2>1, LeastNumber
  <1>2. k \in Nat /\ ~ \E xor : IsXor(xor, k)
    OBVIOUS
  <1>3. CASE k = 0
    <2>. DEFINE xor == [a \in 0 .. 0 |-> [b \in Bytes |-> b]]
    <2>1. \A a \in 0 .. 0 : a = 0
      OBVIOUS
    <2>2. xor = [a \in 0 .. 0 |->
             [b \in Bytes |-> IF a = 0 THEN b ELSE ((a + b) % 2) + 2 * xor[a \div 2][b \div 2]]]
      BY <2>1
    <2>3. QED
      BY <1>2, <1>3, <2>2 DEF IsXor
  <1>4. CASE k > 0
    <2>1. k - 1 \in Nat /\ ~ k <= k - 1
      BY <1>2, <1>4
    <2>2. k - 1 \notin bad
      BY <1>1, <2>1
    <2>3. PICK f : IsXor(f, k - 1)
      BY <2>1, <2>2
    <2>. DEFINE row(x, a) ==
                    [b \in Bytes |-> IF a = 0 THEN b ELSE ((a + b) % 2) + 2 * x[a \div 2][b \div 2]]
                g == [a \in 0 .. k |-> IF a = k THEN row(f, a) ELSE f[a]]
                h == [a \in 0 .. k |-> row(g, a)]
    <2>4. ASSUME NEW a \in 0 .. k PROVE g[a] = h[a]
      <3>1. a # 0 => a \div 2 \in 0 .. k /\ a \div 2 # k
        BY <1>2, Halves
      <3>2. a # 0 => g[a \div 2] = f[a \div 2]
        BY <3>1
      <3>3. g[a] = row(f, a)
        <4>1. CASE a = k
          BY <4>1
        <4>2. CASE a # k
          <5>1. a \in 0 .. k - 1
            BY <1>2, <4>2
          <5>2. f[a] = row(f, a)
            BY <2>3, <5>1, Zenon DEF IsXor
          <5>3. g[a] = f[a]
            BY <4>2
          <5>. HIDE DEF g, row
          <5>4. QED
            BY <5>2, <5>3
        <4>3. QED
          BY <4>1, <4>2
      <3>4. row(f, a) = row(g, a)
        <4>. HIDE DEF g
        <4>1. CASE a = 0
          BY <4>1
        <4>2. CASE a # 0
          BY <3>2, <4>2
        <4>3. QED
          BY <4>1, <4>2
      <3>. HIDE DEF g, row
      <3>5. QED
        BY <3>3, <3>4
    <2>5. g = h
      <3>. DEFINE left(a) == IF a = k THEN row(f, a) ELSE f[a]
                  right(a) == row(g, a)
      <3>1. \A a \in 0 .. k : left(a) = right(a)
        <4>1. ASSUME NEW a \in 0 .. k PROVE g[a] = left(a) /\ h[a] = right(a)
          <5>. HIDE DEF row
          <5>1. g[a] = left(a)
            OBVIOUS
          <5>. HIDE DEF g
          <5>2. QED
            BY <5>1
        <4>. HIDE DEF g, h, left, right
        <4>2. QED
          BY <2>4, <4>1
      <3>2. g = [a \in 0 .. k |-> left(a)] /\ h = [a \in 0 .. k |-> right(a)]
        OBVIOUS
      <3>. HIDE DEF g, h, left, right
      <3>3. QED
        BY <3>1, <3>2
    <2>6. IsXor(g, k)
      <3>1. h = [a \in 0 .. k |->
             [b \in Bytes |-> IF a = 0 THEN b ELSE ((a + b) % 2) + 2 * g[a \div 2][b \div 2]]]
        <4>. HIDE DEF g
        <4>1. QED
          BY Zenon
      <3>. HIDE DEF g, h
      <3>2. QED
        BY <2>5, <3>1, Zenon DEF IsXor
    <2>7. QED
      <3>. HIDE DEF g
      <3>1. QED
        BY <1>2, <2>6
  <1>5. QED
    BY <1>2, <1>3, <1>4

LEMMA HalfOfByte == \A a \in Bytes : a \in Nat /\ a \div 2 \in Bytes
  BY ByteIs, Halves DEF Bytes

LEMMA XorIs ==
    \A a, b \in Bytes : Xor[a][b] = IF a = 0 THEN b ELSE ((a + b) % 2) + 2 * Xor[a \div 2][b \div 2]
  <1>1. ByteSize - 1 \in Nat
    BY ByteIs
  <1>2. PICK xor : IsXor(xor, ByteSize - 1)
    BY <1>1, XorExists
  <1>3. IsXor(Xor, ByteSize - 1)
    <2>1. Bytes = 0 .. ByteSize - 1
      BY DEF Bytes
    <2>2. \E x : x = [a \in Bytes |->
             [b \in Bytes |-> IF a = 0 THEN b ELSE ((a + b) % 2) + 2 * x[a \div 2][b \div 2]]]
      BY <1>2, <2>1, Zenon DEF IsXor
    <2>3. Xor = [a \in Bytes |->
             [b \in Bytes |-> IF a = 0 THEN b ELSE ((a + b) % 2) + 2 * Xor[a \div 2][b \div 2]]]
      BY <2>2, Zenon DEF Xor
    <2>4. QED
      BY <2>1, <2>3, Zenon DEF IsXor
  <1>4. ASSUME NEW a \in Bytes, NEW b \in Bytes
        PROVE  Xor[a][b] = IF a = 0 THEN b ELSE ((a + b) % 2) + 2 * Xor[a \div 2][b \div 2]
    <2>1. a \in 0 .. ByteSize - 1
      BY DEF Bytes
    <2>2. Xor[a] = [c \in Bytes |-> IF a = 0 THEN c ELSE ((a + c) % 2) + 2 * Xor[a \div 2][c \div 2]]
      BY <1>3, <2>1, Zenon DEF IsXor
    <2>3. QED
      BY <2>2, Zenon
  <1>5. QED
    BY <1>4

\* The lowest bit first, then the others.
LEMMA XorByHalves ==
    \A a, b \in Bytes : Xor[a][b] = ((a + b) % 2) + 2 * Xor[a \div 2][b \div 2]
  <1>1. ASSUME NEW a \in Bytes, NEW b \in Bytes, a = 0
        PROVE  Xor[a][b] = ((a + b) % 2) + 2 * Xor[a \div 2][b \div 2]
    <2>1. a \div 2 = 0 /\ b \div 2 \in Bytes /\ b \in Nat
      BY <1>1, HalfOfByte
    <2>2. Xor[a][b] = b /\ Xor[a \div 2][b \div 2] = b \div 2
      <3>1. \A c \in Bytes : Xor[a][c] = c
        BY <1>1, XorIs
      <3>2. QED
        BY <1>1, <2>1, <3>1
    <2>3. a + b = b /\ b = (b % 2) + 2 * (b \div 2)
      BY <1>1, <2>1, Halves
    <2>4. QED
      BY <2>2, <2>3
  <1>2. QED
    BY <1>1, XorIs

LEMMA XorBelow ==
    \A m \in 0 .. BitsPerByte : \A a, b \in Bytes :
        a < Power2[m] /\ b < Power2[m] => Xor[a][b] \in 0 .. Power2[m] - 1
  <1>. DEFINE Below(m) == \A a, b \in Bytes :
                  a < Power2[m] /\ b < Power2[m] => Xor[a][b] \in 0 .. Power2[m] - 1
              good == {m \in 0 .. BitsPerByte : Below(m)}
  <1>0. BitsPerByte \in Nat /\ \A m \in 0 .. BitsPerByte : m \in 0 .. 8 * BitsPerByte
    BY CodecAssumption
  <1>1. Below(0)
    <2>1. Power2[0] = 1
      BY PowerIs, BitsOfLength
    <2>2. ASSUME NEW a \in Bytes, NEW b \in Bytes, a < 1, b < 1 PROVE Xor[a][b] = 0
      <3>1. a = 0 /\ b = 0
        BY <2>2, HalfOfByte
      <3>2. QED
        BY <3>1, XorIs
    <2>3. QED
      BY <2>1, <2>2
  <1>2. ASSUME NEW m \in 0 .. BitsPerByte, m # 0, Below(m - 1) PROVE Below(m)
    <2>. SUFFICES ASSUME NEW a \in Bytes, NEW b \in Bytes, a < Power2[m], b < Power2[m]
                  PROVE  Xor[a][b] \in 0 .. Power2[m] - 1
      OBVIOUS
    <2>1. m - 1 \in 0 .. BitsPerByte
      BY <1>0, <1>2
    <2>. DEFINE p == Power2[m - 1]
    <2>2. Power2[m] = 2 * p /\ p \in Nat
      BY <1>0, <1>2, <2>1, PowerIs, PowerType
    <2>3. a \in Nat /\ b \in Nat /\ a \div 2 \in Bytes /\ b \div 2 \in Bytes
      BY HalfOfByte
    <2>4. a \div 2 < p /\ b \div 2 < p
      <3>. HIDE DEF p
      <3>1. QED
        BY <2>2, <2>3
    <2>5. Xor[a \div 2][b \div 2] \in 0 .. p - 1
      BY <1>2, <2>3, <2>4
    <2>6. Xor[a][b] = ((a + b) % 2) + 2 * Xor[a \div 2][b \div 2] /\ (a + b) % 2 \in 0 .. 1
      BY <2>3, XorByHalves
    <2>. HIDE DEF p
    <2>7. QED
      BY <2>2, <2>5, <2>6
  <1>3. 0 \in good
    BY <1>0, <1>1
  <1>4. ASSUME NEW m \in 0 .. BitsPerByte, m # 0, m - 1 \in good PROVE m \in good
    BY <1>2, <1>4
  <1>. HIDE DEF good
  <1>5. \A m \in 0 .. BitsPerByte : m \in good
    BY <1>0, <1>3, <1>4, UpTo
  <1>6. QED
    BY <1>5 DEF good

LEMMA XorType == \A a, b \in Bytes : Xor[a][b] \in Bytes
  <1>1. BitsPerByte \in 0 .. BitsPerByte
    BY CodecAssumption
  <1>2. \A a \in Bytes : a < Power2[BitsPerByte]
    BY ByteIs DEF ByteSize, Bytes
  <1>3. QED
    BY <1>1, <1>2, XorBelow DEF ByteSize, Bytes

LEMMA XorSelf == \A b \in Bytes : Xor[b][b] = 0
  <1>. DEFINE good == {i \in 0 .. ByteSize : \A b \in Bytes : b <= i => Xor[b][b] = 0}
  <1>1. \A b \in Bytes : b = 0 => Xor[b][b] = 0
    BY XorIs
  <1>2. 0 \in good
    BY <1>1, HalfOfByte, ByteIs
  <1>3. ASSUME NEW i \in 0 .. ByteSize, i # 0, i - 1 \in good PROVE i \in good
    <2>. SUFFICES ASSUME NEW b \in Bytes, b <= i PROVE Xor[b][b] = 0
      OBVIOUS
    <2>1. CASE b = 0
      BY <1>1, <2>1
    <2>2. CASE b # 0
      <3>1. b \in Nat /\ b \div 2 \in Bytes
        BY HalfOfByte
      <3>2. b \div 2 <= i - 1
        BY <2>2, <3>1
      <3>3. Xor[b \div 2][b \div 2] = 0
        BY <1>3, <3>1, <3>2
      <3>4. (b + b) % 2 = 0
        BY <3>1
      <3>5. QED
        BY <3>3, <3>4, XorByHalves
    <2>3. QED
      BY <2>1, <2>2
  <1>. HIDE DEF good
  <1>4. \A i \in 0 .. ByteSize : i \in good
    BY <1>2, <1>3, ByteIs, UpTo
  <1>5. ByteSize \in good /\ \A b \in Bytes : b <= ByteSize
    BY <1>4, ByteIs DEF Bytes
  <1>6. QED
    BY <1>5 DEF good

\* What was masked twice is what it was.
LEMMA XorTwice == \A a, b \in Bytes : Xor[Xor[a][b]][b] = a
  <1>. DEFINE good == {i \in 0 .. ByteSize : \A a, b \in Bytes : a <= i => Xor[Xor[a][b]][b] = a}
  <1>1. \A a, b \in Bytes : a = 0 => Xor[Xor[a][b]][b] = a
    BY XorIs, XorSelf
  <1>2. 0 \in good
    <2>1. \A a \in Bytes : a <= 0 => a = 0
      BY HalfOfByte
    <2>2. 0 \in 0 .. ByteSize
      BY ByteIs
    <2>3. QED
      BY <1>1, <2>1, <2>2
  <1>3. ASSUME NEW i \in 0 .. ByteSize, i # 0, i - 1 \in good PROVE i \in good
    <2>. SUFFICES ASSUME NEW a \in Bytes, NEW b \in Bytes, a <= i PROVE Xor[Xor[a][b]][b] = a
      OBVIOUS
    <2>1. CASE a = 0
      BY <1>1, <2>1
    <2>2. CASE a # 0
      <3>1. a \in Nat /\ b \in Nat /\ a \div 2 \in Bytes /\ b \div 2 \in Bytes
        BY HalfOfByte
      <3>2. a \div 2 <= i - 1
        BY <2>2, <3>1
      <3>. DEFINE d == Xor[a \div 2][b \div 2]
                  c == Xor[a][b]
      <3>3. Xor[d][b \div 2] = a \div 2
        BY <1>3, <3>1, <3>2
      <3>4. c = ((a + b) % 2) + 2 * d /\ c \in Bytes /\ d \in Bytes
        BY <3>1, XorByHalves, XorType
      <3>. HIDE DEF c, d
      <3>5. Xor[c][b] = ((c + b) % 2) + 2 * Xor[c \div 2][b \div 2]
        BY <3>4, XorByHalves
      <3>6. d \in Nat /\ c \in Nat
        BY <3>4, HalfOfByte
      <3>7. c \div 2 = d /\ (c + b) % 2 = a % 2
        BY <3>1, <3>4, <3>6
      <3>8. a = (a % 2) + 2 * (a \div 2)
        BY <3>1
      <3>9. Xor[c][b] = a
        BY <3>3, <3>5, <3>7, <3>8
      <3>10. QED
        BY <3>9 DEF c
    <2>3. QED
      BY <2>1, <2>2
  <1>. HIDE DEF good
  <1>4. \A i \in 0 .. ByteSize : i \in good
    BY <1>2, <1>3, ByteIs, UpTo
  <1>5. ByteSize \in good /\ \A a \in Bytes : a <= ByteSize
    BY <1>4, ByteIs DEF Bytes
  <1>6. QED
    BY <1>5 DEF good

-----------------------------------------------------------------------------
(* WebSocketCodec: frames. *)

LEMMA LengthLimits ==
    /\ ByteSize \in Nat /\ LengthIn2 \in Nat /\ LengthIn8 = LengthIn2 + 1 /\ LengthIn2 < Power2[2 * BitsPerByte]
    /\ Power2[2 * BitsPerByte] \in Nat
  <1>1. Power2[2 * BitsPerByte] >= ByteSize /\ Power2[2 * BitsPerByte] \in Nat
    <2>. DEFINE p == Power2[2 * BitsPerByte]
                b == ByteSize
    <2>1. b \in Nat /\ b >= 1 /\ p = b * b
      BY ByteIs
    <2>. HIDE DEF p, b
    <2>2. p \in Nat /\ p >= b
      BY <2>1, SMTT(20)
    <2>3. QED
      BY <2>2 DEF p, b
  <1>2. QED
    BY <1>1, ByteIs DEF LengthIn2, LengthIn8

\* The host and the server choose the same number of bytes for a length.
LEMMA ExtendedIs ==
    ASSUME NEW len \in Nat
    PROVE  /\ ExtendedBytes(len) \in {0, 2, 8}
           /\ ExtendedBytes(len) = 0 <=> len < LengthIn2
           /\ ExtendedBytes(len) = 2 <=> len >= LengthIn2 /\ len < Power2[2 * BitsPerByte]
           /\ ExtendedBytes(len) = 8 <=> len >= Power2[2 * BitsPerByte]
  <1>. DEFINE p == Power2[2 * BitsPerByte]
  <1>1. LengthIn2 \in Nat /\ LengthIn2 < p /\ p \in Nat
    BY LengthLimits
  <1>. HIDE DEF p
  <1>2. ExtendedBytes(len) = CASE len < LengthIn2 -> 0
                               [] len \in LengthIn2 .. p - 1 -> 2
                               [] len >= p -> 8
    BY Zenon DEF ExtendedBytes, p
  <1>3. CASE len < LengthIn2
    <2>1. ~ len \in LengthIn2 .. p - 1 /\ ~ len >= p
      BY <1>1, <1>3
    <2>2. ExtendedBytes(len) = 0
      BY <1>2, <1>3, <2>1
    <2>3. QED
      BY <1>1, <1>3, <2>2 DEF p
  <1>4. CASE len >= LengthIn2 /\ len < p
    <2>1. len \in LengthIn2 .. p - 1 /\ ~ len >= p /\ ~ len < LengthIn2
      BY <1>1, <1>4
    <2>2. ExtendedBytes(len) = 2
      BY <1>2, <2>1
    <2>3. QED
      BY <1>1, <1>4, <2>2 DEF p
  <1>5. CASE len >= p
    <2>1. ~ len \in LengthIn2 .. p - 1 /\ ~ len < LengthIn2
      BY <1>1, <1>5
    <2>2. ExtendedBytes(len) = 8
      BY <1>2, <1>5, <2>1
    <2>3. QED
      BY <1>1, <1>5, <2>2 DEF p
  <1>6. QED
    BY <1>1, <1>3, <1>4, <1>5

LEMMA FrameOfServer ==
    ASSUME NEW msg, Len(msg.data) \in Nat
    PROVE  ServerFrame(msg) =
             LET extended == ExtendedBytes(Len(msg.data)) IN
             [header |-> [fin |-> TRUE, opcode |-> msg.type, masked |-> FALSE,
                          payloadlen |-> CASE extended = 0 -> Len(msg.data)
                                           [] extended = 2 -> LengthIn2
                                           [] extended = 8 -> LengthIn8],
              bytes |-> BigEndian(Len(msg.data), extended) \o msg.data]
  <1>. DEFINE len == Len(msg.data)
              p == Power2[2 * BitsPerByte]
              Fits(k) == /\ len < (CASE k = 0 -> LengthIn2 [] k = 2 -> p [] k = 8 -> len + 1)
                         /\ k # 0 => len >= LengthIn2
                         /\ k = 8 => len >= p
  <1>1. LengthIn2 \in Nat /\ LengthIn2 < p /\ p \in Nat
    BY LengthLimits
  <1>2. /\ ExtendedBytes(len) \in {0, 2, 8}
        /\ ExtendedBytes(len) = 0 <=> len < LengthIn2
        /\ ExtendedBytes(len) = 2 <=> len >= LengthIn2 /\ len < p
        /\ ExtendedBytes(len) = 8 <=> len >= p
    BY ExtendedIs
  <1>3. (CHOOSE k \in {0, 2, 8} : Fits(k)) = ExtendedBytes(len)
    <2>. HIDE DEF len, p
    <2>0. len \in Nat
      BY DEF len
    <2>1. Fits(0) <=> len < LengthIn2
      OBVIOUS
    <2>2. Fits(2) <=> len >= LengthIn2 /\ len < p
      OBVIOUS
    <2>3. Fits(8) <=> len >= p
      BY <1>1, <2>0
    <2>4. \A k \in {0, 2, 8} : Fits(k) <=> k = ExtendedBytes(len)
      BY <1>1, <1>2, <2>0, <2>1, <2>2, <2>3
    <2>. HIDE DEF Fits
    <2>5. QED
      BY <1>2, <2>4
  <1>4. QED
    BY <1>3, Zenon DEF ServerFrame

LEMMA ReverseTwice ==
    ASSUME NEW S, NEW s \in Seq(S)
    PROVE  Reverse(s) \in Seq(S) /\ Len(Reverse(s)) = Len(s) /\ Reverse(Reverse(s)) = s
  <1>. DEFINE r == [i \in 1 .. Len(s) |-> s[(Len(s) - i) + 1]]
  <1>0. Reverse(s) = r
    BY Zenon DEF Reverse
  <1>1. \A i \in 1 .. Len(s) : (Len(s) - i) + 1 \in 1 .. Len(s) /\ (Len(s) - ((Len(s) - i) + 1)) + 1 = i
    OBVIOUS
  <1>2. r \in Seq(S) /\ Len(r) = Len(s)
    BY <1>1
  <1>3. Reverse(r) = [i \in 1 .. Len(s) |-> r[(Len(s) - i) + 1]]
    <2>. HIDE DEF r
    <2>1. Reverse(r) = [i \in 1 .. Len(r) |-> r[(Len(r) - i) + 1]]
      BY Zenon DEF Reverse
    <2>2. QED
      BY <1>2, <2>1
  <1>4. [i \in 1 .. Len(s) |-> r[(Len(s) - i) + 1]] = [i \in 1 .. Len(s) |-> s[i]]
    BY <1>1
  <1>5. s = [i \in 1 .. Len(s) |-> s[i]]
    OBVIOUS
  <1>6. QED
    BY <1>0, <1>2, <1>3, <1>4, <1>5, Zenon

\* To the memory of a host and from there to the network, and back: the order
\* of the host cancels out.
LEMMA OrderOfHost ==
    ASSUME NEW bBig \in BOOLEAN, NEW n, NEW k, NEW bytes, BigEndian(n, k) \in Seq(Bytes), bytes \in Seq(Bytes)
    PROVE  /\ net_to_host(bBig, InMemory(bBig, n, k)) = BigEndian(n, k)
           /\ FromMemory(bBig, net_to_host(bBig, bytes)) = ValueOf(bytes)
  <1>1. Reverse(Reverse(BigEndian(n, k))) = BigEndian(n, k) /\ Reverse(Reverse(bytes)) = bytes
    BY ReverseTwice
  <1>2. QED
    BY <1>1, Zenon DEF net_to_host, InMemory, FromMemory, ByHost

\* The parts of a sequence that is three in a row.
InParts(a, b, c) ==
    LET all == a \o b \o c IN
    /\ all \in Seq(Bytes) /\ Len(all) = Len(a) + Len(b) + Len(c)
    /\ SubSeq(all, 1, Len(a)) = a
    /\ SubSeq(all, Len(a) + 1, Len(a) + Len(b)) = b
    /\ \A i \in DOMAIN c : all[Len(a) + Len(b) + i] = c[i]

LEMMA Parts ==
    ASSUME NEW a \in Seq(Bytes), NEW b \in Seq(Bytes), NEW c \in Seq(Bytes)
    PROVE  InParts(a, b, c)
  <1>. DEFINE all == a \o b \o c
  <1>1. all \in Seq(Bytes) /\ Len(all) = Len(a) + Len(b) + Len(c)
    OBVIOUS
  <1>2. \A i \in 1 .. Len(a) : all[i] = a[i]
    OBVIOUS
  <1>3. \A i \in 1 .. Len(b) : all[Len(a) + i] = b[i]
    OBVIOUS
  <1>4. \A i \in 1 .. Len(c) : all[Len(a) + Len(b) + i] = c[i]
    OBVIOUS
  <1>. HIDE DEF all
  <1>5. SubSeq(all, 1, Len(a)) = a
    BY <1>1, <1>2
  <1>6. SubSeq(all, Len(a) + 1, Len(a) + Len(b)) = b
    <2>. DEFINE sub == SubSeq(all, Len(a) + 1, Len(a) + Len(b))
    <2>1. sub \in Seq(Bytes) /\ Len(sub) = Len(b)
      BY <1>1
    <2>2. \A i \in 1 .. Len(b) : sub[i] = all[Len(a) + i]
      BY <1>1
    <2>. HIDE DEF sub
    <2>3. \A i \in 1 .. Len(b) : sub[i] = b[i]
      BY <1>3, <2>2
    <2>4. sub = b
      BY <2>1, <2>3
    <2>5. QED
      BY <2>4 DEF sub
  <1>7. DOMAIN c = 1 .. Len(c)
    OBVIOUS
  <1>8. QED
    BY <1>1, <1>4, <1>5, <1>6, <1>7 DEF all, InParts

LEMMA KeyIs ==
    \A mask_key \in [1 .. 4 -> Bytes] : mask_key \in Seq(Bytes) /\ Len(mask_key) = 4
  <1>1. ASSUME NEW mask_key \in [1 .. 4 -> Bytes]
        PROVE  mask_key \in Seq(Bytes) /\ Len(mask_key) = 4
    <2>1. mask_key = [i \in 1 .. 4 |-> mask_key[i]] /\ \A i \in 1 .. 4 : mask_key[i] \in Bytes
      OBVIOUS
    <2>2. [i \in 1 .. 4 |-> mask_key[i]] \in Seq(Bytes) /\ Len([i \in 1 .. 4 |-> mask_key[i]]) = 4
      BY <2>1
    <2>3. QED
      BY <2>1, <2>2, Zenon
  <1>2. QED
    BY <1>1

LEMMA MaskTwice ==
    ASSUME NEW data \in Seq(Bytes), NEW mask_key \in Seq(Bytes), Len(mask_key) = 4
    PROVE  LET masked == WsMask(data, mask_key) IN
           /\ masked \in Seq(Bytes) /\ Len(masked) = Len(data)
           /\ \A i \in DOMAIN data : Xor[masked[i]][mask_key[((i - 1) % 4) + 1]] = data[i]
  <1>1. ASSUME NEW i \in DOMAIN data
        PROVE  mask_key[((i - 1) % 4) + 1] \in Bytes /\ data[i] \in Bytes
    <2>1. i \in Int /\ ((i - 1) % 4) + 1 \in 1 .. 4
      OBVIOUS
    <2>. DEFINE j == ((i - 1) % 4) + 1
    <2>2. j \in 1 .. Len(mask_key)
      BY <2>1
    <2>. HIDE DEF j
    <2>3. mask_key[j] \in Bytes
      <3>1. \A s \in Seq(Bytes) : \A k \in 1 .. Len(s) : s[k] \in Bytes
        OBVIOUS
      <3>2. QED
        BY <2>2, <3>1, Zenon
    <2>4. QED
      BY <2>3 DEF j
  <1>. DEFINE byte(i) == Xor[data[i]][mask_key[((i - 1) % 4) + 1]]
              masked == [i \in DOMAIN data |-> byte(i)]
  <1>2. WsMask(data, mask_key) = masked
    BY Zenon DEF WsMask
  <1>3. \A i \in DOMAIN data : byte(i) \in Bytes /\ Xor[byte(i)][mask_key[((i - 1) % 4) + 1]] = data[i]
    BY <1>1, XorType, XorTwice
  <1>4. \A i \in DOMAIN data : masked[i] = byte(i)
    OBVIOUS
  <1>5. masked \in Seq(Bytes) /\ Len(masked) = Len(data)
    <2>1. DOMAIN data = 1 .. Len(data)
      OBVIOUS
    <2>. HIDE DEF byte
    <2>2. QED
      BY <1>3, <2>1
  <1>. HIDE DEF masked, byte
  <1>6. \A i \in DOMAIN data : Xor[masked[i]][mask_key[((i - 1) % 4) + 1]] = data[i]
    BY <1>3, <1>4
  <1>7. QED
    BY <1>2, <1>5, <1>6

LEMMA ServerReadsSent ==
    ASSUME NEW data \in Seq(Bytes), NEW mask_key \in Seq(Bytes), Len(mask_key) = 4, NEW bBig \in BOOLEAN
    PROVE  LET msg == [type |-> Text, data |-> data] IN
           ServerReads(Send(bBig, msg, mask_key), msg)
  <1>. DEFINE msg == [type |-> Text, data |-> data]
              len == Len(data)
              extended == ExtendedBytes(len)
              size == BigEndian(len, extended)
              payload == WsMask(data, mask_key)
              payloadlen == CASE extended = 0 -> len
                              [] extended = 2 -> LengthIn2
                              [] extended = 8 -> LengthIn8
              bytes == size \o mask_key \o payload
  <1>0. msg.data = data /\ msg.type = Text /\ Text % 8 # 0 /\ len \in Nat
    BY DEF Text
  <1>1. extended \in {0, 2, 8}
    BY <1>0, ExtendedIs
  <1>2. size \in Seq(Bytes) /\ Len(size) = extended
    <2>. HIDE DEF len, extended
    <2>1. QED
      BY <1>0, <1>1, BytesOfLength
  <1>3. payload \in Seq(Bytes) /\ Len(payload) = len
        /\ \A i \in DOMAIN data : Xor[payload[i]][mask_key[((i - 1) % 4) + 1]] = data[i]
    BY MaskTwice
  <1>5. Send(bBig, msg, mask_key) =
            [header |-> [fin |-> TRUE, opcode |-> Text, masked |-> TRUE, payloadlen |-> payloadlen],
             bytes |-> bytes]
    <2>1. net_to_host(bBig, InMemory(bBig, len, extended)) = size
      BY <1>2, OrderOfHost
    <2>2. WsHeader(msg) = [fin |-> TRUE, opcode |-> Text, masked |-> TRUE, payloadlen |-> payloadlen]
      <3>. DEFINE low == msg.type % 8 # 0
                  told == CASE ~low -> 0
                            [] low /\ extended = 0 -> Len(msg.data)
                            [] low /\ extended = 2 -> LengthIn2
                            [] low /\ extended = 8 -> LengthIn8
      <3>1. WsHeader(msg) = [fin |-> TRUE, opcode |-> msg.type, masked |-> low, payloadlen |-> told]
        BY <1>0, Zenon DEF WsHeader
      <3>2. low = TRUE
        BY <1>0
      <3>3. told = payloadlen
        <4>. HIDE DEF low, extended, msg
        <4>1. QED
          BY <1>0, <1>1, <3>2
      <3>. HIDE DEF low, told, payloadlen, msg
      <3>4. QED
        BY <1>0, <3>1, <3>2, <3>3
    <2>. HIDE DEF msg, size, payload, payloadlen, extended
    <2>3. Send(bBig, msg, mask_key) =
            [header |-> WsHeader(msg),
             bytes |-> net_to_host(bBig, InMemory(bBig, len, extended)) \o mask_key \o payload]
      BY <1>0 DEF Send, extended, payload
    <2>4. QED
      BY <2>1, <2>2, <2>3
  <1>6. ServerFrame(msg) =
            [header |-> [fin |-> TRUE, opcode |-> Text, masked |-> FALSE, payloadlen |-> payloadlen],
             bytes |-> size \o data]
    BY <1>0, FrameOfServer
  <1>7. /\ bytes \in Seq(Bytes) /\ Len(bytes) = extended + 4 + len
        /\ SubSeq(bytes, 1, extended) = size
        /\ SubSeq(bytes, extended + 1, extended + 4) = mask_key
        /\ \A i \in DOMAIN payload : bytes[extended + 4 + i] = payload[i]
    <2>. HIDE DEF size, payload, len, extended
    <2>1. /\ bytes \in Seq(Bytes) /\ Len(bytes) = Len(size) + Len(mask_key) + Len(payload)
          /\ SubSeq(bytes, 1, Len(size)) = size
          /\ SubSeq(bytes, Len(size) + 1, Len(size) + Len(mask_key)) = mask_key
          /\ \A i \in DOMAIN payload : bytes[Len(size) + Len(mask_key) + i] = payload[i]
      <3>1. size \in Seq(Bytes) /\ mask_key \in Seq(Bytes) /\ payload \in Seq(Bytes)
        BY <1>2, <1>3
      <3>2. InParts(size, mask_key, payload)
        BY <3>1, Parts, Zenon
      <3>. HIDE DEF size, payload
      <3>3. QED
        BY <3>2, Zenon DEF InParts
    <2>. HIDE DEF bytes
    <2>2. QED
      BY <1>2, <1>3, <2>1
  <1>8. Len(size \o data) = extended + len /\ SubSeq(size \o data, 1, extended) = size
    <2>. HIDE DEF size, extended
    <2>1. QED
      BY <1>1, <1>2
  <1>9. DOMAIN payload = DOMAIN data
    <2>. HIDE DEF payload
    <2>1. QED
      BY <1>3
  <1>. DEFINE frame == Send(bBig, msg, mask_key)
              plain == ServerFrame(msg)
  <1>10. Len(plain.bytes) - Len(msg.data) = extended
    <2>. HIDE DEF size, extended
    <2>1. QED
      BY <1>0, <1>1, <1>6, <1>8
  <1>11. frame.header = [plain.header EXCEPT !.masked = TRUE]
    <2>. HIDE DEF payloadlen, bytes, size, msg
    <2>1. frame.header = [fin |-> TRUE, opcode |-> Text, masked |-> TRUE, payloadlen |-> payloadlen]
      BY <1>5
    <2>2. plain.header = [fin |-> TRUE, opcode |-> Text, masked |-> FALSE, payloadlen |-> payloadlen]
      BY <1>6
    <2>. HIDE DEF frame, plain
    <2>3. PICK yes, no : yes = TRUE /\ no = FALSE
      OBVIOUS
    <2>4. plain.header = [fin |-> yes, opcode |-> Text, masked |-> no, payloadlen |-> payloadlen]
      BY <2>2, <2>3, Zenon
    <2>5. [plain.header EXCEPT !.masked = yes]
              = [fin |-> yes, opcode |-> Text, masked |-> yes, payloadlen |-> payloadlen]
      <3>1. PICK header : header = plain.header
        OBVIOUS
      <3>2. header = [fin |-> yes, opcode |-> Text, masked |-> no, payloadlen |-> payloadlen]
        BY <2>4, <3>1, Zenon
      <3>3. [header EXCEPT !.masked = yes]
                = [fin |-> yes, opcode |-> Text, masked |-> yes, payloadlen |-> payloadlen]
        BY <3>2
      <3>4. QED
        BY <3>1, <3>3, Zenon
    <2>6. QED
      BY <2>1, <2>3, <2>5, Zenon
  <1>12. frame.bytes = bytes /\ plain.bytes = size \o data
    <2>. HIDE DEF payloadlen, bytes, size
    <2>1. QED
      BY <1>5, <1>6
  <1>13. \A i \in DOMAIN msg.data : Xor[bytes[extended + 4 + i]][mask_key[((i - 1) % 4) + 1]] = msg.data[i]
    <2>. HIDE DEF bytes, extended, payload
    <2>1. QED
      BY <1>0, <1>3, <1>7, <1>9
  <1>. HIDE DEF frame, plain, msg, bytes, extended, size
  <1>14. ServerReads(frame, msg)
    BY <1>0, <1>7, <1>8, <1>10, <1>11, <1>12, <1>13, Zenon DEF ServerReads, plain
  <1>15. QED
    BY <1>14, Zenon DEF frame, msg

LEMMA ClientReads ==
    ASSUME NEW data \in Seq(Bytes), Len(data) < Power2[8 * BitsPerByte], NEW bBig \in BOOLEAN
    PROVE  LET msg == [type |-> Text, data |-> data]
               frame == ServerFrame(msg) IN
           \A arrived \in 0 .. Len(frame.bytes) :
               ReadFrame(bBig, frame.header, SubSeq(frame.bytes, 1, arrived)) =
                   IF arrived = Len(frame.bytes) THEN {msg} ELSE {}
  <1>. DEFINE msg == [type |-> Text, data |-> data]
              len == Len(data)
              extended == ExtendedBytes(len)
              size == BigEndian(len, extended)
              header == [fin |-> TRUE, opcode |-> Text, masked |-> FALSE,
                         payloadlen |-> CASE extended = 0 -> len
                                          [] extended = 2 -> LengthIn2
                                          [] extended = 8 -> LengthIn8]
              bytes == size \o data
  <1>0. msg.data = data /\ msg.type = Text /\ len \in Nat
    OBVIOUS
  <1>1. extended \in {0, 2, 8}
    BY <1>0, ExtendedIs
  <1>2. size \in Seq(Bytes) /\ Len(size) = extended
    <2>. HIDE DEF len, extended
    <2>1. QED
      BY <1>0, <1>1, BytesOfLength
  <1>3. ServerFrame(msg) = [header |-> header, bytes |-> bytes]
    BY <1>0, FrameOfServer
  <1>4. /\ bytes \in Seq(Bytes) /\ Len(bytes) = extended + len
        /\ SubSeq(bytes, 1, extended) = size
        /\ SubSeq(bytes, extended + 1, extended + len) = data
    <2>. HIDE DEF size, extended
    <2>1. QED
      BY <1>1, <1>2
  <1>5. extended # 0 => ValueOf(size) = len
    <2>1. extended = 2 => len < Power2[BitsPerByte * 2]
      <3>1. extended = 2 => len < Power2[2 * BitsPerByte]
        BY <1>0, ExtendedIs
      <3>2. 2 * BitsPerByte = BitsPerByte * 2
        BY CodecAssumption
      <3>3. QED
        BY <3>1, <3>2
    <2>2. len < Power2[BitsPerByte * 8]
      <3>1. 8 * BitsPerByte = BitsPerByte * 8
        BY CodecAssumption
      <3>2. QED
        BY <3>1
    <2>. HIDE DEF len, extended
    <2>3. extended # 0 => extended \in {2, 8} /\ len < Power2[BitsPerByte * extended]
      BY <1>1, <2>1, <2>2
    <2>4. QED
      BY <1>0, <2>3, ValueOfBytes
  <1>6. extended = CASE header.payloadlen = LengthIn2 -> 2
                     [] header.payloadlen = LengthIn8 -> 8
                     [] OTHER -> 0
    <2>1. extended = 0 => len < LengthIn2
      BY <1>0, ExtendedIs
    <2>2. LengthIn2 \in Nat /\ LengthIn8 = LengthIn2 + 1
      BY LengthLimits
    <2>. HIDE DEF len, extended
    <2>3. CASE extended = 0
      <3>1. header.payloadlen = len
        BY <2>3
      <3>2. len # LengthIn2 /\ len # LengthIn8
        BY <1>0, <2>1, <2>2, <2>3
      <3>. HIDE DEF header
      <3>3. QED
        BY <2>3, <3>1, <3>2
    <2>4. CASE extended = 2
      <3>1. header.payloadlen = LengthIn2
        BY <2>4
      <3>. HIDE DEF header
      <3>2. LengthIn2 # LengthIn8
        BY <2>2
      <3>3. QED
        BY <2>4, <3>1, <3>2
    <2>5. CASE extended = 8
      <3>1. header.payloadlen = LengthIn8
        BY <2>5
      <3>. HIDE DEF header
      <3>2. LengthIn2 # LengthIn8
        BY <2>2
      <3>3. QED
        BY <2>5, <3>1, <3>2
    <2>6. QED
      BY <1>1, <2>3, <2>4, <2>5
  <1>7. header.opcode = Text /\ header.masked = FALSE /\ (extended = 0 => header.payloadlen = len)
    <2>. HIDE DEF len, extended
    <2>1. QED
      OBVIOUS
  <1>8. ASSUME NEW arrived \in 0 .. Len(bytes)
        PROVE  ReadFrame(bBig, header, SubSeq(bytes, 1, arrived)) =
                   IF arrived = Len(bytes) THEN {msg} ELSE {}
    <2>. DEFINE got == SubSeq(bytes, 1, arrived)
                payloadlen == IF extended = 0 THEN header.payloadlen
                              ELSE FromMemory(bBig, net_to_host(bBig, SubSeq(got, 1, extended)))
    <2>1. got \in Seq(Bytes) /\ Len(got) = arrived
      <3>. HIDE DEF bytes
      <3>1. QED
        BY <1>4
    <2>2. ReadFrame(bBig, header, got) =
              IF Len(got) < extended \/ Len(got) < extended + payloadlen THEN {}
              ELSE {[type |-> Text, data |-> SubSeq(got, extended + 1, extended + payloadlen)]}
      <3>. DEFINE key == extended + (IF header.masked THEN 4 ELSE 0)
                  part == SubSeq(got, key + 1, key + payloadlen)
      <3>. HIDE DEF got, header
      <3>1. ReadFrame(bBig, header, got) =
                IF Len(got) < key \/ Len(got) < key + payloadlen THEN {}
                ELSE {[type |-> header.opcode,
                       data |-> IF header.masked
                                THEN WsMask(part, SubSeq(got, extended + 1, key)) ELSE part]}
        <4>. DEFINE ext == CASE header.payloadlen = LengthIn2 -> 2
                             [] header.payloadlen = LengthIn8 -> 8
                             [] OTHER -> 0
                    start == ext + (IF header.masked THEN 4 ELSE 0)
                    total == IF ext = 0 THEN header.payloadlen
                             ELSE FromMemory(bBig, net_to_host(bBig, SubSeq(got, 1, ext)))
                    piece == SubSeq(got, start + 1, start + total)
        <4>1. ReadFrame(bBig, header, got) =
                IF Len(got) < start \/ Len(got) < start + total THEN {}
                ELSE {[type |-> header.opcode,
                       data |-> IF header.masked
                                THEN WsMask(piece, SubSeq(got, ext + 1, start)) ELSE piece]}
          BY DEF ReadFrame
        <4>2. ext = extended
          BY <1>6
        <4>. HIDE DEF extended, ext
        <4>3. start = key /\ total = payloadlen /\ piece = part
          BY <4>2
        <4>. HIDE DEF key, payloadlen, part, start, total, piece
        <4>4. QED
          BY <4>1, <4>2, <4>3
      <3>2. key = extended
        <4>. HIDE DEF extended
        <4>1. QED
          BY <1>1, <1>7
      <3>. HIDE DEF key, extended, payloadlen
      <3>3. QED
        BY <1>7, <3>1, <3>2, Zenon
    <2>3. CASE arrived < extended
      <3>. HIDE DEF got, header, extended, payloadlen, bytes, msg
      <3>1. arrived # Len(bytes)
        BY <1>0, <1>1, <1>4, <2>3
      <3>2. QED
        BY <2>1, <2>2, <2>3, <3>1 DEF got
    <2>4. CASE arrived >= extended
      <3>1. SubSeq(got, 1, extended) = size
        <4>1. \A i \in 1 .. extended : got[i] = bytes[i]
          <5>. HIDE DEF bytes, extended
          <5>1. QED
            BY <1>1, <1>4, <2>4
        <4>2. SubSeq(got, 1, extended) = SubSeq(bytes, 1, extended)
          <5>. HIDE DEF bytes, extended, got
          <5>1. QED
            BY <1>0, <1>1, <1>4, <2>1, <2>4, <4>1
        <4>. HIDE DEF bytes, extended, got, size
        <4>3. QED
          BY <1>4, <4>2
      <3>2. payloadlen = len
        <4>1. FromMemory(bBig, net_to_host(bBig, size)) = ValueOf(size)
          <5>. HIDE DEF len, extended
          <5>1. QED
            BY <1>2, OrderOfHost
        <4>. HIDE DEF len, extended, got, header, size
        <4>2. QED
          BY <1>5, <1>7, <3>1, <4>1
      <3>. HIDE DEF payloadlen
      <3>3. CASE arrived = Len(bytes)
        <4>1. got = bytes
          <5>. HIDE DEF bytes
          <5>1. QED
            BY <1>4, <3>3
        <4>. HIDE DEF got, header, extended, bytes, len
        <4>2. ~ (Len(got) < extended \/ Len(got) < extended + payloadlen)
          BY <1>0, <1>1, <1>4, <2>1, <3>2, <3>3
        <4>3. SubSeq(got, extended + 1, extended + payloadlen) = data
          BY <1>4, <3>2, <4>1
        <4>4. QED
          BY <2>2, <3>3, <4>2, <4>3 DEF got
      <3>4. CASE arrived # Len(bytes)
        <4>. HIDE DEF got, header, extended, bytes, len, msg
        <4>1. Len(got) < extended + payloadlen
          BY <1>0, <1>1, <1>4, <2>1, <3>2, <3>4
        <4>2. QED
          BY <2>2, <3>4, <4>1 DEF got
      <3>5. QED
        BY <3>3, <3>4
    <2>5. QED
      <3>. HIDE DEF extended, bytes, header, msg
      <3>1. arrived \in Nat /\ extended \in Nat
        BY <1>0, <1>1, <1>4
      <3>2. QED
        BY <2>3, <2>4, <3>1
  <1>. DEFINE frame == ServerFrame(msg)
  <1>9. frame.header = header /\ frame.bytes = bytes
    <2>. HIDE DEF header, bytes
    <2>1. QED
      BY <1>3
  <1>. HIDE DEF frame, header, bytes
  <1>10. QED
    BY <1>8, <1>9, Zenon DEF frame

-----------------------------------------------------------------------------
(* What is said to the signalling server is understood. *)

Addressees == {ToPlayerId(n) : n \in PlayerIds} \cup {NoPlayer}

LEMMA TextOf ==
    ASSUME NEW p \in Int, NEW n \in Nat
    PROVE  \E data \in Seq(Bytes) : TextAbout(p, n) = [type |-> Text, data |-> data] /\ Len(data) = n
  <1>. DEFINE byte(i) == (p + i) % ByteSize
              data == [i \in 1 .. n |-> byte(i)]
  <1>1. ASSUME NEW i \in 1 .. n PROVE byte(i) \in Bytes
    <2>1. p + i \in Int /\ ByteSize \in Nat \ {0}
      BY ByteIs
    <2>. DEFINE j == p + i
    <2>. HIDE DEF j
    <2>2. \A x \in Int, b \in Nat \ {0} : x % b \in 0 .. b - 1
      BY SMTT(20)
    <2>3. j % ByteSize \in 0 .. ByteSize - 1
      BY <2>1, <2>2 DEF j
    <2>4. QED
      BY <2>3 DEF j, Bytes
  <1>. HIDE DEF byte
  <1>2. data \in Seq(Bytes) /\ Len(data) = n
    BY <1>1
  <1>3. TextAbout(p, n) = [type |-> Text, data |-> data]
    BY Zenon DEF TextAbout, byte
  <1>. HIDE DEF data
  <1>4. QED
    BY <1>2, <1>3

LEMMA AddresseesAreInts == Addressees \subseteq Int
  <1>1. \A n \in PlayerIds : ToPlayerId(n) \in Int
    BY MessagesAssumption DEF ToPlayerId
  <1>2. NoPlayer \in Int
    BY MessagesAssumption DEF NoPlayer
  <1>3. QED
    BY <1>1, <1>2 DEF Addressees

\* The text about any player, of any length, with any key, on any host.
LEMMA AllUnderstood == \A p \in Addressees : Understood[p]
  <1>. DEFINE Reads(p) ==
                \A n \in Lengths, bBig \in BOOLEAN :
                    LET msg == TextAbout(p, n)
                        frame == ServerFrame(msg) IN
                    /\ \A mask_key \in MaskKeys : ServerReads(Send(bBig, msg, mask_key), msg)
                    /\ \A arrived \in 0 .. Len(frame.bytes) :
                          ReadFrame(bBig, frame.header, SubSeq(frame.bytes, 1, arrived)) =
                              IF arrived = Len(frame.bytes) THEN {msg} ELSE {}
  <1>1. ASSUME NEW p \in Addressees PROVE Reads(p)
    <2>. SUFFICES ASSUME NEW n \in Lengths, NEW bBig \in BOOLEAN
                  PROVE  LET msg == TextAbout(p, n)
                             frame == ServerFrame(msg) IN
                         /\ \A mask_key \in MaskKeys : ServerReads(Send(bBig, msg, mask_key), msg)
                         /\ \A arrived \in 0 .. Len(frame.bytes) :
                              ReadFrame(bBig, frame.header, SubSeq(frame.bytes, 1, arrived)) =
                                  IF arrived = Len(frame.bytes) THEN {msg} ELSE {}
      BY Zenon
    <2>1. n \in Nat /\ n < Power2[8 * BitsPerByte]
      <3>1. n \in 0 .. Power2[8 * BitsPerByte] - 1
        BY MessagesAssumption
      <3>2. 8 * BitsPerByte \in 0 .. 8 * BitsPerByte
        BY BitsOfLength
      <3>3. Power2[8 * BitsPerByte] \in Nat
        BY <3>2, PowerType
      <3>4. QED
        BY <3>1, <3>3
    <2>2. p \in Int
      BY AddresseesAreInts
    <2>3. PICK data \in Seq(Bytes) : TextAbout(p, n) = [type |-> Text, data |-> data] /\ Len(data) = n
      BY <2>1, <2>2, TextOf
    <2>. DEFINE msg == [type |-> Text, data |-> data]
                frame == ServerFrame(msg)
    <2>4. ASSUME NEW mask_key \in MaskKeys PROVE ServerReads(Send(bBig, msg, mask_key), msg)
      <3>1. mask_key \in Seq(Bytes) /\ Len(mask_key) = 4
        BY MessagesAssumption, KeyIs
      <3>2. QED
        BY <3>1, ServerReadsSent
    <2>5. Len(data) < Power2[8 * BitsPerByte]
      BY <2>1, <2>3
    <2>6. \A arrived \in 0 .. Len(frame.bytes) :
              ReadFrame(bBig, frame.header, SubSeq(frame.bytes, 1, arrived)) =
                  IF arrived = Len(frame.bytes) THEN {msg} ELSE {}
      BY <2>5, ClientReads, Zenon
    <2>. HIDE DEF msg
    <2>7. TextAbout(p, n) = msg
      BY <2>3 DEF msg
    <2>8. QED
      BY <2>4, <2>6, <2>7, Zenon
  <1>. HIDE DEF Reads
  <1>2. Understood = [p \in Addressees |-> Reads(p)]
    BY Zenon DEF Understood, Addressees, Reads
  <1>3. QED
    BY <1>1, <1>2, Zenon

\* Nobody else is said anything about.
AddressedInv == \A reply \in state.sent : reply.id \in Addressees

LEMMA RepliesAddressed ==
    ASSUME NEW m \in Messages
    PROVE  /\ Comes(m) => \A r \in ComingReplies(m) : r.id \in Addressees
           /\ \A r \in Replies(m) : r.id \in Addressees
  <1>1. NoPlayer \in Addressees
    BY DEF Addressees
  <1>2. Comes(m) => ToPlayerId(m.id) \in Addressees
    BY MessageKinds, KindsApart DEF Addressees
  <1>3. \A type, p : Saying(type, p).id = p
    BY DEF Saying
  <1>4. \A r \in Replies(m) : r.id \in Addressees
    BY <1>1, <1>3 DEF Replies
  <1>5. ASSUME Comes(m), NEW r \in ComingReplies(m) PROVE r.id \in Addressees
    <2>. DEFINE p == ToPlayerId(m.id)
    <2>1. \E type : r = Saying(type, p)
      BY <1>5 DEF ComingReplies
    <2>2. QED
      BY <1>2, <1>3, <1>5, <2>1
  <1>6. QED
    BY <1>4, <1>5

LEMMA MessageAddressed ==
    ASSUME NEW s, StateOK(s), NEW m \in Messages, \A r \in s.sent : r.id \in Addressees
    PROVE  \A r \in OnMessage(s, m).sent : r.id \in Addressees
  <1>. DEFINE t == OnMessage(s, m)
              p == ToPlayerId(m.id)
  <1>1. /\ Comes(m) /\ p \in Live(s) => t = s
        /\ Comes(m) /\ p \notin Live(s) =>
              Joins(s, t, p, ComingSession(s.configured, m), ComingReplies(m), NeedsSource(m))
        /\ Updates(m) => Changes(s, t, m)
        /\ Leaves(m) => Departs(s, t, p)
        /\ m.type \notin PlayerTypes => Notes(s, t, m)
    BY MessageEffect
  <1>. HIDE DEF t, p
  <1>2. \/ t.sent = s.sent
        \/ Comes(m) /\ t.sent = s.sent \cup ComingReplies(m)
        \/ t.sent = s.sent \cup Replies(m)
    BY <1>1, KindsApart DEF Joins, Changes, SameShared, Departs, Notes
  <1>3. QED
    BY <1>2, RepliesAddressed DEF t

LEMMA AddressedInvStep ==
    MessagesInv /\ AddressedInv /\ [MessagesNext]_<<frameVars, messageVars>> => AddressedInv'
  <1>. SUFFICES ASSUME MessagesInv, AddressedInv, [MessagesNext]_<<frameVars, messageVars>>
                PROVE  AddressedInv'
    OBVIOUS
  <1>1. CASE Handle
    <2>1. state' = OnMessage(state, script[delivered[handled']])
      BY <1>1 DEF Handle
    <2>2. StateOK(state) /\ script[delivered[handled']] \in Messages
      BY <1>1, NextMessage DEF MessagesInv
    <2>3. \A r \in OnMessage(state, script[delivered[handled']]).sent : r.id \in Addressees
      BY <2>2, MessageAddressed DEF AddressedInv
    <2>4. QED
      BY <2>1, <2>3 DEF AddressedInv
  <1>2. CASE \E bytes \in 1 .. End[N] : Receive(bytes)
    BY <1>2 DEF Receive, messageVars, AddressedInv
  <1>3. CASE UNCHANGED <<frameVars, messageVars>>
    BY <1>3 DEF messageVars, AddressedInv
  <1>4. QED
    BY <1>1, <1>2, <1>3 DEF MessagesNext

\* Every text the client sends is read by the signalling server as it was meant,
\* and the other way round: for bytes of any number of bits from three on,
\* texts of any length that eight bytes can tell, any mask keys, hosts of either
\* order of bytes, and frames cut anywhere.
THEOREM TextsUnderstood == MessagesSpec => []FramesUnderstood
  <1>1. MessagesInit => AddressedInv
    BY DEF MessagesInit, StartState, AddressedInv
  <1>2. MessagesSpec => []AddressedInv
    BY <1>1, AddressedInvStep, MessagesInvariant, PTL DEF MessagesSpec
  <1>3. AddressedInv => FramesUnderstood
    BY AllUnderstood DEF AddressedInv, FramesUnderstood
  <1>4. QED
    BY <1>2, <1>3, PTL
=============================================================================
