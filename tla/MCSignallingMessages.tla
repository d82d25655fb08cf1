------------------------ MODULE MCSignallingMessages ------------------------
(***************************************************************************)
(* Instances of SignallingMessages, and with it of WebSocketFrames, for    *)
(* TLC: five frames of two or three bytes, and three players, the first of *)
(* them with the id that is kept for an SFU.                               *)
(***************************************************************************)
EXTENDS SignallingMessages

Five == 5
UnequalFrames == <<2, 4, 7, 9, 12>>
ThreePlayers == {1, 2, 3}

\* Bytes of three bits: lengths up to 1 fit into the header, up to 63 into two
\* bytes more. The lengths on both sides of each limit.
BoundaryLengths == {0, 1, 2, 63, 64}
SomeKeys == {<<0, 0, 0, 0>>, <<1, 6, 3, 7>>}

\* The first and the last player connect, the second comes with an offer; an
\* offer of the first is refused. Types without effect are left out.
SomeMessages ==
    {m \in Messages :
        CASE m.type \in {"identify", "playerCount", "pong", "streamer candidate"} -> FALSE
          [] m.type = "playerConnected" -> m.dataChannel /\ m.id # 2
          [] m.type = "offer" -> <<m.id, m.sdp>> \in {<<1, "refused">>, <<2, "good">>}
          [] m.type = "answer" -> m.sdp = "good" /\ m.id = 3
          [] m.type = "iceCandidate" -> m.id = 3
          [] OTHER -> TRUE}
=============================================================================
