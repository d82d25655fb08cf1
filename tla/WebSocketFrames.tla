-------------------------- MODULE WebSocketFrames --------------------------
(***************************************************************************)
(* How WebSocketClientImplCurl cuts the byte stream of one connection into *)
(* frames.  libcurl hands over the bytes in pieces of any length; each is  *)
(* appended to buffer, and the buffer is parsed from its start.  The model *)
(* keeps positions in the stream in place of bytes: the buffer holds the   *)
(* bytes from the start of the frame first up to position received.        *)
(***************************************************************************)
EXTENDS Integers, Sequences

CONSTANTS N,   \* number of frames the server sends
          End  \* position of the last byte of each frame

Frames == 1 .. N

ASSUME FramesAssumption ==
    /\ N \in Nat \ {0}
    /\ End \in [Frames -> Nat \ {0}]
    /\ \A f, g \in Frames : f < g => End[f] < End[g]

VARIABLES received,  \* bytes received so far
          first,     \* the frame that the buffer starts with
          delivered  \* the frames OnRecv was called with, in order

frameVars == <<received, first, delivered>>

FramesTypeOK ==
    /\ received \in 0 .. End[N]
    /\ first \in 1 .. N + 1
    /\ delivered \in Seq(Frames)

FramesInit == received = 0 /\ first = 1 /\ delivered = <<>>

\* Mutant: one frame too few.
FrameRunShort(from, to) == [i \in 1 .. (to - from) |-> from + i - 1]

\* Frames from .. to, one after the other.
FrameRun(from, to) == [i \in 1 .. (to - from + 1) |-> from + i - 1]

Complete(r, f) == f \in Frames /\ End[f] <= r

\* The loop delivers every complete frame of the buffer.  It leaves early,
\* with the buffer as it is, when the last of them is followed by a part of
\* the next; it clears the buffer only when there is no such part.
OnMessageReceived(bytes) ==
    /\ received + bytes <= End[N]
    /\ received' = received + bytes
    /\ \E last \in 0 .. N :
          /\ \A f \in Frames : f <= last <=> Complete(received', f)
          /\ delivered' = delivered \o FrameRun(first, last)
          /\ first' = IF last \in Frames /\ received' = End[last] THEN last + 1 ELSE first

FramesNext == \E bytes \in 1 .. End[N] : OnMessageReceived(bytes)

FramesSpec == FramesInit /\ [][FramesNext]_frameVars

-----------------------------------------------------------------------------
DeliveredSet == {delivered[i] : i \in DOMAIN delivered}

\* However the stream is cut, no frame that has arrived is held back: it has
\* been handed to OnRecv by the time its last byte is in.
NothingHeldBack == \A f \in Frames : Complete(received, f) => f \in DeliveredSet

\* Nothing is handed to OnRecv before it is complete.
NothingEarly == \A f \in DeliveredSet : Complete(received, f)

\* The handlers may see frames again, but what they saw last is always the
\* newest frame there is.
NewestLast ==
    delivered # <<>> => ~ Complete(received, delivered[Len(delivered)] + 1)
=============================================================================
