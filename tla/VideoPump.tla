----------------------------- MODULE VideoPump -----------------------------
(***************************************************************************)
(* FFixedFPSPump and the FTextureSourceBackBuffer it reads.                *)
(*                                                                         *)
(*   - the pump thread hands a texture to the encoder once per frame for   *)
(*     as long as a player has a video source, and waits otherwise;        *)
(*   - players' video sources come and go, on the threads of the sessions; *)
(*   - the receiver thread is handed every texture that the application    *)
(*     has rendered and keeps the latest of them in TextureCaches.         *)
(*                                                                         *)
(* The pump looks at VideoSources without SourcesGuard and waits without a *)
(* predicate; whoever notifies it does not hold the mutex it waits with.   *)
(* The pump's own source is never disabled (IsEnabled is always true).     *)
(* An encoder that fails in the pump thread takes the process with it:     *)
(* nobody catches what it throws, and a null pointer is dereferenced.      *)
(***************************************************************************)
EXTENDS Integers, Sequences

CONSTANTS PlayerIds,    \* players that may have a video source
          RHIName,      \* the graphics interface of the server
          MaxTextures   \* bound on the textures the application renders

ASSUME PumpAssumption == /\ RHIName \in {"D3D11", "D3D12", "Vulkan"}
                         /\ MaxTextures \in Nat

VARIABLES VideoSources,    \* the players that have a source
          bThreadRunning,
          pump,            \* where the pump thread is
          bInitialized,    \* has the texture source seen a texture?
          TextureCaches,   \* textures received and not yet read
          LastTexture,     \* what GetTexture returned last
          receiver,        \* where the receiver thread is
          newest           \* the number of the texture received last

pumpVars == <<VideoSources, bThreadRunning, pump>>

textureVars == <<bInitialized, TextureCaches, LastTexture, receiver, newest>>

vars == <<pumpVars, textureVars>>

-----------------------------------------------------------------------------
\* Textures are numbered in the order in which they are rendered.
NullTexture == 0
Textures == 1 .. MaxTextures

\* "waiting" is inside ConditionVariable.wait, "pumping" holds SourcesGuard;
\* once the pump is "crashed" there is no process any more.
PumpPlaces == { "loop", "test", "entering", "waiting", "locking", "pumping",
                "sleeping", "ended", "crashed" }

ReceiverPlaces == {"idle", "counting", "dropping", "enqueueing"}

TypeOK ==
    /\ VideoSources \subseteq PlayerIds
    /\ bThreadRunning \in BOOLEAN
    /\ pump \in PumpPlaces
    /\ bInitialized \in BOOLEAN
    /\ TextureCaches \in Seq(Textures)
    /\ LastTexture \in Textures \cup {NullTexture}
    /\ receiver \in ReceiverPlaces
    /\ newest \in 0 .. MaxTextures

Init ==
    /\ VideoSources = {}
    /\ bThreadRunning = TRUE
    /\ pump = "loop"
    /\ bInitialized = FALSE
    /\ TextureCaches = <<>>
    /\ LastTexture = NullTexture
    /\ receiver = "idle"
    /\ newest = 0

-----------------------------------------------------------------------------
(* The pump thread. *)

PumpStep(from, to) ==
    /\ pump = from
    /\ pump' = to
    /\ UNCHANGED <<VideoSources, bThreadRunning>>

TestRunning ==
    /\ PumpStep("loop", IF bThreadRunning THEN "test" ELSE "ended")
    /\ UNCHANGED textureVars

TestSources ==
    /\ PumpStep("test", IF VideoSources = {} THEN "entering" ELSE "locking")
    /\ UNCHANGED textureVars

Wait == PumpStep("entering", "waiting") /\ UNCHANGED textureVars

\* A condition variable may wake up for no reason.
WakeSpuriously == PumpStep("waiting", "locking") /\ UNCHANGED textureVars

\* SourcesGuard is taken; without a texture source that is available there
\* is nothing to do with it.
PumpFrame ==
    /\ PumpStep("locking", IF bInitialized THEN "pumping" ELSE "sleeping")
    /\ UNCHANGED textureVars

\* Mutant: the latest texture is taken and the one before it left behind.
GetLatestTexture ==
    IF TextureCaches = <<>> THEN UNCHANGED <<TextureCaches, LastTexture>>
    ELSE /\ LastTexture' = TextureCaches[Len(TextureCaches)]
         /\ TextureCaches' = SubSeq(TextureCaches, 1, Len(TextureCaches) - 1)

\* Mutant: only a new texture is returned.
GetTextureNoLast ==
    IF TextureCaches = <<>> THEN LastTexture' = NullTexture /\ UNCHANGED TextureCaches
    ELSE LastTexture' = Head(TextureCaches) /\ TextureCaches' = Tail(TextureCaches)

\* With no new texture, the last one is read again.
GetTexture ==
    IF TextureCaches = <<>> THEN UNCHANGED <<TextureCaches, LastTexture>>
    ELSE LastTexture' = Head(TextureCaches) /\ TextureCaches' = Tail(TextureCaches)

\* How Transmit may end. A null texture is dereferenced. The encoder may throw;
\* and as nobody gives the pump's encoder an OnEncodedPacket, D3D11 and Vulkan
\* throw for every frame that is encoded, all frames under Vulkan.
Outcomes(texture) ==
    IF texture = NullTexture \/ RHIName = "Vulkan" THEN {"crashed"}
    ELSE {"sleeping", "crashed"}

Transmit ==
    /\ pump = "pumping"
    /\ GetTexture
    /\ pump' \in Outcomes(LastTexture')
    /\ UNCHANGED <<VideoSources, bThreadRunning, bInitialized, receiver, newest>>

\* Mutant: the loop goes on with the sources, not with its condition.
SleepAndTest == PumpStep("sleeping", "test") /\ UNCHANGED textureVars

\* The time left to the next frame has passed, if any was, or a notification
\* has cut it short.
Sleep == PumpStep("sleeping", "loop") /\ UNCHANGED textureVars

PumpLoop == TestRunning \/ TestSources \/ Wait \/ PumpFrame \/ Transmit \/ Sleep

-----------------------------------------------------------------------------
(* The threads of the sessions. *)

\* A notification reaches a pump that waits, and is lost on any other.
Notify == pump' = IF pump = "waiting" THEN "locking" ELSE pump

SourcesGuardFree == pump # "pumping"

RegisterVideoSource(p) ==
    /\ SourcesGuardFree
    /\ p \notin VideoSources
    /\ VideoSources' = VideoSources \cup {p}
    /\ Notify
    /\ UNCHANGED <<bThreadRunning, textureVars>>

UnregisterVideoSource(p) ==
    /\ SourcesGuardFree
    /\ p \in VideoSources
    /\ VideoSources' = VideoSources \ {p}
    /\ Notify
    /\ UNCHANGED <<bThreadRunning, textureVars>>

\* The destructor goes on to join the pump thread.
Shutdown ==
    /\ bThreadRunning
    /\ bThreadRunning' = FALSE
    /\ Notify
    /\ UNCHANGED <<VideoSources, textureVars>>

-----------------------------------------------------------------------------
(* The receiver thread: OnTextureReceived. *)

ReceiverStep(from, to) ==
    /\ receiver = from
    /\ receiver' = to
    /\ UNCHANGED <<pumpVars, LastTexture>>

\* The source becomes available before it has a texture.
OnTextureReceived ==
    /\ newest < MaxTextures
    /\ ReceiverStep("idle", "counting")
    /\ newest' = newest + 1
    /\ bInitialized' = TRUE
    /\ UNCHANGED TextureCaches

Count ==
    /\ ReceiverStep("counting", IF Len(TextureCaches) >= 2 THEN "dropping" ELSE "enqueueing")
    /\ UNCHANGED <<newest, bInitialized, TextureCaches>>

\* The pump may have taken one, or both, since they were counted.
Drop ==
    /\ ReceiverStep("dropping", "enqueueing")
    /\ TextureCaches' = IF TextureCaches = <<>> THEN <<>> ELSE Tail(TextureCaches)
    /\ UNCHANGED <<newest, bInitialized>>

Enqueue ==
    /\ ReceiverStep("enqueueing", "idle")
    /\ TextureCaches' = Append(TextureCaches, newest)
    /\ UNCHANGED <<newest, bInitialized>>

Receiver == Count \/ Drop \/ Enqueue

-----------------------------------------------------------------------------
Running == pump # "crashed"

Next ==
    /\ Running
    /\ \/ PumpLoop \/ WakeSpuriously
       \/ \E p \in PlayerIds : RegisterVideoSource(p) \/ UnregisterVideoSource(p)
       \/ Shutdown
       \/ OnTextureReceived \/ Receiver

Spec == Init /\ [][Next]_vars

-----------------------------------------------------------------------------
\* The caches never hold more than two textures, although the receiver counts
\* them and adds one in two steps.
CachesBounded == Len(TextureCaches) <= 2

\* What goes to the encoder is current: at most the texture being received
\* and the one before it are newer, whatever the pump and the receiver do at
\* the same time.
EncodesCurrent == [][Transmit => LastTexture' >= newest - 2]_vars

\* The picture never goes back in time.
NeverGoesBack == [][LastTexture' >= LastTexture]_vars

\* A null texture reaches the encoder only while the first texture is being
\* received: IsAvailable is true by then, and the queue is still empty.
NullOnlyAtFirst ==
    [][Transmit /\ LastTexture' = NullTexture => newest = 1 /\ receiver # "idle"]_vars

\* A shutdown ends a pump that is at work, so that the destructor, which joins
\* it, returns, unless the frame it is at crashes the process.  (A pump that has
\* found no sources may go on to wait for ever: the notification is lost on it.)
ShutdownEnds ==
    ~bThreadRunning /\ pump \in {"loop", "locking", "pumping", "sleeping"}
        ~> pump \in {"ended", "crashed"}
=============================================================================
