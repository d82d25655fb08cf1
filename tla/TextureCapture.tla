--------------------------- MODULE TextureCapture ---------------------------
(***************************************************************************)
(* TTextureSourceBackBufferBase of the Unreal plugin and the poller of GPU *)
(* fences it owns.                                                         *)
(*                                                                         *)
(*   - the render thread copies every picture it presents into the next    *)
(*     texture of a ring, unless a copy into that one is still pending;    *)
(*   - the GPU does the copies in the order in which they were queued and  *)
(*     signals the fence of each;                                          *)
(*   - the poller thread looks at the fences, hands a finished texture on  *)
(*     and gives the ring another one for it: the texture handed on        *)
(*     becomes ReadBuffer, the one before TempBuffer, and the one before   *)
(*     that goes back into the ring.                                       *)
(*                                                                         *)
(* The lock of the callback is left out: the only other place that takes   *)
(* it is GetCurrent, which nothing calls. So is SetEnabled: bEnabled is    *)
(* cleared by the destructor alone. The buffers are destroyed before the   *)
(* poller is stopped; what a callback does to destroyed buffers is         *)
(* undefined and not followed here. checkf (AddFenceJob wants the poller   *)
(* to be running) is compiled out of a shipping build and has no effect.   *)
(***************************************************************************)
EXTENDS Integers, Sequences, SequencesExt

CONSTANTS Slots,     \* length of WriteBuffers, 30 in the code
          MaxFrames  \* bound on the pictures the application presents

ASSUME CaptureAssumption == Slots \in Nat \ {0} /\ MaxFrames \in Nat

VARIABLES texture,      \* WriteBuffers[s].Texture
          bAvailable,   \* WriteBuffers[s].bAvailable
          WriteParity,
          TempBuffer,
          ReadBuffer,
          bEnabled,
          render,       \* where the render thread is, and the slot it took
          frame,        \* pictures presented so far
          gpu,          \* copies queued for the GPU
          fence,        \* has the fence of the slot been signalled?
          poller,       \* where the poller thread is
          bIsRunning,
          JobAddedEvent, \* an auto-reset event
          JobsToAdd,    \* slots whose jobs were submitted
          PollJobs,     \* slots whose fences are polled
          index,        \* the index i of the loop over PollJobs
          destructor    \* how far the destructor has come

ringVars == <<texture, bAvailable, TempBuffer, ReadBuffer>>

renderVars == <<WriteParity, render, frame>>

gpuVars == <<gpu, fence>>

jobVars == <<JobAddedEvent, JobsToAdd>>

pollerVars == <<poller, PollJobs, index>>

lifeVars == <<bEnabled, bIsRunning, destructor>>

captureVars == <<ringVars, renderVars, gpuVars, jobVars, pollerVars, lifeVars>>

-----------------------------------------------------------------------------
Ring == 0 .. Slots - 1

\* One texture for each slot of the ring, TempBuffer and ReadBuffer.
Textures == 0 .. Slots + 1

Copies == [slot : Ring, texture : Textures]

RenderPlaces == {"idle", "enqueueing", "triggering"}

PollerPlaces == { "starting", "testing", "adding", "polling", "swapping",
                  "releasing", "sending", "waiting", "ended" }

CaptureTypeOK ==
    /\ texture \in [Ring -> Textures]
    /\ bAvailable \in [Ring -> BOOLEAN]
    /\ TempBuffer \in Textures
    /\ ReadBuffer \in Textures
    /\ WriteParity \in Ring
    /\ render \in [at : RenderPlaces, slot : Ring]
    /\ frame \in 0 .. MaxFrames
    /\ gpu \in Seq(Copies)
    /\ fence \in [Ring -> BOOLEAN]
    /\ poller \in PollerPlaces
    /\ JobsToAdd \in Seq(Ring)
    /\ PollJobs \in Seq(Ring)
    /\ index \in 0 .. Len(PollJobs)
    /\ bEnabled \in BOOLEAN /\ bIsRunning \in BOOLEAN /\ JobAddedEvent \in BOOLEAN
    /\ destructor \in {"alive", "disabled", "buffers gone", "stopped"}

\* Initialize, which the render thread calls with the first picture.
CaptureInit ==
    /\ texture = [s \in Ring |-> s]
    /\ bAvailable = [s \in Ring |-> TRUE]
    /\ TempBuffer = Slots
    /\ ReadBuffer = Slots + 1
    /\ WriteParity = 0
    /\ render = [at |-> "idle", slot |-> 0]
    /\ frame = 0
    /\ gpu = <<>>
    /\ fence = [s \in Ring |-> FALSE]
    /\ poller = "starting"
    /\ bIsRunning = FALSE
    /\ JobAddedEvent = FALSE
    /\ JobsToAdd = <<>>
    /\ PollJobs = <<>>
    /\ index = 0
    /\ bEnabled = TRUE
    /\ destructor = "alive"

-----------------------------------------------------------------------------
\* Mutant: a slot is used again although its copy is pending.
MayWriteAlways(s) == s \in Ring

MayWrite(s) == bAvailable[s]

\* The ring moves on even if the slot cannot be written: the picture is lost.
OnBackBufferReady_RenderThread ==
    LET s == WriteParity
    IN  /\ render.at = "idle"
        /\ destructor = "alive"
        /\ frame < MaxFrames
        /\ frame' = frame + 1
        /\ WriteParity' = (s + 1) % Slots
        /\ \/ /\ MayWrite(s)
              /\ bAvailable' = [bAvailable EXCEPT ![s] = FALSE]
              /\ fence' = [fence EXCEPT ![s] = FALSE]
              /\ gpu' = Append(gpu, [slot |-> s, texture |-> texture[s]])
              /\ render' = [at |-> "enqueueing", slot |-> s]
           \/ /\ ~MayWrite(s)
              /\ UNCHANGED <<bAvailable, fence, gpu, render>>
        /\ UNCHANGED <<texture, TempBuffer, ReadBuffer, jobVars, pollerVars, lifeVars>>

\* FPollerRunnable::AddFenceJob
AddFenceJob ==
    /\ render.at = "enqueueing"
    /\ JobsToAdd' = Append(JobsToAdd, render.slot)
    /\ render' = [render EXCEPT !.at = "triggering"]
    /\ UNCHANGED <<ringVars, WriteParity, frame, gpuVars, JobAddedEvent, pollerVars,
                   lifeVars>>

TriggerJobAdded ==
    /\ render.at = "triggering"
    /\ JobAddedEvent' = TRUE
    /\ render' = [render EXCEPT !.at = "idle"]
    /\ UNCHANGED <<ringVars, WriteParity, frame, gpuVars, JobsToAdd, pollerVars,
                   lifeVars>>

GPUCopies ==
    /\ gpu # <<>>
    /\ fence' = [fence EXCEPT ![Head(gpu).slot] = TRUE]
    /\ gpu' = Tail(gpu)
    /\ UNCHANGED <<ringVars, renderVars, jobVars, pollerVars, lifeVars>>

-----------------------------------------------------------------------------
\* FPollerRunnable::Run
StartPoller ==
    /\ poller = "starting"
    /\ bIsRunning' = TRUE
    /\ poller' = "testing"
    /\ UNCHANGED <<ringVars, renderVars, gpuVars, jobVars, PollJobs, index, bEnabled,
                   destructor>>

TestIsRunning ==
    /\ poller = "testing"
    /\ poller' = IF bIsRunning THEN "adding" ELSE "ended"
    /\ UNCHANGED <<ringVars, renderVars, gpuVars, jobVars, PollJobs, index, lifeVars>>

AddNewJob ==
    /\ poller = "adding"
    /\ JobsToAdd # <<>>
    /\ PollJobs' = Append(PollJobs, Head(JobsToAdd))
    /\ JobsToAdd' = Tail(JobsToAdd)
    /\ UNCHANGED <<ringVars, renderVars, gpuVars, JobAddedEvent, poller, index, lifeVars>>

AllJobsAdded ==
    /\ poller = "adding"
    /\ JobsToAdd = <<>>
    /\ index' = Len(PollJobs)
    /\ poller' = "polling"
    /\ UNCHANGED <<ringVars, renderVars, gpuVars, jobVars, PollJobs, lifeVars>>

\* A job whose source is being destroyed is dropped.
DropJob ==
    /\ poller = "polling" /\ index > 0
    /\ ~bEnabled
    /\ PollJobs' = RemoveAt(PollJobs, index)
    /\ index' = index - 1
    /\ UNCHANGED <<ringVars, renderVars, gpuVars, jobVars, poller, lifeVars>>

\* The fence is polled; the callback of a job that is done comes next.
PollJob ==
    /\ poller = "polling" /\ index > 0
    /\ bEnabled
    /\ \/ /\ fence[PollJobs[index]]
          /\ poller' = "swapping"
          /\ UNCHANGED index
       \/ /\ ~fence[PollJobs[index]]
          /\ index' = index - 1
          /\ UNCHANGED poller
    /\ UNCHANGED <<ringVars, renderVars, gpuVars, jobVars, PollJobs, lifeVars>>

\* The callback swaps the texture of the slot for TempBuffer,
SwapTempBuffer ==
    LET s == PollJobs[index]
    IN  /\ poller = "swapping"
        /\ TempBuffer' = texture[s]
        /\ texture' = [texture EXCEPT ![s] = TempBuffer]
        /\ poller' = "releasing"
        /\ UNCHANGED <<bAvailable, ReadBuffer, renderVars, gpuVars, jobVars, PollJobs,
                       index, lifeVars>>

\* makes the slot available,
ReleaseSlot ==
    LET s == PollJobs[index]
    IN  /\ poller = "releasing"
        /\ fence' = [fence EXCEPT ![s] = FALSE]
        /\ bAvailable' = [bAvailable EXCEPT ![s] = TRUE]
        /\ poller' = "sending"
        /\ UNCHANGED <<texture, TempBuffer, ReadBuffer, renderVars, gpu, jobVars,
                       PollJobs, index, lifeVars>>

\* and swaps TempBuffer for ReadBuffer, which it sends (see TextureHandles).
SendReadBuffer ==
    /\ poller = "sending"
    /\ ReadBuffer' = TempBuffer
    /\ TempBuffer' = ReadBuffer
    /\ PollJobs' = RemoveAt(PollJobs, index)
    /\ index' = index - 1
    /\ poller' = "polling"
    /\ UNCHANGED <<texture, bAvailable, renderVars, gpuVars, jobVars, lifeVars>>

\* Mutant: the poller waits whenever the jobs it knows were looked at.
EndOfPassWaiting ==
    /\ poller = "polling" /\ index = 0
    /\ poller' = "waiting"
    /\ UNCHANGED <<ringVars, renderVars, gpuVars, jobVars, PollJobs, index, lifeVars>>

\* Without a job the thread waits, otherwise it begins another pass.
EndOfPass ==
    /\ poller = "polling" /\ index = 0
    /\ poller' = IF PollJobs = <<>> THEN "waiting" ELSE "testing"
    /\ UNCHANGED <<ringVars, renderVars, gpuVars, jobVars, PollJobs, index, lifeVars>>

WakeUp ==
    /\ poller = "waiting"
    /\ JobAddedEvent
    /\ JobAddedEvent' = FALSE
    /\ poller' = "testing"
    /\ UNCHANGED <<ringVars, renderVars, gpuVars, JobsToAdd, PollJobs, index, lifeVars>>

-----------------------------------------------------------------------------
\* ~TTextureSourceBackBufferBase, once no picture is rendered any more. The
\* members are destroyed in the reverse order of their declaration.
Disable ==
    /\ destructor = "alive" /\ render.at = "idle"
    /\ destructor' = "disabled"
    /\ bEnabled' = FALSE
    /\ UNCHANGED <<ringVars, renderVars, gpuVars, jobVars, pollerVars, bIsRunning>>

DestroyBuffers ==
    /\ destructor = "disabled"
    /\ destructor' = "buffers gone"
    /\ UNCHANGED <<ringVars, renderVars, gpuVars, jobVars, pollerVars, bEnabled, bIsRunning>>

\* Mutant: the poller is not woken up to find out that it shall end.
StopPollerAsleep ==
    /\ destructor = "buffers gone"
    /\ destructor' = "stopped"
    /\ bIsRunning' = FALSE
    /\ UNCHANGED <<ringVars, renderVars, gpuVars, jobVars, pollerVars, bEnabled>>

\* ~FGPUFencePoller: FPollerRunnable::Stop
StopPoller ==
    /\ destructor = "buffers gone"
    /\ destructor' = "stopped"
    /\ bIsRunning' = FALSE
    /\ JobAddedEvent' = TRUE
    /\ UNCHANGED <<ringVars, renderVars, gpuVars, JobsToAdd, pollerVars, bEnabled>>

-----------------------------------------------------------------------------
Poller ==
    \/ StartPoller \/ TestIsRunning \/ AddNewJob \/ AllJobsAdded \/ DropJob \/ PollJob
    \/ SwapTempBuffer \/ ReleaseSlot \/ EndOfPass \/ WakeUp

Destructor == Disable \/ DestroyBuffers \/ StopPoller

\* Everything but the step that sends a texture.
CaptureOnly ==
    \/ OnBackBufferReady_RenderThread \/ AddFenceJob \/ TriggerJobAdded
    \/ GPUCopies
    \/ Poller
    \/ Destructor

CaptureNext == CaptureOnly \/ SendReadBuffer

CaptureSpec == CaptureInit /\ [][CaptureNext]_captureVars

-----------------------------------------------------------------------------
\* The texture that was sent last and, from the second on, the one sent before
\* it, are never the target of a copy that the GPU has still to do, and neither
\* is the one that the poller is about to hand on: the comment on the class
\* promises that "texture read access is always thread safe while writes are
\* occurring".
TexturesSafe ==
    \A i \in 1 .. Len(gpu) :
        /\ gpu[i].texture \notin {ReadBuffer, TempBuffer}
        /\ poller = "swapping" => gpu[i].texture # texture[PollJobs[index]]

\* Every slot that was taken becomes available again, unless the source is
\* destroyed: no job and no wake-up of the poller is lost.
SlotsComeBack ==
    \A s \in Ring : ~bAvailable[s] ~> (bAvailable[s] \/ ~bEnabled)

\* A poller that was running when it was told to stop ends. (One that is told
\* before Run sets bIsRunning goes on for ever.)
PollerEnds ==
    (destructor = "stopped" /\ poller # "starting" /\ ~bIsRunning) ~> (poller = "ended")
=============================================================================
