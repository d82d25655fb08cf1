---------------------------- MODULE AudioDevice -----------------------------
(***************************************************************************)
(* FAudioDeviceModule: the sound that the receiver publishes is cut into   *)
(* chunks of ten milliseconds, which are handed to WebRTC.                 *)
(*                                                                         *)
(* Two threads meet here.  WebRTC's worker thread registers its callback,  *)
(* starts and stops the recording and terminates the module; the receiving *)
(* thread is inside OnNewSubmixBuffer, under the critical section of the   *)
(* capturer, for as long as it hands chunks to the callback.  Starting and *)
(* stopping do not take the critical section.  Playing out the sound of    *)
(* browsers keeps its flags only: no thread of the code asks for it.       *)
(*                                                                         *)
(* The message centre needs no state of its own: whether the receiver      *)
(* finds the capturer subscribed or not while it is not initialised, the   *)
(* buffer is dropped.                                                      *)
(***************************************************************************)
EXTENDS AudioChannel

CONSTANTS SamplesPer10Ms,             \* the samples of a chunk
          WebRTCDisableTransmitAudio, \* configuration
          WebRTCDisableReceiveAudio   \* configuration

ASSUME DeviceAssumption ==
    /\ SamplesPer10Ms \in Nat \ {0}
    /\ WebRTCDisableTransmitAudio \in BOOLEAN
    /\ WebRTCDisableReceiveAudio \in BOOLEAN

VARIABLES requester,        \* the flags of FAudioPlayoutRequester
          capturer,         \* the flags of FSubmixCapturer
          RecordingBuffer,  \* the samples not handed to WebRTC yet
          submitting,       \* is the receiver inside OnNewSubmixBuffer?
          engine,           \* how far WebRTC's voice engine is
          turn,             \* how many buffers RecordingBuffer has been given
          submitted         \* the samples that WebRTC has been given

history == <<turn, submitted>>
deviceVars == <<requester, capturer, RecordingBuffer, submitting, engine, history>>

-----------------------------------------------------------------------------
\* A sample: when the receiver handed it on, its place there, and what it is:
\* the number of the buffer that the application wrote it with, or Nul.
Before(s, t) == s.turn < t.turn \/ (s.turn = t.turn /\ s.place < t.place)

NotOlderThere(s, t) == s.place = t.place => t.content = Nul \/ t.content >= s.content

NewCapturer == [bInitialised |-> FALSE, bCapturing |-> FALSE, AudioCallback |-> FALSE]

NewRequester ==
    [bIsPlayoutInitialised |-> FALSE, bIsPlaying |-> FALSE, AudioCallback |-> FALSE]

NewDevice ==
    /\ requester' = NewRequester
    /\ capturer' = NewCapturer
    /\ RecordingBuffer' = <<>>
    /\ submitting' = FALSE
    /\ engine' = "new"
    /\ turn' = 0 /\ submitted' = {}

DeviceInit ==
    /\ Init
    /\ requester = NewRequester
    /\ capturer = NewCapturer
    /\ RecordingBuffer = <<>>
    /\ submitting = FALSE
    /\ engine = "new"
    /\ turn = 0 /\ submitted = {}

-----------------------------------------------------------------------------
(* FAudioPlayoutRequester: a record of flags after each operation. *)

InitPlayout(r) ==
    IF WebRTCDisableReceiveAudio THEN r ELSE [r EXCEPT !.bIsPlayoutInitialised = TRUE]

StartPlayout(r) == [r EXCEPT !.bIsPlaying = @ \/ r.bIsPlayoutInitialised]

StopPlayout(r) == [r EXCEPT !.bIsPlaying = @ /\ ~r.bIsPlayoutInitialised]

UninitialiseRequester(r) ==
    [StopPlayout(r) EXCEPT !.AudioCallback = FALSE, !.bIsPlayoutInitialised = FALSE]

-----------------------------------------------------------------------------
(* The worker thread: FSubmixCapturer, and the module around the two. *)

recording == <<RecordingBuffer, submitting>>

\* Mutant: the callback is replaced without the critical section.
RegisterCapturerUnlocked(callback) ==
    /\ capturer' = [capturer EXCEPT !.AudioCallback = callback]
    /\ UNCHANGED recording

RegisterCapturer(callback) ==
    /\ ~submitting
    /\ capturer' = [capturer EXCEPT !.AudioCallback = callback]
    /\ UNCHANGED recording

RegisterAudioCallback(callback) ==
    /\ requester' = [requester EXCEPT !.AudioCallback = callback]
    /\ RegisterCapturer(callback)

\* It subscribes OnAudioReceived.
InitCapturer ==
    /\ ~submitting
    /\ capturer' = [capturer EXCEPT !.bInitialised = TRUE]
    /\ UNCHANGED recording

\* StartCapturing and EndCapturing, which leave the samples where they are.
SetCapturing(capturing) ==
    /\ capturer.bInitialised
    /\ capturer' = [capturer EXCEPT !.bCapturing = capturing]
    /\ UNCHANGED recording

Uninitialise ==
    /\ ~submitting
    /\ capturer' = [capturer EXCEPT !.bInitialised = FALSE, !.bCapturing = FALSE]
    /\ RecordingBuffer' = <<>>
    /\ UNCHANGED submitting

InitRecording ==
    IF WebRTCDisableTransmitAudio THEN UNCHANGED <<capturer, recording>> ELSE InitCapturer

StartRecording == ~capturer.bCapturing /\ SetCapturing(TRUE)

StopRecording == capturer.bCapturing /\ SetCapturing(FALSE)

Terminate == Uninitialise /\ requester' = UninitialiseRequester(requester)

\* The voice engine initialises the module and registers its callback; it
\* records while a stream of sound is being sent, and plays out while one is
\* being received; at its end it stops the recording, takes the callback back
\* and terminates the module.
Worker ==
    /\ \/ engine = "new" /\ InitRecording /\ engine' = "initialised" /\ UNCHANGED requester
       \/ engine = "initialised" /\ RegisterAudioCallback(TRUE) /\ engine' = "registered"
       \/ engine = "registered" /\ StartRecording /\ UNCHANGED <<requester, engine>>
       \/ engine = "registered" /\ StopRecording /\ UNCHANGED <<requester, engine>>
       \/ /\ engine = "registered"
          /\ \/ ~requester.bIsPlaying /\ requester' = StartPlayout(InitPlayout(requester))
             \/ requester.bIsPlaying /\ requester' = StopPlayout(requester)
          /\ UNCHANGED <<capturer, recording, engine>>
       \/ /\ engine = "registered"
          /\ ~capturer.bCapturing
          /\ RegisterAudioCallback(FALSE)
          /\ engine' = "leaving"
       \/ engine = "leaving" /\ Terminate /\ engine' = "gone"
    /\ UNCHANGED <<vars, history>>

-----------------------------------------------------------------------------
(* The receiving thread. *)

Samples(cells) ==
    [i \in DOMAIN cells |-> [turn |-> turn + 1, place |-> i, content |-> cells[i]]]

\* The callback of OnAudioReceived, up to its loop.
OnNewSubmixBuffer ==
    /\ ~submitting
    /\ Publish
    /\ IF capturer.bInitialised /\ capturer.bCapturing /\ capturer.AudioCallback
       THEN /\ RecordingBuffer' = RecordingBuffer \o Samples(heard'.cells)
            /\ turn' = turn + 1
            /\ submitting' = TRUE
       ELSE UNCHANGED <<RecordingBuffer, turn, submitting>>
    /\ UNCHANGED <<requester, capturer, engine, submitted>>

Submit(chunk) == submitted' = submitted \cup {chunk[i] : i \in DOMAIN chunk}

\* Mutant: the last sample of the chunk stays in the buffer.
RecordedDataIsAvailableTwice ==
    /\ submitting
    /\ Len(RecordingBuffer) > SamplesPer10Ms
    /\ Submit(SubSeq(RecordingBuffer, 1, SamplesPer10Ms))
    /\ RecordingBuffer' = SubSeq(RecordingBuffer, SamplesPer10Ms, Len(RecordingBuffer))
    /\ UNCHANGED <<vars, requester, capturer, submitting, engine, turn>>

\* One chunk goes to WebRTC and out of the buffer.
RecordedDataIsAvailable ==
    /\ submitting
    /\ Len(RecordingBuffer) > SamplesPer10Ms
    /\ Submit(SubSeq(RecordingBuffer, 1, SamplesPer10Ms))
    /\ RecordingBuffer' =
           SubSeq(RecordingBuffer, SamplesPer10Ms + 1, Len(RecordingBuffer))
    /\ UNCHANGED <<vars, requester, capturer, submitting, engine, turn>>

\* The loop ends at a chunk or less: a chunk that is complete may wait for
\* the next buffer.
EndOfSubmixBuffer ==
    /\ submitting
    /\ Len(RecordingBuffer) <= SamplesPer10Ms
    /\ submitting' = FALSE
    /\ UNCHANGED <<vars, requester, capturer, RecordingBuffer, engine, history>>

-----------------------------------------------------------------------------
Elsewhere == UNCHANGED deviceVars

AudioReceiver ==
    \/ ~submitting /\ ReaderStep /\ UNCHANGED <<Suffix, restarts>> /\ Elsewhere
    \/ OnNewSubmixBuffer
    \/ RecordedDataIsAvailable
    \/ EndOfSubmixBuffer

DeviceNext ==
    \/ \E size \in Cells : WriteToSharedMemory(size) /\ Elsewhere
    \/ Capturer /\ Elsewhere
    \/ AudioReceiver
    \/ Worker
    \/ Restart /\ NewDevice

\* Both threads of AudioChannel run; WebRTC need not do anything.
DeviceSpec ==
    /\ DeviceInit /\ [][DeviceNext]_<<vars, deviceVars>>
    /\ WF_<<vars, deviceVars>>(Capturer /\ Elsewhere)
    /\ WF_<<vars, deviceVars>>(AudioReceiver)

-----------------------------------------------------------------------------
\* No callback after the goodbye: while the receiver hands chunks to WebRTC,
\* the callback is registered; once the worker has taken it back, no chunk
\* goes there any more, however the two threads meet. A module that has been
\* terminated neither records nor plays, nor does either side of it know the
\* callback.
CallbackStays ==
    /\ submitting => capturer.AudioCallback
    /\ engine = "gone" =>
          ~ (\/ capturer.bCapturing \/ capturer.AudioCallback
             \/ requester.bIsPlaying \/ requester.AudioCallback)

\* What the receiver has handed on goes to WebRTC in the same order and each
\* of it at most once, over stops and starts of the recording and buffers
\* longer or shorter than a chunk; and of two samples from one place of the
\* slot the later one is not older, over all torn reads and handles that come
\* round. (Torn reads may hand on the content of a buffer twice.)
SoundInOrder ==
    \A i \in DOMAIN RecordingBuffer :
        \A s \in submitted \cup {RecordingBuffer[j] : j \in 1 .. i - 1} :
            Before(s, RecordingBuffer[i]) /\ NotOlderThere(s, RecordingBuffer[i])
=============================================================================
