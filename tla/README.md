# Verification of OpenZICloudRender

OpenZICloudRender shows an Unreal Engine application to browsers: a plugin in
the application hands pictures and sound to a streaming server on the same
machine, the server encodes them and sends them over WebRTC, and what the
players type, click and touch goes the opposite way.  This directory holds TLA+
models of the parts of that program that run concurrently, configurations with
which TLC checks them on small instances, and proofs, checked by TLAPS, of what
holds for instances of any size.

Paths below are relative to the repository.  *Server* stands for
`src/Server/openzicloudrenderserver/source`, *plugin* for
`src/Client/UnrealEngine/openzicloudrender/Source/OpenZICloudRender/Private`.
`PROJECT.json` lists components, runs, mutants, findings, hazards and theorems,
and maps every modelled definition to its lines.

## 1. Inventory

### Threads and processes

| who | does |
|---|---|
| WebSocket thread of the server (libcurl) | receives the signalling server's messages and runs the handlers of `FStreamer` |
| signalling thread of WebRTC | owns the player sessions; runs tasks posted by others and WebRTC's callbacks |
| connection threads, ping thread | one per attempt to connect; one for `KeepAlive` |
| pump thread | pulls a texture 60 times a second, has its encoder encode it and publishes the result as MP4 |
| texture and audio receivers | poll shared memory, or a UNIX socket, for what the application produced |
| the application's game, render, audio and input threads | produce pictures and sound, consume input |
| the application's watchdog | starts the server, and starts it again when it dies |

### Components

**Player sessions and quality control** (`Server/PixelStreaming/Private/`
`ThreadSafePlayerSessions.cpp`, `PlayerSession.cpp`, `DataChannelObserver.cpp`).
State: the map from player to session, the player who controls the quality; of
each session the peer connection, the data channel, the browser's status.
Operations: create, delete, delete all, answer, quality control, freeze and
unfreeze; all on the signalling thread, called from anywhere by a task that is
waited for (`Invoke`) or not (`PostTask`).  Hard: control changes hands on a
join, on a departure and on request, and browsers learn of it by messages that
may miss them; a freeze frame is sent in parts, and the signalling thread waits
for room for each.  Correct when one live player controls the quality, every
change is sent to those whom it concerns, and nobody uses a session that is gone.

**FStreamer** (`Streamer.cpp`).  State: `bStreamingStarted`, the cached freeze
frame.  Operations: a handler for each message of the signalling server, the
negotiation with its asynchronous steps, freeze and unfreeze.  It calls the
sessions across threads, keeps raw pointers meanwhile, and is called back by
WebRTC.  Correct when these pointers stay valid, blocking calls return, the
flag never contradicts the sessions, and a lost connection leaves no session.

**Signalling server connection** (`SignallingServerConnection.cpp`,
`WebSocketClientImplCurl.cpp`).  State: the connection state, the curl handle
that all attempts share, the ping thread and its exit flag.  Operations:
connect, the callbacks of curl, reset, ping.  Hard: each failure starts the
next attempt on a new thread, with no lock around test and set.  Correct when
nothing is sent on a dead connection, every failure is followed by another
attempt, and there is one ping thread.

**WebSocket framing** (`WebSocketClientImplCurl.cpp`).  State: the receive
buffer.  Operations: `Send`, `OnMessageReceived`.  Hard: the stream is cut
anywhere, and frames before a partial one are delivered again; lengths take
three forms and either order of bytes.  Correct when each frame is delivered as
soon as it is complete, both sides read what was written, and a message that
comes again does no harm.

**Video pump and texture source** (`FixedFPSPump.cpp`, `TextureSource.cpp`,
`VideoSource.cpp`, `Core/Public/Containers/Queue.h`).  At this commit the pump
gives textures to an encoder of its own and sends MP4 over the data channels;
its loop over the video sources, and the video track in `AddStreams`, are
commented out, so that a video source serves to keep the pump awake.  State: the registered sources, the flag
that ends the pump, the queue of two textures, the last texture.  Hard: a
condition variable without a predicate; the receiver counts, drops and adds in
separate steps while the pump takes.  Correct when the queue stays bounded, the
encoder gets current pictures in order, a null one, which ends the process, at
most at the start, the pump has the sources of the sessions and no other, a browser gets what is
published without a gap, and nobody waits for a lock for ever.

**Shared memory** (`Server/IPCTool/Private/IPCTypes.cpp` and the plugin's copy).
State: one slot with a header (size, handle, checksum) and content.  Hard: two
processes, and a mutex that on Linux excludes nobody; the reader checks a copy
and then uses the live slot.  Correct when what is handed on is never older
than what came before, and the reader gets to the last message.

**Audio channel** (`SubmixCapturer.cpp`, `UnrealReceiveThread.cpp`) and
**input channel** (`DataChannelObserver.cpp`, `InputReceiveThread.cpp`) use it,
the one with numbered buffers and a receiver that restarts, the other with one
writer per player and ids that start from 0 for each of them.

**Input device** (`InputDevice.cpp`).  State: queues of events, commands and UI
interactions between the receiving thread and the game thread; what the
application believes to be held down.  Correct when, once everything is
drained, the application and the user agree about what is held down.

**Capture and sending of textures** (`plugin/TextureSource.h`,
`GPUFencePoller.cpp`, `SendThread.cpp`, `FdSocket.cpp` on both sides).  State: a
ring of 30 textures, jobs that wait for the GPU, the handle sent last.  Hard:
three threads and the GPU; a texture that is sent may be overwritten while the
server reads it.

**Sockets** (`FdSocket.cpp` on both sides, Linux) carry the file descriptors of
the textures.  Hard: numbers of descriptors are used again, by the system,
while the server still has them noted for closing.  Correct when the server
never goes back to an older picture and gets the last one.

**Encoders** (`EncoderFactory.cpp`, `VideoEncoderRTC.cpp`,
`VideoEncoderH264Wrapper.cpp`, `SimulcastEncoderAdapter.cpp`, `AVEncoder`).
State: hardware encoders by resolution, shared by the players' encoders, with
two locks.  Correct when a frame reaches each encoder that is registered and
none that is gone, a forced key frame comes, and a failed conversion gives back
what it took.

**Audio device** (`AudioDeviceModule.cpp`, `AudioSink.cpp`).  State: flags for
playing and recording, WebRTC's callback, the backlog that is cut into 10 ms.
Hard: WebRTC's worker changes all of it while the receiver hands chunks on.
Correct when what is handed on reaches WebRTC once, in order, and never by a
callback that was taken back.

**Launching** (`LaunchServerThreadBase.cpp` and its subclasses,
`OpenZICloudRenderModule.cpp`).  State: handles and identifiers of three child
processes.  Correct when a process that died is started again, not twice, and
none survives the plugin.

**Choice of the adapter** (`D3D11DynamicRHI.cpp`, `D3D12DynamicRHI.cpp`,
`VulkanDynamicRHI.cpp`, `Config.cpp`, `main.cpp`, `LinuxMain.cpp`).  Pure: from
command line, file and machine to a device for rendering and one for CUDA.
Correct when both are the adapter of the application, or there is none.

**Message centre** (`Core/Public/MessageCenter/MessageCenter.h`).  State: maps of
subscribers, without a lock, used from every thread.

**The rest of the rendering back ends, logging, utilities**: driver calls,
parsing, I/O.

## 2. Plan

The modules were built in the order of what can go wrong: the sessions and the
streamer with the abstract quality control; the signalling connection and the
framing; the pump; shared memory with its two channels; the input device; then
capture and handles of textures, encoders, launching with the choice of the
adapter, the audio device, and the two compositions, `VideoDelivery` (streamer,
sessions and pump) and `SignallingMessages` (framing, frames and handlers).

Then the proofs: each safety property that a run checks and finds true is a
theorem; liveness stays with TLC (section 5).  What is left, in this order:

1. A receive buffer over two connections, in which the framing does go wrong
   (see the hazards).
2. The message centre, if its maps get a lock; today unlocked changes of a map
   have no meaning that a model could follow.

## 3. Modules

Every definition that models code is in the map of `PROJECT.json`; a comment
says what a name of the code has become.  Operators whose comment starts with
"Mutant" are never used by a specification: each is a plausible mistake in the
definition after it and is there for mutation testing.

| module | models | proofs |
|---|---|---|
| `PlayerSessions` | the session map and every operation on it, as operators | |
| `QualityControl` | abstract: who may control the quality, and how control moves | |
| `Streamer` | the threads around the sessions; EXTENDS `PlayerSessions` | `Streamer_proofs` |
| `SignallingConnection` | attempts, their threads, the ping thread | `Signalling_proofs` |
| `WebSocketFrames` | how the stream is cut into frames | `Signalling_proofs` |
| `WebSocketCodec` | the bytes of a frame, as operators | `Signalling_proofs` |
| `SignallingMessages` | the handlers of the messages; EXTENDS the two before | `Signalling_proofs` |
| `VideoPump` | pump, sources, texture queue | `VideoDelivery_proofs` |
| `VideoDelivery` | sessions and their sources, messages to browsers; EXTENDS `VideoPump` | `VideoDelivery_proofs` |
| `SharedMemory` | the slot, its writer, its reader | `Channels_proofs` |
| `AudioChannel`, `InputChannel` | EXTEND `SharedMemory` | `Channels_proofs` |
| `AudioDevice` | capturer and playout requester of the server; EXTENDS `AudioChannel` | `Channels_proofs` |
| `InputDevice` | parsing, queues and game thread of the plugin's input | `InputDevice_proofs` |
| `TextureCapture` | ring of textures, GPU, fence poller | `TextureHandles_proofs` |
| `TextureHandles` | handles and descriptors to the server; EXTENDS `TextureCapture` | `TextureHandles_proofs` |
| `AdapterChoice` | from command line, file and machine to an adapter, as operators | `LaunchServers_proofs` |
| `LaunchServers` | the watchdog and the plugin module; EXTENDS `AdapterChoice` | `LaunchServers_proofs` |
| `Encoders` | factory, peers' encoders, conversion | `Encoders_proofs` |
| `MC*` | instances for TLC | |

**Streamer.**  `tasks` is the queue of the signalling thread.  A handler of the
WebSocket thread is a sequence of actions, one for each stretch between two
blocking calls: `w.pc` says where it is, `w` carries its local variables.
`Submit` is `Invoke` and `PostTask` alike, for rtc::Thread serves both in order
of arrival; who waits is in `w.pc`.  Between tasks the signalling thread runs
WebRTC's callbacks (`OfferProgress`, `AnswerProgress`, `OnDataChannel` ...), each
an action with a failing outcome.  `Players[p]` is `NoSession` or a record: the
negotiation, the channel, `bFull` (its buffer has no room), `bFormer` (a channel
that the browser has replaced is still open), `told` (what the browser heard last
of the quality control, on whichever channel) and `shown` (whether its picture is
frozen).  A browser that was told that it controls and then missed the message
that it does so no more is `misled`.  `sending` is the loop of the signalling
thread over the sessions to which it sends a freeze frame: while it is not empty
the thread does nothing else, and it waits while the buffer of the next one is
full.  Browsers stop reading, read on, and open channels of their own
(`BrowserActs` says which of them do); that WebRTC empties a buffer without the
signalling thread is external.  Messages of the signalling server come in any
order and number.  Tasks that change none of this are left to the compositions.
Playing with `sfu: true` is left out, its
factory is null and the code dereferences it.

**SignallingConnection.**  `at[t]` is where the connection thread `t` is: inside
curl, in a callback, or in `ConnProc` after it.  The test and the assignment of
the state in `ConnProc` are two steps.  curl refuses a handle in use (external).
`StopPingThread` on the uninitialised pointer of the first failure has the
outcome `crashed`.

**WebSocketFrames, WebSocketCodec, SignallingMessages.**  In the first, frames
are given by the positions of their last bytes; a step receives any further
number of bytes and runs the loop over the buffer.  The second has the bytes:
`Send` writes what the macro FILL_WS_HEADER writes, `ReadFrame` reads as
PARSE_WS_HEADER does, `ServerFrame` and `ServerReads` are the other side, from
RFC 6455.  Numbers go to bytes and back by powers of two and divisions, and
`Xor` is by bits, as recursive functions.  The third runs `OnMessage` on each frame delivered, before the next
piece is taken, as `OnRecv` is called inside the loop.  A handler, with its
tasks and its negotiation, takes one record, the state of streamer and sessions,
to the next; ids are narrowed to 32 bits and read as signed, as `ToPlayerId`
does.  The scripts of the signalling server, external, are all sequences in
which players are numbered from 1 as they come, each comes once, and its browser
answers before its candidates.

**VideoPump, VideoDelivery.**  Textures are numbered as they are enqueued.  The
pump's test of the sources, its wait, and the notification are separate steps,
so that the lost wake-up exists; registration and its notification are one, both
happen under `SourcesGuard`.  Plain variables shared by threads
(`bThreadRunning`, the size of `VideoSources`) are read before or after the
write, never torn.  `Outcomes` says how a frame may end, by graphics interface
(`RHIName`): the encoder may throw, which nobody catches; a null texture is
dereferenced; D3D11 and Vulkan call an `OnEncodedPacket` that nobody sets for the
pump.  Then the process is gone (`crashed`).  Only D3D12 goes on to write
messages for the browsers.  `VideoDelivery` adds who registers: the handler makes a
source, which is counted by reference, gives it to the session by a task and to
the pump at once; whoever drops the last reference takes `SourcesGuard`, which
the pump holds while it encodes and publishes.  That all of this does no more to
the pump than `VideoPump` lets its environment do is the property `PumpSpec`, so
that what is proved of `VideoPump` holds of the composition.

**SharedMemory, AudioChannel, InputChannel.**  Cells of content hold the number
of their message, so a torn content is visible; the checksum is taken to be
injective; memory is sequentially consistent.  `Exclusive` is the platform: TRUE
for the named mutex of Windows, FALSE for Linux.  The count of buffers, 64 bits
wide, becomes a handle of `HandleCount` values (`Handle`), an `int` on Linux;
handles come round, and the reader only compares two.  Reader actions up to `EndRead`
are `Read`, the others are the code of the receiving thread after it, on the
live slot.

**AudioDevice.**  The receiver's call of `OnNewSubmixBuffer` is a step for
taking the critical section and filling the backlog, one for each chunk handed
to WebRTC, and one for the end; WebRTC's worker calls in between whatever does
not need the critical section.  A sample is known by when the receiver handed it on, its
place in the buffer, and its content, which is the number of the buffer that the
application wrote it with: after a torn read that is not the one of the handle.
`turn` and `submitted` are histories for the properties, of all that the receiver
handed on and all that WebRTC got.

**InputDevice.**  A message is its type and what the types carry: key codes,
buttons, fingers, positions.  The browser, external, is consistent with its
user.  The events of one message are queued in one step, in any order of its
fingers.  `GetTouches` is modelled with the test of the size that makes it ignore
a message about a single finger, `GetMouseClick` with the button that it leaves
uninitialised.

**TextureCapture, TextureHandles.**  The GPU is a queue of copies, external, done
in order.  The poller walks its jobs from the last to the first and runs the
callback of each that is done.  `TextureHandles` has one disjunct for each
graphics interface; descriptors are numbers of the process that the system gives
out again, the lowest free one first.

**LaunchServers, AdapterChoice.**  Processes are numbered as they are created and
die at any moment.  The thread's loop is one step for each server it tests.  The
rendering server, when created, computes its devices by `AdapterChoice` from
what the command line, the file and the machine say.

**Encoders.**  A process for each peer's encoder queue.  `Stages` are the CUDA
calls of a conversion in order, with what each acquires; any may fail, and
`Unwound` says what the failing branch of each interface gives back.  At this
commit nothing brings a peer's encoder to life (no video track is added), so
that the module speaks of these classes and not of the running server.

## 4. Runs

`tlc -config X.cfg M` in this directory.  All passing runs explore their whole
state space, each within a few minutes.

| run | module, instance | what it shows |
|---|---|---|
| `p2p` | `MCStreamer`: three players, two of which open channels and stop reading, one task waiting when a call starts | `ControllerIsLive`; `OnlyControllerTold`: a browser that believes that it controls does, or missed the message that took control away; the sessions implement `QualityControl` (`QualityControlSpec`) |
| `threads` | `MCStreamer`: one player that opens channels and stops reading, freeze and unfreeze, three tasks | `HandlerSessionAlive`: the pointers `CreateSession` keeps; `StreamingWhileConnected`; `HandlersFinish`, `ResetDeletes`, if browsers read; and that nothing deadlocks |
| `signalling` | `MCSignallingConnection`: three connection threads, every ending | `SendsOnlyWhenAlive`, `PingThreadNotLost`, `Reconnects` |
| `frames` | `MCSignallingMessages`: every script of five messages for three players, every cut; bytes of three bits, lengths on both sides of each limit | `NothingHeldBack`; `FramesUnderstood`: what is written is read, on either host; `SessionsAsTold`: frames that come again leave no trace; `LiveSessionsStay` |
| `pump` | `MCVideoDelivery`: D3D12, a player that comes and goes, three textures | `PumpedForSessions`, `NoGaps`, `EncodesCurrent`, `NeverGoesBack`, `HandlersReturn`, `ShutdownEnds`; the composition implements `VideoPump` (`PumpSpec`) |
| `audio` | `MCAudioDevice`: Linux, buffers of two cells, three buffers with two handles, one restart, chunks of two samples | `NeverGoesBack`, `CatchesUp` of the channel; `CallbackStays`, `SoundInOrder` of the device behind it |
| `input` | `MCInputChannel`: Linux, two cells, two players, four messages | `NeverOlder`, `KeepsUp` |
| `device` | `MCInputDevice`: two codes of one key and one without a key, a known and an unknown mouse button, a button and a trigger of the gamepad, two fingers, a point inside and the last one, three messages | `NothingStuck`: when all is drained, application and user agree about what is held down |
| `capture` | `MCTextureHandles`: a ring of two, three pictures, each graphics interface, descriptors from three numbers closed by two | `TexturesSafe`, `SlotsComeBack`, `PollerEnds`, `NeverShowsOlder`, `LastTextureArrives` |
| `launch` | `MCLaunchServers`: configurations that differ in what is watched, on one machine, and all machines and adapters with little watched; three failures | `NoOrphans`, `RendersOnSameAdapter`, `AllComeUp` |
| `encoders` | `MCEncoders`: two peers, one resolution, each interface | `SendsToLiving`, `NothingLeftMapped`, `EncodeReturns`, `KeyFrameComes` |

One run shows a promise of a comment that the code does not keep: in `touch`
two fingers go down in one message and are lifted one by one; a message about
one finger is too short for `GetTouches`, so that both stay down, although
`InputDevice.cpp:817` says that "up" events are always let through.

Other things met on the way, which the models have and no run states:

- `Streamer.h:138` says that new peers get the freeze frame; it is cached after
  the task that sends it was posted, and a channel that opens in between gets
  neither;
- `FixedFPSPump.h:46` speaks of a fixed interval; the notification of the first
  source may fall between the pump's test and its wait;
- `SignallingServerConnection.cpp:224` says that a message is sent every 60
  seconds; `bPingThreadExiting` is never cleared, and there is no ping after the
  first reconnection;
- `ThreadSafePlayerSessions.cpp:627` says that the browser side is updated too;
  the status goes to each session once, on the channel it has then, and a browser
  that replaces its channel while another takes control is never told (`misled`);
- line 572 says that the first player controls by default; a session with the
  reserved id "1" takes the first place without taking control, and whoever comes
  next gets none either; the first player is given control before its data
  channel exists and is never told;
- a browser that stops reading while a freeze frame is sent to it stops the
  signalling thread, all sessions, and every handler that waits for that thread;
- with D3D11 and Vulkan the first frame that the pump has encoded ends the
  process; the null texture of `NullAtFirst` does so with D3D12 too;
- a rejected attempt starts another one from inside curl;
- the content of a torn buffer is handed on though its checksum was right for a
  copy; that of one buffer may be heard twice, and that of the last one never;
  and the first event of a session is ignored when the reader has just
  seen an event with the same id;
- a poller of fences that is stopped before it has started never ends;
- a failed conversion under D3D11 leaves its context pushed, and under D3D12 and
  Vulkan the encoder then encodes what was on its surface.

The hazards of `PROJECT.json` give the lines.

### Bounds

Every bound is a constant and stands in a guard, so it cuts behaviours short
and never changes them.

- *Players.*  In `p2p` control passes from one player to another while a third
  comes or goes; a fourth one is in the place of the third.  Two of the three browsers
  replace channels and stop reading (`BrowserActs`), so that either of two that
  take control from each other may miss it, and a third that does not.  `threads` and `pump`
  need one that comes again: their hazards are a player's handlers against
  deletions, and sessions are told apart by id only.
- *`MaxTasks`* limits the tasks that wait when a new call starts, not the
  queue, which grows by the two tasks of `CreateDataChannel`.  With three, a
  posted deletion, a freeze and a handler's call are in it at once.
- *Connection threads.*  One that drains, one in curl, one about to test.
- *Frames and messages.*  Five, unequal, so that a piece may hold the end of one,
  two whole ones, and the start of the next; five messages are a player that
  comes, answers, is reached and leaves, while another one comes.  With bytes of
  three bits all three forms of a length fit into 64 bytes; nothing in the code
  depends on the 8 but the masks of the conversions, which the codec takes from
  `BitsPerByte`.  `WordSize` 8 leaves the three ids
  positive.  The first is the one reserved for an SFU, so that the SFU comes
  first if it comes.  Were it to come later, `SessionsAsTold` would not hold: a
  player that came and left before it, delivered again, takes control, and when
  it goes again control falls to the first session in the map
  (`ThreadSafePlayerSessions.cpp:539`), be it the SFU's, which line 571 keeps
  from control.
- *Textures.*  Three are one more than the queue holds; the theorems about
  `VideoPump` are for any number.
- *Cells and buffers.*  Two cells are the least in which a torn content exists.
  Three buffers of two samples, restarted once, leave odd backlogs behind stops.
  With two handles the third buffer has that of the first.
- *`RHIName`.*  With D3D12 a frame may end in every way that there is; under the
  other interfaces no message is ever written.
- *Input device.*  Three messages: press, repeat, release; two fingers down and
  up one by one; enter, leave, enter.
- *Capture.*  A ring of two is where every slot is awaited; three pictures go
  round it; descriptors are closed by two and come from three numbers, so that
  a number is used again while it is noted.  The queue of two is the code's
  (`TextureSource.cpp:60`) and what makes `NeverShowsOlder` right: with three
  TLC finds a step back, two closed numbers given out again in the other order.
- *Failures* (`launch`).  Three: a server, the one it depends on, and the attempt
  to start it again.  Fifteen processes are never reached with them.
- *Events* (`encoders`).  One for each of D3D11 and D3D12, two for Vulkan: a
  failure and a change of the controller together.

### Fairness

Weak fairness on the program's own threads: the operating system schedules
them.  Nothing is assumed of browsers, of the network or of the application:
they may stop for ever at any point.  In particular

- `Streamer` has fairness for the signalling thread taking tasks, strong because
  tasks, callbacks and calls from other threads take turns on it and a waiting
  send interrupts them all; likewise for the handler of the WebSocket thread going
  on, which needs that thread; weak fairness for a send that has room, and for
  `SendFreezeFrame` returning once called; none for messages, callbacks or new
  calls, and none for browsers reading: `HandlersFinish` and `ResetDeletes` name
  that as their premise (`BrowsersRead`), and every other wait as theirs to end;
- `SignallingConnection` for the steps of `ConnProc` of each thread and for the
  ping thread noticing its flag, none for the network;
- `VideoPump` for the pump loop and the receiver; a waiting pump is woken by a
  notification only, spurious wake-ups may happen and need not;
- `VideoDelivery` has strong fairness for the pump, the WebSocket thread and the
  signalling thread, because they compete for `SourcesGuard`, which is free
  again and again: the pump sleeps between two frames without it, for most of
  its time, and a thread that waits is taken not to be passed over for ever.  It
  is the fairness of a process that runs: once a frame has crashed it nothing
  moves, and `HandlersReturn` and `ShutdownEnds` end there too.  `ShutdownEnds`
  leaves out the pump that has found no sources and is about to wait, on which
  the notification is lost;
- `Encoders` likewise for the step that takes the lock of the active encoders,
  and weak fairness for the timer that brings pictures; none for failures or
  calls of WebRTC;
- the channels and the audio device for the thread that writes and the one that
  reads, none for new messages or for WebRTC's worker; `CatchesUp` and `KeepsUp`
  speak of the time after the last one, and of its handle;
- `TextureHandles` for poller, receiver, sockets and GPU, none for the render
  thread presenting pictures or the application ending;
- `LaunchServers` for the launching thread and the module's steps, none for
  processes dying; that failures end is their bound.

`InputDevice` has no liveness: its property is about the states in which all is
drained.

`CHECK_DEADLOCK FALSE` is set where the system may stop: the browser has left,
the bound on messages is reached, the pump or the launching thread has ended,
the last connection thread has gone.  `p2p` and `threads` check deadlock.

## 5. Proofs

`tlapm X_proofs.tla`.  All theorems are `Spec => ...` for any value of the
constants that the named assumptions of the modules allow (`PlayerIdsAssumption`,
`StreamerAssumption`, `FramesAssumption`, `PumpAssumption`, `MemoryAssumption` and
so on).  They say of which type a constant is, that "nobody" is not a player,
that there is at least one cell, and that frames end in the order of their
numbers; TLC evaluates them in every run.  Some say more.  `SetupsAssumption`: the
application runs on an adapter of its machine, and LUIDs tell adapters apart.
`CodesAssumption` with `SizeAssumption`: codes are bytes, a viewport has pixels.
`HandlesAssumption`: at most two textures wait, as `TextureSource.cpp` has it, and
one handle is kept open at least.  `MessagesAssumption`: the ids of players start at
1, texts have a length that eight bytes can tell.  In which order the map has its
sessions is left open.
Where a module is composed of others, `Spec`, `Inv` and so on have the prefix of
the composition (`DeviceSpec`, `MessagesSpec`, `DeliverySpec`).

Each invariant below was an invariant of a run before it was proved.

**Streamer.**  `TypeCorrect` and `SessionStaysAlive` come from `HandlerInv`.
`HandlerSessionAlive` alone is not inductive: what protects the pointer is that
the WebSocket thread, while it waits, posts nothing.  So `HandlerInv` adds
`OnlyOneWaits` (a task that is waited for belongs to the handler that waits, and nothing but
freezing stands behind it in the queue) and `Quiet` (while the handler works with
what a call gave it, no task that touches the set of sessions is queued).  `StreamingStaysOn` needs two more conjuncts:
`AnswersCovered` (an answer that is still queued finds the flag raised or about
to be, or a reset stands behind it) and `AboutToLower` (when a handler is about
to lower the flag, no session is left, or a reset is queued that leaves none).

**Quality control.**  `ControllerStaysLive` and `ImplementsQualityControl` assume
that no player has the id reserved for the SFU; without that they are false.
The refinement maps `players` to the live sessions and `controller` to the
controlling player, or to nobody when that one is not live: every step is a
join, a departure, a request, a reset, or a stutter.  `OnlyTheControllerIsTold`
holds for every id: whatever changes the controller sends the status to all whom
it concerns, on the spot, and a browser that it does not reach is `misled` until
another status does.

Where a theorem speaks of a recursive function (`Told`, `Power2`, `Xor`, the
value of some bytes) it is shown first that there is such a function, and then
what it returns, both by induction over numbers.  The library's induction
theorems take an operator, so `LeastNumber` takes their place: any set of
numbers that has one has a least one, which follows from the library's theorem on
strict subsets of finite sets; `UpTo` is the induction drawn from it, about a set.

**WebSocketFrames, SignallingMessages.**  The invariant of the frames says which
frames have been delivered (`DroppedComplete`: those cut off the buffer were
complete) and that delivery is in order within a run of the loop; the recursion over the buffer is an interval
of frame numbers, so no induction is needed.  `MessagesImplementFrames` carries
this over to the handlers: `Handle`, which runs one, is a stutter of the frames,
and `Receive` a step of theirs, so that `MessagesDelivered` is
a corollary.  `SessionsKept` rests on `Kept(s, t)`, what a handler may leave of
the sessions it found: each handler keeps every live session of
a player whose departure has not arrived, for any script of any length.  It needs
`MessagesInv` for the types only; what makes it hold is that `CreateSession`
refuses a player who is there, and that a second answer finds the connection
stable.

`AgainAsOnce` (`SessionsAsTold`) compares the client with one that gets every
frame once; `Told[k]` is the state of that one after k frames.  It does not hold
in the middle of a repetition: a player that came, left, and comes again with
the frames is a ghost.  `ToldInv` says what does: the frames to be handled run from
some frame `next` to the last that is complete, the client has seen the first k
of the script, and its state agrees with `Told[k]` (`Agrees`) in all but ghosts,
players that have left by k and whose departure is still among the frames from
`next` to k, and in who controls, which may be a ghost only if nobody was left.
A frame beyond k does to both states the same; one up to k leaves the state of
the living as it is, because of what `Facts` says of `Told[k]`: who came and has not
left is there, has had its answer and its candidates, and everything said in
return has been said.  `Facts` is by induction over k, from `MessageEffect`, which
says of each kind of message what it does.  After the last frame there is
nothing left for a ghost's departure to be among.

**WebSocketCodec.**  `TextsUnderstood` (`FramesUnderstood`) is for bytes of any number of bits
from three on, texts of any length, any keys and both orders of bytes.  The bytes
of a number give the number back (`ValueOfBytes`: dividing by a byte twice is dividing
by two bytes, `DividedTwice`); both sides choose the same form of a length
(`ExtendedIs`, `FrameOfServer`); the order of the host cancels out (`OrderOfHost`); and
what is masked twice is what it was (`XorTwice`).  `ServerReadsSent` and
`ClientReads` put the parts of a frame together, the second also for frames of
which bytes are missing.  Of the handlers it needs that they speak of players
only who have been named to them, or of none (`AddressedInv`).

**VideoPump.**  `CachesStayBounded` needs `RoomMade` (between the count and the
addition there is room); `AlwaysCurrent` and `NeverBack` need `Contiguous` (the
queue holds consecutive textures, the newest last) with `TakenMeanwhile` and
`NothingMissed` for what the pump takes between the receiver's steps;
`NullAtFirst` needs `AvailableOnceReceived` and `PumpsWhenAvailable`.

**VideoDelivery.**  `PumpedForSessions` is far from inductive: a source goes from
the handler to a task to the session, and beside that to the pump.  `DeliveryInv`
follows it: `QueueOK` says what may be queued while the handler stands where it
stands (nothing but video is in front of a source, nothing but video behind a
creation or deletion that is waited for), `LinksOK` that every source that lives
is in a task or in a session (`alive \subseteq Held`), that a player has one at
most, and that the pump has been given that one or is about to be.  `NoGaps` is
inductive with these types.  `ImplementsPump` is the refinement of `VideoPump`:
whatever a handler, a task or a departing browser does to `VideoSources` is a
`RegisterVideoSource` or an `UnregisterVideoSource` of its environment, the pump's
and the receiver's steps are their own, and the rest stutters; hence
`TexturesOfTheWhole`.

**SharedMemory.**  The lemmas establish that each step of writer and reader keeps
`MemoryInv`: the types, the positions inside a write and a copy (`Positions`,
`Sizes`), that no cell is newer than the message being written (`NoneNewer`), and
the order of everything a reader holds (`InOrder`: each cell copied is between
the same cell heard last and the same cell of the slot).  None of this is about
handles, of which there may be any number, one included.  The input channel adds the count
of messages.  From them `SoundNeverGoesBack` and `InputNeverOlder`, for any capacity,
any number of messages, players and restarts, with and without a mutex.

**AudioDevice.**  `DeviceKeepsChannel` refines the composition to the channel, so
that what is heard goes on in order.  `SamplesInOrder` then needs `NoneUnheard`: no
sample that WebRTC was given, or will be from the backlog, is newer than what a cell
of its place holds in the slot or in the reader's copy, or comes to hold (`Behind`),
so that what is heard next may be appended.  `NoCallbackAfterGoodbye` needs
`FlagsFollowEngine`, which relates the flags that the worker sets in separate
calls to how far WebRTC has brought the module.

**TextureCapture.**  `RingInv` is for a ring of any size.  No texture is in two
of the places that a swap exchanges (`NoneShared`); a copy that the GPU has still
to do belongs to a slot that is taken, has that slot's texture and a clear fence
(`CopiesPending`); and a slot has one job at most, and while it has it is taken,
be it in the poller's list, in the list to be added, or on the way to that
(`JobsPending`, `InCallback`).  A callback runs only for a fence that is set, hence
for a slot that no copy of the GPU's queue has: `ReadAccessSafe`.
`ImplementsCapture` carries it over to `TextureHandles`.

**TextureHandles.**  `NeverGoesBackToOlder` follows a texture's number from the ring to
the encoder.  `HandlesInv` has one conjunct for each part of the way:
`Presented`, that what is on the poller's lists are different pictures;
`ArriveInOrder`, that what the socket holds is newer than all the server has;
`QueueInOrder`, that a descriptor which can still be encoded names nothing, or a
texture not older than the one shown, and that of two that wait the second is not
older than the first.  Numbers do not help here: a waiting descriptor may have
been closed by `CloseAll` and its number given to a later texture.  Then it names the
newest of all, and the order stands as long as only two wait.
`HandlesStayBounded` rests on `HandlesNoted`: every open descriptor is noted to be
closed, so that the set of those noted bounds them.

**LaunchServers.**  `NoServerLeft` needs that a handle is overwritten only when
there is no process behind it.  `NotLaunched` says for each place of the thread
which handles it has not filled; a server that is tested is known to have died or
to have been started.  `SameAdapter` needs that the devices are what `Devices`
says of the setup, and the rest is about that operator: along each of the three
interfaces the choice is the application's adapter, or none, unless Vulkan finds
two cards of one make.

**Encoders.**  With `GuardHeld` (who delivers holds the lock, and the encoders still
to be visited are registered) `SendsToLiving` is inductive: an encoder takes
itself off the list under the same lock before it is gone.  `NothingLeftMapped`
needs no strengthening but the types, and a lemma on what each failing branch of
a conversion gives back.

**InputDevice.**  `NothingStuck` speaks of the moment at which all is drained; the
invariant has to speak of every other one.  `Promised(a)`, for each key, button,
axis, the canvas and the cursor: the newest word about `a` agrees with what the
browser holds now.  That word is the last message about it; when none is under
way, the last event about it; when none is queued, what the application
believes.  A browser's step adds a message that agrees, `OnMessage` turns a
message into the event that says the same, and the game thread makes the first
event what the application believes.  The exceptions that `NothingStuck` names
are in `Agrees`: the key without a name, a second code of the same key, and
mouse buttons once one without a name was clicked (`ClicksNamed`: before that, none is
under way).  A lemma shows that a touch says nothing about any of these.  Fingers are not in it:
the run `touch` shows that they do get stuck.

**SignallingConnection.**  With the types, `SendsOnlyWhenAlive` is inductive as it
stands: only the thread that curl has returned to clears the state, and another
cannot be accepted meanwhile without being alive itself.  `PingThreadNotLost`
needs `PingInv`: as long as no response has been refused there is one connection
thread at a time and curl's handle is its own (`OneThread`), and that thread has
joined the ping thread of the last connection before it starts another
(`NoneBefore`).  A refused response starts a second thread inside curl, and
neither holds any more.  Any number of threads is allowed.

**Only model-checked.**  Liveness (`HandlersFinish`, `ResetDeletes`, `Reconnects`,
`HandlersReturn`, `ShutdownEnds`, `CatchesUp`, `KeepsUp`, `SlotsComeBack`,
`PollerEnds`, `LastTextureArrives`, `AllComeUp`, `EncodeReturns`, `KeyFrameComes`):
TLAPS does not reach liveness under fairness, nor ENABLED.  Every invariant and
action property of the passing runs is a theorem.

## 6. Not modelled

- The message centre: see the plan.
- Drivers, CUDA kernels and NVENC calls, WebRTC, libcurl and the Unreal Engine
  themselves; where they call back, their behaviour is external.
- Code that is commented out or never reached: the RTC configuration of the
  receiver (`UnrealReceiveThread.cpp:154`), the playing thread of the audio
  device, `SimulcastEncoderAdapter.cpp` and the SFU, statistics, QP messages.
- Parsing of JSON, SDP, files and command lines; messages of the signalling
  server that lack a key; `PicoJson.h` is vendored.
- Timing: frame intervals, the bitrate control, the sleep of a millisecond after
  each input event.
- Weak memory: shared plain variables are read before or after a write.  The
  reference count of textures, a plain integer that two threads of the server
  change, is taken to be right.
- Destruction of the streamer while it is in use, the receive buffer over two
  connections.
- What an application that crashes leaves behind; several applications on one
  machine.
- Demonstrations, installers, build files, the web front end.
