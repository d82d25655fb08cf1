---------------------------- MODULE AudioChannel ----------------------------
(***************************************************************************)
(* The sound of the application on its way to the streaming server:        *)
(* FSubmixCapturer writes every buffer of samples to the shared memory,    *)
(* FUnrealAudioReceiver polls it and publishes OnAudioReceived.            *)
(*                                                                         *)
(* The server process may be killed and started again at any time (the     *)
(* application's watchdog does so); on Linux its receiver clears the slot  *)
(* that it attaches to.                                                    *)
(*                                                                         *)
(* Buffers are counted in 64 bits, and the count goes to the receiver as a *)
(* handle: 32 bits of it on Linux, all of them on Windows.  Handles come   *)
(* round, and the receiver only asks whether two are the same.             *)
(***************************************************************************)
EXTENDS SharedMemory

CONSTANTS HandleCount,  \* how many handles there are
          MaxBuffers,   \* bound on the buffers the application produces
          MaxRestarts   \* bound on the restarts of the server

ASSUME AudioAssumption ==
    /\ HandleCount \in Nat \ {0}
    /\ MaxBuffers \in Nat
    /\ MaxRestarts \in Nat

VARIABLES Suffix,   \* the number of the buffer written last
          restarts

vars == <<memoryVars, Suffix, restarts>>

-----------------------------------------------------------------------------
TypeOK ==
    /\ MemoryTypeOK
    /\ Suffix \in 0 .. MaxBuffers
    /\ restarts \in 0 .. MaxRestarts

Init == MemoryInit /\ Suffix = 0 /\ restarts = 0

-----------------------------------------------------------------------------
Handle(n) == n % HandleCount

\* Mutant: every other buffer overtakes the one before it.
WriteToSharedMemoryOvertaking(size) ==
    /\ Suffix < MaxBuffers
    /\ BeginWrite(IF Suffix % 2 = 0 THEN Suffix + 2 ELSE Suffix, Handle(Suffix + 1), size)
    /\ Suffix' = Suffix + 1
    /\ UNCHANGED restarts

WriteToSharedMemory(size) ==
    /\ Suffix < MaxBuffers
    /\ BeginWrite(Suffix + 1, Handle(Suffix + 1), size)
    /\ Suffix' = Suffix + 1
    /\ UNCHANGED restarts

\* OnAudioReceived.
Publish == Hear /\ UNCHANGED <<Suffix, restarts>>

\* Another server process: a mutex held by the one before is released.
Restart ==
    /\ restarts < MaxRestarts
    /\ restarts' = restarts + 1
    /\ slot' = IF Exclusive THEN slot ELSE Cleared
    /\ mutex' = IF mutex = "reader" THEN "free" ELSE mutex
    /\ reader' = FreshReader
    /\ heard' = Silence
    /\ UNCHANGED <<writer, Suffix>>

Capturer == WriterStep /\ UNCHANGED <<Suffix, restarts>>
Receiver == (ReaderStep /\ UNCHANGED <<Suffix, restarts>>) \/ Publish

Next ==
    \/ \E size \in Cells : WriteToSharedMemory(size)
    \/ Capturer
    \/ Receiver
    \/ Restart

Spec == Init /\ [][Next]_vars

\* Both threads run whenever they can; the application need not make sound
\* and the server need not crash.
FairSpec == Spec /\ WF_vars(Capturer) /\ WF_vars(Receiver)

-----------------------------------------------------------------------------
\* The sound never goes back in time: no cell of what is handed on is older
\* than the same cell of what was handed on before it, although it is taken
\* from the live slot while the next buffer may be on its way in, and without
\* the checksum. (It may be as old: a buffer may be heard twice, under its own
\* handle and under the next one.)
NeverGoesBack ==
    [][heard' # heard /\ heard' # Silence =>
         \A i \in DOMAIN heard.cells \cap DOMAIN heard'.cells :
            heard'.cells[i] = Nul \/ heard'.cells[i] >= heard.cells[i]]_vars

\* When the application falls silent, the receiver gets to the handle that is
\* in the slot. (What it handed on under that handle may be of the buffer
\* before: the last buffer may never be heard.)
CatchesUp == <>[](Readable => heard.handle = slot.handle)
=============================================================================
