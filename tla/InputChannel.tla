---------------------------- MODULE InputChannel ----------------------------
(***************************************************************************)
(* Input of the players on its way to the application.  The data channel   *)
(* observer of every session writes the messages of its player to the one  *)
(* slot of shared memory that all sessions use; FInputReceiveThread, in    *)
(* the application, polls it and hands messages on to the input device.    *)
(*                                                                         *)
(* All observers live on the signalling thread of the server, so there is  *)
(* one writer at a time; each numbers its messages from 0, and each clears *)
(* the slot when it is constructed.                                        *)
(***************************************************************************)
EXTENDS SharedMemory

CONSTANTS Sessions,  \* sessions that may be created, each once
          MaxEvents  \* bound on the messages that are sent

ASSUME InputAssumption == MaxEvents \in Nat

VARIABLES InputId,  \* of each session: the handle of its next message
          sent      \* how many messages all sessions have written

inputVars == <<InputId, sent>>

inputChannelVars == <<memoryVars, inputVars>>

-----------------------------------------------------------------------------
NotCreated == -1

InputTypeOK ==
    /\ MemoryTypeOK
    /\ InputId \in [Sessions -> {NotCreated} \cup (0 .. MaxEvents)]
    /\ sent \in 0 .. MaxEvents

InputInit ==
    /\ MemoryInit
    /\ InputId = [s \in Sessions |-> NotCreated]
    /\ sent = 0

-----------------------------------------------------------------------------
(* The server. *)

\* The observer of a new session attaches to the slot, on the thread that
\* also writes.
CreateSession(s) ==
    /\ InputId[s] = NotCreated
    /\ writer.at = "idle"
    /\ slot' = Cleared
    /\ InputId' = [InputId EXCEPT ![s] = 0]
    /\ UNCHANGED <<mutex, writer, reader, heard, sent>>

\* Mutant: every other message overtakes the one before it.
OnMessageOvertaking(s, size) ==
    /\ InputId[s] # NotCreated
    /\ sent < MaxEvents
    /\ BeginWrite(IF sent % 2 = 0 THEN sent + 2 ELSE sent, InputId[s], size)
    /\ InputId' = [InputId EXCEPT ![s] = @ + 1]
    /\ sent' = sent + 1

\* A message of a kind that the observer does not answer itself.
OnMessage(s, size) ==
    /\ InputId[s] # NotCreated
    /\ sent < MaxEvents
    /\ BeginWrite(sent + 1, InputId[s], size)
    /\ InputId' = [InputId EXCEPT ![s] = @ + 1]
    /\ sent' = sent + 1

Observers == WriterStep /\ UNCHANGED inputVars

(* The application. *)

Run == (ReaderStep \/ Hear) /\ UNCHANGED inputVars

-----------------------------------------------------------------------------
InputNext ==
    \/ \E s \in Sessions : CreateSession(s) \/ \E size \in Cells : OnMessage(s, size)
    \/ Observers
    \/ Run

InputSpec == InputInit /\ [][InputNext]_inputChannelVars

\* Both threads run; no player need come or send anything.
InputFairSpec == InputSpec /\ WF_inputChannelVars(Observers) /\ WF_inputChannelVars(Run)

-----------------------------------------------------------------------------
\* Input is never handed on after newer input: no cell of a message is older
\* than the same cell of the message before it, although sessions number
\* their messages independently, clear the slot under the reader's eyes, and
\* the reader looks at the live slot.
NeverOlder ==
    [][heard' # heard =>
         \A i \in DOMAIN heard.cells \cap DOMAIN heard'.cells :
            heard'.cells[i] = Nul \/ heard'.cells[i] >= heard.cells[i]]_inputChannelVars

\* When the players pause, the reader gets to the handle that is in the slot.
KeepsUp == <>[](Readable => reader.last = slot.handle)
=============================================================================
