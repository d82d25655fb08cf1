---------------------------- MODULE SharedMemory ----------------------------
(***************************************************************************)
(* FShareMemory: one slot of memory shared by two processes, a header      *)
(* followed by the content of the last message.                            *)
(*                                                                         *)
(* The writer fills the slot in steps.  The reader polls it: Read copies   *)
(* the content and compares its checksum; if it is right and the handle in *)
(* the header is a new one, the reader takes the handle, the size and the  *)
(* content again, from the live slot and after Read has released the       *)
(* mutex, and hands them on.                                               *)
(*                                                                         *)
(* The mutex excludes reader and writer on Windows only (Exclusive): on    *)
(* Linux it is an object in the private memory of each process.            *)
(*                                                                         *)
(* Contents are cells that hold the number of the message they belong to.  *)
(* The checksum is taken to be injective, so it is the content itself.     *)
(* Messages too long for the slot are cut by Write to Capacity cells.      *)
(***************************************************************************)
EXTENDS Integers, Sequences

CONSTANTS Exclusive,  \* does the mutex exclude the other process?
          Capacity    \* GetMaxContentSize, in cells

ASSUME MemoryAssumption ==
    /\ Exclusive \in BOOLEAN
    /\ Capacity \in Nat \ {0}

VARIABLES slot,    \* the shared memory
          mutex,   \* who holds it
          writer,  \* the thread inside Write
          reader,  \* the polling thread
          heard    \* what the reader has handed on last

memoryVars == <<slot, mutex, writer, reader, heard>>

-----------------------------------------------------------------------------
Nul == 0  \* the byte that Write puts after the content

Cells == 1 .. Capacity

\* Crc64 of the first cells of a content.
Crc64(content, size) == SubSeq(content, 1, size)

EmptySlot == [size |-> 0, handle |-> 0, crc |-> <<>>,
              content |-> [i \in Cells |-> Nul]]

WriterPlaces == {"idle", "handle", "crc", "content", "tail"}

\* The reader is inside Read up to "check"; from "compare" on it looks at
\* the live slot.
ReaderPlaces == {"poll", "copy", "compare", "take", "measure", "use"}

Silence == [handle |-> 0, cells |-> <<>>]

FreshReader == [at |-> "poll", size |-> 0, copy |-> <<>>, last |-> 0]

MemoryTypeOK ==
    /\ slot \in [size : 0 .. Capacity, handle : Nat, crc : Seq(Nat),
                 content : [Cells -> Nat]]
    /\ mutex \in {"free", "writer", "reader"}
    /\ writer \in [at : WriterPlaces, message : Nat, handle : Nat,
                   size : Cells, copied : 0 .. Capacity]
    /\ reader \in [at : ReaderPlaces, size : 0 .. Capacity, copy : Seq(Nat),
                   last : Nat]
    /\ heard \in [handle : Nat, cells : Seq(Nat)]

MemoryInit ==
    /\ slot = EmptySlot
    /\ mutex = "free"
    /\ writer = [at |-> "idle", message |-> 0, handle |-> 0, size |-> 1, copied |-> 0]
    /\ reader = FreshReader
    /\ heard = Silence

-----------------------------------------------------------------------------
(* The mutex. *)

Lock(who) ==
    /\ Exclusive => mutex = "free"
    /\ mutex' = IF Exclusive THEN who ELSE mutex

Unlock == mutex' = IF Exclusive THEN "free" ELSE mutex

-----------------------------------------------------------------------------
(* The constructor clears the header and the first byte of the content,   *)
(* whoever constructs and whatever the other process is doing.            *)

Cleared == [EmptySlot EXCEPT !.content = [slot.content EXCEPT ![1] = Nul]]

-----------------------------------------------------------------------------
(* Write. *)

\* Message m of the given size, under a handle.
BeginWrite(m, handle, size) ==
    /\ writer.at = "idle"
    /\ Lock("writer")
    /\ slot' = [slot EXCEPT !.size = size]
    /\ writer' = [at |-> "handle", message |-> m, handle |-> handle,
                  size |-> size, copied |-> 0]
    /\ UNCHANGED <<reader, heard>>

WriteHandle ==
    /\ writer.at = "handle"
    /\ slot' = [slot EXCEPT !.handle = writer.handle]
    /\ writer' = [writer EXCEPT !.at = "crc"]
    /\ UNCHANGED <<mutex, reader, heard>>

WriteCrc ==
    /\ writer.at = "crc"
    /\ slot' = [slot EXCEPT !.crc =
                    Crc64([i \in Cells |-> writer.message], writer.size)]
    /\ writer' = [writer EXCEPT !.at = "content"]
    /\ UNCHANGED <<mutex, reader, heard>>

WriteCell ==
    /\ writer.at = "content"
    /\ slot' = [slot EXCEPT !.content[writer.copied + 1] = writer.message]
    /\ writer' = [writer EXCEPT
                    !.copied = @ + 1,
                    !.at = IF writer.copied + 1 = writer.size THEN "tail" ELSE @]
    /\ UNCHANGED <<mutex, reader, heard>>

EndWrite ==
    /\ writer.at = "tail"
    /\ slot' = IF writer.size < Capacity
               THEN [slot EXCEPT !.content[writer.size + 1] = Nul]
               ELSE slot
    /\ writer' = [writer EXCEPT !.at = "idle"]
    /\ Unlock
    /\ UNCHANGED <<reader, heard>>

-----------------------------------------------------------------------------
(* Read, and what the receiving threads do after it. *)

\* Mutant: the handle is taken before the content has been checked.
BeginReadTaking ==
    /\ reader.at = "poll"
    /\ slot.handle # reader.last
    /\ Lock("reader")
    /\ reader' = [at |-> "copy", size |-> slot.size, copy |-> <<>>, last |-> slot.handle]
    /\ UNCHANGED <<slot, writer, heard>>

BeginRead ==
    /\ reader.at = "poll"
    /\ Lock("reader")
    /\ reader' = [at |-> "copy", size |-> slot.size, copy |-> <<>>, last |-> reader.last]
    /\ UNCHANGED <<slot, writer, heard>>

\* The copy that Read checks, or the content that is handed on.
CopyCell ==
    /\ reader.at \in {"copy", "use"}
    /\ Len(reader.copy) < reader.size
    /\ reader' = [reader EXCEPT !.copy = Append(@, slot.content[Len(@) + 1])]
    /\ UNCHANGED <<slot, mutex, writer, heard>>

\* Read returns the size, or -1 when the checksum is wrong.
EndRead ==
    /\ reader.at = "copy"
    /\ Len(reader.copy) = reader.size
    /\ reader' = [reader EXCEPT !.at =
                    IF reader.copy = slot.crc /\ reader.size >= 1
                    THEN "compare" ELSE "poll"]
    /\ Unlock
    /\ UNCHANGED <<slot, writer, heard>>

\* Mutant: only a greater handle counts as a new one.
CompareGreater ==
    /\ reader.at = "compare"
    /\ reader' = [reader EXCEPT !.at =
                    IF reader.last < slot.handle THEN "take" ELSE "poll"]
    /\ UNCHANGED <<slot, mutex, writer, heard>>

Compare ==
    /\ reader.at = "compare"
    /\ reader' = [reader EXCEPT !.at =
                    IF reader.last # slot.handle THEN "take" ELSE "poll"]
    /\ UNCHANGED <<slot, mutex, writer, heard>>

Take ==
    /\ reader.at = "take"
    /\ reader' = [reader EXCEPT !.at = "measure", !.last = slot.handle]
    /\ UNCHANGED <<slot, mutex, writer, heard>>

Measure ==
    /\ reader.at = "measure"
    /\ reader' = [at |-> "use", size |-> slot.size, copy |-> <<>>, last |-> reader.last]
    /\ UNCHANGED <<slot, mutex, writer, heard>>

\* The content is handed on, cell by cell as it was found.
Hear ==
    /\ reader.at = "use"
    /\ Len(reader.copy) = reader.size
    /\ reader' = [reader EXCEPT !.at = "poll"]
    /\ heard' = [handle |-> reader.last, cells |-> reader.copy]
    /\ UNCHANGED <<slot, mutex, writer>>

-----------------------------------------------------------------------------
WriterStep == WriteHandle \/ WriteCrc \/ WriteCell \/ EndWrite

\* Everything the reader does but handing the message on.
ReaderStep == BeginRead \/ CopyCell \/ EndRead \/ Compare \/ Take \/ Measure

\* The slot holds a message that Read accepts.
Readable == slot.size >= 1 /\ Crc64(slot.content, slot.size) = slot.crc
=============================================================================
