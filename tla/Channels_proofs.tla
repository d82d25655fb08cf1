--------------------------- MODULE Channels_proofs ---------------------------
(***************************************************************************)
(* Proofs about the two channels of shared memory, for any capacity, with  *)
(* or without a mutex that excludes: first what both have in common, then  *)
(* the sound of the application, for any number of buffers and restarts and *)
(* any device, then the input of the players, for any sessions and any     *)
(* number of messages. The two components are told apart by their names,   *)
(* and no theorem is about both.                                           *)
(***************************************************************************)
EXTENDS AudioDevice, InputChannel, TLAPS, SequenceTheorems

\* Where writer and reader are in the content.
Positions ==
    /\ writer.at \in {"handle", "crc"} => writer.copied = 0
    /\ writer.at = "content" => writer.copied < writer.size
    /\ Len(reader.copy) <= reader.size

\* Nothing is newer than the message written last.
NoneNewer ==
    /\ \A i \in Cells : slot.content[i] <= writer.message
    /\ \A i \in DOMAIN reader.copy : reader.copy[i] <= writer.message
    /\ \A i \in DOMAIN heard.cells : heard.cells[i] <= writer.message

\* y is not older than x: the tail of a shorter message has no age.
NotOlder(x, y) == y = Nul \/ y >= x

\* What is in the slot is not older than what has been copied from it, nor
\* that than what has been heard.
InOrder ==
    /\ \A i \in DOMAIN heard.cells : NotOlder(heard.cells[i], slot.content[i])
    /\ \A i \in DOMAIN reader.copy :
          /\ NotOlder(reader.copy[i], slot.content[i])
          /\ i \in DOMAIN heard.cells => NotOlder(heard.cells[i], reader.copy[i])

Sizes ==
    /\ \A i \in DOMAIN heard.cells : i \in Cells
    /\ \A i \in DOMAIN reader.copy : i \in Cells

MemoryInv == MemoryTypeOK /\ Positions /\ Sizes /\ NoneNewer /\ InOrder

-----------------------------------------------------------------------------
LEMMA Numbers ==
    ASSUME MemoryTypeOK
    PROVE  /\ Capacity \in Nat \ {0}
           /\ writer.message \in Nat /\ writer.handle \in Nat /\ writer.size \in Cells
           /\ writer.size \in Nat /\ writer.copied \in Nat
           /\ slot.content \in [Cells -> Nat] /\ slot.handle \in Nat /\ slot.size \in 0 .. Capacity
           /\ reader.copy \in Seq(Nat) /\ Len(reader.copy) \in Nat /\ reader.size \in 0 .. Capacity
           /\ reader.last \in Nat
           /\ heard.cells \in Seq(Nat) /\ heard.handle \in Nat
  <1>1. /\ writer.message \in Nat /\ writer.handle \in Nat /\ writer.size \in Cells
        /\ writer.copied \in 0 .. Capacity
    BY DEF MemoryTypeOK
  <1>2. slot.content \in [Cells -> Nat] /\ slot.handle \in Nat /\ slot.size \in 0 .. Capacity
    BY DEF MemoryTypeOK
  <1>3. reader.copy \in Seq(Nat) /\ reader.size \in 0 .. Capacity /\ reader.last \in Nat
    BY DEF MemoryTypeOK
  <1>4. heard.cells \in Seq(Nat) /\ heard.handle \in Nat
    BY DEF MemoryTypeOK
  <1>5. Len(reader.copy) \in Nat
    BY <1>3
  <1>6. Capacity \in Nat \ {0}
    BY MemoryAssumption
  <1>7. writer.size \in Nat /\ writer.copied \in Nat
    BY <1>1, <1>6 DEF Cells
  <1>8. QED
    BY ONLY <1>1, <1>2, <1>3, <1>4, <1>5, <1>6, <1>7, Zenon

LEMMA AppendFacts ==
    ASSUME NEW S, NEW s \in Seq(S), NEW t \in S
    PROVE  /\ Append(s, t) \in Seq(S) /\ Len(Append(s, t)) = Len(s) + 1 /\ Len(s) \in Nat
           /\ \A i \in DOMAIN Append(s, t) :
                 \/ i \in DOMAIN s /\ Append(s, t)[i] = s[i]
                 \/ i = Len(s) + 1 /\ Append(s, t)[i] = t
  OBVIOUS

\* A checksum is a sequence.
LEMMA CrcType ==
    ASSUME NEW m \in Nat, NEW n \in Cells
    PROVE  Crc64([i \in Cells |-> m], n) \in Seq(Nat)
  <1>1. Capacity \in Nat /\ n \in 1 .. Capacity
    BY MemoryAssumption DEF Cells
  <1>2. [i \in Cells |-> m] \in Seq(Nat) /\ Len([i \in Cells |-> m]) = Capacity
    BY <1>1 DEF Cells
  <1>3. QED
    BY <1>1, <1>2 DEF Crc64

LEMMA InitMemory == MemoryInit => MemoryInv
  <1>. SUFFICES ASSUME MemoryInit PROVE MemoryInv
    OBVIOUS
  <1>. USE MemoryAssumption
  <1>1. MemoryTypeOK
    <2>1. slot \in [size : 0 .. Capacity, handle : Nat, crc : Seq(Nat), content : [Cells -> Nat]]
      BY DEF MemoryInit, EmptySlot, Nul
    <2>2. writer \in [at : WriterPlaces, message : Nat, handle : Nat, size : Cells,
                      copied : 0 .. Capacity]
      BY DEF MemoryInit, WriterPlaces, Cells
    <2>3. reader \in [at : ReaderPlaces, size : 0 .. Capacity, copy : Seq(Nat), last : Nat]
      BY DEF MemoryInit, FreshReader, ReaderPlaces
    <2>4. heard \in [handle : Nat, cells : Seq(Nat)] /\ mutex = "free"
      BY DEF MemoryInit, Silence
    <2>5. QED
      BY <2>1, <2>2, <2>3, <2>4 DEF MemoryTypeOK
  <1>2. reader.copy = <<>> /\ heard.cells = <<>> /\ Len(reader.copy) = 0 /\ reader.size = 0
    BY DEF MemoryInit, FreshReader, Silence
  <1>3. writer.at = "idle" /\ writer.message = 0 /\ \A i \in Cells : slot.content[i] = 0
    BY DEF MemoryInit, EmptySlot, Nul
  <1>4. QED
    BY <1>1, <1>2, <1>3 DEF MemoryInv, Positions, Sizes, NoneNewer, InOrder

-----------------------------------------------------------------------------
(* The writer. *)

LEMMA BeginWriteStep ==
    ASSUME MemoryInv, NEW m \in Nat, NEW h \in Nat, NEW size \in Cells,
           m >= writer.message, BeginWrite(m, h, size)
    PROVE  MemoryInv' /\ writer'.message = m
  <1>. USE MemoryAssumption
  <1>1. /\ slot' = [slot EXCEPT !.size = size]
        /\ writer' = [at |-> "handle", message |-> m, handle |-> h, size |-> size, copied |-> 0]
        /\ reader' = reader /\ heard' = heard
        /\ mutex' \in {mutex, "writer"}
    BY DEF BeginWrite, Lock
  <1>2. slot'.content = slot.content
    BY <1>1 DEF MemoryInv, MemoryTypeOK
  <1>3. MemoryTypeOK'
    <2>1. slot' \in [size : 0 .. Capacity, handle : Nat, crc : Seq(Nat), content : [Cells -> Nat]]
      <3>1. size \in 0 .. Capacity
        BY DEF Cells
      <3>2. QED
        BY <1>1, <3>1 DEF MemoryInv, MemoryTypeOK
    <2>2. writer' \in [at : WriterPlaces, message : Nat, handle : Nat, size : Cells,
                       copied : 0 .. Capacity]
      BY <1>1 DEF WriterPlaces
    <2>3. QED
      BY <1>1, <2>1, <2>2 DEF MemoryInv, MemoryTypeOK
  <1>4. writer.message \in Nat /\ heard.cells \in Seq(Nat) /\ reader.copy \in Seq(Nat)
        /\ \A i \in Cells : slot.content[i] \in Nat
    BY Numbers DEF MemoryInv
  <1>5. (Positions /\ Sizes /\ InOrder)'
    BY <1>1, <1>2 DEF MemoryInv, Positions, Sizes, InOrder, NotOlder
  <1>6. NoneNewer'
    BY <1>1, <1>2, <1>4, SMTT(20) DEF MemoryInv, NoneNewer
  <1>7. QED
    BY <1>1, <1>3, <1>5, <1>6 DEF MemoryInv

\* The steps that leave content, copy and what was heard alone.
LEMMA HeaderStep ==
    ASSUME MemoryInv, MemoryTypeOK', slot'.content = slot.content,
           writer'.message = writer.message, Positions',
           reader' = reader, heard' = heard
    PROVE  MemoryInv'
  BY DEF MemoryInv, Sizes, NoneNewer, InOrder, NotOlder

LEMMA WriteHandleStep ==
    ASSUME MemoryInv, WriteHandle
    PROVE  MemoryInv'
  <1>1. /\ slot' = [slot EXCEPT !.handle = writer.handle]
        /\ writer' = [writer EXCEPT !.at = "crc"] /\ writer.at = "handle"
        /\ mutex' = mutex /\ reader' = reader /\ heard' = heard
    BY DEF WriteHandle
  <1>2. MemoryTypeOK'
    BY <1>1 DEF MemoryInv, MemoryTypeOK, WriterPlaces
  <1>3. slot'.content = slot.content /\ writer'.message = writer.message
    BY <1>1 DEF MemoryInv, MemoryTypeOK
  <1>4. Positions'
    BY <1>1 DEF MemoryInv, MemoryTypeOK, Positions
  <1>5. QED
    BY <1>1, <1>2, <1>3, <1>4, HeaderStep

LEMMA WriteCrcStep ==
    ASSUME MemoryInv, WriteCrc
    PROVE  MemoryInv'
  <1>. DEFINE crc == Crc64([i \in Cells |-> writer.message], writer.size)
  <1>1. /\ slot' = [slot EXCEPT !.crc = crc]
        /\ writer' = [writer EXCEPT !.at = "content"] /\ writer.at = "crc"
        /\ mutex' = mutex /\ reader' = reader /\ heard' = heard
    BY DEF WriteCrc
  <1>2. crc \in Seq(Nat)
    BY CrcType, Numbers DEF MemoryInv
  <1>. HIDE DEF crc
  <1>3. MemoryTypeOK'
    BY <1>1, <1>2 DEF MemoryInv, MemoryTypeOK, WriterPlaces
  <1>4. slot'.content = slot.content /\ writer'.message = writer.message
    BY <1>1 DEF MemoryInv, MemoryTypeOK
  <1>5. Positions'
    BY <1>1, MemoryAssumption DEF MemoryInv, MemoryTypeOK, Positions, Cells
  <1>6. QED
    BY <1>1, <1>3, <1>4, <1>5, HeaderStep

\* The cell that is written becomes the newest.
LEMMA WriteCellStep ==
    ASSUME MemoryInv, WriteCell
    PROVE  MemoryInv'
  <1>. DEFINE k == writer.copied + 1
  <1>1. /\ slot' = [slot EXCEPT !.content = [@ EXCEPT ![k] = writer.message]]
        /\ writer' = [writer EXCEPT !.copied = k,
                         !.at = IF k = writer.size THEN "tail" ELSE @]
        /\ mutex' = mutex /\ reader' = reader /\ heard' = heard
        /\ writer.at = "content"
    BY DEF WriteCell
  <1>2. /\ Capacity \in Nat /\ writer.message \in Nat /\ writer.size \in 1 .. Capacity
        /\ writer.copied \in Nat /\ writer.copied < writer.size
        /\ slot.content \in [Cells -> Nat]
    BY <1>1, Numbers DEF MemoryInv, Positions, Cells
  <1>3. k \in Cells /\ k \in 0 .. Capacity
    BY <1>2 DEF Cells
  <1>4. /\ slot'.content = [slot.content EXCEPT ![k] = writer.message]
        /\ writer'.message = writer.message
        /\ writer'.at \in {"content", "tail"} /\ (writer'.at = "content" => k # writer.size)
        /\ writer'.copied = k /\ writer'.size = writer.size
    BY <1>1 DEF MemoryInv, MemoryTypeOK
  <1>5. MemoryTypeOK'
    <2>1. slot' \in [size : 0 .. Capacity, handle : Nat, crc : Seq(Nat), content : [Cells -> Nat]]
      BY <1>1, <1>2, <1>3 DEF MemoryInv, MemoryTypeOK
    <2>2. writer' \in [at : WriterPlaces, message : Nat, handle : Nat, size : Cells,
                       copied : 0 .. Capacity]
      BY <1>1, <1>3 DEF MemoryInv, MemoryTypeOK, WriterPlaces
    <2>3. QED
      BY <1>1, <2>1, <2>2 DEF MemoryInv, MemoryTypeOK
  <1>6. \A i \in Cells : slot'.content[i] \in {slot.content[i], writer.message}
    BY <1>2, <1>3, <1>4
  <1>7. Positions'
    BY <1>1, <1>2, <1>4 DEF MemoryInv, Positions
  <1>8. NoneNewer'
    BY <1>1, <1>2, <1>4, <1>6 DEF MemoryInv, NoneNewer
  <1>9. InOrder'
    BY <1>1, <1>6 DEF MemoryInv, InOrder, NotOlder, NoneNewer, Sizes
  <1>10. QED
    BY <1>1, <1>5, <1>7, <1>8, <1>9 DEF MemoryInv, Sizes

\* A content with nuls in the place of some cells.
LEMMA NulStep ==
    ASSUME MemoryInv, MemoryTypeOK', writer'.message = writer.message, Positions',
           reader' = reader, heard' = heard,
           \A i \in Cells : slot'.content[i] \in {slot.content[i], Nul}
    PROVE  MemoryInv'
  <1>1. writer.message \in Nat
    BY Numbers DEF MemoryInv
  <1>2. QED
    BY <1>1 DEF MemoryInv, Sizes, NoneNewer, InOrder, NotOlder, Nul

LEMMA EndWriteStep ==
    ASSUME MemoryInv, EndWrite
    PROVE  MemoryInv'
  <1>1. /\ slot' = IF writer.size < Capacity
                   THEN [slot EXCEPT !.content = [@ EXCEPT ![writer.size + 1] = Nul]]
                   ELSE slot
        /\ writer' = [writer EXCEPT !.at = "idle"]
        /\ mutex' \in {mutex, "free"} /\ reader' = reader /\ heard' = heard
    BY DEF EndWrite, Unlock
  <1>2. slot.content \in [Cells -> Nat] /\ slot \in [size : 0 .. Capacity, handle : Nat, crc : Seq(Nat), content : [Cells -> Nat]]
    BY DEF MemoryInv, MemoryTypeOK
  <1>3. /\ slot' \in [size : 0 .. Capacity, handle : Nat, crc : Seq(Nat), content : [Cells -> Nat]]
        /\ \A i \in Cells : slot'.content[i] \in {slot.content[i], Nul}
    <2>1. CASE writer.size < Capacity
      BY <1>1, <1>2, <2>1 DEF Nul
    <2>2. CASE ~ writer.size < Capacity
      BY <1>1, <1>2, <2>2
    <2>3. QED
      BY <2>1, <2>2
  <1>4. MemoryTypeOK'
    BY <1>1, <1>3 DEF MemoryInv, MemoryTypeOK, WriterPlaces
  <1>5. writer'.message = writer.message /\ writer'.at = "idle"
    BY <1>1 DEF MemoryInv, MemoryTypeOK
  <1>6. Positions'
    BY <1>1, <1>5 DEF MemoryInv, Positions
  <1>7. QED
    BY <1>1, <1>3, <1>4, <1>5, <1>6, NulStep

-----------------------------------------------------------------------------
(* The reader. *)

\* A reader that starts another copy.
LEMMA FreshCopyStep ==
    ASSUME MemoryInv, slot' = slot, writer' = writer, heard' = heard,
           mutex' \in {"free", "writer", "reader"},
           reader' \in [at : ReaderPlaces, size : 0 .. Capacity, copy : Seq(Nat), last : Nat],
           reader'.copy = <<>>
    PROVE  MemoryInv'
  <1>1. Len(reader'.copy) = 0 /\ reader'.size \in 0 .. Capacity /\ DOMAIN reader'.copy = {}
    OBVIOUS
  <1>2. MemoryTypeOK'
    BY DEF MemoryInv, MemoryTypeOK
  <1>3. Positions'
    BY <1>1, MemoryAssumption DEF MemoryInv, Positions
  <1>4. QED
    BY <1>1, <1>2, <1>3 DEF MemoryInv, Sizes, NoneNewer, InOrder, NotOlder

\* A reader that goes on without copying.
LEMMA ReaderMoves ==
    ASSUME MemoryInv, slot' = slot, writer' = writer, heard' = heard,
           mutex' \in {"free", "writer", "reader"},
           reader' \in [at : ReaderPlaces, size : 0 .. Capacity, copy : Seq(Nat), last : Nat],
           reader'.copy = reader.copy, reader'.size = reader.size
    PROVE  MemoryInv'
  <1>1. MemoryTypeOK'
    BY DEF MemoryInv, MemoryTypeOK
  <1>2. QED
    BY <1>1 DEF MemoryInv, Positions, Sizes, NoneNewer, InOrder, NotOlder

LEMMA BeginReadStep ==
    ASSUME MemoryInv, BeginRead
    PROVE  MemoryInv'
  <1>1. /\ reader' = [at |-> "copy", size |-> slot.size, copy |-> <<>>, last |-> reader.last]
        /\ mutex' \in {mutex, "reader"}
        /\ slot' = slot /\ writer' = writer /\ heard' = heard
    BY DEF BeginRead, Lock
  <1>2. /\ reader' \in [at : ReaderPlaces, size : 0 .. Capacity, copy : Seq(Nat), last : Nat]
        /\ reader'.copy = <<>>
    <2>1. /\ slot.size \in 0 .. Capacity
          /\ reader \in [at : ReaderPlaces, size : 0 .. Capacity, copy : Seq(Nat), last : Nat]
      BY DEF MemoryInv, MemoryTypeOK
    <2>2. reader.last \in Nat /\ <<>> \in Seq(Nat)
      BY <2>1
    <2>3. QED
      BY <1>1, <2>1, <2>2 DEF ReaderPlaces
  <1>3. mutex' \in {"free", "writer", "reader"}
    BY <1>1 DEF MemoryInv, MemoryTypeOK
  <1>4. QED
    BY <1>1, <1>2, <1>3, FreshCopyStep

LEMMA MeasureStep ==
    ASSUME MemoryInv, Measure
    PROVE  MemoryInv'
  <1>1. /\ reader' = [at |-> "use", size |-> slot.size, copy |-> <<>>, last |-> reader.last]
        /\ mutex' = mutex /\ slot' = slot /\ writer' = writer /\ heard' = heard
    BY DEF Measure
  <1>2. /\ reader' \in [at : ReaderPlaces, size : 0 .. Capacity, copy : Seq(Nat), last : Nat]
        /\ reader'.copy = <<>>
    <2>1. /\ slot.size \in 0 .. Capacity
          /\ reader \in [at : ReaderPlaces, size : 0 .. Capacity, copy : Seq(Nat), last : Nat]
      BY DEF MemoryInv, MemoryTypeOK
    <2>2. reader.last \in Nat /\ <<>> \in Seq(Nat)
      BY <2>1
    <2>3. QED
      BY <1>1, <2>1, <2>2 DEF ReaderPlaces
  <1>3. QED
    BY <1>1, <1>2, FreshCopyStep DEF MemoryInv, MemoryTypeOK

\* A cell that is copied is as old as the content, and what was heard before
\* is not newer.
LEMMA CopyCellStep ==
    ASSUME MemoryInv, CopyCell
    PROVE  MemoryInv'
  <1>. DEFINE k == Len(reader.copy) + 1
              copy == Append(reader.copy, slot.content[k])
  <1>1. /\ reader' = [reader EXCEPT !.copy = copy] /\ Len(reader.copy) < reader.size
        /\ mutex' = mutex /\ slot' = slot /\ writer' = writer /\ heard' = heard
    BY DEF CopyCell
  <1>2. /\ reader.copy \in Seq(Nat) /\ Len(reader.copy) \in Nat /\ reader.size \in 0 .. Capacity
        /\ Capacity \in Nat /\ slot.content \in [Cells -> Nat]
    BY Numbers DEF MemoryInv
  <1>3. k \in Cells /\ slot.content[k] \in Nat
    BY <1>1, <1>2 DEF Cells
  <1>4. /\ copy \in Seq(Nat) /\ Len(copy) = Len(reader.copy) + 1
        /\ \A i \in DOMAIN copy : \/ (i \in DOMAIN reader.copy /\ copy[i] = reader.copy[i])
                                 \/ (i = k /\ copy[i] = slot.content[i])
    BY <1>2, <1>3, AppendFacts
  <1>. HIDE DEF copy
  <1>5. reader'.copy = copy /\ reader'.size = reader.size
    BY <1>1 DEF MemoryInv, MemoryTypeOK
  <1>6. MemoryTypeOK'
    BY <1>1, <1>4 DEF MemoryInv, MemoryTypeOK
  <1>7. Positions'
    BY <1>1, <1>2, <1>4, <1>5 DEF MemoryInv, Positions
  <1>8. Sizes'
    BY <1>1, <1>3, <1>4, <1>5 DEF MemoryInv, Sizes
  <1>9. NoneNewer'
    BY <1>1, <1>3, <1>4, <1>5 DEF MemoryInv, NoneNewer
  <1>10. InOrder'
    <2>1. /\ slot.content[k] >= slot.content[k]
          /\ k \in DOMAIN heard.cells => NotOlder(heard.cells[k], slot.content[k])
      BY <1>3 DEF MemoryInv, InOrder
    <2>2. QED
      BY <1>1, <1>4, <1>5, <2>1 DEF MemoryInv, InOrder, NotOlder
  <1>11. QED
    BY <1>6, <1>7, <1>8, <1>9, <1>10 DEF MemoryInv

LEMMA EndReadStep ==
    ASSUME MemoryInv, EndRead
    PROVE  MemoryInv'
  <1>1. /\ \E p \in {"compare", "poll"} : reader' = [reader EXCEPT !.at = p]
        /\ mutex' \in {mutex, "free"}
        /\ slot' = slot /\ writer' = writer /\ heard' = heard
    BY DEF EndRead, Unlock
  <1>2. /\ reader' \in [at : ReaderPlaces, size : 0 .. Capacity, copy : Seq(Nat), last : Nat]
        /\ reader'.copy = reader.copy /\ reader'.size = reader.size
    BY <1>1 DEF MemoryInv, MemoryTypeOK, ReaderPlaces
  <1>3. mutex' \in {"free", "writer", "reader"}
    BY <1>1 DEF MemoryInv, MemoryTypeOK
  <1>4. QED
    BY <1>1, <1>2, <1>3, ReaderMoves

LEMMA CompareStep ==
    ASSUME MemoryInv, Compare
    PROVE  MemoryInv'
  <1>1. /\ \E p \in {"take", "poll"} : reader' = [reader EXCEPT !.at = p]
        /\ mutex' = mutex /\ slot' = slot /\ writer' = writer /\ heard' = heard
    BY DEF Compare
  <1>2. /\ reader' \in [at : ReaderPlaces, size : 0 .. Capacity, copy : Seq(Nat), last : Nat]
        /\ reader'.copy = reader.copy /\ reader'.size = reader.size
    BY <1>1 DEF MemoryInv, MemoryTypeOK, ReaderPlaces
  <1>3. QED
    BY <1>1, <1>2, ReaderMoves DEF MemoryInv, MemoryTypeOK

LEMMA TakeStep ==
    ASSUME MemoryInv, Take
    PROVE  MemoryInv'
  <1>1. /\ reader' = [reader EXCEPT !.at = "measure", !.last = slot.handle]
        /\ mutex' = mutex /\ slot' = slot /\ writer' = writer /\ heard' = heard
    BY DEF Take
  <1>2. /\ reader' \in [at : ReaderPlaces, size : 0 .. Capacity, copy : Seq(Nat), last : Nat]
        /\ reader'.copy = reader.copy /\ reader'.size = reader.size
    BY <1>1 DEF MemoryInv, MemoryTypeOK, ReaderPlaces
  <1>3. QED
    BY <1>1, <1>2, ReaderMoves DEF MemoryInv, MemoryTypeOK

LEMMA HearStep ==
    ASSUME MemoryInv, Hear
    PROVE  MemoryInv'
  <1>1. /\ reader' = [reader EXCEPT !.at = "poll"]
        /\ heard' = [handle |-> reader.last, cells |-> reader.copy]
        /\ mutex' = mutex /\ slot' = slot /\ writer' = writer
    BY DEF Hear
  <1>2. reader'.copy = reader.copy /\ reader'.size = reader.size /\ heard'.cells = reader.copy
    BY <1>1 DEF MemoryInv, MemoryTypeOK
  <1>3. MemoryTypeOK'
    BY <1>1, Numbers DEF MemoryInv, MemoryTypeOK, ReaderPlaces
  <1>4. reader.copy \in Seq(Nat)
    BY Numbers DEF MemoryInv
  <1>5. \A i \in DOMAIN reader.copy : reader.copy[i] >= reader.copy[i]
    BY <1>4
  <1>6. QED
    BY <1>1, <1>2, <1>3, <1>5 DEF MemoryInv, Positions, Sizes, NoneNewer, InOrder, NotOlder

-----------------------------------------------------------------------------
\* Every step of a writer and of a reader, whatever they do at the same time.
LEMMA StepsKeepMemory ==
    ASSUME MemoryInv, WriterStep \/ ReaderStep \/ Hear
    PROVE  MemoryInv'
  BY WriteHandleStep, WriteCrcStep, WriteCellStep, EndWriteStep, BeginReadStep, CopyCellStep,
     EndReadStep, CompareStep, TakeStep, MeasureStep, HearStep DEF WriterStep, ReaderStep

-----------------------------------------------------------------------------
(* The sound. *)

Inv == MemoryInv /\ Suffix \in Nat /\ writer.message = Suffix

-----------------------------------------------------------------------------
LEMMA InitInv == Init => Inv
  <1>. SUFFICES ASSUME Init PROVE Inv
    OBVIOUS
  <1>1. MemoryInv
    BY InitMemory DEF Init
  <1>2. Suffix = 0 /\ writer.message = 0
    BY DEF Init, MemoryInit
  <1>3. QED
    BY <1>1, <1>2 DEF Inv

LEMMA HandleType ==
    ASSUME NEW n \in Nat
    PROVE  Handle(n) \in Nat
  BY AudioAssumption DEF Handle

LEMMA WriteToSharedMemoryStep ==
    ASSUME Inv, NEW size \in Cells, WriteToSharedMemory(size)
    PROVE  Inv'
  <1>1. Suffix + 1 \in Nat /\ Suffix' = Suffix + 1 /\ Suffix + 1 >= writer.message
        /\ BeginWrite(Suffix + 1, Handle(Suffix + 1), size)
    BY DEF Inv, WriteToSharedMemory
  <1>2. MemoryInv' /\ writer'.message = Suffix + 1
    BY <1>1, HandleType, BeginWriteStep DEF Inv
  <1>3. QED
    BY <1>1, <1>2 DEF Inv

LEMMA CapturerStep ==
    ASSUME Inv, Capturer
    PROVE  Inv'
  <1>1. WriterStep /\ Suffix' = Suffix
    BY DEF Capturer
  <1>2. MemoryInv'
    BY <1>1, StepsKeepMemory DEF Inv
  <1>3. writer'.message = writer.message
    BY <1>1 DEF WriterStep, WriteHandle, WriteCrc, WriteCell, EndWrite, Inv, MemoryInv, MemoryTypeOK
  <1>4. QED
    BY <1>1, <1>2, <1>3 DEF Inv

LEMMA ReceiverStep ==
    ASSUME Inv, Receiver
    PROVE  Inv'
  <1>1. (ReaderStep \/ Hear) /\ Suffix' = Suffix
    BY DEF Receiver, Publish
  <1>2. MemoryInv'
    BY <1>1, StepsKeepMemory DEF Inv
  <1>3. writer' = writer
    BY <1>1 DEF ReaderStep, BeginRead, CopyCell, EndRead, Compare, Take, Measure, Hear
  <1>4. QED
    BY <1>1, <1>2, <1>3 DEF Inv

LEMMA RestartStep ==
    ASSUME Inv, Restart
    PROVE  Inv'
  <1>1. /\ slot' \in {slot, Cleared} /\ mutex' \in {"free", mutex}
        /\ reader' = FreshReader /\ heard' = Silence /\ writer' = writer /\ Suffix' = Suffix
    BY DEF Restart
  <1>2. /\ slot \in [size : 0 .. Capacity, handle : Nat, crc : Seq(Nat), content : [Cells -> Nat]]
        /\ slot.handle \in Nat /\ Suffix \in Nat /\ Capacity \in Nat
    BY MemoryAssumption DEF Inv, MemoryInv, MemoryTypeOK
  <1>3. /\ slot' \in [size : 0 .. Capacity, handle : Nat, crc : Seq(Nat), content : [Cells -> Nat]]
        /\ slot'.handle \in {slot.handle, 0}
        /\ \A i \in Cells : slot'.content[i] \in {slot.content[i], Nul}
    <2>1. CASE slot' = slot
      BY <1>2, <2>1
    <2>2. CASE slot' = Cleared
      <3>. DEFINE content == [slot.content EXCEPT ![1] = Nul]
      <3>1. /\ content \in [Cells -> Nat]
            /\ \A i \in Cells : content[i] \in {slot.content[i], Nul}
        BY <1>2 DEF Nul
      <3>2. Cleared = [size |-> 0, handle |-> 0, crc |-> <<>>, content |-> content]
        BY DEF Cleared, EmptySlot
      <3>3. <<>> \in Seq(Nat) /\ 0 \in 0 .. Capacity
        BY <1>2
      <3>. HIDE DEF content
      <3>4. QED
        BY <2>2, <3>1, <3>2, <3>3
    <2>3. QED
      BY <1>1, <2>1, <2>2
  <1>4. /\ FreshReader \in [at : ReaderPlaces, size : 0 .. Capacity, copy : Seq(Nat), last : Nat]
        /\ Silence \in [handle : Nat, cells : Seq(Nat)]
    BY <1>2 DEF FreshReader, Silence, ReaderPlaces
  <1>5. /\ reader'.copy = <<>> /\ reader'.size = 0 /\ reader'.last = 0 /\ reader'.at = "poll"
        /\ heard'.cells = <<>> /\ heard'.handle = 0 /\ Len(reader'.copy) = 0
    BY <1>1 DEF FreshReader, Silence
  <1>6. MemoryTypeOK'
    BY <1>1, <1>3, <1>4 DEF Inv, MemoryInv, MemoryTypeOK
  <1>7. NoneNewer'
    <2>1. writer.message \in Nat /\ \A i \in Cells : slot.content[i] <= writer.message
      BY Numbers DEF Inv, MemoryInv, NoneNewer
    <2>2. \A i \in Cells : slot'.content[i] <= writer'.message
      BY <1>1, <1>3, <2>1 DEF Nul
    <2>3. DOMAIN reader'.copy = {} /\ DOMAIN heard'.cells = {}
      BY <1>5
    <2>4. QED
      BY <2>2, <2>3 DEF NoneNewer
  <1>8. (Positions /\ Sizes /\ InOrder)'
    BY <1>1, <1>5 DEF Inv, MemoryInv, Positions, Sizes, InOrder
  <1>9. QED
    BY <1>1, <1>2, <1>6, <1>7, <1>8 DEF Inv, MemoryInv

LEMMA NextInv == Inv /\ [Next]_vars => Inv'
  <1>. SUFFICES ASSUME Inv, [Next]_vars PROVE Inv'
    OBVIOUS
  <1>1. CASE UNCHANGED vars
    BY <1>1 DEF vars, memoryVars, Inv, MemoryInv, MemoryTypeOK, Positions, Sizes, NoneNewer,
                InOrder, NotOlder
  <1>2. QED
    BY <1>1, WriteToSharedMemoryStep, CapturerStep, ReceiverStep, RestartStep DEF Next

-----------------------------------------------------------------------------
\* What is handed on is in order, from the invariant of one state.
LEMMA HeardInOrder ==
    ASSUME Inv, [Next]_vars, heard' # heard, heard' # Silence,
           NEW i \in DOMAIN heard.cells \cap DOMAIN heard'.cells
    PROVE  heard'.cells[i] = Nul \/ heard'.cells[i] >= heard.cells[i]
  <1>1. Hear
    BY DEF vars, memoryVars, Next, WriteToSharedMemory, BeginWrite, Capturer, WriterStep,
           WriteHandle, WriteCrc, WriteCell, EndWrite, Receiver, ReaderStep, BeginRead, CopyCell,
           EndRead, Compare, Take, Measure, Publish, Restart
  <1>2. heard'.cells = reader.copy
    BY <1>1 DEF Hear
  <1>3. QED
    BY <1>2 DEF Inv, MemoryInv, InOrder, NotOlder

\* The inductive invariant: the slot, the copy and what was heard are in the
\* order of time.
THEOREM AudioInOrder == Spec => []Inv
  BY InitInv, NextInv, PTL DEF Spec

\* The sound never goes back in time, whatever writer, reader and restarts of
\* the server do at the same time, and however few handles there are.
THEOREM SoundNeverGoesBack == Spec => NeverGoesBack
  <1>1. Inv /\ [Next]_vars =>
          [heard' # heard /\ heard' # Silence =>
             \A i \in DOMAIN heard.cells \cap DOMAIN heard'.cells :
                heard'.cells[i] = Nul \/ heard'.cells[i] >= heard.cells[i]]_vars
    BY HeardInOrder
  <1>2. QED
    BY <1>1, AudioInOrder, PTL DEF Spec, NeverGoesBack

\* A number of a buffer that is not newer than what is, or comes to be, in a
\* cell of the slot.
Behind(p, b) ==
    /\ b <= writer.message
    /\ NotOlder(b, slot.content[p])
    /\ p \in DOMAIN reader.copy => NotOlder(b, reader.copy[p])

\* What a step may put into the slot, and into the copy.
LEMMA MemoryMoves ==
    ASSUME Inv, [Next]_vars
    PROVE  /\ writer'.message >= writer.message /\ writer'.message \in Nat
           /\ \A p \in Cells : slot'.content[p] \in {slot.content[p], Nul, writer'.message}
           /\ \A p \in DOMAIN reader'.copy :
                 \/ p \in DOMAIN reader.copy /\ reader'.copy[p] = reader.copy[p]
                 \/ reader'.copy[p] = slot.content[p]
  <1>0. /\ writer.message \in Nat /\ reader.copy \in Seq(Nat) /\ slot.content \in [Cells -> Nat]
        /\ MemoryTypeOK
    BY Numbers DEF Inv, MemoryInv
  <1>1. CASE \E size \in Cells : WriteToSharedMemory(size)
    BY <1>0, <1>1 DEF WriteToSharedMemory, BeginWrite, Inv, MemoryTypeOK
  <1>2. CASE Capturer
    <2>1. CASE WriteCell
      <3>1. /\ slot'.content = [slot.content EXCEPT ![writer.copied + 1] = writer.message]
            /\ writer'.message = writer.message /\ reader' = reader
        BY <2>1 DEF WriteCell, Inv, MemoryInv, MemoryTypeOK
      <3>2. QED
        BY <1>0, <3>1
    <2>2. CASE EndWrite
      <3>1. /\ \/ slot' = slot
               \/ slot'.content = [slot.content EXCEPT ![writer.size + 1] = Nul]
            /\ writer'.message = writer.message /\ reader' = reader
        BY <2>2 DEF EndWrite, Inv, MemoryInv, MemoryTypeOK
      <3>2. QED
        BY <1>0, <3>1
    <2>3. CASE WriteHandle \/ WriteCrc
      <3>1. slot'.content = slot.content /\ writer'.message = writer.message /\ reader' = reader
        BY <1>0, <2>3 DEF WriteHandle, WriteCrc, MemoryTypeOK
      <3>2. QED
        BY <1>0, <3>1
    <2>4. QED
      BY <1>2, <2>1, <2>2, <2>3 DEF Capturer, WriterStep
  <1>3. CASE Receiver
    <2>1. writer' = writer /\ slot' = slot
      BY <1>3 DEF Receiver, Publish, ReaderStep, BeginRead, CopyCell, EndRead, Compare, Take,
                  Measure, Hear
    <2>2. CASE BeginRead \/ Measure
      BY <1>0, <2>1, <2>2 DEF BeginRead, Measure
    <2>3. CASE CopyCell
      <3>1. /\ reader'.copy = Append(reader.copy, slot.content[Len(reader.copy) + 1])
            /\ Len(reader.copy) + 1 \in Cells
        <4>1. Len(reader.copy) \in Nat /\ reader.size \in 0 .. Capacity /\ Capacity \in Nat
          BY Numbers DEF Inv, MemoryInv
        <4>2. QED
          BY <1>0, <2>3, <4>1 DEF CopyCell, MemoryTypeOK, Cells
      <3>2. slot.content[Len(reader.copy) + 1] \in Nat
        BY <1>0, <3>1
      <3>3. QED
        BY <1>0, <2>1, <3>1, <3>2, AppendFacts
    <2>4. CASE EndRead \/ Compare \/ Take \/ Hear
      <3>1. reader'.copy = reader.copy
        BY <1>0, <2>4 DEF EndRead, Compare, Take, Hear, MemoryTypeOK
      <3>2. QED
        BY <1>0, <2>1, <3>1
    <2>5. QED
      BY <1>3, <2>2, <2>3, <2>4 DEF Receiver, Publish, ReaderStep
  <1>4. CASE Restart
    <2>1. writer' = writer /\ DOMAIN reader'.copy = {}
      BY <1>4 DEF Restart, FreshReader
    <2>2. slot'.content \in {slot.content, [slot.content EXCEPT ![1] = Nul]}
      BY <1>4 DEF Restart, Cleared, EmptySlot
    <2>3. QED
      BY <1>0, <2>1, <2>2
  <1>5. CASE UNCHANGED vars
    BY <1>0, <1>5 DEF vars, memoryVars
  <1>6. QED
    BY <1>1, <1>2, <1>3, <1>4, <1>5 DEF Next

\* So what is behind stays behind.
LEMMA BehindStays ==
    ASSUME Inv, [Next]_vars, NEW p \in Cells, NEW b \in Nat, Behind(p, b)
    PROVE  Behind(p, b)'
  <1>1. writer.message \in Nat
    BY Numbers DEF Inv, MemoryInv
  <1>2. QED
    BY <1>1, MemoryMoves DEF Behind, NotOlder

-----------------------------------------------------------------------------
(* The device that the sound is handed to. *)

Sample == [turn : Nat, place : Cells, content : Nat]

Stages == {"new", "initialised", "registered", "leaving", "gone"}

DeviceTypeOK ==
    /\ requester \in [bIsPlayoutInitialised : BOOLEAN, bIsPlaying : BOOLEAN,
                      AudioCallback : BOOLEAN]
    /\ capturer \in [bInitialised : BOOLEAN, bCapturing : BOOLEAN, AudioCallback : BOOLEAN]
    /\ RecordingBuffer \in Seq(Sample)
    /\ submitting \in BOOLEAN
    /\ engine \in Stages
    /\ turn \in Nat
    /\ submitted \subseteq Sample

\* What the flags say at each stage of the voice engine.
FlagsFollowEngine ==
    /\ submitting => capturer.AudioCallback
    /\ requester.bIsPlaying => requester.bIsPlayoutInitialised
    /\ engine # "registered" => /\ ~capturer.bCapturing /\ ~capturer.AudioCallback
                                /\ ~requester.AudioCallback
    /\ engine \in {"new", "initialised", "gone"} => ~requester.bIsPlaying

\* The samples that the device has been given and has not dropped.
Given == submitted \cup {RecordingBuffer[j] : j \in DOMAIN RecordingBuffer}

\* None of them is newer than what the receiver may hand on.
NoneUnheard == \A s \in Given : s.turn <= turn /\ Behind(s.place, s.content)

DeviceInv == DeviceTypeOK /\ FlagsFollowEngine /\ NoneUnheard /\ SoundInOrder

\* To the channel, every step of the device is one of its own or a stutter.
LEMMA DeviceStepsChannel ==
    ASSUME [DeviceNext]_<<vars, deviceVars>>
    PROVE  [Next]_vars
  BY DEF DeviceNext, AudioReceiver, OnNewSubmixBuffer, RecordedDataIsAvailable,
         EndOfSubmixBuffer, Worker, Next, Receiver

LEMMA SampleNumbers ==
    ASSUME DeviceTypeOK
    PROVE  /\ Len(RecordingBuffer) \in Nat
           /\ DOMAIN RecordingBuffer = 1 .. Len(RecordingBuffer)
           /\ \A i \in DOMAIN RecordingBuffer : RecordingBuffer[i] \in Sample
           /\ Given \subseteq Sample
  <1>1. RecordingBuffer \in Seq(Sample) /\ submitted \subseteq Sample
    BY DEF DeviceTypeOK
  <1>2. /\ Len(RecordingBuffer) \in Nat
        /\ DOMAIN RecordingBuffer = 1 .. Len(RecordingBuffer)
        /\ \A i \in DOMAIN RecordingBuffer : RecordingBuffer[i] \in Sample
    BY <1>1, LenProperties, ElementOfSeq
  <1>3. QED
    BY <1>1, <1>2 DEF Given

\* Steps that give the device nothing.
LEMMA NothingGiven ==
    ASSUME Inv, [Next]_vars, DeviceInv, RecordingBuffer' \in {RecordingBuffer, <<>>},
           UNCHANGED history
    PROVE  NoneUnheard' /\ SoundInOrder' /\ RecordingBuffer' \in Seq(Sample)
  <1>1. turn' = turn /\ submitted' = submitted /\ DeviceTypeOK /\ turn \in Nat
    BY DEF history, DeviceInv, DeviceTypeOK
  <1>2. DOMAIN <<>> = {}
    OBVIOUS
  <1>3. Given' \subseteq Given
    BY <1>1, <1>2 DEF Given
  <1>4. ASSUME NEW s \in Given PROVE Behind(s.place, s.content)'
    <2>1. s \in Sample /\ Behind(s.place, s.content)
      BY <1>1, SampleNumbers DEF DeviceInv, NoneUnheard
    <2>2. s.place \in Cells /\ s.content \in Nat
      BY <2>1 DEF Sample
    <2>3. QED
      BY <2>1, <2>2, BehindStays
  <1>5. NoneUnheard'
    BY <1>1, <1>3, <1>4 DEF DeviceInv, NoneUnheard
  <1>6. SoundInOrder'
    BY <1>1, <1>2 DEF DeviceInv, SoundInOrder
  <1>7. RecordingBuffer' \in Seq(Sample)
    BY EmptySeq DEF DeviceInv, DeviceTypeOK
  <1>8. QED
    BY <1>5, <1>6, <1>7

LEMMA InitDevice == DeviceInit => DeviceInv
  <1>. SUFFICES ASSUME DeviceInit PROVE DeviceInv
    OBVIOUS
  <1>1. DeviceTypeOK
    BY EmptySeq DEF DeviceInit, NewRequester, NewCapturer, DeviceTypeOK, Stages
  <1>2. FlagsFollowEngine
    BY DEF DeviceInit, NewRequester, NewCapturer, FlagsFollowEngine
  <1>3. DOMAIN RecordingBuffer = {} /\ Given = {}
    BY DEF DeviceInit, Given
  <1>4. QED
    BY <1>1, <1>2, <1>3 DEF DeviceInv, NoneUnheard, SoundInOrder

\* The worker touches the flags, and of the samples it only drops them all.
LEMMA WorkerStep ==
    ASSUME Inv, DeviceInv, Worker
    PROVE  DeviceInv'
  <1>1. /\ requester \in [bIsPlayoutInitialised : BOOLEAN, bIsPlaying : BOOLEAN,
                          AudioCallback : BOOLEAN]
        /\ capturer \in [bInitialised : BOOLEAN, bCapturing : BOOLEAN, AudioCallback : BOOLEAN]
        /\ FlagsFollowEngine
        /\ submitting \in BOOLEAN
    BY DEF DeviceInv, DeviceTypeOK
  <1>2. /\ UNCHANGED <<vars, history>> /\ submitting' = submitting
        /\ RecordingBuffer' \in {RecordingBuffer, <<>>}
    BY DEF Worker, recording, InitRecording, InitCapturer,
           RegisterAudioCallback, RegisterCapturer, StartRecording, StopRecording, SetCapturing,
           Terminate, Uninitialise
  <1>3. /\ requester' \in [bIsPlayoutInitialised : BOOLEAN, bIsPlaying : BOOLEAN,
                           AudioCallback : BOOLEAN]
        /\ capturer' \in [bInitialised : BOOLEAN, bCapturing : BOOLEAN, AudioCallback : BOOLEAN]
        /\ FlagsFollowEngine'
        /\ engine' \in Stages
    <2>1. CASE engine = "new" /\ InitRecording /\ engine' = "initialised" /\ UNCHANGED requester
      BY <1>1, <1>2, <2>1 DEF InitRecording, InitCapturer, FlagsFollowEngine, Stages
    <2>2. CASE engine = "initialised" /\ RegisterAudioCallback(TRUE) /\ engine' = "registered"
      BY <1>1, <1>2, <2>2
         DEF RegisterAudioCallback, RegisterCapturer, FlagsFollowEngine, Stages
    <2>3. CASE engine = "registered" /\ StartRecording /\ UNCHANGED <<requester, engine>>
      BY <1>1, <1>2, <2>3 DEF StartRecording, SetCapturing, FlagsFollowEngine, Stages
    <2>4. CASE engine = "registered" /\ StopRecording /\ UNCHANGED <<requester, engine>>
      BY <1>1, <1>2, <2>4 DEF StopRecording, SetCapturing, FlagsFollowEngine, Stages
    <2>5. CASE /\ engine = "registered"
               /\ ~requester.bIsPlaying /\ requester' = StartPlayout(InitPlayout(requester))
               /\ UNCHANGED <<capturer, recording, engine>>
      BY <1>1, <1>2, <2>5, DeviceAssumption DEF StartPlayout, InitPlayout, FlagsFollowEngine, Stages
    <2>6. CASE /\ engine = "registered"
               /\ requester.bIsPlaying /\ requester' = StopPlayout(requester)
               /\ UNCHANGED <<capturer, recording, engine>>
      BY <1>1, <1>2, <2>6 DEF StopPlayout, FlagsFollowEngine, Stages
    <2>7. CASE /\ engine = "registered"
               /\ ~capturer.bCapturing
               /\ RegisterAudioCallback(FALSE)
               /\ engine' = "leaving"
      BY <1>1, <1>2, <2>7
         DEF RegisterAudioCallback, RegisterCapturer, FlagsFollowEngine, Stages
    <2>8. CASE engine = "leaving" /\ Terminate /\ engine' = "gone"
      <3>1. /\ requester' = [bIsPlayoutInitialised |-> FALSE, AudioCallback |-> FALSE,
                              bIsPlaying |-> FALSE]
            /\ capturer' = [capturer EXCEPT !.bInitialised = FALSE, !.bCapturing = FALSE]
        BY <1>1, <2>8 DEF Terminate, Uninitialise, UninitialiseRequester, StopPlayout,
                          FlagsFollowEngine
      <3>2. QED
        BY <1>1, <1>2, <2>8, <3>1 DEF FlagsFollowEngine, Stages
    <2>9. QED
      BY <2>1, <2>2, <2>3, <2>4, <2>5, <2>6, <2>7, <2>8 DEF Worker
  <1>4. NoneUnheard' /\ SoundInOrder' /\ RecordingBuffer' \in Seq(Sample)
    BY <1>2, NothingGiven
  <1>5. QED
    BY <1>2, <1>3, <1>4 DEF DeviceInv, DeviceTypeOK, history

\* The samples of a buffer are put behind older ones, in their own order.
LEMMA SamplesFollow ==
    ASSUME Inv, DeviceInv, RecordingBuffer' = RecordingBuffer \o Samples(reader.copy),
           turn' = turn + 1, submitted' = submitted,
           slot' = slot, writer' = writer, reader'.copy = reader.copy
    PROVE  /\ RecordingBuffer' \in Seq(Sample)
           /\ NoneUnheard'
           /\ SoundInOrder'
  <1>. DEFINE n == Len(RecordingBuffer)
              more == Samples(reader.copy)
              new(q) == [turn |-> turn + 1, place |-> q, content |-> reader.copy[q]]
  <1>1. /\ RecordingBuffer \in Seq(Sample) /\ DOMAIN RecordingBuffer = 1 .. n /\ n \in Nat
        /\ turn \in Nat /\ Given \subseteq Sample
        /\ reader.copy \in Seq(Nat) /\ MemoryInv
    BY Numbers, SampleNumbers DEF DeviceInv, DeviceTypeOK, Inv, MemoryInv
  <1>2. \A q \in DOMAIN reader.copy :
           /\ q \in Cells /\ q \in Nat /\ reader.copy[q] \in Nat
           /\ new(q) \in Sample
           /\ Behind(q, reader.copy[q])
    <2>1. ASSUME NEW q \in DOMAIN reader.copy
          PROVE  q \in Cells /\ q \in Nat /\ reader.copy[q] \in Nat
      BY <1>1 DEF MemoryInv, Sizes
    <2>2. ASSUME NEW q \in DOMAIN reader.copy PROVE new(q) \in Sample
      BY <1>1, <2>1 DEF Sample
    <2>3. ASSUME NEW q \in DOMAIN reader.copy PROVE Behind(q, reader.copy[q])
      <3>1. reader.copy[q] >= reader.copy[q]
        BY <2>1
      <3>2. QED
        BY <1>1, <3>1 DEF MemoryInv, NoneNewer, InOrder, Behind, NotOlder
    <2>4. QED
      BY <2>1, <2>2, <2>3
  <1>3. /\ more \in Seq(Sample) /\ Len(more) \in Nat
        /\ DOMAIN reader.copy = 1 .. Len(more)
        /\ \A q \in 1 .. Len(more) : more[q] = new(q)
    <2>1. DOMAIN reader.copy = 1 .. Len(reader.copy) /\ Len(reader.copy) \in Nat
      BY <1>1, LenProperties
    <2>2. more = [q \in 1 .. Len(reader.copy) |-> new(q)]
      BY <2>1 DEF Samples
    <2>3. \A q \in 1 .. Len(reader.copy) : new(q) \in Sample
      BY <1>2, <2>1
    <2>. HIDE DEF more, new
    <2>4. more \in [1 .. Len(reader.copy) -> Sample]
      BY <2>2, <2>3
    <2>5. more \in Seq(Sample)
      <3>1. [1 .. Len(reader.copy) -> Sample] \in {[1 .. k -> Sample] : k \in Nat}
        BY <2>1
      <3>2. QED
        BY <2>4, <3>1, SeqDef
    <2>6. 1 .. Len(more) = 1 .. Len(reader.copy) /\ Len(more) \in Nat
      BY <2>2, <2>5, LenProperties
    <2>7. QED
      BY <2>1, <2>2, <2>5, <2>6
  <1>. HIDE DEF more
  <1>4. /\ RecordingBuffer' \in Seq(Sample)
        /\ DOMAIN RecordingBuffer' = 1 .. n + Len(more)
        /\ \A i \in 1 .. n : RecordingBuffer'[i] = RecordingBuffer[i]
        /\ \A i \in n + 1 .. n + Len(more) :
              RecordingBuffer'[i] = new(i - n) /\ i - n \in DOMAIN reader.copy
    <2>1. RecordingBuffer' = RecordingBuffer \o more
      BY DEF more
    <2>2. /\ RecordingBuffer' \in Seq(Sample)
          /\ Len(RecordingBuffer') = n + Len(more)
          /\ \A i \in 1 .. n + Len(more) :
                RecordingBuffer'[i] = IF i <= n THEN RecordingBuffer[i] ELSE more[i - n]
      BY <1>1, <1>3, <2>1, ConcatProperties
    <2>3. DOMAIN RecordingBuffer' = 1 .. n + Len(more)
      BY <2>2, LenProperties
    <2>. HIDE DEF n, new
    <2>4. ASSUME NEW i \in 1 .. n PROVE RecordingBuffer'[i] = RecordingBuffer[i]
      <3>1. i \in 1 .. n + Len(more) /\ i <= n
        BY <1>1, <1>3
      <3>2. QED
        BY <2>2, <3>1
    <2>5. ASSUME NEW i \in n + 1 .. n + Len(more)
          PROVE  RecordingBuffer'[i] = new(i - n) /\ i - n \in DOMAIN reader.copy
      <3>1. i \in 1 .. n + Len(more) /\ ~(i <= n) /\ i - n \in 1 .. Len(more)
        BY <1>1, <1>3
      <3>2. QED
        BY <1>3, <2>2, <3>1
    <2>6. QED
      BY <2>2, <2>3, <2>4, <2>5
  <1>. HIDE DEF n
  <1>5. Given' \subseteq Given \cup {new(q) : q \in DOMAIN reader.copy}
    <2>1. ASSUME NEW i \in DOMAIN RecordingBuffer'
          PROVE  RecordingBuffer'[i] \in Given \cup {new(q) : q \in DOMAIN reader.copy}
      <3>1. CASE i \in 1 .. n
        BY <1>1, <1>4, <3>1 DEF Given
      <3>2. CASE i \in n + 1 .. n + Len(more)
        <4>1. RecordingBuffer'[i] = new(i - n) /\ i - n \in DOMAIN reader.copy
          BY <1>4, <3>2
        <4>. HIDE DEF new
        <4>2. QED
          BY <4>1
      <3>3. i \in 1 .. n \/ i \in n + 1 .. n + Len(more)
        <4>1. i \in 1 .. n + Len(more)
          BY <1>4
        <4>2. QED
          BY <1>1, <1>3, <4>1
      <3>4. QED
        BY <3>1, <3>2, <3>3
    <2>2. QED
      BY <2>1 DEF Given
  <1>6. NoneUnheard'
    <2>1. ASSUME NEW s \in Given'
          PROVE  s.turn <= turn + 1 /\ Behind(s.place, s.content)
      <3>1. CASE s \in Given
        <4>1. s.turn \in Nat /\ s.turn <= turn /\ Behind(s.place, s.content)
          BY <1>1, <3>1 DEF Sample, DeviceInv, NoneUnheard
        <4>2. QED
          BY <1>1, <4>1
      <3>2. CASE \E q \in DOMAIN reader.copy : s = new(q)
        BY <1>1, <1>2, <3>2
      <3>3. QED
        BY <1>5, <3>1, <3>2
    <2>2. QED
      BY <2>1 DEF NoneUnheard, Behind
  <1>7. ASSUME NEW i \in DOMAIN RecordingBuffer',
               NEW s \in submitted' \cup {RecordingBuffer'[j] : j \in 1 .. i - 1}
        PROVE  Before(s, RecordingBuffer'[i]) /\ NotOlderThere(s, RecordingBuffer'[i])
    <2>1. i \in Nat /\ i >= 1 /\ i <= n + Len(more)
      BY <1>1, <1>3, <1>4
    <2>2. CASE i <= n
      <3>1. i \in DOMAIN RecordingBuffer /\ RecordingBuffer'[i] = RecordingBuffer[i]
        BY <1>1, <1>4, <2>1, <2>2
      <3>2. \A j \in 1 .. i - 1 : RecordingBuffer'[j] = RecordingBuffer[j]
        BY <1>1, <1>4, <2>1, <2>2
      <3>3. s \in submitted \cup {RecordingBuffer[j] : j \in 1 .. i - 1}
        BY <3>2
      <3>4. QED
        BY <3>1, <3>3 DEF DeviceInv, SoundInOrder
    <2>3. CASE i > n
      <3>. DEFINE q == i - n
      <3>1. i \in n + 1 .. n + Len(more)
        BY <1>1, <1>3, <2>1, <2>3
      <3>2. /\ RecordingBuffer'[i] = new(q) /\ q \in DOMAIN reader.copy /\ q \in Nat
        BY <1>2, <1>4, <3>1
      <3>3. s \in Given \/ \E r \in DOMAIN reader.copy : s = new(r) /\ r < q
        <4>1. CASE s \in submitted
          BY <4>1 DEF Given
        <4>2. ASSUME NEW j \in 1 .. i - 1, s = RecordingBuffer'[j]
              PROVE  s \in Given \/ \E r \in DOMAIN reader.copy : s = new(r) /\ r < q
          <5>1. CASE j \in 1 .. n
            BY <1>1, <1>4, <4>2, <5>1 DEF Given
          <5>2. CASE j \in n + 1 .. n + Len(more)
            <6>1. s = new(j - n) /\ j - n \in DOMAIN reader.copy
              BY <1>4, <4>2, <5>2
            <6>2. j - n < q
              BY <1>1, <2>1, <5>2
            <6>. HIDE DEF new, q
            <6>3. QED
              BY <6>1, <6>2
          <5>3. j \in 1 .. n \/ j \in n + 1 .. n + Len(more)
            BY <1>1, <1>3, <2>1
          <5>4. QED
            BY <5>1, <5>2, <5>3
        <4>3. QED
          BY <4>1, <4>2
      <3>4. CASE s \in Given
        <4>1. s.turn \in Nat /\ s.turn <= turn /\ Behind(s.place, s.content)
          BY <1>1, <3>4 DEF Sample, DeviceInv, NoneUnheard
        <4>2. s.turn < turn + 1
          BY <1>1, <4>1
        <4>3. s.place = q => NotOlder(s.content, reader.copy[q])
          BY <3>2, <4>1 DEF Behind
        <4>4. QED
          BY <3>2, <4>2, <4>3 DEF Before, NotOlderThere, NotOlder
      <3>5. CASE \E r \in DOMAIN reader.copy : s = new(r) /\ r < q
        <4>1. PICK r \in DOMAIN reader.copy : s = new(r) /\ r < q
          BY <3>5
        <4>2. r # q
          BY <1>2, <3>2, <4>1
        <4>3. QED
          BY <3>2, <4>1, <4>2 DEF Before, NotOlderThere
      <3>6. QED
        BY <3>3, <3>4, <3>5
    <2>4. QED
      BY <1>1, <2>1, <2>2, <2>3
  <1>8. QED
    BY <1>4, <1>6, <1>7 DEF SoundInOrder

LEMMA OnNewSubmixBufferStep ==
    ASSUME Inv, DeviceInv, OnNewSubmixBuffer
    PROVE  DeviceInv'
  <1>1. /\ heard'.cells = reader.copy
        /\ slot' = slot /\ writer' = writer /\ reader'.copy = reader.copy
    BY DEF OnNewSubmixBuffer, Publish, Hear, Inv, MemoryInv, MemoryTypeOK
  <1>2. [Next]_vars
    BY DEF OnNewSubmixBuffer, Next, Receiver
  <1>3. /\ requester' = requester /\ capturer' = capturer /\ submitted' = submitted
        /\ engine' = engine
    BY DEF OnNewSubmixBuffer
  <1>4. CASE /\ capturer.bInitialised /\ capturer.bCapturing /\ capturer.AudioCallback
             /\ RecordingBuffer' = RecordingBuffer \o Samples(heard'.cells)
             /\ turn' = turn + 1
             /\ submitting' = TRUE
    <2>1. RecordingBuffer' \in Seq(Sample) /\ NoneUnheard' /\ SoundInOrder'
      BY <1>1, <1>3, <1>4, SamplesFollow
    <2>2. FlagsFollowEngine'
      BY <1>3, <1>4 DEF DeviceInv, FlagsFollowEngine
    <2>3. QED
      BY <1>3, <1>4, <2>1, <2>2 DEF DeviceInv, DeviceTypeOK
  <1>5. CASE UNCHANGED <<RecordingBuffer, turn, submitting>>
    <2>1. NoneUnheard' /\ SoundInOrder'
      BY <1>2, <1>3, <1>5, NothingGiven DEF history
    <2>2. QED
      BY <1>3, <1>5, <2>1 DEF DeviceInv, DeviceTypeOK, FlagsFollowEngine
  <1>6. QED
    BY <1>4, <1>5 DEF OnNewSubmixBuffer

LEMMA RecordedDataIsAvailableStep ==
    ASSUME DeviceInv, RecordedDataIsAvailable
    PROVE  DeviceInv'
  <1>. DEFINE k == SamplesPer10Ms
              n == Len(RecordingBuffer)
              chunk == SubSeq(RecordingBuffer, 1, k)
  <1>1. /\ RecordingBuffer \in Seq(Sample) /\ n \in Nat
        /\ DOMAIN RecordingBuffer = 1 .. n
        /\ k \in Nat /\ k >= 1 /\ n > k
        /\ submitted' = submitted \cup {chunk[i] : i \in DOMAIN chunk}
        /\ RecordingBuffer' = SubSeq(RecordingBuffer, k + 1, n)
    BY DeviceAssumption, SampleNumbers DEF RecordedDataIsAvailable, Submit, DeviceInv, DeviceTypeOK
  <1>2. /\ UNCHANGED vars /\ requester' = requester /\ capturer' = capturer
        /\ submitting' = submitting /\ engine' = engine /\ turn' = turn
    BY DEF RecordedDataIsAvailable
  <1>. HIDE DEF k
  <1>3. \A i \in 1 .. n : RecordingBuffer[i] \in Sample
    BY <1>1, ElementOfSeq
  <1>4. /\ RecordingBuffer' \in Seq(Sample)
        /\ DOMAIN RecordingBuffer' = 1 .. n - k
        /\ \A i \in 1 .. n - k : RecordingBuffer'[i] = RecordingBuffer[i + k]
    <2>. DEFINE m == k + 1
    <2>1. m \in Int /\ n \in Int /\ m <= n /\ \A i \in m .. n : RecordingBuffer[i] \in Sample
      BY <1>1, <1>3
    <2>. HIDE DEF m, n
    <2>2. /\ SubSeq(RecordingBuffer, m, n) \in Seq(Sample)
          /\ Len(SubSeq(RecordingBuffer, m, n)) = IF m <= n THEN n - m + 1 ELSE 0
          /\ \A i \in 1 .. n - m + 1 :
                SubSeq(RecordingBuffer, m, n)[i] = RecordingBuffer[m + i - 1]
      BY <2>1, SubSeqProperties
    <2>3. n - m + 1 = n - k /\ \A i \in 1 .. n - k : m + i - 1 = i + k
      BY <1>1 DEF m
    <2>4. RecordingBuffer' = SubSeq(RecordingBuffer, m, n)
      BY <1>1 DEF m
    <2>5. Len(RecordingBuffer') = n - k
      BY <2>1, <2>2, <2>3, <2>4
    <2>6. DOMAIN RecordingBuffer' = 1 .. n - k
      BY <2>2, <2>4, <2>5, LenProperties
    <2>7. QED
      BY <2>2, <2>3, <2>4, <2>6
  <1>5. /\ DOMAIN chunk = 1 .. k
        /\ \A i \in 1 .. k : chunk[i] = RecordingBuffer[i]
    <2>1. 1 \in Int /\ k \in Int /\ 1 <= k /\ \A i \in 1 .. k : RecordingBuffer[i] \in Sample
      BY <1>1, <1>3
    <2>. HIDE DEF n
    <2>2. /\ chunk \in Seq(Sample)
          /\ Len(chunk) = IF 1 <= k THEN k - 1 + 1 ELSE 0
          /\ \A i \in 1 .. k - 1 + 1 : chunk[i] = RecordingBuffer[1 + i - 1]
      BY <2>1, SubSeqProperties
    <2>. HIDE DEF chunk
    <2>3. k - 1 + 1 = k /\ \A i \in 1 .. k : 1 + i - 1 = i
      BY <1>1
    <2>4. DOMAIN chunk = 1 .. k
      BY <2>1, <2>2, <2>3, LenProperties
    <2>5. QED
      BY <2>2, <2>3, <2>4
  <1>. HIDE DEF chunk, n
  <1>6. submitted' = submitted \cup {RecordingBuffer[i] : i \in 1 .. k}
    BY <1>1, <1>5
  <1>7. Given' = Given /\ submitted' \subseteq Sample
    <2>1. 1 .. k \subseteq 1 .. n /\ \A i \in 1 .. n - k : i + k \in 1 .. n
      BY <1>1
    <2>2. ASSUME NEW i \in 1 .. n PROVE RecordingBuffer[i] \in Given'
      <3>1. CASE i \in 1 .. k
        BY <1>6, <3>1 DEF Given
      <3>2. CASE i \notin 1 .. k
        <4>1. i - k \in 1 .. n - k /\ i - k + k = i
          BY <1>1, <3>2
        <4>2. QED
          BY <1>4, <4>1 DEF Given
      <3>3. QED
        BY <3>1, <3>2
    <2>3. Given \subseteq Given'
      BY <1>1, <1>6, <2>2 DEF Given
    <2>4. Given' \subseteq Given
      BY <1>1, <1>4, <1>6, <2>1 DEF Given
    <2>5. submitted' \subseteq Sample
      BY <1>3, <1>6, <2>1 DEF DeviceInv, DeviceTypeOK
    <2>6. QED
      BY <2>3, <2>4, <2>5
  <1>8. NoneUnheard'
    <2>1. slot' = slot /\ writer' = writer /\ reader' = reader
      BY <1>2 DEF vars, memoryVars
    <2>2. QED
      BY <1>2, <1>7, <2>1 DEF DeviceInv, NoneUnheard, Behind
  <1>9. ASSUME NEW i \in DOMAIN RecordingBuffer',
               NEW s \in submitted' \cup {RecordingBuffer'[j] : j \in 1 .. i - 1}
        PROVE  Before(s, RecordingBuffer'[i]) /\ NotOlderThere(s, RecordingBuffer'[i])
    <2>1. i + k \in DOMAIN RecordingBuffer /\ i \in Nat /\ i >= 1
          /\ RecordingBuffer'[i] = RecordingBuffer[i + k]
      BY <1>1, <1>4
    <2>. DEFINE m == i + k
                earlier == {RecordingBuffer[j] : j \in 1 .. m - 1}
    <2>2. s \in submitted \cup earlier
      <3>1. \A j \in 1 .. k : j \in 1 .. m - 1
        BY <1>1, <2>1
      <3>2. \A j \in 1 .. i - 1 : /\ j + k \in 1 .. m - 1
                                  /\ RecordingBuffer'[j] = RecordingBuffer[j + k]
        BY <1>1, <1>4, <2>1
      <3>. HIDE DEF m
      <3>3. CASE s \in submitted'
        BY <1>6, <3>1, <3>3
      <3>4. CASE s \in {RecordingBuffer'[j] : j \in 1 .. i - 1}
        <4>1. PICK j \in 1 .. i - 1 : s = RecordingBuffer'[j]
          BY <3>4
        <4>2. j + k \in 1 .. m - 1 /\ s = RecordingBuffer[j + k]
          BY <3>2, <4>1
        <4>3. QED
          BY <4>2
      <3>. HIDE DEF earlier
      <3>5. QED
        BY <3>3, <3>4
    <2>3. Before(s, RecordingBuffer[m]) /\ NotOlderThere(s, RecordingBuffer[m])
      <3>1. m \in DOMAIN RecordingBuffer
        BY <2>1
      <3>. HIDE DEF m
      <3>2. QED
        BY <2>2, <3>1 DEF DeviceInv, SoundInOrder
    <2>4. QED
      BY <2>1, <2>3
  <1>10. QED
    BY <1>2, <1>4, <1>7, <1>8, <1>9 DEF DeviceInv, DeviceTypeOK, FlagsFollowEngine, SoundInOrder

LEMMA DeviceStep ==
    ASSUME Inv, DeviceInv, [DeviceNext]_<<vars, deviceVars>>
    PROVE  DeviceInv'
  <1>0. [Next]_vars
    BY DeviceStepsChannel
  <1>1. ASSUME UNCHANGED deviceVars PROVE DeviceInv'
    <2>1. UNCHANGED <<requester, capturer, RecordingBuffer, submitting, engine, history>>
      BY <1>1 DEF deviceVars
    <2>2. NoneUnheard' /\ SoundInOrder'
      BY <1>0, <2>1, NothingGiven
    <2>3. QED
      BY <2>1, <2>2 DEF history, DeviceInv, DeviceTypeOK, FlagsFollowEngine
  <1>2. CASE EndOfSubmixBuffer
    <2>1. NoneUnheard' /\ SoundInOrder'
      BY <1>0, <1>2, NothingGiven DEF EndOfSubmixBuffer
    <2>2. QED
      BY <1>2, <2>1 DEF EndOfSubmixBuffer, history, DeviceInv, DeviceTypeOK, FlagsFollowEngine
  <1>3. CASE Restart /\ NewDevice
    <2>1. DeviceTypeOK'
      BY <1>3, EmptySeq DEF NewDevice, NewRequester, NewCapturer, DeviceTypeOK, Stages
    <2>2. FlagsFollowEngine'
      BY <1>3 DEF NewDevice, NewRequester, NewCapturer, FlagsFollowEngine
    <2>3. DOMAIN RecordingBuffer' = {} /\ Given' = {}
      BY <1>3 DEF NewDevice, Given
    <2>4. QED
      BY <2>1, <2>2, <2>3 DEF DeviceInv, NoneUnheard, SoundInOrder
  <1>4. QED
    BY <1>1, <1>2, <1>3, WorkerStep, OnNewSubmixBufferStep, RecordedDataIsAvailableStep
       DEF DeviceNext, AudioReceiver, Elsewhere

\* With the device, the channel behaves as it does alone.
THEOREM DeviceKeepsChannel == DeviceSpec => Spec
  <1>1. DeviceInit => Init
    BY DEF DeviceInit
  <1>2. QED
    BY <1>1, DeviceStepsChannel, PTL DEF DeviceSpec, Spec

\* So the sound that reaches the device never goes back in time either.
THEOREM DeviceNeverGoesBack == DeviceSpec => NeverGoesBack
  BY DeviceKeepsChannel, SoundNeverGoesBack, PTL

\* The invariant of the device, however the two threads meet.
THEOREM DeviceInvariant == DeviceSpec => []DeviceInv
  <1>1. QED
    BY InitDevice, DeviceStep, DeviceKeepsChannel, AudioInOrder, PTL DEF DeviceSpec

\* WebRTC is called only while its callback is registered, and a module that
\* has been terminated does nothing any more.
THEOREM NoCallbackAfterGoodbye == DeviceSpec => []CallbackStays
  <1>1. DeviceInv => CallbackStays
    BY DEF DeviceInv, FlagsFollowEngine, CallbackStays
  <1>2. QED
    BY <1>1, DeviceInvariant, PTL

\* What the receiver has handed on goes to WebRTC in order and once, and no
\* sample is older than one that went before it from the same place, for any
\* size of buffers and chunks and any number of handles.
THEOREM SamplesInOrder == DeviceSpec => []SoundInOrder
  <1>1. DeviceInv => SoundInOrder
    BY DEF DeviceInv
  <1>2. QED
    BY <1>1, DeviceInvariant, PTL

-----------------------------------------------------------------------------
(* The input. *)

\* The slot, and the numbers that handles and messages come from.
InputInv ==
    /\ MemoryInv
    /\ writer.message = sent
    /\ sent \in 0 .. MaxEvents
    /\ InputId \in [Sessions -> {NotCreated} \cup Nat]
    /\ \A s \in Sessions : InputId[s] <= sent

-----------------------------------------------------------------------------
LEMMA InputInitInv == InputInit => InputInv
  <1>. SUFFICES ASSUME InputInit PROVE InputInv
    OBVIOUS
  <1>1. MemoryInv /\ writer.message = 0
    BY InitMemory DEF InputInit, MemoryInit
  <1>2. QED
    BY <1>1, InputAssumption DEF InputInit, InputInv, NotCreated

LEMMA CreateSessionStep ==
    ASSUME InputInv, NEW s \in Sessions, CreateSession(s)
    PROVE  InputInv'
  <1>1. /\ slot' = Cleared /\ mutex' = mutex /\ writer' = writer /\ reader' = reader
        /\ heard' = heard /\ sent' = sent /\ InputId' = [InputId EXCEPT ![s] = 0]
    BY DEF CreateSession
  <1>2. Capacity \in Nat /\ slot.content \in [Cells -> Nat]
    BY MemoryAssumption, Numbers DEF InputInv, MemoryInv
  <1>3. /\ slot' \in [size : 0 .. Capacity, handle : Nat, crc : Seq(Nat), content : [Cells -> Nat]]
        /\ \A i \in Cells : slot'.content[i] \in {slot.content[i], Nul}
    <2>. DEFINE content == [slot.content EXCEPT ![1] = Nul]
    <2>1. content \in [Cells -> Nat] /\ \A i \in Cells : content[i] \in {slot.content[i], Nul}
      BY <1>2 DEF Nul
    <2>2. Cleared = [size |-> 0, handle |-> 0, crc |-> <<>>, content |-> content]
      BY DEF Cleared, EmptySlot
    <2>3. <<>> \in Seq(Nat) /\ 0 \in 0 .. Capacity
      BY <1>2
    <2>. HIDE DEF content
    <2>4. QED
      BY <1>1, <2>1, <2>2, <2>3
  <1>4. MemoryTypeOK' /\ Positions'
    BY <1>1, <1>3 DEF InputInv, MemoryInv, MemoryTypeOK, Positions
  <1>5. MemoryInv'
    BY <1>1, <1>3, <1>4, NulStep DEF InputInv
  <1>6. QED
    BY <1>1, <1>5 DEF InputInv

LEMMA OnMessageStep ==
    ASSUME InputInv, NEW s \in Sessions, NEW size \in Cells, OnMessage(s, size)
    PROVE  InputInv'
  <1>1. /\ InputId[s] # NotCreated /\ sent < MaxEvents /\ sent' = sent + 1
        /\ BeginWrite(sent + 1, InputId[s], size)
        /\ InputId' = [InputId EXCEPT ![s] = InputId[s] + 1]
    BY DEF OnMessage
  <1>2. sent \in Nat /\ MaxEvents \in Nat /\ InputId[s] \in Nat /\ sent + 1 >= writer.message
    BY <1>1, InputAssumption DEF InputInv
  <1>3. MemoryInv' /\ writer'.message = sent + 1
    BY <1>1, <1>2, BeginWriteStep DEF InputInv
  <1>4. /\ InputId' \in [Sessions -> {NotCreated} \cup Nat]
        /\ \A t \in Sessions : InputId'[t] <= sent'
    BY <1>1, <1>2 DEF InputInv, NotCreated
  <1>5. QED
    BY <1>1, <1>2, <1>3, <1>4 DEF InputInv

LEMMA ThreadStep ==
    ASSUME InputInv, Observers \/ Run
    PROVE  InputInv'
  <1>1. WriterStep \/ ReaderStep \/ Hear
    BY DEF Observers, Run
  <1>2. MemoryInv'
    BY <1>1, StepsKeepMemory DEF InputInv
  <1>3. writer'.message = writer.message
    BY <1>1 DEF WriterStep, WriteHandle, WriteCrc, WriteCell, EndWrite, ReaderStep, BeginRead,
            CopyCell, EndRead, Compare, Take, Measure, Hear, InputInv, MemoryInv, MemoryTypeOK
  <1>4. InputId' = InputId /\ sent' = sent
    BY DEF Observers, Run, inputVars
  <1>5. QED
    BY <1>2, <1>3, <1>4 DEF InputInv

LEMMA InputNextInv == InputInv /\ [InputNext]_inputChannelVars => InputInv'
  <1>. SUFFICES ASSUME InputInv, [InputNext]_inputChannelVars PROVE InputInv'
    OBVIOUS
  <1>1. CASE UNCHANGED inputChannelVars
    BY <1>1 DEF inputChannelVars, memoryVars, inputVars, InputInv, MemoryInv, MemoryTypeOK, Positions, Sizes,
                NoneNewer, InOrder, NotOlder
  <1>2. QED
    BY <1>1, CreateSessionStep, OnMessageStep, ThreadStep DEF InputNext

-----------------------------------------------------------------------------
\* The inductive invariant: whatever sessions come and go and however they
\* number their messages, slot, copy and what was heard are in the order of
\* time.
THEOREM InputInOrder == InputSpec => []InputInv
  BY InputInitInv, InputNextInv, PTL DEF InputSpec

\* Every reachable state of the input channel is of its declared types.
THEOREM InputTypeCorrect == InputSpec => []InputTypeOK
  <1>1. InputInv => InputTypeOK
    BY InputAssumption DEF InputInv, MemoryInv, InputTypeOK, NotCreated
  <1>2. QED
    BY <1>1, InputInOrder, PTL

\* FInputReceiveThread never hands on input after newer input.
THEOREM InputNeverOlder == InputSpec => NeverOlder
  <1>1. InputInv /\ [InputNext]_inputChannelVars =>
          [heard' # heard =>
             \A i \in DOMAIN heard.cells \cap DOMAIN heard'.cells :
                heard'.cells[i] = Nul \/ heard'.cells[i] >= heard.cells[i]]_inputChannelVars
    <2>. SUFFICES ASSUME InputInv, [InputNext]_inputChannelVars, heard' # heard
                  PROVE  \A i \in DOMAIN heard.cells \cap DOMAIN heard'.cells :
                            heard'.cells[i] = Nul \/ heard'.cells[i] >= heard.cells[i]
      OBVIOUS
    <2>1. Hear
      BY DEF inputChannelVars, memoryVars, InputNext, CreateSession, OnMessage, BeginWrite, Observers, WriterStep,
             WriteHandle, WriteCrc, WriteCell, EndWrite, Run, ReaderStep, BeginRead, CopyCell,
             EndRead, Compare, Take, Measure
    <2>2. heard'.cells = reader.copy
      BY <2>1 DEF Hear
    <2>3. QED
      BY <2>2 DEF InputInv, MemoryInv, InOrder, NotOlder
  <1>2. QED
    BY <1>1, InputInOrder, PTL DEF InputSpec, NeverOlder
=============================================================================
