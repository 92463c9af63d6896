---------------------------- MODULE StorageProofs ----------------------------
(***************************************************************************)
(* Proofs about the storage driver, for any files, records, sector sizes   *)
(* and offsets, with a power loss between any two flash operations.        *)
(***************************************************************************)
EXTENDS Storage, WellFoundedInduction, TLAPS

States == {"erased", "torn", "valid"}
Kinds == {"none", "format", "write", "read"}
Places == {"boot", "format_data", "format_metadata", "failed", "idle",
           "data", "store", "crc"}

-----------------------------------------------------------------------------
(* Helpers.                                                                 *)

(* IMetadataFind counts the valid slots before the first other one.         *)
LEMMA ValidSlotsAre ==
    ASSUME NEW s, NEW n \in 0 .. Slots, \A i \in 0 .. n - 1 : s[i].st = "valid",
           n < Slots => s[n].st # "valid"
    PROVE  ValidSlots(s) = n
<1> DEFINE Counts(k) == /\ \A i \in 0 .. k - 1 : s[i].st = "valid"
                        /\ k < Slots => s[k].st # "valid"
<1>1. Slots \in Nat
  BY StorageAssumption
<1>2. ASSUME NEW k \in 0 .. Slots, Counts(k) PROVE k = n
  BY <1>1, <1>2
<1> QED
  BY <1>2 DEF ValidSlots

(* The journal says how many they are.                                      *)
LEMMA ValidSlotsOfJournal ==
    ASSUME NEW n \in 0 .. Slots, JournalOf(n), TypeOK
    PROVE  ValidSlots(slots) = n
<1>1. /\ \A i \in 0 .. n - 1 : slots[i].st = "valid"
      /\ n < Slots => slots[n].st # "valid"
  BY StorageAssumption DEF JournalOf, SlotNumbers
<1> QED
  BY <1>1, ValidSlotsAre

(* The end of a record that was programmed is in the data sector.           *)
LEMMA RecordFits ==
    ASSUME NEW size \in Nat \ {0}, NEW w \in Nat, NEW start \in Nat,
           start + w + 2 * (HalfWords(size) - 1) <= DataSize - 1,
           (start + w + 2 * (HalfWords(size) - 1)) % 2 = 0
    PROVE  w + size \in Offset
<1>1. HalfWords(size) \in Nat /\ 2 * HalfWords(size) >= size
  BY DEF HalfWords
<1>2. DataSize \in Nat /\ DataSize % 2 = 0 /\ OffsetMod \in Nat /\ OffsetMod > DataSize
  BY StorageAssumption
<1>3. start + w + 2 * HalfWords(size) <= DataSize
  BY <1>1, <1>2
<1> QED
  BY <1>1, <1>2, <1>3 DEF Offset

(* What a slot or a file's offsets are.                                     *)
LEMMA ConstantTypes ==
    /\ Slots \in Nat \ {0}
    /\ SlotNumbers \subseteq Nat
    /\ 0 \in File
    /\ 0 \in SlotNumbers
    /\ 0 \in Offset
    /\ ZeroMetadata \in MetadataType
    /\ ErasedCells \in [Cells -> Contents]
    /\ \A f \in File : ZeroMetadata[f].write_offset = 0 /\ ZeroMetadata[f].read_offset = 0
<1>1. Slots \in Nat \ {0} /\ SlotNumbers \subseteq Nat /\ 0 \in SlotNumbers
  BY StorageAssumption DEF SlotNumbers
<1>2. 0 \in File /\ 0 \in Offset
  BY StorageAssumption DEF File, Offset
<1>3. ZeroMetadata \in MetadataType
  BY <1>2 DEF ZeroMetadata, MetadataType
<1>4. ErasedCells \in [Cells -> Contents]
  BY DEF ErasedCells, Contents
<1>5. \A f \in File : ZeroMetadata[f].write_offset = 0 /\ ZeroMetadata[f].read_offset = 0
  BY DEF ZeroMetadata
<1> QED
  BY <1>1, <1>2, <1>3, <1>4, <1>5

LEMMA ErasedSlotsAreSlots ==
    /\ ErasedSlots \in [SlotNumbers -> [st: States, copy: MetadataType]]
    /\ \A s \in SlotNumbers : ErasedSlots[s].st = "erased" /\ ErasedSlots[s].copy = ZeroMetadata
BY ConstantTypes DEF ErasedSlots, SlotOf, States

LEMMA CallsAreCalls ==
    ASSUME NEW kind \in Kinds, NEW f \in File, NEW v \in Values \cup {0}
    PROVE  /\ Call(kind, f, v) \in [kind: Kinds, fd: File, val: Values \cup {0}, n: Nat]
           /\ Call(kind, f, v).kind = kind
           /\ Call(kind, f, v).val = v
BY DEF Call

LEMMA NoCallIsCall ==
    /\ NoCall \in [kind: Kinds, fd: File, val: Values \cup {0}, n: Nat]
    /\ NoCall.kind = "none"
<1>1. "none" \in Kinds /\ 0 \in File /\ 0 \in Values \cup {0}
  BY ConstantTypes DEF Kinds
<1> QED
  BY <1>1, CallsAreCalls DEF NoCall

-----------------------------------------------------------------------------
(* The steps.                                                               *)

LEMMA StandingStill ==
    ASSUME UNCHANGED <<slots, Metadata, store, pc, op>>,
           ReadBehindWrite, Journal, NewestIsLoaded, WriteHasValue
    PROVE  ReadBehindWrite' /\ Journal' /\ NewestIsLoaded' /\ WriteHasValue'
<1>1. ReadBehindWrite' /\ NewestIsLoaded' /\ WriteHasValue'
  BY DEF ReadBehindWrite, NewestIsLoaded, WriteHasValue
<1>2. PICK n \in 0 .. Slots : JournalOf(n)
  BY DEF Journal
<1>3. JournalOf(n)'
  BY <1>2 DEF JournalOf
<1> QED
  BY <1>1, <1>3 DEF Journal

LEMMA InitInv == Init => IInv
<1> SUFFICES ASSUME Init PROVE IInv
  OBVIOUS
<1> USE ConstantTypes, ErasedSlotsAreSlots, NoCallIsCall
<1>1. TypeOK
  BY DEF Init, TypeOK, States, Kinds
<1>2. ReadBehindWrite
  BY DEF Init, ReadBehindWrite
<1>3. JournalOf(0)
  <2>1. \A s \in SlotNumbers : slots[s].st = "erased" /\ s \in Nat
    BY DEF Init
  <2>2. pc = "boot" /\ store = 0
    BY DEF Init
  <2> HIDE ConstantTypes, ErasedSlotsAreSlots, NoCallIsCall
  <2> QED
    BY <2>1, <2>2, ConstantTypes DEF JournalOf
<1>4. Journal
  BY <1>3 DEF Journal
<1>5. NewestIsLoaded /\ WriteHasValue
  BY DEF Init, NewestIsLoaded, WriteHasValue
<1> QED
  BY <1>1, <1>2, <1>4, <1>5 DEF IInv

LEMMA MountKeeps == ASSUME IInv, StorageMount PROVE IInv'
<1> USE ConstantTypes, NoCallIsCall
<1>1. PICK n \in 0 .. Slots : JournalOf(n)
  BY DEF IInv, Journal
<1>2. ValidSlots(slots) = n
  BY <1>1, ValidSlotsOfJournal DEF IInv
<1>3. n > 0 => n - 1 \in SlotNumbers /\ slots[n - 1].copy \in MetadataType
  BY DEF SlotNumbers, IInv, TypeOK
<1>4. TypeOK'
  BY <1>2, <1>3 DEF IInv, TypeOK, StorageMount, flashVars, ramVars, Kinds
<1>5. ReadBehindWrite'
  BY <1>2, <1>3 DEF IInv, ReadBehindWrite, StorageMount, flashVars, ramVars
<1>6. JournalOf(n)'
  BY <1>1, <1>2 DEF StorageMount, JournalOf, flashVars, ramVars
<1>7. NewestIsLoaded'
  BY <1>2, <1>3 DEF NewestIsLoaded, StorageMount, flashVars, ramVars
<1>8. WriteHasValue'
  BY DEF WriteHasValue, StorageMount
<1> QED
  BY <1>4, <1>5, <1>6, <1>7, <1>8 DEF IInv, Journal

LEMMA FormatDataKeeps == ASSUME IInv, FormatData PROVE IInv'
<1>1. PICK n \in 0 .. Slots : JournalOf(n)
  BY DEF IInv, Journal
<1>2. TypeOK'
  BY ConstantTypes DEF IInv, TypeOK, FormatData, ramVars
<1>3. JournalOf(n)'
  BY <1>1 DEF FormatData, JournalOf, ramVars
<1>4. ReadBehindWrite' /\ WriteHasValue'
  BY DEF IInv, ReadBehindWrite, WriteHasValue, FormatData, ramVars
<1>5. NewestIsLoaded'
  BY DEF NewestIsLoaded, FormatData
<1> QED
  BY <1>2, <1>3, <1>4, <1>5 DEF IInv, Journal

LEMMA FormatMetadataKeeps == ASSUME IInv, FormatMetadata PROVE IInv'
<1> USE ConstantTypes, ErasedSlotsAreSlots
<1>1. PICK n \in 0 .. Slots : JournalOf(n)
  BY DEF IInv, Journal
<1>2. /\ Call("format", 0, 0) \in [kind: Kinds, fd: File, val: Values \cup {0}, n: Nat]
      /\ Call("format", 0, 0).kind = "format"
  BY CallsAreCalls DEF Kinds
<1>3. TypeOK'
  BY <1>2 DEF IInv, TypeOK, FormatMetadata, Kinds, States
<1>4. n = 0 /\ store = 0 /\ slots' = ErasedSlots /\ store' = 0
  BY <1>1 DEF FormatMetadata, JournalOf
<1>5. JournalOf(0)'
  BY <1>4 DEF FormatMetadata, JournalOf
<1>6. ReadBehindWrite'
  <2>1. \A f \in File : Metadata'[f].read_offset <= Metadata'[f].write_offset
    BY DEF IInv, ReadBehindWrite, FormatMetadata
  <2> QED
    BY <1>4, <2>1 DEF ReadBehindWrite
<1>7. NewestIsLoaded' /\ WriteHasValue'
  BY <1>2 DEF IInv, NewestIsLoaded, WriteHasValue, FormatMetadata
<1> QED
  BY <1>3, <1>5, <1>6, <1>7 DEF IInv, Journal

(* The copy goes behind the valid ones, or the slot there refuses it.       *)
LEMMA StoreCopyJournal ==
    ASSUME IInv, NEW n \in 0 .. Slots, JournalOf(n), StoreCopy PROVE JournalOf(n)'
<1>1. store = n /\ n \in SlotNumbers
  BY ConstantTypes DEF StoreCopy, JournalOf, SlotNumbers
<1>2. CASE slots[store].st = "erased"
  <2>1. /\ slots' = [slots EXCEPT ![n].st = "torn"] /\ pc' = "crc" /\ store' = n
        /\ \A s \in SlotNumbers : s # n => slots'[s] = slots[s]
        /\ slots'[n].st = "torn"
    BY <1>1, <1>2 DEF StoreCopy, IInv, TypeOK, ramVars
  <2> QED
    BY <1>1, <2>1, ConstantTypes DEF JournalOf, StoreCopy
<1>3. CASE slots[store].st # "erased"
  <2>1. slots' = slots /\ pc' = "idle" /\ store' = n /\ pc = "store"
    BY <1>1, <1>3 DEF StoreCopy, ramVars
  <2> QED
    BY <1>1, <1>3, <2>1 DEF JournalOf
<1> QED
  BY <1>2, <1>3

(* A copy without its CRC is not valid yet.                                 *)
LEMMA StoreCopyKeeps == ASSUME IInv, StoreCopy PROVE IInv'
<1> USE ConstantTypes, NoCallIsCall
<1>1. PICK n \in 0 .. Slots : JournalOf(n)
  BY DEF IInv, Journal
<1>2. store = n /\ n \in SlotNumbers
  BY <1>1 DEF StoreCopy, JournalOf, SlotNumbers
<1>3. /\ slots' \in [SlotNumbers -> [st: States, copy: MetadataType]]
      /\ \A s \in SlotNumbers : slots'[s].copy = slots[s].copy
  <2>1. /\ slots \in [SlotNumbers -> [st: States, copy: MetadataType]]
        /\ slots' = slots \/ slots' = [slots EXCEPT ![store].st = "torn"]
    BY DEF IInv, TypeOK, StoreCopy, States
  <2> QED
    BY <1>2, <2>1 DEF States
<1>4. TypeOK'
  <2>1. /\ pc' \in {"crc", "idle"} /\ (res' = res \/ res' = "ERROR")
        /\ op' \in [kind: Kinds, fd: File, val: Values \cup {0}, n: Nat]
        /\ UNCHANGED <<cells, Metadata, store, acked>>
    BY DEF IInv, TypeOK, StoreCopy, ramVars, Kinds
  <2> QED
    BY <1>3, <2>1 DEF IInv, TypeOK, Kinds, States
<1>5. JournalOf(n)'
  BY <1>1, StoreCopyJournal
<1>6. ReadBehindWrite'
  BY <1>3 DEF IInv, ReadBehindWrite, StoreCopy, ramVars
<1>7. NewestIsLoaded'
  BY DEF NewestIsLoaded, StoreCopy, ramVars
<1>8. WriteHasValue'
  BY DEF IInv, WriteHasValue, StoreCopy
<1> QED
  BY <1>4, <1>5, <1>6, <1>7, <1>8 DEF IInv, Journal

(* The CRC makes it the newest copy.                                        *)
LEMMA StoreCrcKeeps == ASSUME IInv, StoreCrc PROVE IInv'
<1> USE ConstantTypes, NoCallIsCall
<1>1. PICK n \in 0 .. Slots : JournalOf(n)
  BY DEF IInv, Journal
<1>2. store = n /\ n \in SlotNumbers /\ n + 1 \in 0 .. Slots /\ store' = n + 1
  BY <1>1 DEF StoreCrc, JournalOf, SlotNumbers
<1>3. /\ slots'[n].st = "valid" /\ slots'[n].copy = Metadata
      /\ \A s \in SlotNumbers : s # n => slots'[s] = slots[s]
      /\ slots' \in [SlotNumbers -> [st: States, copy: MetadataType]]
  BY <1>2 DEF StoreCrc, IInv, TypeOK, SlotOf, States
<1>4. TypeOK'
  <2>1. acked' \in [File -> Seq(Values)]
    BY DEF StoreCrc, IInv, TypeOK, WriteHasValue
  <2> QED
    BY <1>2, <1>3, <2>1 DEF IInv, TypeOK, StoreCrc, Kinds, States
<1>5. JournalOf(n + 1)'
  <2>1. \A f \in File : DataAddrIsValid(FileAddr[f])
    BY <1>1 DEF JournalOf, StoreCrc
  <2> QED
    BY <1>1, <1>2, <1>3, <2>1 DEF JournalOf, StoreCrc, SlotNumbers
<1>6. ReadBehindWrite'
  BY <1>2, <1>3 DEF IInv, ReadBehindWrite, StoreCrc
<1>7. NewestIsLoaded' /\ WriteHasValue'
  BY <1>2, <1>3 DEF IInv, NewestIsLoaded, WriteHasValue, StoreCrc
<1> QED
  BY <1>2, <1>4, <1>5, <1>6, <1>7 DEF IInv, Journal

LEMMA CleanEraseKeeps == ASSUME IInv, CleanErase PROVE IInv'
<1> USE ConstantTypes, ErasedSlotsAreSlots
<1>1. PICK n \in 0 .. Slots : JournalOf(n)
  BY DEF IInv, Journal
<1>2. TypeOK'
  BY DEF IInv, TypeOK, CleanErase, States
<1>3. JournalOf(0)'
  BY <1>1 DEF CleanErase, JournalOf
<1>4. ReadBehindWrite'
  BY DEF IInv, ReadBehindWrite, CleanErase
<1>5. NewestIsLoaded' /\ WriteHasValue'
  BY DEF IInv, NewestIsLoaded, WriteHasValue, CleanErase
<1> QED
  BY <1>2, <1>3, <1>4, <1>5 DEF IInv, Journal

LEMMA WriteKeeps ==
    ASSUME IInv, NEW f \in File, NEW v \in Values, StorageFileWrite(f, v)
    PROVE  IInv'
<1>1. PICK n \in 0 .. Slots : JournalOf(n)
  BY DEF IInv, Journal
<1>2. /\ Call("write", f, v) \in [kind: Kinds, fd: File, val: Values \cup {0}, n: Nat]
      /\ Call("write", f, v).val = v
  BY CallsAreCalls DEF Kinds
<1>3. TypeOK'
  BY <1>2 DEF IInv, TypeOK, StorageFileWrite, flashVars, ramVars, Kinds
<1>4. JournalOf(n)'
  BY <1>1 DEF StorageFileWrite, JournalOf, flashVars, ramVars
<1>5. ReadBehindWrite'
  BY DEF IInv, ReadBehindWrite, StorageFileWrite, flashVars, ramVars
<1>6. NewestIsLoaded' /\ WriteHasValue'
  BY <1>2 DEF IInv, NewestIsLoaded, WriteHasValue, StorageFileWrite, flashVars, ramVars
<1> QED
  BY <1>3, <1>4, <1>5, <1>6 DEF IInv, Journal

(* The write offset moves only when the whole record is programmed, which   *)
(* only happens inside the data sector.                                     *)
LEMMA ProgramDataKeeps == ASSUME IInv, ProgramData PROVE IInv'
<1> USE ConstantTypes, NoCallIsCall
<1> DEFINE g == op.fd
           a == WriteEnd(g) + 2 * op.n
           v == HalfWord(op.val, RecordSize[g], op.n)
           last == op.n + 1 = HalfWords(RecordSize[g])
<1>1. PICK n \in 0 .. Slots : JournalOf(n)
  BY DEF IInv, Journal
<1>2. /\ g \in File /\ op.n \in Nat /\ RecordSize[g] \in Nat \ {0}
      /\ FileAddr[g] \in Nat
      /\ Metadata[g] \in [write_offset: Offset, read_offset: Offset]
  BY <1>1, StorageAssumption DEF IInv, TypeOK, MetadataType, JournalOf, ProgramData, DataAddrIsValid
<1>3. v \in Contents
  BY <1>2 DEF HalfWord, Contents, IInv, TypeOK
<1> HIDE DEF a, v, last
<1>7. /\ [cells EXCEPT ![a \div 2] = v] \in [Cells -> Contents]
      /\ [op EXCEPT !.n = @ + 1] \in [kind: Kinds, fd: File, val: Values \cup {0}, n: Nat]
      /\ [op EXCEPT !.n = @ + 1].kind = op.kind /\ [op EXCEPT !.n = @ + 1].val = op.val
  <2>1. cells \in [Cells -> Contents]
    BY DEF IInv, TypeOK
  <2>2. op \in [kind: Kinds, fd: File, val: Values \cup {0}, n: Nat]
    BY DEF IInv, TypeOK, Kinds
  <2>3. [op EXCEPT !.n = @ + 1] = [kind |-> op.kind, fd |-> op.fd, val |-> op.val, n |-> op.n + 1]
    BY <2>2
  <2>4. op.n + 1 \in Nat
    BY <2>2
  <2>5. [op EXCEPT !.n = @ + 1] \in [kind: Kinds, fd: File, val: Values \cup {0}, n: Nat]
    BY <2>2, <2>3, <2>4
  <2> QED
    BY <1>3, <2>1, <2>3, <2>5
<1>4. CASE CanProgram(a, v) /\ ~last
  <2>1. /\ Metadata' = Metadata /\ pc' = "data" /\ res' = res
        /\ op' = [op EXCEPT !.n = @ + 1] /\ cells' = [cells EXCEPT ![a \div 2] = v]
        /\ slots' = slots /\ store' = store /\ acked' = acked /\ pc = "data"
    BY <1>4 DEF ProgramData, a, v, last
  <2>2. TypeOK'
    BY <1>7, <2>1 DEF IInv, TypeOK, Kinds
  <2>3. JournalOf(n)' /\ ReadBehindWrite' /\ NewestIsLoaded' /\ WriteHasValue'
    BY <1>1, <2>1 DEF IInv, TypeOK, JournalOf, ReadBehindWrite, NewestIsLoaded, WriteHasValue
  <2> QED
    BY <2>2, <2>3 DEF IInv, Journal
<1>5. CASE CanProgram(a, v) /\ last
  <2>1. /\ Metadata' = [Metadata EXCEPT ![g].write_offset = @ + RecordSize[g]]
        /\ pc' = "store" /\ res' = res
        /\ op' = [op EXCEPT !.n = @ + 1] /\ cells' = [cells EXCEPT ![a \div 2] = v]
        /\ slots' = slots /\ store' = store /\ acked' = acked /\ pc = "data"
    BY <1>5 DEF ProgramData, a, v, last
  <2>2. Metadata[g].write_offset + RecordSize[g] \in Offset
    <3> DEFINE w == Metadata[g].write_offset
    <3>1. w \in Nat
      BY <1>2, StorageAssumption DEF Offset
    <3>2. HalfWords(RecordSize[g]) - 1 = op.n
      BY <1>2, <1>5 DEF HalfWords, last
    <3>3. a % 2 = 0 /\ a <= DataSize - 1 /\ a = FileAddr[g] + w + 2 * op.n
      <4>1. a = FileAddr[g] + w + 2 * op.n /\ a \in Nat
        BY <1>2, <3>1 DEF WriteEnd, a
      <4>2. a % 2 = 0 /\ a \div 2 \in Cells
        BY <1>5 DEF CanProgram
      <4> QED
        BY <4>1, <4>2, StorageAssumption DEF Cells
    <3> HIDE DEF w
    <3> QED
      BY <1>2, <3>1, <3>2, <3>3, RecordFits DEF w
  <2>3. TypeOK'
    <3>1. Metadata' \in MetadataType
      BY <1>2, <2>1, <2>2 DEF IInv, TypeOK, MetadataType
    <3> QED
      BY <1>7, <2>1, <3>1 DEF IInv, TypeOK, Kinds
  <2>4. ReadBehindWrite'
    <3>1. /\ Metadata \in [File -> [write_offset: Offset, read_offset: Offset]]
          /\ \A f \in File : Metadata[f].read_offset <= Metadata[f].write_offset
      BY DEF IInv, TypeOK, MetadataType, ReadBehindWrite
    <3>2. Metadata[g].read_offset <= Metadata[g].write_offset + RecordSize[g]
      BY <1>2, <3>1, StorageAssumption DEF Offset
    <3>3. /\ \A f \in File \ {g} : Metadata'[f] = Metadata[f]
          /\ Metadata'[g].read_offset = Metadata[g].read_offset
          /\ Metadata'[g].write_offset = Metadata[g].write_offset + RecordSize[g]
      BY <1>2, <2>1, <3>1
    <3>4. \A f \in File : Metadata'[f].read_offset <= Metadata'[f].write_offset
      BY <3>1, <3>2, <3>3
    <3> QED
      BY <2>1, <3>4 DEF IInv, ReadBehindWrite
  <2>5. JournalOf(n)' /\ NewestIsLoaded' /\ WriteHasValue'
    BY <1>1, <2>1 DEF IInv, TypeOK, JournalOf, NewestIsLoaded, WriteHasValue
  <2> QED
    BY <2>3, <2>4, <2>5 DEF IInv, Journal
<1>6. CASE ~CanProgram(a, v)
  <2>1. /\ Metadata' = Metadata /\ pc' = "idle" /\ res' = "ERROR"
        /\ op' = NoCall /\ cells' = cells
        /\ slots' = slots /\ store' = store /\ acked' = acked /\ pc = "data"
    BY <1>6 DEF ProgramData, a, v, last
  <2>2. TypeOK'
    BY <2>1 DEF IInv, TypeOK, Kinds
  <2>3. JournalOf(n)' /\ ReadBehindWrite' /\ NewestIsLoaded' /\ WriteHasValue'
    BY <1>1, <2>1 DEF IInv, JournalOf, ReadBehindWrite, NewestIsLoaded, WriteHasValue
  <2> QED
    BY <2>2, <2>3 DEF IInv, Journal
<1> QED
  BY <1>4, <1>5, <1>6

(* A step of the idle driver that moves a read offset up to the write       *)
(* offset and leaves the flash alone.                                       *)
Moves(f, r) ==
    /\ pc = "idle"
    /\ r \in Nat /\ r <= Metadata[f].write_offset
    /\ Metadata' = [Metadata EXCEPT ![f].read_offset = r]
    /\ UNCHANGED <<cells, slots, store, acked>>

LEMMA MovingKeeps ==
    ASSUME IInv, NEW f \in File, NEW r, Moves(f, r),
           pc' \in {"idle", "store"}, res' \in {"OK", "ERROR", "FAIL"},
           op' \in [kind: Kinds, fd: File, val: Values \cup {0}, n: Nat],
           WriteHasValue'
    PROVE  IInv'
<1>1. PICK n \in 0 .. Slots : JournalOf(n)
  BY DEF IInv, Journal
<1>2. Metadata \in MetadataType /\ r \in Offset
  <2>1. Metadata \in MetadataType
    BY DEF IInv, TypeOK
  <2>2. Metadata[f].write_offset \in Offset
    BY <2>1 DEF MetadataType
  <2>3. r \in Nat /\ r <= Metadata[f].write_offset /\ OffsetMod \in Nat
    BY StorageAssumption DEF Moves
  <2> QED
    BY <2>1, <2>2, <2>3 DEF Offset
<1>3. /\ Metadata' \in MetadataType
      /\ \A h \in File : Metadata'[h].write_offset = Metadata[h].write_offset
      /\ \A h \in File : h # f => Metadata'[h] = Metadata[h]
      /\ Metadata'[f].read_offset = r
  BY <1>2 DEF MetadataType, Moves
<1>4. TypeOK'
  BY <1>3 DEF IInv, TypeOK, Moves, Kinds
<1>5. JournalOf(n)'
  BY <1>1 DEF JournalOf, Moves
<1>6. ReadBehindWrite'
  <2>1. \A h \in File : Metadata'[h].read_offset <= Metadata'[h].write_offset
    BY <1>3 DEF IInv, ReadBehindWrite, Moves
  <2> QED
    BY <2>1 DEF IInv, ReadBehindWrite, Moves
<1>7. NewestIsLoaded'
  BY <1>3 DEF IInv, NewestIsLoaded, Moves
<1> QED
  BY <1>4, <1>5, <1>6, <1>7 DEF IInv, Journal

LEMMA ReadKeeps == ASSUME IInv, NEW f \in File, StorageFileRead(f) PROVE IInv'
<1>1. /\ Metadata[f] \in [write_offset: Offset, read_offset: Offset]
      /\ Metadata[f].read_offset \in Nat /\ RecordSize[f] \in Nat
  BY StorageAssumption DEF IInv, TypeOK, MetadataType, Offset
<1>2. CASE res' = "ERROR" /\ UNCHANGED <<Metadata, op, pc>>
  <2>1. UNCHANGED <<cells, slots, Metadata, store, pc, op, acked>>
    BY <1>2 DEF StorageFileRead, flashVars
  <2>2. TypeOK'
    BY <1>2, <2>1 DEF IInv, TypeOK
  <2>3. ReadBehindWrite' /\ Journal' /\ NewestIsLoaded' /\ WriteHasValue'
    BY <2>1, StandingStill DEF IInv
  <2> QED
    BY <2>2, <2>3 DEF IInv
<1>3. CASE /\ Metadata[f].read_offset + RecordSize[f] <= Metadata[f].write_offset
           /\ op' = Call("read", f, 0) /\ pc' = "store" /\ res' = res
           /\ Metadata' = [Metadata EXCEPT ![f].read_offset = @ + RecordSize[f]]
  <2>1. Moves(f, Metadata[f].read_offset + RecordSize[f])
    BY <1>1, <1>3 DEF Moves, StorageFileRead, flashVars
  <2>2. /\ Call("read", f, 0) \in [kind: Kinds, fd: File, val: Values \cup {0}, n: Nat]
        /\ Call("read", f, 0).kind = "read"
    BY CallsAreCalls DEF Kinds
  <2> QED
    BY <1>3, <2>1, <2>2, MovingKeeps DEF IInv, TypeOK, WriteHasValue
<1> QED
  BY <1>2, <1>3 DEF StorageFileRead

LEMMA OffsetSetKeeps ==
    ASSUME IInv, NEW f \in File, NEW off \in Offsets, StorageFileReadOffsetSet(f, off)
    PROVE  IInv'
<1>1. /\ Metadata[f].read_offset \in Nat /\ Metadata[f].write_offset \in Nat /\ off \in Nat
      /\ Metadata[f].read_offset <= Metadata[f].write_offset
      /\ OffsetMod \in Nat \ {0}
  BY StorageAssumption DEF IInv, TypeOK, MetadataType, Offset, ReadBehindWrite
<1>2. PICK r \in UNION {RelativeSub(Metadata[f], off),
                       RelativeAdd(Metadata[f], off), Absolute(Metadata[f], off)} :
         Metadata' = [Metadata EXCEPT ![f].read_offset = r]
  BY DEF StorageFileReadOffsetSet
<1>3. r \in Nat /\ r <= Metadata[f].write_offset
  <2>1. CASE r \in RelativeSub(Metadata[f], off)
    BY <1>1, <2>1 DEF RelativeSub
  <2>2. CASE r \in RelativeAdd(Metadata[f], off)
    BY <1>1, <2>2 DEF RelativeAdd
  <2>3. CASE r \in Absolute(Metadata[f], off)
    BY <1>1, <2>3 DEF Absolute
  <2> QED
    BY <1>2, <2>1, <2>2, <2>3
<1>4. Moves(f, r)
  BY <1>2, <1>3 DEF Moves, StorageFileReadOffsetSet, flashVars
<1>5. WriteHasValue' /\ op' = op /\ pc' = "idle" /\ res' = "OK"
  BY DEF IInv, WriteHasValue, StorageFileReadOffsetSet
<1> QED
  BY <1>4, <1>5, MovingKeeps DEF IInv, TypeOK, Kinds

LEMMA PowerLossKeeps == ASSUME IInv, PowerLoss PROVE IInv'
<1> USE ConstantTypes, NoCallIsCall
<1>1. PICK n \in 0 .. Slots : JournalOf(n)
  BY DEF IInv, Journal
<1>2. acked' \in [File -> Seq(Values)]
  BY DEF IInv, TypeOK, PowerLoss, Surviving
<1>3. TypeOK'
  BY <1>2 DEF IInv, TypeOK, PowerLoss, flashVars, Kinds
<1>4. JournalOf(n)'
  BY <1>1 DEF JournalOf, PowerLoss, flashVars
<1>5. ReadBehindWrite'
  BY DEF IInv, ReadBehindWrite, PowerLoss, flashVars
<1>6. NewestIsLoaded' /\ WriteHasValue'
  BY DEF NewestIsLoaded, WriteHasValue, PowerLoss
<1> QED
  BY <1>3, <1>4, <1>5, <1>6 DEF IInv, Journal

LEMMA StepKeeps == IInv /\ [Next]_vars => IInv'
<1> SUFFICES ASSUME IInv, [Next]_vars PROVE IInv'
  OBVIOUS
<1>1. CASE StorageMount
  BY <1>1, MountKeeps
<1>2. CASE FormatData
  BY <1>2, FormatDataKeeps
<1>3. CASE FormatMetadata
  BY <1>3, FormatMetadataKeeps
<1>4. CASE StoreCopy
  BY <1>4, StoreCopyKeeps
<1>5. CASE StoreCrc
  BY <1>5, StoreCrcKeeps
<1>6. CASE CleanErase
  BY <1>6, CleanEraseKeeps
<1>7. CASE ProgramData
  BY <1>7, ProgramDataKeeps
<1>8. CASE \E f \in File, v \in Values : StorageFileWrite(f, v)
  BY <1>8, WriteKeeps
<1>9. CASE \E f \in File : StorageFileRead(f)
  BY <1>9, ReadKeeps
<1>10. CASE \E f \in File, off \in Offsets : StorageFileReadOffsetSet(f, off)
  BY <1>10, OffsetSetKeeps
<1>11. CASE PowerLoss
  BY <1>11, PowerLossKeeps
<1>12. CASE UNCHANGED vars
  <2>1. UNCHANGED <<cells, slots, Metadata, store, pc, op, res, acked>>
    BY <1>12 DEF vars
  <2>2. TypeOK'
    BY <2>1 DEF IInv, TypeOK
  <2>3. ReadBehindWrite' /\ Journal' /\ NewestIsLoaded' /\ WriteHasValue'
    BY <2>1, StandingStill DEF IInv
  <2> QED
    BY <2>2, <2>3 DEF IInv
<1> QED
  BY <1>1, <1>2, <1>3, <1>4, <1>5, <1>6, <1>7, <1>8, <1>9, <1>10, <1>11, <1>12
     DEF Next, Driver

-----------------------------------------------------------------------------
(* The inductive invariant holds in every reachable state of the driver.    *)
THEOREM InvariantCorrect == Spec => []IInv
BY InitInv, StepKeeps, PTL DEF Spec

(* Every variable keeps its type; in particular no offset leaves the range  *)
(* of an unsigned integer, because a record that was programmed ends inside *)
(* the data sector.                                                         *)
THEOREM TypeCorrect == Spec => []TypeOK
<1>1. IInv => TypeOK
  BY DEF IInv
<1> QED
  BY <1>1, InvariantCorrect, PTL

(* No read offset overtakes its write offset, in RAM and in every copy in   *)
(* the flash, for any offsets the users set, whether or not sums wrap.      *)
THEOREM ReadsStayBehind == Spec => []ReadBehindWrite
<1>1. IInv => ReadBehindWrite
  BY DEF IInv
<1> QED
  BY <1>1, InvariantCorrect, PTL

(* The metadata sector is a journal at every moment: valid copies, at most  *)
(* one torn one, erased slots; a mount finds the newest copy, wherever the  *)
(* power failed.                                                            *)
THEOREM JournalIsOrdered == Spec => []JournalIsPrefix
<1>1. ASSUME IInv PROVE JournalIsPrefix
  <2>1. PICK n \in 0 .. Slots : JournalOf(n)
    BY <1>1 DEF IInv, Journal
  <2>2. ValidSlots(slots) = n
    BY <1>1, <2>1, ValidSlotsOfJournal DEF IInv
  <2> QED
    BY <2>1, <2>2 DEF JournalOf, JournalIsPrefix
<1> QED
  BY <1>1, InvariantCorrect, PTL

(* What the idle driver knows of the ends of its files is what the next     *)
(* mount will know, unless a torn copy blocks the journal.                  *)
THEOREM OffsetsSurvive == Spec => []OffsetsArePersistent
<1>1. IInv => OffsetsArePersistent
  BY DEF IInv, NewestIsLoaded, OffsetsArePersistent
<1> QED
  BY <1>1, InvariantCorrect, PTL
-----------------------------------------------------------------------------
(* Records.  The j-th record of a file starts Offs(f, j - 1) bytes after     *)
(* the start of the file.                                                   *)

Offs(f, j) == j * RecordSize[f]

LEMMA OffsetFacts ==
    ASSUME NEW f \in File
    PROVE  /\ RecordSize[f] \in Nat \ {0}
           /\ Offs(f, 0) = 0
           /\ \A j \in Nat : Offs(f, j) \in Nat
           /\ \A j \in Nat : Offs(f, j + 1) = Offs(f, j) + RecordSize[f]
           /\ \A i, j \in Nat : i < j => Offs(f, i) + RecordSize[f] <= Offs(f, j)
           /\ \A j \in Nat : Offs(f, j) \div RecordSize[f] = j
<1> DEFINE r == RecordSize[f]
<1>1. r \in Nat \ {0}
  BY StorageAssumption
<1> HIDE DEF r
<1>2. 0 * r = 0 /\ \A j \in Nat : j * r \in Nat
  BY <1>1
<1>3. \A j \in Nat : (j + 1) * r = j * r + r
  BY <1>1
<1>4. ASSUME NEW i \in Nat, NEW j \in Nat, i < j PROVE i * r + r <= j * r
  <2>1. PICK d \in Nat : j = i + 1 + d
    <3>1. j - i - 1 \in Nat /\ j = i + 1 + (j - i - 1)
      BY <1>4
    <3> QED
      BY <3>1
  <2>2. d * r \in Nat
    BY <1>1
  <2>3. j * r = i * r + r + d * r
    BY <1>1, <2>1
  <2> QED
    BY <1>1, <2>2, <2>3
<1>5. \A j \in Nat : (j * r) \div r = j
  BY <1>1
<1> QED
  BY <1>1, <1>2, <1>3, <1>4, <1>5 DEF Offs, r

(* A record of the file that starts inside it: where its half-words are.    *)
LEMMA RecordPlace ==
    ASSUME RecordsFit, NEW f \in File, FileAddr[f] \in Nat, NEW k \in Nat \ {0},
           FileAddrIsValid(RecordAddr(f, k), f), k > 1 => ~OneRecord(f)
    PROVE  /\ RecordAddr(f, k) = FileAddr[f] + Offs(f, k - 1)
           /\ RecordAddr(f, k) \in Nat
           /\ RecordAddr(f, k) + 2 * HalfWords(RecordSize[f]) <= FileAddr[f] + FileSize[f]
           /\ HalfWords(RecordSize[f]) \in Nat
           /\ RecordSize[f] <= 2 * HalfWords(RecordSize[f])
           /\ FileSize[f] \in Nat \ {0}
<1>1. /\ RecordSize[f] \in Nat \ {0} /\ FileSize[f] \in Nat \ {0}
      /\ Offs(f, k - 1) \in Nat /\ Offs(f, 0) = 0
      /\ k - 1 > 0 => Offs(f, k - 1) >= k - 1
  <2>1. RecordSize[f] \in Nat \ {0} /\ FileSize[f] \in Nat \ {0} /\ k - 1 \in Nat
    BY StorageAssumption
  <2>2. ASSUME NEW r \in Nat \ {0}, NEW i \in Nat PROVE i * r >= i
    <3>1. PICK d \in Nat : r = d + 1
      BY r - 1 \in Nat /\ r = (r - 1) + 1
    <3>2. i * r = i * d + i /\ i * d \in Nat
      BY <3>1
    <3> QED
      BY <3>2
  <2>3. Offs(f, k - 1) >= k - 1
    BY <2>1, <2>2 DEF Offs
  <2> QED
    BY <2>1, <2>3, OffsetFacts
<1>2. RecordAddr(f, k) = FileAddr[f] + Offs(f, k - 1)
  BY DEF RecordAddr, Offs
<1>3. Offs(f, k - 1) < FileSize[f]
  BY <1>1, <1>2 DEF FileAddrIsValid
<1>4. k \in 1 .. FileSize[f]
  BY <1>1, <1>3
<1>5. Offs(f, k - 1) + 2 * HalfWords(RecordSize[f]) <= FileSize[f]
  BY <1>4 DEF RecordsFit, Offs
<1>6. HalfWords(RecordSize[f]) \in Nat /\ RecordSize[f] <= 2 * HalfWords(RecordSize[f])
  BY <1>1 DEF HalfWords
<1> QED
  BY <1>1, <1>2, <1>5, <1>6

LEMMA CellsOfRecord ==
    ASSUME NEW f \in File, NEW k \in Nat \ {0}, RecordAddr(f, k) \in Nat,
           RecordAddr(f, k) % 2 = 0
    PROVE  \A c \in RecordCells(f, k) :
              /\ c \in Nat
              /\ RecordAddr(f, k) <= 2 * c
              /\ 2 * c < RecordAddr(f, k) + RecordSize[f]
<1>1. RecordSize[f] \in Nat \ {0}
  BY StorageAssumption
<1>2. RecordAddr(f, k) = 2 * (RecordAddr(f, k) \div 2) /\ RecordAddr(f, k) \div 2 \in Nat
  OBVIOUS
<1>3. (RecordSize[f] - 1) \div 2 \in Nat /\ 2 * ((RecordSize[f] - 1) \div 2) < RecordSize[f]
  BY <1>1
<1> DEFINE h == RecordAddr(f, k) \div 2
           d == (RecordSize[f] - 1) \div 2
<1>4. ASSUME NEW c \in RecordCells(f, k) PROVE c \in h .. h + d
  BY DEF RecordCells
<1> HIDE DEF h, d
<1>5. h \in Nat /\ d \in Nat /\ 2 * d < RecordSize[f] /\ RecordAddr(f, k) = 2 * h
  BY <1>2, <1>3 DEF h, d
<1> QED
  BY <1>1, <1>4, <1>5

-----------------------------------------------------------------------------
(* The invariant about records.                                             *)

Awake == {"idle", "data", "store", "crc"}

(* A slot that is not erased keeps the driver from storing.                 *)
Blocked == pc # "crc" /\ store < Slots /\ slots[store].st # "erased"

(* The record is written and the metadata that shows it is not.             *)
Storing(f) == pc \in {"store", "crc"} /\ op.kind = "write" /\ op.fd = f

(* Record k of the file is in the flash, all of it, inside the file.        *)
Holds(f, k, v) ==
    /\ FileAddrIsValid(RecordAddr(f, k), f)
    /\ RecordAddr(f, k) % 2 = 0
    /\ \A c \in RecordCells(f, k) : c \in Cells /\ cells[c] = v

KindOfCall ==
    /\ pc = "data" => op.kind = "write"
    /\ pc \in {"store", "crc"} => op.kind # "none"
    /\ pc \notin {"data", "store", "crc"} => op.kind = "none"

(* Nothing is acknowledged where no copy of the metadata is or is made.     *)
EmptyOf(n) ==
    (n = 0 /\ pc \notin Awake) \/ op.kind = "format" => \A f \in File : acked[f] = <<>>

(* The newest copy shows the acknowledged records, no more and no less.     *)
NewestOf(n) ==
    n > 0 => \A f \in File : slots[n - 1].copy[f].write_offset = Offs(f, Len(acked[f]))

(* RAM counts whole records and never fewer than were acknowledged.  It is  *)
(* ahead by the record that is being stored, and by the records of which    *)
(* the metadata could not be stored when a torn slot blocks the journal.    *)
RamIsAt(f, j) ==
    /\ Metadata[f].write_offset = Offs(f, j)
    /\ j >= Len(acked[f])
    /\ ~Blocked => j = IF Storing(f) THEN Len(acked[f]) + 1 ELSE Len(acked[f])
RamIsAhead == pc \in Awake => \A f \in File : \E j \in Nat : RamIsAt(f, j)

OffsetsOf(n) == EmptyOf(n) /\ NewestOf(n) /\ KindOfCall /\ RamIsAhead

RecordsAreStored ==
    \A f \in File : \A k \in 1 .. Len(acked[f]) : Holds(f, k, acked[f][k])

(* The half-words of the record that are programmed so far.                 *)
Programming ==
    pc = "data" =>
        /\ FileAddrIsValid(WriteEnd(op.fd), op.fd)
        /\ op.n < HalfWords(RecordSize[op.fd])
        /\ op.n > 0 => WriteEnd(op.fd) % 2 = 0
        /\ \A i \in 0 .. op.n - 1 : 2 * i < RecordSize[op.fd] =>
              /\ WriteEnd(op.fd) \div 2 + i \in Cells
              /\ cells[WriteEnd(op.fd) \div 2 + i] = op.val

(* The record that is about to be acknowledged.                             *)
Programmed ==
    \A f \in File : Storing(f) /\ ~Blocked => Holds(f, Len(acked[f]) + 1, op.val)

Records == RecordsAreStored /\ Programming /\ Programmed
OffsetsAgree == \E n \in 0 .. Slots : JournalOf(n) /\ OffsetsOf(n)

(* The first record of a file whose records need padding is programmed, with *)
(* the half-word of zeros behind it.                                        *)
Closed(f) ==
    /\ FileAddr[f] % 2 = 0
    /\ RecordSize[f] % 2 = 0 => cells[(FileAddr[f] + RecordSize[f]) \div 2] = 0

(* Such a file has that record at most.                                     *)
PaddedOnce ==
    \A f \in File : OneRecord(f) =>
        /\ Len(acked[f]) <= 1 /\ (Len(acked[f]) > 0 => Closed(f))
        /\ pc \in Awake =>
              /\ Metadata[f].write_offset <= RecordSize[f]
              /\ Metadata[f].write_offset > 0 => Closed(f)
        /\ pc = "data" /\ op.fd = f /\ op.n > 0 => Metadata[f].write_offset = 0

RInv == IInv /\ OffsetsAgree /\ Records /\ PaddedOnce

LEMMA AckedType ==
    ASSUME TypeOK, NEW f \in File
    PROVE  /\ acked[f] \in Seq(Values) /\ Len(acked[f]) \in Nat
           /\ \A k \in 1 .. Len(acked[f]) : acked[f][k] \in Values
<1>1. acked[f] \in Seq(Values)
  BY DEF TypeOK
<1> QED
  BY <1>1

LEMMA AppendFacts ==
    ASSUME NEW s \in Seq(Values), NEW v \in Values
    PROVE  /\ Len(Append(s, v)) = Len(s) + 1
           /\ Append(s, v)[Len(s) + 1] = v
           /\ \A k \in 1 .. Len(s) : Append(s, v)[k] = s[k]
OBVIOUS

(* Steps between which neither the journal nor what is acknowledged changes. *)
LEMMA OffsetsKept ==
    ASSUME TypeOK, NEW n \in 0 .. Slots, JournalOf(n), OffsetsOf(n),
           UNCHANGED <<slots, store, acked>>,
           \A f \in File : Metadata'[f].write_offset = Metadata[f].write_offset,
           pc \in Awake, pc' \in Awake, pc = "crc" <=> pc' = "crc",
           \A f \in File : Storing(f)' <=> Storing(f),
           KindOfCall', op'.kind # "format" \/ op.kind = "format"
    PROVE  OffsetsOf(n)'
<1>1. Blocked' <=> Blocked
  BY DEF Blocked
<1>2. EmptyOf(n)' /\ NewestOf(n)'
  BY DEF EmptyOf, NewestOf, OffsetsOf, Offs
<1>3. ASSUME NEW f \in File, NEW j \in Nat, RamIsAt(f, j) PROVE RamIsAt(f, j)'
  BY <1>1, <1>3 DEF RamIsAt, Offs
<1>4. RamIsAhead'
  BY <1>3 DEF RamIsAhead, OffsetsOf
<1> QED
  BY <1>2, <1>4 DEF OffsetsOf

LEMMA InitRecords == Init => OffsetsAgree /\ Records
<1> SUFFICES ASSUME Init PROVE OffsetsAgree /\ Records
  OBVIOUS
<1>1. JournalOf(0)
  <2>1. \A s \in SlotNumbers : slots[s].st = "erased" /\ s \in Nat
    BY ErasedSlotsAreSlots, ConstantTypes DEF Init
  <2>2. pc = "boot" /\ store = 0
    BY DEF Init
  <2> QED
    BY <2>1, <2>2, ConstantTypes DEF JournalOf
<1>2. \A f \in File : acked[f] = <<>> /\ Len(acked[f]) = 0
  BY DEF Init
<1>3. pc = "boot" /\ op.kind = "none"
  BY NoCallIsCall DEF Init
<1>4. OffsetsOf(0)
  BY <1>2, <1>3 DEF OffsetsOf, EmptyOf, NewestOf, KindOfCall, RamIsAhead, Awake
<1>5. Records
  BY <1>2, <1>3 DEF Records, RecordsAreStored, Programming, Programmed, Storing
<1>6. 0 \in 0 .. Slots
  BY ConstantTypes
<1> QED
  BY <1>1, <1>4, <1>5, <1>6 DEF OffsetsAgree

LEMMA MountOffsets == ASSUME RInv, StorageMount, IInv' PROVE OffsetsAgree' /\ Records'
<1>1. PICK n \in 0 .. Slots : JournalOf(n) /\ OffsetsOf(n)
  BY DEF RInv, OffsetsAgree
<1>2. ValidSlots(slots) = n /\ pc = "boot" /\ op'.kind = "none"
  BY <1>1, ValidSlotsOfJournal, NoCallIsCall DEF RInv, IInv, StorageMount
<1>3. UNCHANGED <<cells, slots, acked>>
  BY DEF StorageMount, flashVars
<1>4. JournalOf(n)'
  BY <1>1, <1>2 DEF StorageMount, JournalOf, flashVars, ramVars
<1>5. Records'
  BY <1>2, <1>3 DEF RInv, Records, RecordsAreStored, Holds, Programming, Programmed, Storing, StorageMount
<1>6. CASE n > 0
  <2>1. Metadata' = slots[n - 1].copy /\ pc' = "idle"
    BY <1>2, <1>6 DEF StorageMount
  <2>2. ASSUME NEW f \in File PROVE RamIsAt(f, Len(acked[f]))'
    BY <1>1, <1>3, <1>6, <2>1 DEF RamIsAt, OffsetsOf, NewestOf, Storing, Offs
  <2>3. RamIsAhead'
    BY <1>3, <2>2, AckedType DEF RamIsAhead, RInv, IInv
  <2>4. EmptyOf(n)' /\ NewestOf(n)' /\ KindOfCall'
    BY <1>1, <1>2, <1>3, <1>6, <2>1 DEF EmptyOf, NewestOf, KindOfCall, Awake, OffsetsOf, Offs
  <2> QED
    BY <1>4, <1>5, <2>3, <2>4 DEF OffsetsAgree, OffsetsOf
<1>7. CASE n = 0
  <2>1. pc' = "format_data"
    BY <1>2, <1>7 DEF StorageMount
  <2>2. OffsetsOf(n)'
    BY <1>1, <1>2, <1>3, <1>7, <2>1 DEF OffsetsOf, EmptyOf, NewestOf, KindOfCall, RamIsAhead, Awake
  <2> QED
    BY <1>4, <1>5, <2>2 DEF OffsetsAgree
<1> QED
  BY <1>6, <1>7

LEMMA FormatDataOffsets == ASSUME RInv, FormatData, IInv' PROVE OffsetsAgree' /\ Records'
<1>1. PICK n \in 0 .. Slots : JournalOf(n) /\ OffsetsOf(n)
  BY DEF RInv, OffsetsAgree
<1>2. /\ pc = "format_data" /\ pc' = "format_metadata"
      /\ UNCHANGED <<slots, Metadata, store, op, acked>>
  BY DEF FormatData, ramVars
<1>3. n = 0 /\ JournalOf(n)'
  BY <1>1, <1>2 DEF JournalOf
<1>4. \A f \in File : acked[f] = <<>>
  BY <1>1, <1>2, <1>3 DEF OffsetsOf, EmptyOf, Awake
<1>5. OffsetsOf(n)'
  BY <1>1, <1>2, <1>3, <1>4 DEF OffsetsOf, EmptyOf, NewestOf, KindOfCall, RamIsAhead, Awake
<1>6. Records'
  <2>1. \A f \in File : Len(acked'[f]) = 0
    BY <1>2, <1>4
  <2> QED
    BY <1>2, <2>1 DEF Records, RecordsAreStored, Programming, Programmed, Storing
<1> QED
  BY <1>3, <1>5, <1>6 DEF OffsetsAgree

LEMMA FormatMetadataOffsets ==
    ASSUME RInv, FormatMetadata, IInv' PROVE OffsetsAgree' /\ Records'
<1>1. PICK n \in 0 .. Slots : JournalOf(n) /\ OffsetsOf(n)
  BY DEF RInv, OffsetsAgree
<1>2. /\ pc = "format_metadata" /\ pc' \in {"store", "failed"} /\ slots' = ErasedSlots
      /\ UNCHANGED <<cells, store, acked>>
      /\ pc' = "store" => Metadata' = ZeroMetadata /\ op'.kind = "format"
      /\ pc' = "failed" => op' = op
  BY CallsAreCalls, ConstantTypes DEF FormatMetadata, Kinds
<1>3. n = 0 /\ store = 0 /\ op.kind = "none"
  BY <1>1, <1>2 DEF JournalOf, OffsetsOf, KindOfCall
<1>4. JournalOf(0)'
  BY <1>2, <1>3, ErasedSlotsAreSlots, ConstantTypes DEF JournalOf, FormatMetadata
<1>5. \A f \in File : acked'[f] = <<>> /\ Len(acked'[f]) = 0
  BY <1>1, <1>2, <1>3 DEF OffsetsOf, EmptyOf, Awake
<1>6. RamIsAhead'
  <2>1. ASSUME NEW f \in File, pc' = "store" PROVE RamIsAt(f, 0)'
    <3>1. Metadata'[f].write_offset = 0 /\ Offs(f, 0) = 0 /\ ~Storing(f)' /\ Len(acked'[f]) = 0
      BY <1>2, <1>5, <2>1, ConstantTypes, OffsetFacts DEF Storing
    <3> QED
      BY <3>1 DEF RamIsAt, Offs
  <2> QED
    BY <1>2, <2>1 DEF RamIsAhead, Awake
<1>7. EmptyOf(0)' /\ NewestOf(0)' /\ KindOfCall'
  BY <1>2, <1>3, <1>5 DEF EmptyOf, NewestOf, KindOfCall
<1>8. Records'
  BY <1>2, <1>5 DEF Records, RecordsAreStored, Programming, Programmed, Storing
<1> QED
  BY <1>4, <1>6, <1>7, <1>8, ConstantTypes DEF OffsetsAgree, OffsetsOf

LEMMA StoreCopyOffsets == ASSUME RInv, StoreCopy, IInv' PROVE OffsetsAgree' /\ Records'
<1>1. PICK n \in 0 .. Slots : JournalOf(n) /\ OffsetsOf(n)
  BY DEF RInv, OffsetsAgree
<1>2. store = n /\ n \in SlotNumbers /\ pc = "store" /\ JournalOf(n)'
  BY <1>1, ConstantTypes, StoreCopyJournal DEF RInv, StoreCopy, JournalOf, SlotNumbers
<1>3. UNCHANGED <<cells, Metadata, store, acked>>
  BY DEF StoreCopy, ramVars
<1>4. CASE slots[store].st = "erased"
  <2>1. /\ pc' = "crc" /\ op' = op
        /\ slots' = [slots EXCEPT ![n].st = "torn"]
        /\ \A s \in SlotNumbers : s # n => slots'[s] = slots[s]
        /\ slots'[n].st = "torn"
    BY <1>2, <1>4 DEF StoreCopy, RInv, IInv, TypeOK
  <2>3. ~Blocked /\ ~Blocked'
    BY <1>2, <1>4, <2>1 DEF Blocked
  <2>4. \A f \in File : Storing(f)' <=> Storing(f)
    BY <1>2, <2>1 DEF Storing
  <2>5. EmptyOf(n)' /\ KindOfCall'
    BY <1>1, <1>2, <1>3, <2>1 DEF OffsetsOf, EmptyOf, KindOfCall, Awake
  <2>6. NewestOf(n)'
    <3>1. n > 0 => n - 1 \in SlotNumbers /\ n - 1 # n
      BY <1>2, ConstantTypes DEF SlotNumbers
    <3> QED
      BY <1>1, <1>3, <2>1, <3>1 DEF OffsetsOf, NewestOf, Offs
  <2>7. RamIsAhead'
    <3>1. ASSUME NEW f \in File, NEW j \in Nat, RamIsAt(f, j) PROVE RamIsAt(f, j)'
      BY <1>3, <2>3, <2>4, <3>1 DEF RamIsAt, Offs
    <3> QED
      BY <1>1, <1>2, <3>1 DEF OffsetsOf, RamIsAhead, Awake
  <2>8. Records'
    <3>1. \A f \in File : \A k, v : Holds(f, k, v)' <=> Holds(f, k, v)
      BY <1>3 DEF Holds
    <3>2. RecordsAreStored' /\ Programming'
      BY <1>3, <2>1, <3>1 DEF RInv, Records, RecordsAreStored, Programming
    <3>3. Programmed'
      BY <1>3, <2>1, <2>3, <2>4, <3>1 DEF RInv, Records, Programmed
    <3> QED
      BY <3>2, <3>3 DEF Records
  <2> QED
    BY <1>2, <2>5, <2>6, <2>7, <2>8 DEF OffsetsAgree, OffsetsOf
<1>5. CASE slots[store].st # "erased"
  <2>1. pc' = "idle" /\ op'.kind = "none" /\ slots' = slots
    BY <1>2, <1>5, NoCallIsCall DEF StoreCopy
  <2>3. Blocked /\ Blocked'
    BY <1>2, <1>3, <1>5, <2>1 DEF Blocked, StoreCopy
  <2>4. EmptyOf(n)' /\ NewestOf(n)' /\ KindOfCall'
    BY <1>1, <1>2, <1>3, <2>1 DEF OffsetsOf, EmptyOf, NewestOf, KindOfCall, Awake, Offs
  <2>5. RamIsAhead'
    <3>1. ASSUME NEW f \in File, NEW j \in Nat, RamIsAt(f, j) PROVE RamIsAt(f, j)'
      BY <1>3, <2>3, <3>1 DEF RamIsAt, Offs
    <3> QED
      BY <1>1, <1>2, <3>1 DEF OffsetsOf, RamIsAhead, Awake
  <2>6. Records'
    <3>1. \A f \in File : \A k, v : Holds(f, k, v)' <=> Holds(f, k, v)
      BY <1>3 DEF Holds
    <3> QED
      BY <1>3, <2>1, <2>3, <3>1 DEF RInv, Records, RecordsAreStored, Programming, Programmed
  <2> QED
    BY <1>2, <2>4, <2>5, <2>6 DEF OffsetsAgree, OffsetsOf
<1> QED
  BY <1>4, <1>5

(* The copy becomes the newest, and the record is acknowledged with it.     *)
LEMMA StoreCrcOffsets == ASSUME RInv, StoreCrc, IInv' PROVE OffsetsAgree' /\ Records'
<1>1. PICK n \in 0 .. Slots : JournalOf(n) /\ OffsetsOf(n)
  BY DEF RInv, OffsetsAgree
<1>2. /\ store = n /\ n \in SlotNumbers /\ n + 1 \in 0 .. Slots /\ store' = n + 1
      /\ pc = "crc" /\ ~Blocked /\ pc' \in {"boot", "idle"} /\ op'.kind = "none"
      /\ UNCHANGED <<cells, Metadata>>
  BY <1>1, NoCallIsCall, ConstantTypes DEF StoreCrc, JournalOf, SlotNumbers, Blocked
<1>3. /\ slots'[n].st = "valid" /\ slots'[n].copy = Metadata
      /\ \A s \in SlotNumbers : s # n => slots'[s] = slots[s]
  BY <1>2 DEF StoreCrc, RInv, IInv, TypeOK, SlotOf
<1>4. JournalOf(n + 1)'
  <2>1. \A f \in File : DataAddrIsValid(FileAddr[f])
    BY <1>1, <1>2 DEF JournalOf
  <2> QED
    BY <1>1, <1>2, <1>3, <2>1, ConstantTypes DEF JournalOf, StoreCrc, SlotNumbers
<1>5. ASSUME NEW f \in File
      PROVE  /\ acked'[f] = IF Storing(f) THEN Append(acked[f], op.val) ELSE acked[f]
             /\ Len(acked'[f]) = IF Storing(f) THEN Len(acked[f]) + 1 ELSE Len(acked[f])
             /\ Metadata'[f].write_offset = Offs(f, Len(acked'[f]))
  <2>1. acked'[f] = IF Storing(f) THEN Append(acked[f], op.val) ELSE acked[f]
    BY <1>2 DEF StoreCrc, Storing, RInv, IInv, TypeOK
  <2>2. Storing(f) => op.val \in Values
    BY DEF Storing, RInv, IInv, WriteHasValue
  <2>3. Len(acked'[f]) = IF Storing(f) THEN Len(acked[f]) + 1 ELSE Len(acked[f])
    BY <2>1, <2>2, AckedType DEF RInv, IInv
  <2>4. PICK j \in Nat : RamIsAt(f, j)
    BY <1>1, <1>2 DEF OffsetsOf, RamIsAhead, Awake
  <2>5. j = Len(acked'[f])
    BY <1>2, <2>3, <2>4 DEF RamIsAt
  <2> QED
    BY <1>2, <2>1, <2>3, <2>4, <2>5 DEF RamIsAt
<1>6. EmptyOf(n + 1)' /\ KindOfCall'
  BY <1>2 DEF EmptyOf, KindOfCall
<1>7. NewestOf(n + 1)'
  <2>1. (n + 1) - 1 = n /\ n + 1 > 0
    BY <1>2
  <2> QED
    BY <1>2, <1>3, <1>5, <2>1 DEF NewestOf, Offs
<1>8. RamIsAhead'
  <2>1. ASSUME NEW f \in File PROVE Len(acked'[f]) \in Nat /\ RamIsAt(f, Len(acked[f]))'
    <3>1. Len(acked'[f]) \in Nat
      BY <1>5, AckedType DEF RInv, IInv
    <3>2. ~Storing(f)'
      BY <1>2 DEF Storing
    <3> QED
      BY <1>5, <3>1, <3>2 DEF RamIsAt, Offs
  <2> QED
    BY <2>1 DEF RamIsAhead
<1>9. Records'
  <2>0. \A f \in File : Storing(f) => op.val \in Values
    BY DEF Storing, RInv, IInv, WriteHasValue
  <2>1. \A f \in File : \A k, v : Holds(f, k, v)' <=> Holds(f, k, v)
    BY <1>2 DEF Holds
  <2>2. ASSUME NEW f \in File, NEW k \in 1 .. Len(acked'[f])
        PROVE  Holds(f, k, acked'[f][k])
    <3>1. acked[f] \in Seq(Values) /\ Len(acked[f]) \in Nat
      BY AckedType DEF RInv, IInv
    <3>2. CASE k \in 1 .. Len(acked[f])
      <4>1. \/ acked'[f] = acked[f]
            \/ acked'[f] = Append(acked[f], op.val) /\ op.val \in Values
        BY <1>5, <2>0
      <4>2. acked'[f][k] = acked[f][k]
        BY <3>1, <3>2, <4>1, AppendFacts
      <4> QED
        BY <3>2, <4>2 DEF RInv, Records, RecordsAreStored
    <3>3. CASE Storing(f) /\ k = Len(acked[f]) + 1
      <4>1. acked'[f][k] = op.val
        <5>1. acked'[f] = Append(acked[f], op.val) /\ op.val \in Values
          BY <1>5, <2>0, <3>3
        <5> QED
          BY <3>1, <3>3, <5>1, AppendFacts
      <4> QED
        BY <1>2, <3>3, <4>1 DEF RInv, Records, Programmed
    <3> QED
      BY <1>5, <3>1, <3>2, <3>3
  <2> QED
    BY <1>2, <2>1, <2>2 DEF Records, RecordsAreStored, Programming, Programmed, Storing
<1> QED
  BY <1>2, <1>4, <1>6, <1>7, <1>8, <1>9 DEF OffsetsAgree, OffsetsOf

LEMMA CleanEraseOffsets == ASSUME RInv, CleanErase, IInv' PROVE OffsetsAgree' /\ Records'
<1>1. PICK n \in 0 .. Slots : JournalOf(n) /\ OffsetsOf(n)
  BY DEF RInv, OffsetsAgree
<1>2. /\ pc = "store" /\ store >= Slots /\ store' = 0 /\ slots' = ErasedSlots
      /\ UNCHANGED <<cells, Metadata, pc, op, acked>>
  BY DEF CleanErase
<1>3. ~Blocked /\ ~Blocked'
  BY <1>1, <1>2, ErasedSlotsAreSlots, ConstantTypes DEF Blocked, JournalOf
<1>4. JournalOf(0)'
  BY <1>1, <1>2, ErasedSlotsAreSlots, ConstantTypes DEF JournalOf
<1>5. EmptyOf(0)' /\ NewestOf(0)' /\ KindOfCall'
  BY <1>1, <1>2 DEF OffsetsOf, EmptyOf, NewestOf, KindOfCall, Awake
<1>6. RamIsAhead'
  <2>1. ASSUME NEW f \in File, NEW j \in Nat, RamIsAt(f, j) PROVE RamIsAt(f, j)'
    BY <1>2, <1>3, <2>1 DEF RamIsAt, Offs, Storing
  <2> QED
    BY <1>1, <1>2, <2>1 DEF OffsetsOf, RamIsAhead, Awake
<1>7. Records'
  <2>1. \A f \in File : \A k, v : Holds(f, k, v)' <=> Holds(f, k, v)
    BY <1>2 DEF Holds
  <2> QED
    BY <1>2, <1>3, <2>1 DEF RInv, Records, RecordsAreStored, Programming, Programmed, Storing
<1> QED
  BY <1>4, <1>5, <1>6, <1>7, ConstantTypes DEF OffsetsAgree, OffsetsOf

(* A call of the idle driver that starts without touching the flash, or is   *)
(* refused.                                                                 *)
LEMMA CallOffsets ==
    ASSUME RInv, IInv', pc = "idle", pc' \in Awake \ {"crc"},
           UNCHANGED <<cells, slots, store, acked>>,
           \A f \in File : Metadata'[f].write_offset = Metadata[f].write_offset,
           KindOfCall', op'.kind # "format", Programming',
           \A f \in File : ~Storing(f)'
    PROVE  OffsetsAgree' /\ Records'
<1>1. PICK n \in 0 .. Slots : JournalOf(n) /\ OffsetsOf(n)
  BY DEF RInv, OffsetsAgree
<1>2. n > 0 /\ JournalOf(n)'
  BY <1>1 DEF JournalOf, Awake
<1>3. OffsetsOf(n)'
  <2>1. \A f \in File : Storing(f)' <=> Storing(f)
    BY DEF Storing
  <2>2. TypeOK /\ pc \in Awake
    BY DEF RInv, IInv, Awake
  <2> QED
    BY <1>1, <2>1, <2>2, OffsetsKept DEF Awake
<1>4. Records'
  <2>1. \A f \in File : \A k, v : Holds(f, k, v)' <=> Holds(f, k, v)
    BY DEF Holds
  <2> QED
    BY <2>1 DEF RInv, Records, RecordsAreStored, Programmed
<1> QED
  BY <1>2, <1>3, <1>4 DEF OffsetsAgree

LEMMA WriteOffsets ==
    ASSUME RInv, NEW f \in File, NEW v \in Values, StorageFileWrite(f, v), IInv'
    PROVE  OffsetsAgree' /\ Records'
<1>1. pc = "idle" /\ UNCHANGED <<cells, slots, Metadata, store, acked>>
  BY DEF StorageFileWrite, flashVars, ramVars
<1>2. CASE pc' = "idle" /\ op' = op
  <2>1. op.kind = "none"
    BY <1>1 DEF RInv, OffsetsAgree, OffsetsOf, KindOfCall
  <2>2. KindOfCall' /\ Programming' /\ op'.kind # "format" /\ \A g \in File : ~Storing(g)'
    BY <1>2, <2>1 DEF KindOfCall, Programming, Storing
  <2> QED
    BY <1>1, <1>2, <2>2, CallOffsets DEF Awake
<1>3. CASE pc' = "data" /\ op' = Call("write", f, v) /\ FileAddrIsValid(WriteEnd(f), f)
  <2>1. op'.kind = "write" /\ op'.fd = f /\ op'.val = v /\ op'.n = 0
    BY <1>3 DEF Call
  <2>2. 0 < HalfWords(RecordSize[f])
    <3>1. RecordSize[f] \in Nat \ {0}
      BY OffsetFacts
    <3> QED
      BY <3>1 DEF HalfWords
  <2>3. Programming'
    BY <1>1, <1>3, <2>1, <2>2 DEF Programming, WriteEnd
  <2>4. KindOfCall' /\ op'.kind # "format" /\ \A g \in File : ~Storing(g)'
    BY <1>3, <2>1 DEF KindOfCall, Storing
  <2> QED
    BY <1>1, <1>3, <2>3, <2>4, CallOffsets DEF Awake
<1> QED
  BY <1>1, <1>2, <1>3 DEF StorageFileWrite

LEMMA ReadOffsets ==
    ASSUME RInv, NEW f \in File, StorageFileRead(f), IInv'
    PROVE  OffsetsAgree' /\ Records'
<1>1. pc = "idle" /\ UNCHANGED <<cells, slots, store, acked>>
  BY DEF StorageFileRead, flashVars
<1>2. op.kind = "none"
  BY <1>1 DEF RInv, OffsetsAgree, OffsetsOf, KindOfCall
<1>3. \A g \in File : Metadata'[g].write_offset = Metadata[g].write_offset
  <2>1. Metadata' = Metadata \/ \E r : Metadata' = [Metadata EXCEPT ![f].read_offset = r]
    BY DEF StorageFileRead
  <2>2. ASSUME NEW r, Metadata' = [Metadata EXCEPT ![f].read_offset = r]
        PROVE  \A g \in File : Metadata'[g].write_offset = Metadata[g].write_offset
    BY <2>2 DEF RInv, IInv, TypeOK, MetadataType
  <2> QED
    BY <2>1, <2>2
<1>4. \/ pc' = "idle" /\ op' = op
      \/ pc' = "store" /\ op'.kind = "read"
  BY <1>1 DEF StorageFileRead, Call
<1>5. KindOfCall' /\ Programming' /\ op'.kind # "format" /\ \A g \in File : ~Storing(g)'
  BY <1>2, <1>4 DEF KindOfCall, Programming, Storing
<1> QED
  BY <1>1, <1>3, <1>4, <1>5, CallOffsets DEF Awake

LEMMA OffsetSetOffsets ==
    ASSUME RInv, NEW f \in File, NEW off \in Offsets, StorageFileReadOffsetSet(f, off), IInv'
    PROVE  OffsetsAgree' /\ Records'
<1>1. pc = "idle" /\ UNCHANGED <<cells, slots, store, pc, op, acked>>
  BY DEF StorageFileReadOffsetSet, flashVars
<1>2. op.kind = "none"
  BY <1>1 DEF RInv, OffsetsAgree, OffsetsOf, KindOfCall
<1>3. \A g \in File : Metadata'[g].write_offset = Metadata[g].write_offset
  <2>1. PICK r : Metadata' = [Metadata EXCEPT ![f].read_offset = r]
    BY DEF StorageFileReadOffsetSet
  <2> QED
    BY <2>1 DEF RInv, IInv, TypeOK, MetadataType
<1>4. KindOfCall' /\ Programming' /\ op'.kind # "format" /\ \A g \in File : ~Storing(g)'
  BY <1>1, <1>2 DEF KindOfCall, Programming, Storing
<1> QED
  BY <1>1, <1>3, <1>4, CallOffsets DEF Awake

LEMMA PowerLossOffsets == ASSUME RInv, PowerLoss, IInv' PROVE OffsetsAgree' /\ Records'
<1>1. PICK n \in 0 .. Slots : JournalOf(n) /\ OffsetsOf(n)
  BY DEF RInv, OffsetsAgree
<1>2. ValidSlots(slots) = n /\ pc' = "boot" /\ op'.kind = "none"
  BY <1>1, ValidSlotsOfJournal, NoCallIsCall DEF RInv, IInv, PowerLoss
<1>3. JournalOf(n)' /\ UNCHANGED <<cells, slots>>
  BY <1>1 DEF JournalOf, PowerLoss, flashVars
<1>4. \/ n > 0 /\ acked' = acked
      \/ n = 0 /\ \A f \in File : acked'[f] = <<>>
  BY <1>2 DEF PowerLoss, Surviving
<1>5. EmptyOf(n)' /\ KindOfCall' /\ RamIsAhead'
  BY <1>2, <1>4 DEF EmptyOf, KindOfCall, RamIsAhead, Awake
<1>6. NewestOf(n)'
  BY <1>1, <1>3, <1>4 DEF OffsetsOf, NewestOf, Offs
<1>7. Records'
  <2>1. \A f \in File : \A k, v : Holds(f, k, v)' <=> Holds(f, k, v)
    BY <1>3 DEF Holds
  <2>2. n = 0 => \A f \in File : Len(acked'[f]) = 0
    BY <1>4
  <2>3. RecordsAreStored'
    BY <1>4, <2>1, <2>2 DEF RInv, Records, RecordsAreStored
  <2> QED
    BY <1>2, <2>3 DEF Records, Programming, Programmed, Storing
<1> QED
  BY <1>3, <1>5, <1>6, <1>7 DEF OffsetsAgree, OffsetsOf

(* Behind a record that needs padding nothing is programmed: the address is *)
(* odd, or its half-word holds a zero of the padding.                       *)
LEMMA PaddingRefuses ==
    ASSUME RInv, pc = "data", OneRecord(op.fd),
           CanProgram(WriteEnd(op.fd) + 2 * op.n, HalfWord(op.val, RecordSize[op.fd], op.n))
    PROVE  Metadata[op.fd].write_offset = 0
<1> DEFINE g == op.fd
           m == Metadata[g].write_offset
<1>1. PICK n \in 0 .. Slots : JournalOf(n) /\ OffsetsOf(n)
  BY DEF RInv, OffsetsAgree
<1>2. /\ g \in File /\ op.n \in Nat /\ FileAddr[g] \in Nat /\ RecordSize[g] \in Nat \ {0}
      /\ op.val \in Values
  BY <1>1, OffsetFacts DEF RInv, IInv, TypeOK, JournalOf, DataAddrIsValid, WriteHasValue,
     OffsetsOf, KindOfCall
<1>3. /\ m <= RecordSize[g]
      /\ m > 0 => Closed(g)
      /\ op.n > 0 => m = 0
  BY <1>2 DEF RInv, PaddedOnce, Awake
<1>4. m = 0 \/ m = RecordSize[g]
  <2>1. PICK j \in Nat : RamIsAt(g, j)
    BY <1>1, <1>2 DEF OffsetsOf, RamIsAhead, Awake
  <2>2. m = Offs(g, j) /\ Offs(g, 0) = 0 /\ Offs(g, j) \in Nat
    BY <1>2, <2>1, OffsetFacts DEF RamIsAt
  <2>3. 0 < j => Offs(g, 0) + RecordSize[g] <= Offs(g, j)
    BY <1>2, OffsetFacts
  <2>4. j = 0 \/ 0 < j
    OBVIOUS
  <2> HIDE DEF m
  <2> QED
    BY <1>2, <1>3, <2>2, <2>3, <2>4
<1>5. ASSUME m = RecordSize[g], op.n = 0 PROVE FALSE
  <2> DEFINE a == FileAddr[g] + RecordSize[g]
  <2>1. WriteEnd(g) + 2 * op.n = a
    BY <1>2, <1>5 DEF WriteEnd
  <2>2. HalfWord(op.val, RecordSize[g], op.n) = op.val
    BY <1>2, <1>5 DEF HalfWord
  <2>3. a % 2 = 0 /\ (cells[a \div 2] = Erased \/ op.val = 0)
    BY <2>1, <2>2 DEF CanProgram
  <2>4. /\ FileAddr[g] % 2 = 0
        /\ RecordSize[g] % 2 = 0 => cells[a \div 2] = 0
    BY <1>2, <1>3, <1>5 DEF Closed
  <2> HIDE DEF g
  <2>5. RecordSize[g] % 2 = 0
    BY <1>2, <2>3, <2>4
  <2>6. 0 \notin Values
    BY <2>5 DEF OneRecord, g
  <2>7. cells[a \div 2] # Erased
    BY <2>4, <2>5 DEF Erased
  <2> QED
    BY <1>2, <2>3, <2>6, <2>7
<1> QED
  BY <1>2, <1>3, <1>4, <1>5

(* The half-word that is programmed next belongs to the file that is        *)
(* written, and to none of the records that were acknowledged.              *)
LEMMA ProgrammedCell ==
    ASSUME FilesAreApart, RecordsFit, RInv, pc = "data",
           CanProgram(WriteEnd(op.fd) + 2 * op.n, HalfWord(op.val, RecordSize[op.fd], op.n))
    PROVE  LET c == (WriteEnd(op.fd) + 2 * op.n) \div 2 IN
           /\ c \in Cells
           /\ WriteEnd(op.fd) \in Nat /\ WriteEnd(op.fd) % 2 = 0
           /\ c = WriteEnd(op.fd) \div 2 + op.n
           /\ \A f \in File : FileAddrIsValid(2 * c, f) <=> f = op.fd
           /\ \A f \in File, k \in Nat \ {0} : \A v :
                 k <= Len(acked[f]) /\ Holds(f, k, v) => c \notin RecordCells(f, k)
<1> DEFINE g == op.fd
           w == WriteEnd(g)
           a == w + 2 * op.n
           c == a \div 2
<1>0. CanProgram(a, HalfWord(op.val, RecordSize[g], op.n))
  OBVIOUS
<1>1. PICK n \in 0 .. Slots : JournalOf(n) /\ OffsetsOf(n)
  BY DEF RInv, OffsetsAgree
<1>2. g \in File /\ op.n \in Nat /\ \A f \in File : FileAddr[f] \in Nat /\ FileSize[f] \in Nat \ {0}
  BY <1>1, StorageAssumption DEF RInv, IInv, TypeOK, JournalOf, DataAddrIsValid
<1>3. PICK j \in Nat : RamIsAt(g, j)
  BY <1>1, <1>2 DEF OffsetsOf, RamIsAhead, Awake
<1>4. w = RecordAddr(g, j + 1) /\ w = FileAddr[g] + Offs(g, j)
  <2>1. Metadata[g].write_offset = Offs(g, j) /\ (j + 1) - 1 = j
    BY <1>3 DEF RamIsAt
  <2> QED
    BY <2>1 DEF WriteEnd, RecordAddr, Offs
<1>5. FileAddrIsValid(w, g) /\ op.n < HalfWords(RecordSize[g])
  BY DEF RInv, Records, Programming
<1>6. /\ w \in Nat /\ FileAddr[g] <= w
      /\ w + 2 * HalfWords(RecordSize[g]) <= FileAddr[g] + FileSize[g]
      /\ HalfWords(RecordSize[g]) \in Nat
  <2>1. j + 1 \in Nat \ {0}
    OBVIOUS
  <2> HIDE DEF w, g
  <2>2. FileAddrIsValid(RecordAddr(g, j + 1), g)
    BY <1>4, <1>5
  <2>3. Offs(g, j) \in Nat
    BY <1>2, OffsetFacts
  <2>4. j + 1 > 1 => ~OneRecord(g)
    <3>1. OneRecord(g) => Metadata[g].write_offset = 0
      BY <1>0, <1>2, PaddingRefuses DEF g
    <3>2. 0 < j => Offs(g, 0) + RecordSize[g] <= Offs(g, j)
      BY <1>2, OffsetFacts
    <3>3. Metadata[g].write_offset = Offs(g, j) /\ Offs(g, 0) = 0 /\ RecordSize[g] \in Nat \ {0}
      BY <1>2, <1>3, OffsetFacts DEF RamIsAt
    <3> QED
      BY <2>3, <3>1, <3>2, <3>3
  <2> QED
    BY <1>2, <1>4, <2>1, <2>2, <2>3, <2>4, RecordPlace
<1>7. a % 2 = 0 /\ c \in Cells
  BY DEF CanProgram
<1> HIDE DEF g, w
<1>8. /\ a = 2 * c /\ w % 2 = 0 /\ c = w \div 2 + op.n /\ c \in Nat
      /\ w <= 2 * c /\ 2 * c < FileAddr[g] + FileSize[g]
  BY <1>2, <1>5, <1>6, <1>7
<1> HIDE DEF c, a
<1>9. \A f \in File : FileAddrIsValid(2 * c, f) <=> f = g
  <2>1. FileAddrIsValid(2 * c, g)
    BY <1>2, <1>6, <1>8 DEF FileAddrIsValid
  <2>2. ASSUME NEW f \in File, f # g, FileAddrIsValid(2 * c, f) PROVE FALSE
    <3>1. f < g \/ g < f
      BY <1>2, <2>2, StorageAssumption DEF File
    <3>2. 2 * c < FileAddr[f] + FileSize[f] /\ FileAddr[f] <= 2 * c
      BY <1>2, <1>8, <2>2 DEF FileAddrIsValid
    <3> QED
      BY <1>2, <1>6, <1>8, <3>1, <3>2 DEF FilesAreApart
  <2> QED
    BY <2>1, <2>2
<1>10. ASSUME NEW f \in File, NEW k \in Nat \ {0}, NEW v, k <= Len(acked[f]), Holds(f, k, v),
              c \in RecordCells(f, k)
       PROVE  FALSE
  <2>1. /\ RecordAddr(f, k) = FileAddr[f] + Offs(f, k - 1)
        /\ RecordAddr(f, k) \in Nat
        /\ RecordAddr(f, k) + RecordSize[f] <= FileAddr[f] + FileSize[f]
        /\ RecordSize[f] \in Nat
    <3>1. /\ RecordAddr(f, k) = FileAddr[f] + Offs(f, k - 1)
          /\ RecordAddr(f, k) \in Nat
          /\ RecordAddr(f, k) + 2 * HalfWords(RecordSize[f]) <= FileAddr[f] + FileSize[f]
          /\ HalfWords(RecordSize[f]) \in Nat
          /\ RecordSize[f] <= 2 * HalfWords(RecordSize[f])
          /\ RecordSize[f] \in Nat
      <4>1. k > 1 => ~OneRecord(f)
        BY <1>10, AckedType DEF RInv, IInv, PaddedOnce
      <4> QED
        BY <1>2, <1>10, <4>1, RecordPlace, OffsetFacts DEF Holds
    <3> QED
      BY <1>2, <3>1
  <2>2. RecordAddr(f, k) <= 2 * c /\ 2 * c < RecordAddr(f, k) + RecordSize[f]
    BY <1>10, <2>1, CellsOfRecord DEF Holds
  <2>3. CASE f = g
    <3>1. Len(acked[g]) \in Nat /\ j >= Len(acked[g])
      BY <1>2, <1>3, AckedType DEF RamIsAt, RInv, IInv
    <3>2. k - 1 \in Nat /\ k - 1 < j
      BY <1>10, <2>3, <3>1
    <3>3. Offs(g, k - 1) + RecordSize[g] <= Offs(g, j) /\ Offs(g, j) \in Nat
      BY <1>2, <3>2, OffsetFacts
    <3>4. 2 * c < w
      <4>1. 2 * c < FileAddr[g] + Offs(g, k - 1) + RecordSize[g]
        BY <2>1, <2>2, <2>3
      <4>2. Offs(g, k - 1) \in Nat
        BY <1>2, <3>2, OffsetFacts
      <4> QED
        BY <1>2, <1>4, <1>8, <2>1, <2>3, <3>3, <4>1, <4>2
    <3> QED
      BY <1>6, <1>8, <3>4
  <2>4. CASE f # g
    <3>1. Offs(f, k - 1) \in Nat
      <4>1. k - 1 \in Nat
        OBVIOUS
      <4> QED
        BY <4>1, OffsetFacts
    <3>2. FileAddrIsValid(2 * c, f)
      BY <1>2, <1>8, <2>1, <2>2, <3>1 DEF FileAddrIsValid
    <3> QED
      BY <1>9, <2>4, <3>2
  <2> QED
    BY <2>3, <2>4
<1> QED
  BY <1>6, <1>7, <1>8, <1>9, <1>10 DEF c, a, w, g

LEMMA ProgramDataOffsets ==
    ASSUME FilesAreApart, RecordsFit, RInv, ProgramData, IInv'
    PROVE  OffsetsAgree' /\ Records'
<1>0. PICK g \in File : g = op.fd
  BY DEF RInv, IInv, TypeOK
<1> DEFINE w == WriteEnd(g)
           a == w + 2 * op.n
           c == a \div 2
           v == HalfWord(op.val, RecordSize[g], op.n)
           last == op.n + 1 = HalfWords(RecordSize[g])
<1>1. PICK n \in 0 .. Slots : JournalOf(n) /\ OffsetsOf(n)
  BY DEF RInv, OffsetsAgree
<1>2. /\ pc = "data" /\ op.kind = "write" /\ n > 0
      /\ UNCHANGED <<slots, store, acked>>
  BY <1>1 DEF ProgramData, OffsetsOf, KindOfCall, JournalOf
<1>3. /\ g \in File /\ op.n \in Nat /\ RecordSize[g] \in Nat \ {0}
      /\ HalfWords(RecordSize[g]) \in Nat
      /\ op \in [kind: Kinds, fd: File, val: Values \cup {0}, n: Nat]
      /\ cells \in [Cells -> Contents]
      /\ Metadata \in [File -> [write_offset: Offset, read_offset: Offset]]
  <2>1. /\ g \in File /\ op.n \in Nat /\ RecordSize[g] \in Nat \ {0}
        /\ op \in [kind: Kinds, fd: File, val: Values \cup {0}, n: Nat]
        /\ cells \in [Cells -> Contents]
        /\ Metadata \in [File -> [write_offset: Offset, read_offset: Offset]]
    BY <1>0, OffsetFacts DEF RInv, IInv, TypeOK, MetadataType, Kinds
  <2> QED
    BY <2>1 DEF HalfWords
<1>4. CASE ~CanProgram(a, v)
  <2>1. pc' = "idle" /\ op'.kind = "none" /\ UNCHANGED <<cells, Metadata>>
    BY <1>0, <1>4, NoCallIsCall DEF ProgramData
  <2>2. KindOfCall' /\ \A f \in File : Storing(f)' <=> Storing(f)
    BY <1>2, <2>1 DEF KindOfCall, Storing
  <2>3. OffsetsOf(n)'
    BY <1>1, <1>2, <2>1, <2>2, OffsetsKept DEF RInv, IInv, Awake
  <2>4. JournalOf(n)'
    BY <1>1, <1>2, <2>1 DEF JournalOf
  <2>5. Records'
    <3>1. \A f \in File : \A k, x : Holds(f, k, x)' <=> Holds(f, k, x)
      BY <2>1 DEF Holds
    <3> QED
      BY <1>2, <2>1, <3>1 DEF RInv, Records, RecordsAreStored, Programming, Programmed, Storing
  <2> QED
    BY <2>3, <2>4, <2>5 DEF OffsetsAgree
<1>5. CASE CanProgram(a, v)
  <2>1. /\ cells' = [cells EXCEPT ![c] = v]
        /\ op' = [op EXCEPT !.n = @ + 1]
        /\ ~last => pc' = "data" /\ Metadata' = Metadata
        /\ last => /\ pc' = "store"
                   /\ Metadata' = [Metadata EXCEPT ![g].write_offset = @ + RecordSize[g]]
    BY <1>0, <1>5 DEF ProgramData
  <2>2. op'.kind = "write" /\ op'.fd = g /\ op'.val = op.val /\ op'.n = op.n + 1
    <3>1. [op EXCEPT !.n = @ + 1] = [kind |-> op.kind, fd |-> op.fd, val |-> op.val, n |-> op.n + 1]
      BY <1>3
    <3> QED
      BY <1>0, <1>2, <2>1, <3>1
  <2>3. /\ c \in Cells /\ w \in Nat /\ w % 2 = 0 /\ c = w \div 2 + op.n
        /\ \A f \in File, k \in Nat \ {0} : \A x :
              k <= Len(acked[f]) /\ Holds(f, k, x) => c \notin RecordCells(f, k)
    BY <1>0, <1>2, <1>5, ProgrammedCell
  <2> HIDE DEF c
  <2>4. cells'[c] = v /\ \A d \in Cells : d # c => cells'[d] = cells[d]
    BY <1>3, <2>1, <2>3
  <2>5. RecordsAreStored'
    <3>1. ASSUME NEW f \in File, NEW k \in 1 .. Len(acked[f]) PROVE Holds(f, k, acked[f][k])'
      <4>1. Holds(f, k, acked[f][k]) /\ k \in Nat \ {0} /\ k <= Len(acked[f])
        BY AckedType DEF RInv, IInv, Records, RecordsAreStored
      <4>2. c \notin RecordCells(f, k)
        BY <2>3, <4>1
      <4> QED
        BY <1>2, <2>4, <4>1, <4>2 DEF Holds
    <3> QED
      BY <1>2, <3>1 DEF RecordsAreStored
  <2>6. JournalOf(n)'
    BY <1>1, <1>2, <2>1 DEF JournalOf
  <2>7. Blocked' <=> Blocked
    BY <1>2, <2>1 DEF Blocked
  <2>8. /\ FileAddrIsValid(w, g) /\ op.n < HalfWords(RecordSize[g])
        /\ \A i \in 0 .. op.n - 1 : 2 * i < RecordSize[g] =>
              w \div 2 + i \in Cells /\ cells[w \div 2 + i] = op.val
    BY <1>0, <1>2 DEF RInv, Records, Programming
  <2> HIDE DEF w, v
  <2>9. \A i \in 0 .. op.n : 2 * i < RecordSize[g] =>
            w \div 2 + i \in Cells /\ cells'[w \div 2 + i] = op.val
    <3> SUFFICES ASSUME NEW i \in 0 .. op.n, 2 * i < RecordSize[g]
                 PROVE  w \div 2 + i \in Cells /\ cells'[w \div 2 + i] = op.val
      OBVIOUS
    <3>1. CASE i = op.n
      <4>1. v = op.val
        BY <1>0, <3>1 DEF HalfWord, v
      <4> QED
        BY <2>3, <2>4, <3>1, <4>1
    <3>2. CASE i # op.n
      <4>1. i \in 0 .. op.n - 1 /\ w \div 2 + i # c
        BY <1>3, <2>3, <3>2
      <4> QED
        BY <2>4, <2>8, <4>1
    <3> QED
      BY <3>1, <3>2
  <2>10. CASE ~last
    <3>1. pc' = "data" /\ Metadata' = Metadata
      BY <2>1, <2>10
    <3>2. KindOfCall' /\ \A f \in File : Storing(f)' <=> Storing(f)
      BY <1>2, <2>2, <3>1 DEF KindOfCall, Storing
    <3>3. OffsetsOf(n)'
      BY <1>1, <1>2, <2>2, <3>1, <3>2, OffsetsKept DEF RInv, IInv, Awake
    <3>4. WriteEnd(g)' = w
      BY <3>1 DEF WriteEnd, w
    <3>5. Programming'
      <4>1. op.n + 1 < HalfWords(RecordSize[g])
        BY <1>3, <2>8, <2>10
      <4>2. (op.n + 1) - 1 = op.n
        BY <1>3
      <4> QED
        BY <2>2, <2>3, <2>8, <2>9, <3>4, <4>1, <4>2 DEF Programming
    <3>6. Programmed'
      BY <3>1 DEF Programmed, Storing
    <3> QED
      BY <2>5, <2>6, <3>3, <3>5, <3>6 DEF OffsetsAgree, Records
  <2>11. CASE last
    <3>1. pc' = "store" /\ Metadata' = [Metadata EXCEPT ![g].write_offset = @ + RecordSize[g]]
      BY <2>1, <2>11
    <3>2. \A f \in File : ~Storing(f) /\ (Storing(f)' <=> f = g)
      BY <1>0, <1>2, <2>2, <3>1 DEF Storing
    <3>3. /\ \A f \in File : f # g => Metadata'[f].write_offset = Metadata[f].write_offset
          /\ Metadata'[g].write_offset = Metadata[g].write_offset + RecordSize[g]
      BY <1>3, <3>1
    <3>4. RamIsAhead'
      <4>1. ASSUME NEW f \in File, NEW j \in Nat, RamIsAt(f, j)
            PROVE  RamIsAt(f, IF f = g THEN j + 1 ELSE j)'
        <5>1. CASE f # g
          BY <1>2, <2>7, <3>2, <3>3, <4>1, <5>1 DEF RamIsAt, Offs
        <5>2. CASE f = g
          <6>1. Metadata'[g].write_offset = Offs(g, j + 1)
            <7>1. Offs(g, j + 1) = Offs(g, j) + RecordSize[g]
              BY <1>3, OffsetFacts
            <7> QED
              BY <3>3, <4>1, <5>2, <7>1 DEF RamIsAt
          <6>2. Len(acked[g]) \in Nat
            BY <1>3, AckedType DEF RInv, IInv
          <6>3. RamIsAt(g, j + 1)'
            BY <1>2, <1>3, <2>7, <3>2, <4>1, <5>2, <6>1, <6>2 DEF RamIsAt, Offs
          <6> QED
            BY <5>2, <6>3
        <5> QED
          BY <5>1, <5>2
      <4>2. \A f \in File : \E j \in Nat : RamIsAt(f, j)
        BY <1>1, <1>2 DEF OffsetsOf, RamIsAhead, Awake
      <4>3. \A j \in Nat, f \in File : (IF f = g THEN j + 1 ELSE j) \in Nat
        OBVIOUS
      <4> QED
        BY <4>1, <4>2, <4>3 DEF RamIsAhead
    <3>5. EmptyOf(n)' /\ NewestOf(n)' /\ KindOfCall'
      BY <1>1, <1>2, <2>2, <3>1 DEF OffsetsOf, EmptyOf, NewestOf, KindOfCall, Offs
    <3>6. Programming'
      BY <3>1 DEF Programming
    <3>7. ASSUME ~Blocked' PROVE Holds(g, Len(acked[g]) + 1, op.val)'
      <4>1. PICK j \in Nat : RamIsAt(g, j)
        BY <1>1, <1>2, <1>3 DEF OffsetsOf, RamIsAhead, Awake
      <4>2. Metadata[g].write_offset = Offs(g, Len(acked[g]))
        BY <1>3, <2>7, <3>2, <3>7, <4>1 DEF RamIsAt
      <4>3. Len(acked[g]) \in Nat
        BY <1>3, AckedType DEF RInv, IInv
      <4>4. w = RecordAddr(g, Len(acked[g]) + 1)
        <5>1. (Len(acked[g]) + 1) - 1 = Len(acked[g])
          BY <4>3
        <5> QED
          BY <4>2, <5>1 DEF w, WriteEnd, RecordAddr, Offs
      <4>5. ASSUME NEW d \in RecordCells(g, Len(acked[g]) + 1)
            PROVE  d \in Cells /\ cells'[d] = op.val
        <5>1. d \in w \div 2 .. w \div 2 + (RecordSize[g] - 1) \div 2
          BY <4>4 DEF RecordCells
        <5>2. (RecordSize[g] - 1) \div 2 \in Nat /\ 2 * ((RecordSize[g] - 1) \div 2) < RecordSize[g]
          BY <1>3
        <5>3. PICK i \in Nat : d = w \div 2 + i /\ i <= (RecordSize[g] - 1) \div 2
          <6>1. w \div 2 \in Nat
            BY <2>3
          <6>2. \A x, y \in Nat : \A z \in x .. x + y : z - x \in Nat /\ z = x + (z - x) /\ z - x <= y
            OBVIOUS
          <6> QED
            BY <5>1, <5>2, <6>1, <6>2
        <5>4. 2 * i < RecordSize[g]
          BY <1>3, <5>2, <5>3
        <5>5. op.n + 1 = HalfWords(RecordSize[g]) /\ RecordSize[g] <= 2 * HalfWords(RecordSize[g])
          BY <1>3, <2>11 DEF HalfWords
        <5>6. i \in 0 .. op.n
          BY <1>3, <5>4, <5>5
        <5> QED
          BY <2>9, <5>3, <5>4, <5>6
      <4>6. RecordAddr(g, Len(acked[g]) + 1)' = RecordAddr(g, Len(acked[g]) + 1)
        BY <1>2 DEF RecordAddr
      <4>7. RecordCells(g, Len(acked[g]) + 1)' = RecordCells(g, Len(acked[g]) + 1)
        BY <1>2 DEF RecordCells, RecordAddr
      <4> QED
        BY <2>2, <2>3, <2>8, <4>4, <4>5, <4>6, <4>7 DEF Holds, FileAddrIsValid
    <3>8. Programmed'
      BY <1>2, <2>2, <3>2, <3>7 DEF Programmed
    <3> QED
      BY <2>5, <2>6, <3>4, <3>5, <3>6, <3>8 DEF OffsetsAgree, OffsetsOf, Records
  <2> QED
    BY <2>10, <2>11
<1> QED
  BY <1>4, <1>5

(* Steps that leave alone what is acknowledged and programmed.              *)
LEMMA PaddedStands ==
    ASSUME RInv, UNCHANGED <<cells, acked>>, pc' \in Awake => pc \in Awake,
           pc' \in Awake =>
              \A f \in File : Metadata'[f].write_offset = Metadata[f].write_offset,
           pc' = "data" => op'.n = 0 \/ (pc = "data" /\ op' = op)
    PROVE  PaddedOnce'
<1>1. \A f \in File : Closed(f)' <=> Closed(f)
  BY DEF Closed
<1>2. ASSUME NEW f \in File, OneRecord(f)
      PROVE  /\ Len(acked'[f]) <= 1 /\ (Len(acked'[f]) > 0 => Closed(f))
             /\ pc' \in Awake =>
                   /\ Metadata'[f].write_offset <= RecordSize[f]
                   /\ Metadata'[f].write_offset > 0 => Closed(f)
  BY <1>2 DEF RInv, PaddedOnce
<1>3. ASSUME NEW f \in File, OneRecord(f), pc' = "data", op'.fd = f, op'.n > 0
      PROVE  Metadata'[f].write_offset = 0
  <2>1. pc = "data" /\ op' = op
    BY <1>3
  <2>2. Metadata[f].write_offset = 0
    BY <1>3, <2>1 DEF RInv, PaddedOnce
  <2> QED
    BY <1>3, <2>2 DEF Awake
<1> QED
  BY <1>1, <1>2, <1>3 DEF PaddedOnce

LEMMA InitPadded == Init => PaddedOnce
<1> SUFFICES ASSUME Init PROVE PaddedOnce
  OBVIOUS
<1>1. \A f \in File : Len(acked[f]) = 0
  BY DEF Init
<1> QED
  BY <1>1 DEF Init, PaddedOnce, Awake

LEMMA MountPadded == ASSUME RInv, StorageMount PROVE PaddedOnce'
<1>1. PICK n \in 0 .. Slots : JournalOf(n) /\ OffsetsOf(n)
  BY DEF RInv, OffsetsAgree
<1>2. ValidSlots(slots) = n
  BY <1>1, ValidSlotsOfJournal DEF RInv, IInv
<1>3. UNCHANGED <<cells, acked>>
  BY DEF StorageMount, flashVars
<1>4. \A f \in File : Closed(f)' <=> Closed(f)
  BY <1>3 DEF Closed
<1>5. CASE n > 0
  <2>1. Metadata' = slots[n - 1].copy /\ pc' = "idle"
    BY <1>2, <1>5 DEF StorageMount
  <2>2. ASSUME NEW f \in File, OneRecord(f)
        PROVE  /\ Metadata'[f].write_offset <= RecordSize[f]
               /\ Metadata'[f].write_offset > 0 => Closed(f)
    <3>1. Len(acked[f]) \in Nat /\ Len(acked[f]) <= 1 /\ (Len(acked[f]) > 0 => Closed(f))
      BY <2>2, AckedType DEF RInv, IInv, PaddedOnce
    <3>2. Metadata'[f].write_offset = Offs(f, Len(acked[f]))
      BY <1>1, <1>5, <2>1 DEF OffsetsOf, NewestOf
    <3>3. Offs(f, 0) = 0 /\ Offs(f, 0 + 1) = Offs(f, 0) + RecordSize[f] /\ RecordSize[f] \in Nat
      BY OffsetFacts
    <3>4. Len(acked[f]) = 0 \/ Len(acked[f]) = 0 + 1
      <4>1. \A l \in Nat : l <= 1 => l = 0 \/ l = 0 + 1
        OBVIOUS
      <4> QED
        BY <3>1, <4>1
    <3> QED
      BY <3>1, <3>2, <3>3, <3>4
  <2> QED
    BY <1>3, <1>4, <2>1, <2>2 DEF RInv, PaddedOnce
<1>6. CASE n = 0
  <2>1. pc' = "format_data"
    BY <1>2, <1>6 DEF StorageMount
  <2> QED
    BY <1>3, <2>1, PaddedStands DEF Awake
<1> QED
  BY <1>5, <1>6

LEMMA FormatPadded == ASSUME RInv, FormatData \/ FormatMetadata PROVE PaddedOnce'
<1>1. PICK n \in 0 .. Slots : JournalOf(n) /\ OffsetsOf(n)
  BY DEF RInv, OffsetsAgree
<1>2. pc \in {"format_data", "format_metadata"} /\ acked' = acked
  BY DEF FormatData, FormatMetadata
<1>3. \A f \in File : acked'[f] = <<>> /\ Len(acked'[f]) = 0
  BY <1>1, <1>2 DEF JournalOf, OffsetsOf, EmptyOf, Awake
<1>4. pc' \in Awake => pc' = "store" /\ Metadata' = ZeroMetadata
  BY DEF FormatData, FormatMetadata, Awake
<1>5. \A f \in File : ZeroMetadata[f].write_offset = 0 /\ RecordSize[f] \in Nat
  BY ConstantTypes, OffsetFacts
<1>6. ASSUME NEW f \in File, pc' \in Awake
      PROVE  pc' # "data" /\ Metadata'[f].write_offset = 0 /\ RecordSize[f] \in Nat
  BY <1>4, <1>5, <1>6
<1>7. "data" \in Awake
  BY DEF Awake
<1> QED
  BY <1>3, <1>6, <1>7 DEF PaddedOnce

LEMMA StoreCrcPadded == ASSUME RInv, StoreCrc PROVE PaddedOnce'
<1>1. PICK n \in 0 .. Slots : JournalOf(n) /\ OffsetsOf(n)
  BY DEF RInv, OffsetsAgree
<1>2. /\ pc = "crc" /\ ~Blocked /\ pc' \in {"boot", "idle"}
      /\ UNCHANGED <<cells, Metadata>>
  BY DEF StoreCrc, Blocked
<1>3. \A f \in File : Closed(f)' <=> Closed(f)
  BY <1>2 DEF Closed
<1>4. ASSUME NEW f \in File, OneRecord(f)
      PROVE  Len(acked'[f]) <= 1 /\ (Len(acked'[f]) > 0 => Closed(f))
  <2>1. acked'[f] = IF Storing(f) THEN Append(acked[f], op.val) ELSE acked[f]
    BY <1>2 DEF StoreCrc, Storing, RInv, IInv, TypeOK
  <2>2. Storing(f) => op.val \in Values
    BY DEF Storing, RInv, IInv, WriteHasValue
  <2>3. /\ Len(acked[f]) \in Nat
        /\ Len(acked'[f]) = IF Storing(f) THEN Len(acked[f]) + 1 ELSE Len(acked[f])
    BY <2>1, <2>2, AckedType DEF RInv, IInv
  <2>4. PICK j \in Nat : RamIsAt(f, j)
    BY <1>1, <1>2 DEF OffsetsOf, RamIsAhead, Awake
  <2>5. j = Len(acked'[f]) /\ Metadata[f].write_offset = Offs(f, j)
    BY <1>2, <2>3, <2>4 DEF RamIsAt
  <2>6. /\ Metadata[f].write_offset <= RecordSize[f]
        /\ Metadata[f].write_offset > 0 => Closed(f)
    BY <1>2, <1>4 DEF RInv, PaddedOnce, Awake
  <2>7. /\ Offs(f, 0) = 0 /\ RecordSize[f] \in Nat \ {0} /\ Offs(f, j) \in Nat
        /\ Offs(f, 0 + 1) = Offs(f, 0) + RecordSize[f]
        /\ 0 < j => Offs(f, 0) + RecordSize[f] <= Offs(f, j)
        /\ 1 < j => Offs(f, 1) + RecordSize[f] <= Offs(f, j)
    BY OffsetFacts
  <2>8. j <= 1
    BY <2>5, <2>6, <2>7
  <2>9. j > 0 => Metadata[f].write_offset > 0
    BY <2>5, <2>7
  <2> QED
    BY <2>5, <2>6, <2>8, <2>9
<1> QED
  BY <1>2, <1>3, <1>4 DEF RInv, PaddedOnce, Awake

LEMMA PowerLossPadded == ASSUME RInv, PowerLoss PROVE PaddedOnce'
<1>1. pc' = "boot" /\ cells' = cells
  BY DEF PowerLoss, flashVars
<1>2. \A f \in File : Closed(f)' <=> Closed(f)
  BY <1>1 DEF Closed
<1>3. acked' = acked \/ \A f \in File : Len(acked'[f]) = 0
  BY DEF PowerLoss, Surviving
<1> QED
  BY <1>1, <1>2, <1>3 DEF RInv, PaddedOnce, Awake

LEMMA ProgramDataPadded == ASSUME RInv, ProgramData PROVE PaddedOnce'
<1>0. PICK g \in File : g = op.fd
  BY DEF RInv, IInv, TypeOK
<1> DEFINE a == WriteEnd(g) + 2 * op.n
           c == a \div 2
           v == HalfWord(op.val, RecordSize[g], op.n)
           last == op.n + 1 = HalfWords(RecordSize[g])
<1>1. PICK n \in 0 .. Slots : JournalOf(n) /\ OffsetsOf(n)
  BY DEF RInv, OffsetsAgree
<1>2. /\ pc = "data" /\ acked' = acked /\ op.n \in Nat
      /\ FileAddr[g] \in Nat /\ RecordSize[g] \in Nat \ {0}
      /\ cells \in [Cells -> Contents]
      /\ op \in [kind: Kinds, fd: File, val: Values \cup {0}, n: Nat]
      /\ Metadata \in [File -> [write_offset: Offset, read_offset: Offset]]
  <2>1. pc = "data" /\ acked' = acked
    BY DEF ProgramData
  <2>2. FileAddr[g] \in Nat
    BY <1>1, <2>1, StorageAssumption DEF JournalOf, DataAddrIsValid
  <2> QED
    BY <2>1, <2>2, OffsetFacts DEF RInv, IInv, TypeOK, MetadataType, Kinds
<1>3. CASE ~CanProgram(a, v)
  <2>1. pc' = "idle" /\ UNCHANGED <<cells, Metadata>>
    BY <1>0, <1>3 DEF ProgramData
  <2> QED
    BY <1>2, <2>1, PaddedStands DEF Awake
<1>4. CASE CanProgram(a, v)
  <2>1. /\ cells' = [cells EXCEPT ![c] = v]
        /\ op' = [op EXCEPT !.n = @ + 1]
        /\ ~last => pc' = "data" /\ Metadata' = Metadata
        /\ last => /\ pc' = "store"
                   /\ Metadata' = [Metadata EXCEPT ![g].write_offset = @ + RecordSize[g]]
    BY <1>0, <1>4 DEF ProgramData
  <2>2. op'.fd = g
    BY <1>0, <1>2, <2>1
  <2>3. c \in Cells /\ a % 2 = 0 /\ (cells[c] = Erased \/ v = 0)
    BY <1>4 DEF CanProgram
  <2>4. cells'[c] = v /\ \A d : d # c => cells'[d] = cells[d]
    BY <1>2, <2>1, <2>3
  <2>5. ASSUME NEW f \in File, Closed(f) PROVE Closed(f)'
    <3>1. ASSUME NEW d, cells[d] = 0 PROVE cells'[d] = 0
      BY <2>3, <2>4, <3>1 DEF Erased
    <3> QED
      BY <2>5, <3>1 DEF Closed
  <2>6. OneRecord(g) => Metadata[g].write_offset = 0
    BY <1>0, <1>2, <1>4, PaddingRefuses
  <2>7. \A f \in File : f # g => Metadata'[f].write_offset = Metadata[f].write_offset
    BY <1>2, <2>1
  <2>8. ASSUME last, OneRecord(g)
        PROVE  Metadata'[g].write_offset = RecordSize[g] /\ Closed(g)'
    <3>1. Metadata'[g].write_offset = RecordSize[g]
      BY <1>2, <2>1, <2>6, <2>8
    <3>2. a = FileAddr[g] + 2 * op.n
      BY <1>2, <2>6, <2>8 DEF WriteEnd
    <3> HIDE DEF a
    <3>3. FileAddr[g] % 2 = 0
      BY <1>2, <2>3, <3>2
    <3>4. ASSUME RecordSize[g] % 2 = 0 PROVE c = (FileAddr[g] + RecordSize[g]) \div 2 /\ v = 0
      <4>1. RecordSize[g] % 4 = 2
        BY <1>2, <2>8, <3>4 DEF OneRecord
      <4>2. RecordSize[g] = 2 * op.n
        BY <1>2, <2>8, <4>1 DEF HalfWords
      <4> QED
        BY <1>2, <3>2, <4>2 DEF HalfWord
    <3> QED
      BY <2>4, <3>1, <3>3, <3>4 DEF Closed
  <2> HIDE DEF last, c, v, a
  <2>9. \A f \in File : OneRecord(f) =>
          Len(acked'[f]) <= 1 /\ (Len(acked'[f]) > 0 => Closed(f)')
    BY <1>2, <2>5 DEF RInv, PaddedOnce
  <2>10. ASSUME NEW f \in File, OneRecord(f)
         PROVE  /\ Metadata'[f].write_offset <= RecordSize[f]
                /\ Metadata'[f].write_offset > 0 => Closed(f)'
    <3>1. /\ Metadata[f].write_offset <= RecordSize[f]
          /\ Metadata[f].write_offset > 0 => Closed(f)
      BY <1>2, <2>10 DEF RInv, PaddedOnce, Awake
    <3>2. CASE f = g /\ last
      BY <1>2, <2>8, <2>10, <3>2
    <3>3. CASE f # g \/ ~last
      <4>1. Metadata'[f].write_offset = Metadata[f].write_offset
        BY <2>1, <2>7, <3>3
      <4> QED
        BY <2>5, <3>1, <4>1
    <3> QED
      BY <3>2, <3>3
  <2>11. ASSUME pc' = "data", OneRecord(g) PROVE Metadata'[g].write_offset = 0
    BY <2>1, <2>6, <2>11
  <2> QED
    BY <2>2, <2>9, <2>10, <2>11 DEF PaddedOnce
<1> QED
  BY <1>3, <1>4

LEMMA PaddedKept == ASSUME RInv, [Next]_vars PROVE PaddedOnce'
<1>1. CASE \/ StoreCopy \/ CleanErase \/ UNCHANGED vars
           \/ \E f \in File, v \in Values : StorageFileWrite(f, v)
  <2>1. UNCHANGED <<cells, acked, Metadata>> /\ (pc' \in Awake => pc \in Awake)
    BY <1>1 DEF StoreCopy, CleanErase, StorageFileWrite, vars, flashVars, ramVars, Awake
  <2>2. pc' = "data" => op'.n = 0 \/ (pc = "data" /\ op' = op)
    BY <1>1 DEF StoreCopy, CleanErase, StorageFileWrite, vars, Call
  <2> QED
    BY <2>1, <2>2, PaddedStands
<1>2. CASE \/ \E f \in File : StorageFileRead(f)
           \/ \E f \in File, off \in Offsets : StorageFileReadOffsetSet(f, off)
  <2>1. /\ UNCHANGED <<cells, acked>> /\ pc \in Awake /\ pc' # "data"
        /\ \/ Metadata' = Metadata
           \/ \E f \in File : \E r : Metadata' = [Metadata EXCEPT ![f].read_offset = r]
    BY <1>2 DEF StorageFileRead, StorageFileReadOffsetSet, flashVars, Awake
  <2>2. \A f \in File : Metadata'[f].write_offset = Metadata[f].write_offset
    <3>1. ASSUME NEW g \in File, NEW r, Metadata' = [Metadata EXCEPT ![g].read_offset = r]
          PROVE  \A f \in File : Metadata'[f].write_offset = Metadata[f].write_offset
      BY <3>1 DEF RInv, IInv, TypeOK, MetadataType
    <3> QED
      BY <2>1, <3>1
  <2> QED
    BY <2>1, <2>2, PaddedStands
<1> QED
  BY <1>1, <1>2, MountPadded, FormatPadded, StoreCrcPadded, ProgramDataPadded, PowerLossPadded
     DEF Next, Driver

LEMMA RecordsKept ==
    ASSUME FilesAreApart, RecordsFit
    PROVE  RInv /\ [Next]_vars => RInv'
<1> SUFFICES ASSUME RInv, [Next]_vars PROVE RInv'
  OBVIOUS
<1>0. IInv'
  BY StepKeeps DEF RInv
<1> SUFFICES OffsetsAgree' /\ Records'
  BY <1>0, PaddedKept DEF RInv
<1>1. CASE StorageMount
  BY <1>0, <1>1, MountOffsets
<1>2. CASE FormatData
  BY <1>0, <1>2, FormatDataOffsets
<1>3. CASE FormatMetadata
  BY <1>0, <1>3, FormatMetadataOffsets
<1>4. CASE StoreCopy
  BY <1>0, <1>4, StoreCopyOffsets
<1>5. CASE StoreCrc
  BY <1>0, <1>5, StoreCrcOffsets
<1>6. CASE CleanErase
  BY <1>0, <1>6, CleanEraseOffsets
<1>7. CASE ProgramData
  BY <1>0, <1>7, ProgramDataOffsets
<1>8. CASE \E f \in File, v \in Values : StorageFileWrite(f, v)
  BY <1>0, <1>8, WriteOffsets
<1>9. CASE \E f \in File : StorageFileRead(f)
  BY <1>0, <1>9, ReadOffsets
<1>10. CASE \E f \in File, off \in Offsets : StorageFileReadOffsetSet(f, off)
  BY <1>0, <1>10, OffsetSetOffsets
<1>11. CASE PowerLoss
  BY <1>0, <1>11, PowerLossOffsets
<1>12. CASE UNCHANGED vars
  <2>1. UNCHANGED <<cells, slots, Metadata, store, pc, op, acked>>
    BY <1>12 DEF vars
  <2>2. PICK n \in 0 .. Slots : JournalOf(n) /\ OffsetsOf(n)
    BY DEF RInv, OffsetsAgree
  <2>3. JournalOf(n)'
    BY <2>1, <2>2 DEF JournalOf
  <2>4. OffsetsOf(n)'
    BY <2>1, <2>2 DEF OffsetsOf, EmptyOf, NewestOf, KindOfCall, RamIsAhead, RamIsAt, Blocked,
       Storing, Offs
  <2>5. Records'
    <3>1. \A f \in File : \A k, v : Holds(f, k, v)' <=> Holds(f, k, v)
      BY <2>1 DEF Holds
    <3> QED
      BY <2>1, <3>1 DEF RInv, Records, RecordsAreStored, Programming, Programmed, WriteEnd, Storing, Blocked
  <2> QED
    BY <2>3, <2>4, <2>5 DEF OffsetsAgree
<1> QED
  BY <1>1, <1>2, <1>3, <1>4, <1>5, <1>6, <1>7, <1>8, <1>9, <1>10, <1>11, <1>12
     DEF Next, Driver

-----------------------------------------------------------------------------
(* What a mount would find.                                                 *)

(* Records that are all there make the log they are the records of.         *)
LEMMA LogShows ==
    ASSUME NEW m, NEW log \in [File -> Seq(Values)],
           \A f \in File : FileAddr[f] \in Nat,
           \A f \in File : m[f].write_offset = Offs(f, Len(log[f])),
           \A f \in File : \A k \in 1 .. Len(log[f]) : Holds(f, k, log[f][k])
    PROVE  LogOf(m) = log
<1>1. ASSUME NEW f \in File
      PROVE  [k \in 1 .. m[f].write_offset \div RecordSize[f] |-> RecordAt(f, k)] = log[f]
  <2>1. log[f] \in Seq(Values) /\ Len(log[f]) \in Nat
    OBVIOUS
  <2>2. m[f].write_offset \div RecordSize[f] = Len(log[f])
    BY <2>1, OffsetFacts
  <2>3. ASSUME NEW k \in 1 .. Len(log[f]) PROVE RecordAt(f, k) = log[f][k]
    <3>1. Holds(f, k, log[f][k])
      OBVIOUS
    <3>2. RecordAddr(f, k) \div 2 \in RecordCells(f, k)
      <4>1. RecordSize[f] \in Nat \ {0} /\ Offs(f, k - 1) \in Nat
        <5>1. k - 1 \in Nat
          BY <2>1
        <5> QED
          BY <5>1, OffsetFacts
      <4>2. RecordAddr(f, k) \in Nat
        BY <4>1 DEF RecordAddr, Offs
      <4>3. RecordAddr(f, k) \div 2 \in Nat /\ (RecordSize[f] - 1) \div 2 \in Nat
        BY <4>1, <4>2
      <4>4. \A x, y \in Nat : x \in x .. x + y
        OBVIOUS
      <4> QED
        BY <4>3, <4>4 DEF RecordCells
    <3>3. \A c \in RecordCells(f, k) : cells[c] = log[f][k]
      BY <3>1 DEF Holds
    <3> QED
      BY <3>2, <3>3 DEF RecordAt
  <2>4. log[f] = [k \in 1 .. Len(log[f]) |-> log[f][k]]
    BY <2>1
  <2> QED
    BY <2>2, <2>3, <2>4
<1>2. log = [f \in File |-> log[f]]
  OBVIOUS
<1> QED
  BY <1>1, <1>2 DEF LogOf

(* While the metadata sector is rewritten the record of the call that found *)
(* it full shows already.                                                   *)
Shown ==
    IF Cleaning /\ op.kind = "write"
    THEN [acked EXCEPT ![op.fd] = Append(@, op.val)]
    ELSE acked

LEMMA ShownType == ASSUME IInv PROVE Shown \in [File -> Seq(Values)]
<1>1. CASE Cleaning /\ op.kind = "write"
  <2>1. op.fd \in File /\ op.val \in Values /\ acked \in [File -> Seq(Values)]
    BY <1>1 DEF IInv, TypeOK, WriteHasValue
  <2>2. Append(acked[op.fd], op.val) \in Seq(Values)
    BY <2>1
  <2> QED
    BY <1>1, <2>1, <2>2 DEF Shown
<1>2. CASE ~(Cleaning /\ op.kind = "write")
  BY <1>2 DEF Shown, IInv, TypeOK
<1> QED
  BY <1>1, <1>2

LEMMA DiskLogIsShown == ASSUME RInv PROVE DiskLog = Shown
<1>1. PICK n \in 0 .. Slots : JournalOf(n) /\ OffsetsOf(n)
  BY DEF RInv, OffsetsAgree
<1>2. ValidSlots(slots) = n /\ n \in Nat
  BY <1>1, ValidSlotsOfJournal DEF RInv, IInv
<1>3. acked \in [File -> Seq(Values)] /\ \A f \in File : Len(acked[f]) \in Nat
  BY AckedType DEF RInv, IInv, TypeOK
<1>4. CASE n > 0
  <2>1. Shown = acked /\ DiskLog = LogOf(slots[n - 1].copy)
    BY <1>2, <1>4 DEF Shown, Cleaning, DiskLog
  <2>2. \A f \in File : FileAddr[f] \in Nat
    BY <1>1, <1>4, StorageAssumption DEF JournalOf, DataAddrIsValid
  <2>3. \A f \in File : slots[n - 1].copy[f].write_offset = Offs(f, Len(acked[f]))
    BY <1>1, <1>4 DEF OffsetsOf, NewestOf
  <2>4. \A f \in File : \A k \in 1 .. Len(acked[f]) : Holds(f, k, acked[f][k])
    BY DEF RInv, Records, RecordsAreStored
  <2>5. LogOf(slots[n - 1].copy) = acked
    BY <1>3, <2>2, <2>3, <2>4, LogShows
  <2> QED
    BY <2>1, <2>5
<1>5. CASE n = 0 /\ Cleaning
  <2>1. DiskLog = LogOf(Metadata) /\ pc \in {"store", "crc"}
    BY <1>2, <1>5 DEF DiskLog, Cleaning
  <2>2. \A f \in File : FileAddr[f] \in Nat
    BY <1>1, <2>1, StorageAssumption DEF JournalOf, DataAddrIsValid
  <2>3. ~Blocked
    BY <1>1, <1>5, <2>1, ConstantTypes DEF Blocked, JournalOf
  <2>4. ASSUME NEW f \in File
        PROVE  /\ Shown[f] = IF Storing(f) THEN Append(acked[f], op.val) ELSE acked[f]
               /\ Storing(f) => op.val \in Values
    BY <1>3, <1>5, <2>1 DEF Shown, Storing, RInv, IInv, WriteHasValue
  <2>5. ASSUME NEW f \in File PROVE Metadata[f].write_offset = Offs(f, Len(Shown[f]))
    <3>1. PICK j \in Nat : RamIsAt(f, j)
      BY <1>1, <2>1 DEF OffsetsOf, RamIsAhead, Awake
    <3>2. j = Len(Shown[f])
      <4>1. CASE Storing(f)
        <5>1. /\ Shown[f] = Append(acked[f], op.val) /\ op.val \in Values
              /\ acked[f] \in Seq(Values)
          BY <1>3, <2>4, <4>1
        <5>2. Len(Shown[f]) = Len(acked[f]) + 1
          BY <5>1, AppendFacts
        <5> QED
          BY <2>3, <3>1, <4>1, <5>2 DEF RamIsAt
      <4>2. CASE ~Storing(f)
        BY <2>3, <2>4, <3>1, <4>2 DEF RamIsAt
      <4> QED
        BY <4>1, <4>2
    <3> QED
      BY <3>1, <3>2 DEF RamIsAt
  <2>6. ASSUME NEW f \in File, NEW k \in 1 .. Len(Shown[f]) PROVE Holds(f, k, Shown[f][k])
    <3>1. CASE Storing(f)
      <4>1. Shown[f] = Append(acked[f], op.val) /\ op.val \in Values
        BY <2>4, <3>1
      <4>2. k \in 1 .. Len(acked[f]) \/ k = Len(acked[f]) + 1
        BY <1>3, <4>1, AppendFacts
      <4>3. CASE k \in 1 .. Len(acked[f])
        <5>1. Shown[f][k] = acked[f][k]
          BY <1>3, <4>1, <4>3, AppendFacts
        <5> QED
          BY <4>3, <5>1 DEF RInv, Records, RecordsAreStored
      <4>4. CASE k = Len(acked[f]) + 1
        <5>1. Shown[f][k] = op.val
          BY <1>3, <4>1, <4>4, AppendFacts
        <5> QED
          BY <2>3, <3>1, <4>4, <5>1 DEF RInv, Records, Programmed
      <4> QED
        BY <4>2, <4>3, <4>4
    <3>2. CASE ~Storing(f)
      BY <2>4, <3>2 DEF RInv, Records, RecordsAreStored
    <3> QED
      BY <3>1, <3>2
  <2>7. Shown \in [File -> Seq(Values)]
    BY ShownType DEF RInv
  <2> QED
    BY <2>1, <2>2, <2>5, <2>6, <2>7, LogShows
<1>6. CASE n = 0 /\ ~Cleaning
  <2>1. Shown = acked /\ DiskLog = [f \in File |-> <<>>]
    BY <1>2, <1>6 DEF Shown, DiskLog
  <2>2. pc \notin Awake \/ op.kind = "format"
    BY <1>1, <1>2, <1>6 DEF JournalOf, Cleaning, Formatting, Awake
  <2>3. \A f \in File : acked[f] = <<>>
    BY <1>1, <1>6, <2>2 DEF OffsetsOf, EmptyOf
  <2> QED
    BY <1>3, <2>1, <2>3
<1> QED
  BY <1>2, <1>4, <1>5, <1>6

-----------------------------------------------------------------------------
(* The record log.                                                          *)

(* Whether the sector is being rewritten, by the number of valid copies.    *)
LEMMA CleaningIs ==
    ASSUME IInv, NEW n \in 0 .. Slots, JournalOf(n)
    PROVE  Cleaning <=> pc \in {"store", "crc"} /\ op.kind # "format" /\ n = 0
BY ValidSlotsOfJournal DEF Cleaning, Formatting, IInv

LEMMA StoreCrcLogs ==
    ASSUME RInv, RInv', StoreCrc
    PROVE  \/ \E f \in File, v \in Values : Shown' = [Shown EXCEPT ![f] = Append(@, v)] /\ ~Cleaning'
           \/ Cleaning /\ ~Cleaning' /\ Shown' = Shown
           \/ UNCHANGED <<Shown, Cleaning>>
<1>1. PICK n \in 0 .. Slots : JournalOf(n)
  BY DEF RInv, IInv, Journal
<1>0. Cleaning \in BOOLEAN /\ Cleaning' \in BOOLEAN
  BY DEF Cleaning
<1>2. pc = "crc" /\ pc' \in {"boot", "idle"}
  BY DEF StoreCrc
<1>3. ~Cleaning' /\ Shown' = acked'
  BY <1>2 DEF Cleaning, Shown
<1>4. op.kind = "write" => op.fd \in File /\ op.val \in Values
  BY DEF RInv, IInv, TypeOK, WriteHasValue
<1>5. CASE Cleaning
  BY <1>3, <1>5 DEF Shown, StoreCrc
<1>6. CASE ~Cleaning
  BY <1>0, <1>3, <1>4, <1>6 DEF Shown, StoreCrc
<1> QED
  BY <1>5, <1>6

LEMMA CleanEraseLogs ==
    ASSUME RInv, RInv', CleanErase
    PROVE  \/ \E f \in File, v \in Values : Shown' = [Shown EXCEPT ![f] = Append(@, v)]
           \/ ~Cleaning /\ Cleaning' /\ Shown' = Shown
           \/ UNCHANGED <<Shown, Cleaning>>
<1>1. PICK n \in 0 .. Slots : JournalOf(n)
  BY DEF RInv, IInv, Journal
<1>0. Cleaning \in BOOLEAN /\ Cleaning' \in BOOLEAN
  BY DEF Cleaning
<1>2. ~Cleaning /\ Shown = acked
  BY <1>1, CleaningIs, ConstantTypes DEF CleanErase, JournalOf, RInv, IInv, Shown
<1>3. UNCHANGED <<op, acked>>
  BY DEF CleanErase
<1>4. op.kind = "write" => op.fd \in File /\ op.val \in Values
  BY DEF RInv, IInv, TypeOK, WriteHasValue
<1>5. CASE Cleaning' /\ op.kind = "write"
  BY <1>2, <1>3, <1>4, <1>5 DEF Shown
<1>6. CASE ~(Cleaning' /\ op.kind = "write")
  BY <1>0, <1>2, <1>3, <1>6 DEF Shown
<1> QED
  BY <1>5, <1>6

LEMMA PowerLossLogs ==
    ASSUME RInv, RInv', PowerLoss
    PROVE  \/ Cleaning /\ ~Cleaning' /\ Shown' = [f \in File |-> <<>>]
           \/ UNCHANGED <<Shown, Cleaning>>
<1>1. PICK n \in 0 .. Slots : JournalOf(n) /\ OffsetsOf(n)
  BY DEF RInv, OffsetsAgree
<1>2. ValidSlots(slots) = n /\ n \in Nat
  BY <1>1, ValidSlotsOfJournal DEF RInv, IInv
<1>0. Cleaning \in BOOLEAN /\ Cleaning' \in BOOLEAN
  BY DEF Cleaning
<1>3. ~Cleaning' /\ Shown' = acked'
  BY DEF PowerLoss, Cleaning, Shown
<1>4. CASE n > 0
  BY <1>2, <1>3, <1>4 DEF PowerLoss, Surviving, Cleaning, Shown
<1>5. CASE n = 0 /\ Cleaning
  <2>1. acked' = [f \in File |-> <<>>]
    BY <1>2, <1>5 DEF PowerLoss, Surviving
  <2> QED
    BY <1>3, <1>5, <2>1
<1>6. CASE n = 0 /\ ~Cleaning
  <2>1. Shown = acked /\ acked' = [f \in File |-> <<>>]
    BY <1>2, <1>6 DEF Shown, PowerLoss, Surviving
  <2>2. pc \notin Awake \/ op.kind = "format"
    BY <1>1, <1>2, <1>6 DEF JournalOf, Cleaning, Formatting, Awake
  <2>3. \A f \in File : acked[f] = <<>>
    BY <1>1, <1>6, <2>2 DEF OffsetsOf, EmptyOf
  <2>4. acked = [f \in File |-> <<>>]
    BY <2>3 DEF RInv, IInv, TypeOK
  <2> QED
    BY <1>0, <1>3, <1>6, <2>1, <2>4
<1> QED
  BY <1>2, <1>4, <1>5, <1>6

(* The other steps do not show.                                             *)
LEMMA OthersLogNothing ==
    ASSUME RInv, RInv', UNCHANGED acked,
           \/ pc \notin {"store", "crc"} /\ pc' \notin {"store", "crc"}
           \/ pc = "format_metadata" /\ op'.kind = "format"
           \/ pc \in {"idle", "data"} /\ UNCHANGED slots
           \/ StoreCopy
           \/ UNCHANGED <<slots, pc, op>>
    PROVE  UNCHANGED <<Shown, Cleaning>>
<1>1. PICK n \in 0 .. Slots : JournalOf(n)
  BY DEF RInv, IInv, Journal
<1>2. ValidSlots(slots) = n /\ n \in Nat
  BY <1>1, ValidSlotsOfJournal DEF RInv, IInv
<1>0. Cleaning \in BOOLEAN /\ Cleaning' \in BOOLEAN
  BY DEF Cleaning
<1>3. CASE ~Cleaning /\ ~Cleaning'
  BY <1>0, <1>3 DEF Shown
<1>4. CASE pc \notin {"store", "crc"} /\ pc' \notin {"store", "crc"}
  BY <1>3, <1>4 DEF Cleaning
<1>5. CASE pc = "format_metadata" /\ op'.kind = "format"
  BY <1>3, <1>5 DEF Cleaning, Formatting
<1>6. CASE pc \in {"idle", "data"} /\ UNCHANGED slots
  BY <1>1, <1>2, <1>3, <1>6 DEF Cleaning, JournalOf
<1>7. CASE StoreCopy
  <2>1. JournalOf(n)'
    BY <1>1, <1>7, StoreCopyJournal DEF RInv
  <2>2. ValidSlots(slots') = n
    <3>1. \A i \in 0 .. n - 1 : slots'[i].st = "valid"
      BY <1>2, <2>1, ConstantTypes DEF JournalOf, SlotNumbers
    <3>2. n < Slots => slots'[n].st # "valid"
      BY <2>1 DEF JournalOf
    <3> QED
      BY <3>1, <3>2, ValidSlotsAre
  <2>3. CASE n = 0
    <3>1. pc' = "crc" /\ pc = "store" /\ op' = op
      BY <1>1, <1>7, <2>3 DEF StoreCopy, JournalOf
    <3> QED
      BY <1>2, <2>2, <3>1 DEF Cleaning, Formatting, Shown
  <2>4. CASE n > 0
    BY <1>2, <1>3, <2>2, <2>4 DEF Cleaning
  <2> QED
    BY <1>2, <2>3, <2>4
<1>8. CASE UNCHANGED <<slots, pc, op>>
  BY <1>8 DEF Cleaning, Formatting, Shown
<1> QED
  BY <1>4, <1>5, <1>6, <1>7, <1>8

(* What every step does to the log and to the mark.                         *)
LEMMA StepLogs ==
    ASSUME RInv, RInv', [Next]_vars
    PROVE  \/ \E f \in File, v \in Values : Shown' = [Shown EXCEPT ![f] = Append(@, v)]
           \/ ~Cleaning /\ Cleaning' /\ Shown' = Shown
           \/ Cleaning /\ ~Cleaning' /\ Shown' = Shown
           \/ Cleaning /\ ~Cleaning' /\ Shown' = [f \in File |-> <<>>]
           \/ UNCHANGED <<Shown, Cleaning>>
<1>1. CASE StoreCrc
  BY <1>1, StoreCrcLogs
<1>2. CASE CleanErase
  BY <1>2, CleanEraseLogs
<1>3. CASE PowerLoss
  BY <1>3, PowerLossLogs
<1>4. CASE StoreCopy
  BY <1>4, OthersLogNothing DEF StoreCopy
<1>5. CASE StorageMount \/ FormatData
  <2>1. acked' = acked /\ pc \notin {"store", "crc"} /\ pc' \notin {"store", "crc"}
    BY <1>5 DEF StorageMount, FormatData
  <2> QED
    BY <2>1, OthersLogNothing
<1>6. CASE FormatMetadata
  <2>1. /\ acked' = acked /\ pc = "format_metadata"
        /\ op'.kind = "format" \/ pc' = "failed"
    BY <1>6 DEF FormatMetadata, Call
  <2>2. \/ pc \notin {"store", "crc"} /\ pc' \notin {"store", "crc"}
        \/ pc = "format_metadata" /\ op'.kind = "format"
    BY <2>1
  <2> QED
    BY <2>1, <2>2, OthersLogNothing
<1>7. CASE \/ \E f \in File, v \in Values : StorageFileWrite(f, v)
           \/ \E f \in File : StorageFileRead(f)
           \/ \E f \in File, off \in Offsets : StorageFileReadOffsetSet(f, off)
           \/ ProgramData
  <2>1. acked' = acked /\ pc \in {"idle", "data"} /\ slots' = slots
    BY <1>7 DEF StorageFileWrite, StorageFileRead, StorageFileReadOffsetSet, ProgramData, flashVars
  <2> QED
    BY <2>1, OthersLogNothing
<1>8. CASE UNCHANGED vars
  BY <1>8, OthersLogNothing DEF vars
<1> QED
  BY <1>1, <1>2, <1>3, <1>4, <1>5, <1>6, <1>7, <1>8 DEF Next, Driver

-----------------------------------------------------------------------------
(* In every reachable state the newest copy of the metadata shows exactly   *)
(* the acknowledged records, all half-words of each are in the flash, and a *)
(* driver that is not blocked knows where the next one goes.                *)
THEOREM RecordsCorrect ==
    ASSUME FilesAreApart, RecordsFit
    PROVE  Spec => []RInv
<1>1. Init => RInv
  BY InitInv, InitRecords, InitPadded DEF RInv
<1>2. RInv /\ [Next]_vars => RInv'
  BY RecordsKept
<1> QED
  BY <1>1, <1>2, PTL DEF Spec

(* What a write returned OK for is in the flash for good: wherever the      *)
(* power fails, the next mount finds all of these records, whole, and no    *)
(* other.  The one exception is named by Surviving: the power fails while   *)
(* IMetadataClean has no copy of the metadata in the flash.                 *)
THEOREM AckedSurvives ==
    ASSUME FilesAreApart, RecordsFit
    PROVE  Spec => []AckedIsDurable
<1>1. ASSUME RInv PROVE AckedIsDurable
  <2>1. pc \in {"boot", "idle", "data"} => Shown = acked
    BY DEF Shown, Cleaning
  <2> QED
    BY <1>1, <2>1, DiskLogIsShown DEF AckedIsDurable
<1> QED
  BY <1>1, RecordsCorrect, PTL

(* IDataStore programs only half-words of the file it was called for, in    *)
(* spite of checking the first address only.                                *)
THEOREM WritesKeepToTheirFile ==
    ASSUME FilesAreApart, RecordsFit
    PROVE  Spec => WritesStayInFile
<1>1. ASSUME RInv, [Next]_vars
      PROVE  [pc = "data" => \A c \in Cells : cells'[c] # cells[c] =>
                 \A f \in File : FileAddrIsValid(2 * c, f) <=> f = op.fd]_vars
  <2> SUFFICES ASSUME pc = "data", NEW c \in Cells, cells'[c] # cells[c]
               PROVE  \A f \in File : FileAddrIsValid(2 * c, f) <=> f = op.fd
    OBVIOUS
  <2>1. ProgramData
    BY <1>1 DEF Next, Driver, vars, StorageMount, FormatData, FormatMetadata, StoreCopy, StoreCrc,
       CleanErase, StorageFileWrite, StorageFileRead, StorageFileReadOffsetSet, PowerLoss, flashVars
  <2> DEFINE a == WriteEnd(op.fd) + 2 * op.n
             v == HalfWord(op.val, RecordSize[op.fd], op.n)
  <2>2. CanProgram(a, v) /\ cells' = [cells EXCEPT ![a \div 2] = v]
    BY <2>1 DEF ProgramData
  <2>3. \A f \in File : FileAddrIsValid(2 * (a \div 2), f) <=> f = op.fd
    BY <1>1, <2>2, ProgrammedCell
  <2>4. c = a \div 2
    BY <1>1, <2>2 DEF RInv, IInv, TypeOK
  <2> QED
    BY <2>3, <2>4
<1> QED
  BY <1>1, RecordsCorrect, PTL DEF Spec, WritesStayInFile

(* Callers may think of the driver as the record log: every step appends    *)
(* one record, or marks a rewrite of the metadata, or is not seen at all;   *)
(* a power loss is seen only while the rewrite is marked.                   *)
THEOREM DriverImplementsRecordLog ==
    ASSUME FilesAreApart, RecordsFit
    PROVE  Spec => ImplementsRecordLog
<1>1. ASSUME Init PROVE Log!LogInit
  <2>1. RInv
    BY <1>1, InitInv, InitRecords, InitPadded DEF RInv
  <2>2. ~Cleaning /\ Shown = acked
    BY <1>1 DEF Init, Cleaning, Shown
  <2>3. Cleaning \in BOOLEAN
    BY DEF Cleaning
  <2> QED
    BY <1>1, <2>1, <2>2, <2>3, DiskLogIsShown DEF Init, Log!LogInit, Log!EmptyLog
<1> DEFINE Agree == DiskLog = Shown
<1>2. ASSUME RInv, RInv', [Next]_vars, Agree, Agree'
      PROVE  [Log!LogNext]_(Log!logVars)
  <2>1. Cleaning \in BOOLEAN /\ Cleaning' \in BOOLEAN
    BY DEF Cleaning
  <2>2. CASE \E f \in File, v \in Values : Shown' = [Shown EXCEPT ![f] = Append(@, v)]
    BY <1>2, <2>1, <2>2 DEF Log!LogNext, Log!Write
  <2>3. CASE ~Cleaning /\ Cleaning' /\ Shown' = Shown
    BY <1>2, <2>1, <2>3 DEF Log!LogNext, Log!StartCompacting
  <2>4. CASE Cleaning /\ ~Cleaning' /\ Shown' = Shown
    BY <1>2, <2>1, <2>4 DEF Log!LogNext, Log!StopCompacting
  <2>5. CASE Cleaning /\ ~Cleaning' /\ Shown' = [f \in File |-> <<>>]
    BY <1>2, <2>1, <2>5 DEF Log!LogNext, Log!Lose, Log!EmptyLog
  <2>6. CASE UNCHANGED <<Shown, Cleaning>>
    BY <1>2, <2>6 DEF Log!logVars
  <2> QED
    BY <1>2, <2>2, <2>3, <2>4, <2>5, <2>6, StepLogs
<1>3. RInv => Agree
  BY DiskLogIsShown
<1> HIDE DEF Agree
<1> QED
  BY <1>1, <1>2, <1>3, RecordsCorrect, PTL DEF Spec, ImplementsRecordLog, Log!LogSpec

-----------------------------------------------------------------------------
(* Where the files start.                                                   *)

(* A set that holds 0 and the successor of each of its numbers holds all    *)
(* numbers: otherwise it would miss a least one.                            *)
LEMMA NumbersFollow ==
    ASSUME NEW S, 0 \in S, \A n \in Nat : n \in S => n + 1 \in S
    PROVE  Nat \subseteq S
<1> SUFFICES ASSUME Nat \ S # {} PROVE FALSE
  OBVIOUS
<1>1. IsWellFoundedOn(OpToRel(<, Nat), Nat)
  BY NatLessThanWellFounded
<1> DEFINE R == OpToRel(<, Nat)
<1>2. \A x, y \in Nat : x < y => <<x, y>> \in R
  BY DEF OpToRel
<1> HIDE DEF R
<1>3. PICK x \in Nat \ S : \A y \in Nat \ S : ~(<<y, x>> \in R)
  <2>1. IsWellFoundedOn(R, Nat) /\ Nat \ S \subseteq Nat
    BY <1>1 DEF R
  <2> QED
    BY <2>1, WFMin
<1>4. x - 1 \in Nat /\ x - 1 < x /\ (x - 1) + 1 = x
  BY <1>3
<1> QED
  BY <1>2, <1>3, <1>4

(* The recursion of IMetadataInit defines a function.                       *)
LEMMA FileAddrs ==
    /\ FileAddr = [f \in File |-> FileAddr[f]]
    /\ FileAddr[0] = 0
    /\ \A f \in File \ {0} : FileAddr[f] = FileAddr[f - 1] + FileSize[f]
<1> DEFINE Adds(g, D) == g = [f \in D |-> IF f = 0 THEN 0 ELSE g[f - 1] + FileSize[f]]
           S == {n \in Nat : \E g : Adds(g, 0 .. n)}
<1>1. 0 \in S
  <2>1. Adds([f \in {0} |-> 0], {0})
    OBVIOUS
  <2>2. 0 .. 0 = {0}
    OBVIOUS
  <2> QED
    BY <2>1, <2>2
<1>2. ASSUME NEW n \in Nat, n \in S PROVE n + 1 \in S
  <2>1. PICK g : Adds(g, 0 .. n)
    BY <1>2
  <2> DEFINE h == [f \in 0 .. n + 1 |-> IF f = n + 1 THEN g[n] + FileSize[n + 1] ELSE g[f]]
  <2>2. ASSUME NEW f \in 0 .. n + 1
        PROVE  h[f] = IF f = 0 THEN 0 ELSE h[f - 1] + FileSize[f]
    <3>1. CASE f = n + 1
      BY <3>1
    <3>2. CASE f = 0
      BY <2>1, <3>2
    <3>3. CASE f \in 1 .. n
      <4>1. f \in 0 .. n /\ f # 0 /\ f # n + 1 /\ f - 1 \in 0 .. n + 1 /\ f - 1 # n + 1
        BY <3>3
      <4>2. h[f] = g[f] /\ h[f - 1] = g[f - 1]
        BY <4>1
      <4>3. g[f] = g[f - 1] + FileSize[f]
        BY <2>1, <4>1
      <4> QED
        BY <4>1, <4>2, <4>3
    <3> QED
      BY <3>1, <3>2, <3>3
  <2>3. h = [f \in 0 .. n + 1 |-> h[f]]
    OBVIOUS
  <2> HIDE DEF h
  <2>4. Adds(h, 0 .. n + 1)
    BY <2>2, <2>3
  <2> QED
    BY <2>4
<1>3. FILE_NUM - 1 \in Nat
  BY StorageAssumption
<1>4. \E g : Adds(g, File)
  <2> HIDE DEF S
  <2>1. FILE_NUM - 1 \in S
    BY <1>1, <1>2, <1>3, NumbersFollow
  <2> QED
    BY <2>1 DEF S, File
<1>5. Adds(FileAddr, File)
  BY <1>4 DEF FileAddr
<1>6. FileAddr = [f \in File |-> FileAddr[f]]
  BY <1>5
<1>7. 0 \in File
  BY <1>3 DEF File
<1> QED
  BY <1>5, <1>6, <1>7

(* IMetadataInit lays files out one behind the other when their sizes do    *)
(* not fall (a file's start is computed from its own size), as the two      *)
(* files of the firmware do, which are equally large.                       *)
THEOREM RisingFilesAreApart ==
    ASSUME \A f \in File \ {0} : FileSize[f - 1] <= FileSize[f]
    PROVE  FilesAreApart /\ FileAddr \in [File -> Nat]
<1> DEFINE S == {n \in Nat : n \in File =>
                   /\ FileAddr[n] \in Nat
                   /\ \A f \in File : f < n =>
                         FileAddr[f] \in Nat /\ FileAddr[f] + FileSize[f] <= FileAddr[n]}
<1>1. File \subseteq Nat /\ \A f \in File : FileSize[f] \in Nat \ {0}
  BY StorageAssumption DEF File
<1>2. 0 \in S
  BY <1>1, FileAddrs
<1>3. ASSUME NEW n \in Nat, n \in S PROVE n + 1 \in S
  <2> SUFFICES ASSUME n + 1 \in File
               PROVE  /\ FileAddr[n + 1] \in Nat
                      /\ \A f \in File : f < n + 1 =>
                            FileAddr[f] \in Nat /\ FileAddr[f] + FileSize[f] <= FileAddr[n + 1]
    OBVIOUS
  <2>1. n \in File /\ n + 1 \in File \ {0} /\ (n + 1) - 1 = n
    BY StorageAssumption DEF File
  <2>2. /\ FileAddr[n] \in Nat
        /\ \A f \in File : f < n =>
              FileAddr[f] \in Nat /\ FileAddr[f] + FileSize[f] <= FileAddr[n]
    BY <1>3, <2>1
  <2>3. FileAddr[n + 1] = FileAddr[n] + FileSize[n + 1] /\ FileSize[n] <= FileSize[n + 1]
    BY <2>1, FileAddrs
  <2> HIDE DEF S
  <2>4. FileAddr[n + 1] \in Nat /\ FileAddr[n] + FileSize[n] <= FileAddr[n + 1]
        /\ FileAddr[n] <= FileAddr[n + 1]
    BY <1>1, <2>1, <2>2, <2>3
  <2>5. ASSUME NEW f \in File, f < n + 1
        PROVE  FileAddr[f] \in Nat /\ FileAddr[f] + FileSize[f] <= FileAddr[n + 1]
    <3>1. CASE f = n
      BY <2>2, <2>4, <3>1
    <3>2. CASE f < n
      <4>1. FileAddr[f] \in Nat /\ FileAddr[f] + FileSize[f] <= FileAddr[n]
        BY <2>2, <3>2
      <4>2. FileSize[f] \in Nat
        BY <1>1
      <4> QED
        BY <2>2, <2>4, <4>1, <4>2
    <3> QED
      BY <1>1, <2>5, <3>1, <3>2
  <2> QED
    BY <2>4, <2>5
<1>4. File \subseteq S
  <2> HIDE DEF S
  <2> QED
    BY <1>1, <1>2, <1>3, NumbersFollow
<1>5. \A f \in File : FileAddr[f] \in Nat
  BY <1>4
<1>6. FilesAreApart
  BY <1>4 DEF FilesAreApart
<1> QED
  BY <1>5, <1>6, FileAddrs
=============================================================================
