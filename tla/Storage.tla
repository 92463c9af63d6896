------------------------------- MODULE Storage -------------------------------
(***************************************************************************)
(* The storage driver, drivers/Storage/storage.c, on the flash driver      *)
(* low_ware/Src/flash.c, and the part of ComposerTask that mounts it.      *)
(*                                                                         *)
(* Two flash sectors survive a power loss.  The data sector is a function  *)
(* from half-words to their contents; the metadata sector is a journal of  *)
(* slots, each of them a copy of Metadata and its CRC.  The driver moves   *)
(* from one flash operation to the next, and the power may fail between    *)
(* any two: one half-word of data, the copy of the metadata, its CRC, the  *)
(* erasure of a sector.  The driver has one caller at a time.              *)
(*                                                                         *)
(* The flash itself is external.  It programs a half-word at an even       *)
(* address that is erased, or any half-word to zero, and reports an error  *)
(* otherwise (HAL_FLASH_Program).                                          *)
(***************************************************************************)
EXTENDS Integers, Sequences, FiniteSets

CONSTANTS
    FILE_NUM,      \* the number of files
    FileSize,      \* f_sizes of StorageFormat: bytes reserved for each file
    RecordSize,    \* the size in bytes of the records callers write and read
    Values,        \* contents of a record: all its half-words hold the value
    DataSize,      \* bytes in the data sector
    Slots,         \* metadata copies that fit in the metadata sector
    Offsets,       \* the offsets StorageFileReadOffsetSet is called with
    OffsetMod,     \* offsets are unsigned integers modulo this number
    PowerFails     \* may the power fail?

File == 0 .. FILE_NUM - 1

ASSUME StorageAssumption ==
    /\ FILE_NUM \in Nat \ {0}
    /\ FileSize \in [File -> Nat \ {0}]
    /\ RecordSize \in [File -> Nat \ {0}]
    /\ Values \subseteq Nat
    /\ DataSize \in Nat \ {0} /\ DataSize % 2 = 0
    /\ Slots \in Nat \ {0}
    /\ Offsets \subseteq Nat
    /\ OffsetMod \in Nat /\ OffsetMod > DataSize
    /\ PowerFails \in BOOLEAN

VARIABLES
    cells,      \* the data sector
    slots,      \* the metadata sector
    Metadata,   \* RAM: the offsets of each file
    store,      \* RAM: MetadataAddressStore, as a slot number
    pc,         \* the flash operation the driver is about to do
    op,         \* the call in progress
    res,        \* what the last call returned
    acked       \* history: the records of which the write returned OK

flashVars == <<cells, slots>>
ramVars == <<Metadata, store>>
vars == <<cells, slots, Metadata, store, pc, op, res, acked>>

-----------------------------------------------------------------------------
(* Flash.                                                                  *)

Erased == -1     \* the contents of an erased half-word
Cells == 0 .. DataSize \div 2 - 1
Contents == {Erased, 0} \cup Values
ErasedCells == [c \in Cells |-> Erased]

ZeroMetadata == [f \in File |-> [write_offset |-> 0, read_offset |-> 0]]
SlotNumbers == 0 .. Slots - 1
\* A slot is erased, torn (programmed without its CRC) or a copy of Metadata.
SlotOf(st, m) == [st |-> st, copy |-> m]
ErasedSlots == [s \in SlotNumbers |-> SlotOf("erased", ZeroMetadata)]

CanProgram(a, v) ==
    /\ a % 2 = 0
    /\ a \div 2 \in Cells
    /\ cells[a \div 2] = Erased \/ v = 0

\* flash_write pads a record with zeros to a multiple of four bytes.
HalfWords(size) == 2 * ((size + 3) \div 4)
HalfWord(v, size, n) == IF 2 * n < size THEN v ELSE 0

-----------------------------------------------------------------------------
(* Metadata.                                                               *)

\* IMetadataInit: a file starts its own size after the start of the previous
\* file.
FileAddr[f \in File] == IF f = 0 THEN 0 ELSE FileAddr[f - 1] + FileSize[f]

DataAddrIsValid(a) == a \in 0 .. DataSize - 1
FileAddrIsValid(a, f) == a \in FileAddr[f] .. FileAddr[f] + FileSize[f] - 1

\* The records of a file lie one behind the other; a record covers these
\* half-words (what pads it is not part of it).
RecordAddr(f, k) == FileAddr[f] + (k - 1) * RecordSize[f]
RecordCells(f, k) ==
    LET first == RecordAddr(f, k) \div 2
    IN  first .. first + (RecordSize[f] - 1) \div 2

\* A record that needs padding is the last of its file: the next one would start
\* at an odd address, or in the padding, where only a zero can be programmed.
OneRecord(f) ==
    \/ RecordSize[f] % 2 = 1
    \/ RecordSize[f] % 4 = 2 /\ 0 \notin Values

\* What the configuration has to see to and the code does not check: no two
\* files overlap, and a padded record that starts inside its file ends there.
FilesAreApart ==
    \A f, g \in File : f < g => FileAddr[f] + FileSize[f] <= FileAddr[g]
RecordsFit ==
    \A f \in File : \A k \in 1 .. FileSize[f] :
        FileAddrIsValid(RecordAddr(f, k), f) /\ (k > 1 => ~OneRecord(f)) =>
            (k - 1) * RecordSize[f] + 2 * HalfWords(RecordSize[f]) <= FileSize[f]

\* IMetadataFind walks over the valid slots and stops at the first other one.
\* With all slots valid the code goes on to read one more past the last, where
\* the flash ends; here what is read there is no copy.
ValidSlots(s) ==
    CHOOSE n \in 0 .. Slots :
        /\ \A i \in 0 .. n - 1 : s[i].st = "valid"
        /\ n < Slots => s[n].st # "valid"

Call(kind, f, v) == [kind |-> kind, fd |-> f, val |-> v, n |-> 0]
NoCall == Call("none", 0, 0)

-----------------------------------------------------------------------------
(* Faulty variants of definitions below, each with one plausible mistake.  *)

\* Nothing compares the address with the end of the file.
StorageFileWriteUnchecked(f, v) ==
    /\ pc = "idle"
    /\ op' = Call("write", f, v)
    /\ pc' = "data"
    /\ UNCHANGED <<flashVars, ramVars, res, acked>>

\* The first valid copy is loaded, not the newest.
StorageMountFirst ==
    /\ pc = "boot"
    /\ \/ /\ ValidSlots(slots) > 0
          /\ Metadata' = slots[0].copy
          /\ store' = ValidSlots(slots)
          /\ pc' = "idle"
          /\ res' = "OK"
       \/ /\ ValidSlots(slots) = 0
          /\ pc' = "format_data"
          /\ res' = "FAIL"
          /\ UNCHANGED ramVars
    /\ op' = NoCall
    /\ UNCHANGED <<flashVars, acked>>

\* A slot that refuses the copy is stepped over.
StoreCopySkips ==
    /\ pc = "store"
    /\ store < Slots
    /\ \/ /\ slots[store].st = "erased"
          /\ slots' = [slots EXCEPT ![store].st = "torn"]
          /\ pc' = "crc"
          /\ UNCHANGED store
       \/ /\ slots[store].st # "erased"
          /\ store' = store + 1
          /\ UNCHANGED <<slots, pc>>
    /\ UNCHANGED <<cells, Metadata, op, res, acked>>

\* The metadata is initialized again with the sector.
CleanEraseForgets ==
    /\ pc = "store"
    /\ store >= Slots
    /\ slots' = ErasedSlots
    /\ store' = 0
    /\ Metadata' = ZeroMetadata
    /\ UNCHANGED <<cells, pc, op, res, acked>>

RelativeAddUnchecked(m, off) == {(m.read_offset + off) % OffsetMod}

-----------------------------------------------------------------------------
(* Where a file is written and read next.                                  *)

WriteEnd(f) == FileAddr[f] + Metadata[f].write_offset
ReadEnd(f) == FileAddr[f] + Metadata[f].read_offset

-----------------------------------------------------------------------------
(* ComposerTask mounts the storage and formats it when that fails.         *)

Init ==
    /\ cells = ErasedCells
    /\ slots = ErasedSlots
    /\ Metadata = ZeroMetadata
    /\ store = 0
    /\ pc = "boot"
    /\ op = NoCall
    /\ res = "OK"
    /\ acked = [f \in File |-> <<>>]

StorageMount ==
    /\ pc = "boot"
    /\ \/ /\ ValidSlots(slots) > 0
          /\ Metadata' = slots[ValidSlots(slots) - 1].copy
          /\ store' = ValidSlots(slots)
          /\ pc' = "idle"
          /\ res' = "OK"
       \/ /\ ValidSlots(slots) = 0
          /\ pc' = "format_data"
          /\ res' = "FAIL"
          /\ UNCHANGED ramVars
    /\ op' = NoCall
    /\ UNCHANGED <<flashVars, acked>>

\* StorageFormat.  It stops with an error when a file starts outside the data
\* sector.
FormatData ==
    /\ pc = "format_data"
    /\ cells' = ErasedCells
    /\ pc' = "format_metadata"
    /\ UNCHANGED <<slots, ramVars, op, res, acked>>

FormatMetadata ==
    /\ pc = "format_metadata"
    /\ slots' = ErasedSlots
    /\ \/ /\ \A f \in File : DataAddrIsValid(FileAddr[f])
          /\ Metadata' = ZeroMetadata
          /\ op' = Call("format", 0, 0)
          /\ pc' = "store"
          /\ UNCHANGED res
       \/ /\ \E f \in File : ~DataAddrIsValid(FileAddr[f])
          /\ res' = "ERROR"
          /\ pc' = "failed"
          /\ UNCHANGED <<Metadata, op>>
    /\ UNCHANGED <<cells, store, acked>>

-----------------------------------------------------------------------------
(* IMetadataStore and IMetadataClean.                                      *)

\* The copy of Metadata is programmed.  A slot that is not erased refuses it,
\* and MetadataAddressStore stays where it is.
StoreCopy ==
    /\ pc = "store"
    /\ store < Slots
    /\ \/ /\ slots[store].st = "erased"
          /\ slots' = [slots EXCEPT ![store].st = "torn"]
          /\ pc' = "crc"
          /\ UNCHANGED <<op, res>>
       \/ /\ slots[store].st # "erased"
          /\ pc' = "idle"
          /\ op' = NoCall
          /\ res' = "ERROR"
          /\ UNCHANGED slots
    /\ UNCHANGED <<cells, ramVars, acked>>

\* The CRC is programmed: the call is over.  After a format ComposerTask mounts.
StoreCrc ==
    /\ pc = "crc"
    /\ slots' = [slots EXCEPT ![store] = SlotOf("valid", Metadata)]
    /\ store' = store + 1
    /\ pc' = IF op.kind = "format" THEN "boot" ELSE "idle"
    /\ res' = "OK"
    /\ acked' = IF op.kind = "write"
                THEN [acked EXCEPT ![op.fd] = Append(@, op.val)] ELSE acked
    /\ op' = NoCall
    /\ UNCHANGED <<cells, Metadata>>

\* IMetadataClean: the journal is full, its sector is erased.
CleanErase ==
    /\ pc = "store"
    /\ store >= Slots
    /\ slots' = ErasedSlots
    /\ store' = 0
    /\ UNCHANGED <<cells, Metadata, pc, op, res, acked>>

-----------------------------------------------------------------------------
(* Files.                                                                  *)

\* StorageFileWrite: only the address of the first byte is checked.
StorageFileWrite(f, v) ==
    /\ pc = "idle"
    /\ \/ /\ FileAddrIsValid(WriteEnd(f), f)
          /\ op' = Call("write", f, v)
          /\ pc' = "data"
          /\ UNCHANGED res
       \/ /\ ~FileAddrIsValid(WriteEnd(f), f)
          /\ res' = "ERROR"
          /\ UNCHANGED <<op, pc>>
    /\ UNCHANGED <<flashVars, ramVars, acked>>

\* One half-word of the record; after the last one the write offset moves by
\* the size of the record, without the padding.
ProgramData ==
    /\ pc = "data"
    /\ LET f == op.fd
           a == WriteEnd(f) + 2 * op.n
           v == HalfWord(op.val, RecordSize[f], op.n)
           last == op.n + 1 = HalfWords(RecordSize[f])
       IN  \/ /\ CanProgram(a, v)
              /\ cells' = [cells EXCEPT ![a \div 2] = v]
              /\ op' = [op EXCEPT !.n = @ + 1]
              /\ pc' = IF last THEN "store" ELSE "data"
              /\ Metadata' = IF last
                             THEN [Metadata EXCEPT ![f].write_offset = @ + RecordSize[f]]
                             ELSE Metadata
              /\ UNCHANGED res
           \/ /\ ~CanProgram(a, v)
              /\ pc' = "idle"
              /\ op' = NoCall
              /\ res' = "ERROR"
              /\ UNCHANGED <<cells, Metadata>>
    /\ UNCHANGED <<slots, store, acked>>

\* StorageFileRead moves the read offset and stores the metadata, too.
StorageFileRead(f) ==
    /\ pc = "idle"
    /\ \/ /\ Metadata[f].read_offset + RecordSize[f] <= Metadata[f].write_offset
          /\ FileAddrIsValid(ReadEnd(f), f)
          /\ op' = Call("read", f, 0)
          /\ Metadata' = [Metadata EXCEPT ![f].read_offset = @ + RecordSize[f]]
          /\ pc' = "store"
          /\ UNCHANGED res
       \/ /\ \/ Metadata[f].read_offset + RecordSize[f] > Metadata[f].write_offset
             \/ ~FileAddrIsValid(ReadEnd(f), f)
          /\ res' = "ERROR"
          /\ UNCHANGED <<Metadata, op, pc>>
    /\ UNCHANGED <<flashVars, store, acked>>

\* The read offset each option asks for; SUB, ADD and ABSOLUTE do not exceed
\* what was written, SUB because it only moves back.
RelativeSub(m, off) == IF m.read_offset >= off THEN {m.read_offset - off} ELSE {}
RelativeAdd(m, off) ==
    {r \in {(m.read_offset + off) % OffsetMod} : r <= m.write_offset}
Absolute(m, off) == {r \in {off} : r <= m.write_offset}

StorageFileReadOffsetSet(f, off) ==
    /\ pc = "idle"
    /\ \E r \in UNION {RelativeSub(Metadata[f], off),
                       RelativeAdd(Metadata[f], off), Absolute(Metadata[f], off)} :
         /\ DataAddrIsValid(FileAddr[f] + r)
         /\ Metadata' = [Metadata EXCEPT ![f].read_offset = r]
    /\ res' = "OK"
    /\ UNCHANGED <<flashVars, store, pc, op, acked>>

-----------------------------------------------------------------------------
(* Power.                                                                  *)

\* History: all that was written is gone when no slot is left to mount.
Surviving == IF ValidSlots(slots) > 0 THEN acked ELSE [f \in File |-> <<>>]

PowerLoss ==
    /\ PowerFails
    /\ pc # "boot"
    /\ pc' = "boot"
    /\ Metadata' = ZeroMetadata
    /\ store' = 0
    /\ op' = NoCall
    /\ res' = "OK"
    /\ acked' = Surviving
    /\ UNCHANGED flashVars

Driver ==
    \/ StorageMount \/ FormatData \/ FormatMetadata
    \/ StoreCopy \/ StoreCrc \/ CleanErase \/ ProgramData
    \/ \E f \in File, v \in Values : StorageFileWrite(f, v)
    \/ \E f \in File : StorageFileRead(f)
    \/ \E f \in File, off \in Offsets : StorageFileReadOffsetSet(f, off)

Next == Driver \/ PowerLoss

Spec == Init /\ [][Next]_vars

-----------------------------------------------------------------------------
(* Properties.                                                             *)

Offset == 0 .. OffsetMod - 1
MetadataType == [File -> [write_offset: Offset, read_offset: Offset]]

\* Every variable keeps its type.
TypeOK ==
    /\ cells \in [Cells -> Contents]
    /\ slots \in [SlotNumbers -> [st: {"erased", "torn", "valid"}, copy: MetadataType]]
    /\ Metadata \in MetadataType
    /\ store \in 0 .. Slots
    /\ pc \in {"boot", "format_data", "format_metadata", "failed", "idle",
               "data", "store", "crc"}
    /\ op \in [kind: {"none", "format", "write", "read"}, fd: File,
               val: Values \cup {0}, n: Nat]
    /\ res \in {"OK", "ERROR", "FAIL"}
    /\ acked \in [File -> Seq(Values)]

\* The file contents that a copy of the metadata makes visible.  A record of
\* which some half-words hold something else is no record.
RecordAt(f, k) ==
    LET v == cells[RecordAddr(f, k) \div 2]
    IN  IF \A c \in RecordCells(f, k) : cells[c] = v THEN v ELSE Erased
LogOf(m) ==
    [f \in File |->
        [k \in 1 .. m[f].write_offset \div RecordSize[f] |-> RecordAt(f, k)]]

Formatting == pc \in {"format_data", "format_metadata"} \/ op.kind = "format"
Cleaning == pc \in {"store", "crc"} /\ ~Formatting /\ ValidSlots(slots) = 0

\* The file contents a mount would find, or is about to find again when the
\* metadata sector is being rewritten.
DiskLog ==
    IF ValidSlots(slots) > 0 THEN LogOf(slots[ValidSlots(slots) - 1].copy)
    ELSE IF Cleaning THEN LogOf(Metadata)
    ELSE [f \in File |-> <<>>]

\* A write that returned OK survives every power loss (but for the one that
\* Surviving names), and a write that returned an error or was cut off is not
\* seen half done by the next mount.
AckedIsDurable == pc \in {"boot", "idle", "data"} => DiskLog = acked

\* The journal is a run of valid copies, then at most one torn copy, then
\* erased slots; while the driver is idle the next copy goes right behind the
\* valid ones.  A mount that stops at the first slot that is not valid
\* therefore finds the newest copy.
JournalIsPrefix ==
    /\ \A s \in SlotNumbers : s > ValidSlots(slots) => slots[s].st = "erased"
    /\ pc \in {"idle", "data"} => store = ValidSlots(slots)

\* While the driver is idle the write offsets in RAM are the ones a mount
\* would find, unless a torn copy blocks the journal.
OffsetsArePersistent ==
    pc = "idle" /\ (store < Slots => slots[store].st = "erased") =>
        \A f \in File :
            Metadata[f].write_offset = slots[store - 1].copy[f].write_offset

\* The read offset does not overtake the write offset, in RAM and in every
\* copy, whatever offsets are set, also when the sum of offsets wraps around.
ReadBehindWrite ==
    \A m \in {Metadata} \cup {slots[s].copy : s \in SlotNumbers} : \A f \in File :
        m[f].read_offset <= m[f].write_offset

\* The inductive invariant.  The journal has n valid copies, and the driver is at
\* the slot behind them where it stores; the slot it is at is torn between copy
\* and CRC, and erased when there is no valid copy.
JournalOf(n) ==
    /\ \A s \in SlotNumbers : (s < n => slots[s].st = "valid") /\ (s > n => slots[s].st = "erased")
    /\ n < Slots => slots[n].st # "valid"
    /\ pc \in {"idle", "data", "store", "crc"} => store = n
    /\ pc \in {"idle", "data"} => n > 0
    /\ pc = "store" /\ n = 0 => slots[n].st = "erased"
    /\ pc = "crc" => n < Slots /\ slots[n].st = "torn"
    /\ pc \in {"format_data", "format_metadata"} => n = 0 /\ store = 0
    /\ pc = "boot" /\ n = 0 => store = 0
    /\ n > 0 \/ pc \in {"idle", "data", "store", "crc"} =>
          \A f \in File : DataAddrIsValid(FileAddr[f])

\* The journal is in order, the offsets of a driver at rest are those of the
\* newest copy, and a record that is written has a value.
Journal == \E n \in 0 .. Slots : JournalOf(n)
NewestIsLoaded ==
    pc \in {"idle", "data"} /\ (store < Slots => slots[store].st = "erased") =>
        \A f \in File :
            Metadata[f].write_offset = slots[store - 1].copy[f].write_offset
WriteHasValue == op.kind = "write" => op.val \in Values

IInv == TypeOK /\ ReadBehindWrite /\ Journal /\ NewestIsLoaded /\ WriteHasValue

\* A write programs only half-words of the file it is for.
WritesStayInFile ==
    [][pc = "data" => \A c \in Cells : cells'[c] # cells[c] =>
          \A f \in File : FileAddrIsValid(2 * c, f) <=> f = op.fd]_vars

\* The driver implements the record log.
Log == INSTANCE RecordLog WITH log <- DiskLog, compacting <- Cleaning
ImplementsRecordLog == Log!LogSpec
=============================================================================
