------------------------------- MODULE RomSearch -------------------------------
(***************************************************************************)
(* The search for the devices of one family on a 1-Wire bus:               *)
(* ow_cmd_master_search_devices, ow_cmd_master_find_device and             *)
(* ow_cmd_master_rom_search of drivers/OneWire/master/ow_cmd_master.c.     *)
(*                                                                         *)
(* All devices answer a bit at once and the wire carries the AND of their  *)
(* answers; a bit the master writes sends those with another bit away.     *)
(* Devices are external; they may be unplugged between any two slots.      *)
(***************************************************************************)
EXTENDS Integers, FiniteSets, Sequences

CONSTANTS
    ROMCODE_BITS,   \* OW_ROMCODE_SIZE * 8
    FAMILY_BITS,    \* those of them that name the family
    MAX_DEVICES,    \* room in the caller's array
    MaxOnBus        \* bound on the devices of a bus

ASSUME RomAssumption ==
    /\ ROMCODE_BITS \in 1 .. 64
    /\ FAMILY_BITS \in 1 .. ROMCODE_BITS - 1
    /\ MAX_DEVICES \in Nat \ {0}
    /\ MaxOnBus \in Nat

VARIABLES
    devices,    \* the devices on the bus
    active,     \* those that still take part in this pass
    pc,         \* where the master is
    family,     \* family_code
    diff,       \* what the last pass has left to search
    next_diff,  \* the same of this pass
    i,          \* bits to go in this pass
    b,          \* the bit that was read, and then the one to write
    id,         \* the code of the last pass, overwritten bit by bit
    ids,        \* the codes that were recorded; n is its length
    result,     \* what the search returned
    started     \* history: the devices on the bus when the search began

pass == <<active, diff, next_diff, i, b, id>>
vars == <<devices, pc, family, ids, result, started, pass>>

Bit == {0, 1}

(* The last bit stands for the CRC: codes that differ do so before it, too. *)
Codes ==
    {code \in [1 .. ROMCODE_BITS -> Bit] :
        code[ROMCODE_BITS] = Cardinality({k \in 1 .. ROMCODE_BITS - 1 : code[k] = 1}) % 2}
Family(code) == SubSeq(code, 1, FAMILY_BITS)
Families == [1 .. FAMILY_BITS -> Bit]

OW_OK == 0
OW_LAST_DEVICE == 0
OW_PRESENCE_ERR == 1
OW_DATA_ERR == 254
OW_SEARCH_FIRST == 255

Position == ROMCODE_BITS - i + 1
Wire(bits) == IF 0 \in bits THEN 0 ELSE 1

-----------------------------------------------------------------------------
Init ==
    /\ devices \in {bus \in SUBSET Codes : Cardinality(bus) <= MaxOnBus}
    /\ active = {}
    /\ pc = "idle"
    /\ family \in Families
    /\ diff = OW_SEARCH_FIRST
    /\ next_diff = OW_LAST_DEVICE
    /\ i = 0
    /\ b = 0
    /\ id = [k \in 1 .. ROMCODE_BITS |-> 0]
    /\ ids = <<>>
    /\ result = OW_OK
    /\ started = {}

(* ow_cmd_master_search_devices is called; id is uninitialized.             *)
Search ==
    /\ pc = "idle"
    /\ pc' = "reset"
    /\ diff' = OW_SEARCH_FIRST
    /\ ids' = <<>>
    /\ started' = devices
    /\ UNCHANGED <<devices, family, result, active, next_diff, i, b, id>>

End(error) ==
    /\ pc' = "ended"
    /\ result' = error

(* ow_cmd_master_rom_search begins: reset and OW_SEARCH_ROM.                *)
Reset ==
    /\ pc = "reset"
    /\ IF devices = {}
       THEN /\ End(OW_PRESENCE_ERR)
            /\ diff' = OW_PRESENCE_ERR
            /\ UNCHANGED <<active, next_diff, i>>
       ELSE /\ pc' = "read"
            /\ active' = devices
            /\ next_diff' = OW_LAST_DEVICE
            /\ i' = ROMCODE_BITS
            /\ UNCHANGED <<diff, result>>
    /\ UNCHANGED <<devices, family, ids, started, b, id>>

ReadBit ==
    /\ pc = "read"
    /\ b' = Wire({code[Position] : code \in active})
    /\ pc' = "complement"
    /\ UNCHANGED <<devices, family, ids, result, started, active, diff, next_diff, i, id>>

\* Faulty: takes the same way again.
TakesOneAgain == diff > i \/ id[Position] = 1

\* Faulty: goes to 0 above the place where this pass leaves the last one.
TakesOneBelowOnly == diff > i

(* Which way to go where devices differ: to 1 below the place where this    *)
(* pass leaves the last one, as the last pass above it, and to 0 there.     *)
TakesOne == diff > i \/ (id[Position] = 1 /\ diff # i)

\* Faulty: two ones are taken for a 1.
NobodyAnswersIgnored(complement) == FALSE

NobodyAnswers(complement) == complement = 1 /\ b = 1

ReadComplement ==
    /\ pc = "complement"
    /\ LET complement == Wire({1 - code[Position] : code \in active})
       IN  IF NobodyAnswers(complement)
           THEN /\ End(OW_DATA_ERR)
                /\ diff' = OW_DATA_ERR
                /\ UNCHANGED <<b, next_diff>>
           ELSE /\ pc' = "write"
                /\ IF complement = 0 /\ b = 0 /\ TakesOne
                   THEN b' = 1 /\ next_diff' = i
                   ELSE UNCHANGED <<b, next_diff>>
                /\ UNCHANGED <<result, diff>>
    /\ UNCHANGED <<devices, family, ids, started, active, i, id>>

WriteBit ==
    /\ pc = "write"
    /\ active' = {code \in active : code[Position] = b}
    /\ id' = [id EXCEPT ![Position] = b]
    /\ i' = i - 1
    /\ pc' = IF i = 1 THEN "found" ELSE "read"
    /\ UNCHANGED <<devices, family, ids, result, started, diff, next_diff, b>>

(* ow_cmd_master_find_device after a pass, and the loop around it.  The     *)
(* place a pass has left to search is compared with the error codes, too:   *)
(* OW_PRESENCE_ERR is also the last bit, where codes with a CRC never part. *)
Found ==
    /\ pc = "found"
    /\ diff' = next_diff
    /\ IF next_diff \in {OW_PRESENCE_ERR, OW_DATA_ERR}
       THEN End(next_diff) /\ UNCHANGED ids
       ELSE \/ /\ next_diff # OW_LAST_DEVICE /\ Family(id) # family
               /\ pc' = "reset"
               /\ UNCHANGED <<ids, result>>
            \/ /\ next_diff = OW_LAST_DEVICE \/ Family(id) = family
               /\ ids' = Append(ids, id)
               /\ IF next_diff # OW_LAST_DEVICE /\ Len(ids') < MAX_DEVICES
                  THEN pc' = "reset" /\ UNCHANGED result
                  ELSE End(OW_OK)
    /\ UNCHANGED <<devices, family, started, active, next_diff, i, b, id>>

(* The caller takes the result; the next search begins afresh.              *)
Return ==
    /\ pc = "ended"
    /\ pc' = "idle"
    /\ diff' = OW_SEARCH_FIRST
    /\ next_diff' = OW_LAST_DEVICE
    /\ active' = {} /\ i' = 0 /\ b' = 0
    /\ id' = [k \in 1 .. ROMCODE_BITS |-> 0]
    /\ ids' = <<>>
    /\ result' = OW_OK
    /\ started' = {}
    /\ UNCHANGED <<devices, family>>

Unplug(code) ==
    /\ code \in devices
    /\ devices' = devices \ {code}
    /\ active' = active \ {code}
    /\ UNCHANGED <<pc, family, ids, result, started, diff, next_diff, i, b, id>>

-----------------------------------------------------------------------------
MasterStep == Reset \/ ReadBit \/ ReadComplement \/ WriteBit \/ Found

Next == Search \/ MasterStep \/ Return \/ \E code \in devices : Unplug(code)

Spec == Init /\ [][Next]_vars

(* The master runs until its call returns.                                  *)
FairSpec == Spec /\ WF_vars(MasterStep)

-----------------------------------------------------------------------------
Recorded == {ids[k] : k \in 1 .. Len(ids)}

(* A search that reports success while no device went away has recorded     *)
(* every device of the family once, as many as there is room for, and at    *)
(* most one other: the last it came to                                      *)
(* (ow_cmd_master_search_devices).                                          *)
FindsFamily ==
    pc = "ended" /\ started = devices /\ devices # {} =>
        /\ result = OW_OK
        /\ Cardinality(Recorded) = Len(ids)
        /\ \A k \in 1 .. Len(ids) - 1 : Family(ids[k]) = family
        /\ \A code \in devices :
              Family(code) = family => code \in Recorded \/ Len(ids) = MAX_DEVICES

(* Whatever is unplugged and when, only codes of devices that were there    *)
(* are recorded: no code is put together from those of two devices.         *)
RecordedWasThere == Recorded \subseteq started

(* The inductive invariant: those that still take part agree with the code  *)
(* so far, and a bit that was read or is to be written is that of a device  *)
(* that was there and agrees, too.                                          *)
Agrees(code) == \A k \in 1 .. ROMCODE_BITS : k < Position => code[k] = id[k]
SomeAgrees(bit) == \E code \in started : Agrees(code) /\ code[Position] = bit

TypeOK ==
    /\ devices \subseteq Codes /\ started \subseteq Codes /\ active \subseteq devices
    /\ pc \in {"idle", "reset", "read", "complement", "write", "found", "ended"}
    /\ family \in Families
    /\ diff \in 0 .. 255 /\ next_diff \in 0 .. 255
    /\ i \in 0 .. ROMCODE_BITS
    /\ b \in Bit
    /\ id \in [1 .. ROMCODE_BITS -> Bit]
    /\ ids \in Seq([1 .. ROMCODE_BITS -> Bit])
    /\ result \in 0 .. 255

PassInv ==
    /\ pc # "idle" => devices \subseteq started
    /\ pc \in {"read", "complement", "write"} =>
          i > 0 /\ \A code \in active : Agrees(code)
    /\ pc = "complement" /\ b = 0 => SomeAgrees(0)
    /\ pc = "write" => SomeAgrees(b)
    /\ pc = "found" => id \in started

IInv == TypeOK /\ PassInv /\ RecordedWasThere

(* A search ends, although it walks on until it meets the family.           *)
SearchEnds == pc # "idle" ~> pc = "ended"
=============================================================================
