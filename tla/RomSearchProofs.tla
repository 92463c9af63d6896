--------------------------- MODULE RomSearchProofs ---------------------------
(***************************************************************************)
(* Proofs about the search for devices, for codes of any length, any       *)
(* number of devices and any room for them: it records nothing that was    *)
(* not there, whatever is unplugged and when, and while nothing is         *)
(* unplugged it records all of the family.                                 *)
(***************************************************************************)
EXTENDS RomSearch, FiniteSetTheorems, WellFoundedInduction, TLAPS

Places == {"idle", "reset", "read", "complement", "write", "found", "ended"}

(* The wire is low when one pulls it low, and high when nobody does.        *)
LEMMA WireIsLowest ==
    ASSUME NEW bits \in SUBSET Bit
    PROVE  /\ Wire(bits) \in Bit
           /\ Wire(bits) = 0 => 0 \in bits
           /\ Wire(bits) = 1 => 0 \notin bits
BY DEF Wire, Bit

LEMMA Constants ==
    /\ ROMCODE_BITS \in 1 .. 64
    /\ ROMCODE_BITS \in 0 .. 255
    /\ {OW_OK, OW_LAST_DEVICE, OW_PRESENCE_ERR, OW_DATA_ERR, OW_SEARCH_FIRST} \subseteq 0 .. 255
BY RomAssumption DEF OW_OK, OW_LAST_DEVICE, OW_PRESENCE_ERR, OW_DATA_ERR, OW_SEARCH_FIRST

LEMMA CodesAreBits == \A code \in Codes : code \in [1 .. ROMCODE_BITS -> Bit]
BY DEF Codes

-----------------------------------------------------------------------------
LEMMA InitInv == Init => IInv
<1> SUFFICES ASSUME Init PROVE IInv
  OBVIOUS
<1>1. /\ devices \subseteq Codes /\ active = {} /\ started = {} /\ ids = <<>>
      /\ pc = "idle" /\ family \in Families /\ b = 0 /\ i = 0
      /\ diff = OW_SEARCH_FIRST /\ next_diff = OW_LAST_DEVICE /\ result = OW_OK
  BY DEF Init
<1>2. id \in [1 .. ROMCODE_BITS -> Bit]
  BY DEF Init, Bit
<1>3. ids \in Seq([1 .. ROMCODE_BITS -> Bit])
  BY <1>1
<1>4. TypeOK
  BY <1>1, <1>2, <1>3, Constants DEF TypeOK, Bit
<1>5. PassInv /\ RecordedWasThere
  BY <1>1 DEF PassInv, RecordedWasThere, Recorded
<1> QED
  BY <1>4, <1>5 DEF IInv

(* Nothing is recorded and no pass goes on while the search starts or ends. *)
LEMMA BetweenSearches ==
    ASSUME IInv, Search \/ Return
    PROVE  IInv'
<1>1. ids' = <<>> /\ pc' \in {"reset", "idle"} /\ (pc' = "reset" => started' = devices')
  BY DEF Search, Return
<1>2. ids' \in Seq([1 .. ROMCODE_BITS -> Bit])
  BY <1>1
<1>3. TypeOK'
  <2>1. CASE Search
    BY <1>2, <2>1, Constants DEF IInv, TypeOK, Search
  <2>2. CASE Return
    <3>1. id' \in [1 .. ROMCODE_BITS -> Bit]
      BY <2>2 DEF Return, Bit
    <3>2. b' \in Bit /\ i' \in 0 .. ROMCODE_BITS
      BY <2>2, Constants DEF Return, Bit
    <3> QED
      BY <1>2, <2>2, <3>1, <3>2, Constants DEF IInv, TypeOK, Return
  <2> QED
    BY <2>1, <2>2
<1>4. PassInv' /\ RecordedWasThere'
  BY <1>1 DEF PassInv, RecordedWasThere, Recorded
<1> QED
  BY <1>3, <1>4 DEF IInv

LEMMA ResetKeeps == ASSUME IInv, Reset PROVE IInv'
<1> USE DEF IInv
<1>1. TypeOK'
  <2>1. UNCHANGED <<devices, family, ids, started, b, id>>
    BY DEF Reset
  <2>2. \/ pc' = "ended" /\ result' = OW_PRESENCE_ERR /\ diff' = OW_PRESENCE_ERR
           /\ UNCHANGED <<active, next_diff, i>>
        \/ pc' = "read" /\ active' = devices /\ next_diff' = OW_LAST_DEVICE
           /\ i' = ROMCODE_BITS /\ UNCHANGED <<diff, result>>
    BY DEF Reset, End
  <2>3. /\ active' \subseteq devices' /\ pc' \in Places
        /\ diff' \in 0 .. 255 /\ next_diff' \in 0 .. 255 /\ result' \in 0 .. 255
        /\ i' \in 0 .. ROMCODE_BITS
    <3>1. active \subseteq devices /\ diff \in 0 .. 255 /\ next_diff \in 0 .. 255
          /\ result \in 0 .. 255 /\ i \in 0 .. ROMCODE_BITS
      BY DEF TypeOK
    <3>2. ROMCODE_BITS \in 0 .. ROMCODE_BITS
      BY Constants
    <3>3. /\ OW_PRESENCE_ERR \in 0 .. 255
          /\ OW_LAST_DEVICE \in 0 .. 255
      BY Constants
    <3>4. pc' \in Places
      BY <2>2 DEF Places
    <3>5. active' \subseteq devices'
      BY <2>1, <2>2, <3>1
    <3> QED
      BY <2>2, <3>1, <3>2, <3>3, <3>4, <3>5
  <2> QED
    BY <2>1, <2>3 DEF TypeOK, Places
<1>2. RecordedWasThere'
  BY DEF IInv, RecordedWasThere, Recorded, Reset
<1>3. PassInv'
  <2>1. devices' \subseteq started'
    BY DEF IInv, PassInv, Reset
  <2>2. CASE devices = {}
    BY <2>1, <2>2 DEF Reset, End, PassInv
  <2>3. CASE devices # {}
    <3>1. i' = ROMCODE_BITS /\ pc' = "read"
      BY <2>3 DEF Reset
    <3>2. i' > 0 /\ \A code \in active' : Agrees(code)'
      BY <3>1, Constants DEF Agrees, Position
    <3> QED
      BY <2>1, <3>1, <3>2 DEF PassInv
  <2> QED
    BY <2>2, <2>3
<1> QED
  BY <1>1, <1>2, <1>3 DEF IInv

(* Where the pass is, and what the wire says of those that take part.       *)
LEMMA ReadBitKeeps == ASSUME IInv, ReadBit PROVE IInv'
<1>1. Position \in 1 .. ROMCODE_BITS
  BY Constants DEF IInv, TypeOK, PassInv, ReadBit, Position
<1>2. {code[Position] : code \in active} \in SUBSET Bit
  <2>1. active \subseteq Codes
    BY DEF IInv, TypeOK
  <2>2. \A code \in active : code[Position] \in Bit
    BY <1>1, <2>1, CodesAreBits
  <2> QED
    BY <2>2, Zenon
<1>3. /\ b' \in Bit
      /\ b' = 0 => \E code \in active : code[Position] = 0
  BY <1>2, WireIsLowest DEF ReadBit
<1>4. TypeOK'
  BY <1>3 DEF IInv, TypeOK, ReadBit
<1>5. b' = 0 => SomeAgrees(0)'
  BY <1>3 DEF IInv, TypeOK, PassInv, SomeAgrees, Agrees, Position, ReadBit
<1>6. /\ i' > 0 /\ devices' \subseteq started' /\ pc' = "complement"
      /\ \A code \in active' : Agrees(code)'
  BY DEF IInv, PassInv, Agrees, Position, ReadBit
<1>7. PassInv' /\ RecordedWasThere'
  BY <1>5, <1>6 DEF IInv, PassInv, RecordedWasThere, Recorded, ReadBit
<1> QED
  BY <1>4, <1>7 DEF IInv

LEMMA ReadComplementKeeps == ASSUME IInv, ReadComplement PROVE IInv'
<1> DEFINE complement == Wire({1 - code[Position] : code \in active})
<1>1. Position \in 1 .. ROMCODE_BITS /\ pc = "complement" /\ b \in Bit
  BY Constants DEF IInv, TypeOK, PassInv, ReadComplement, Position
<1>2. \A code \in active : code[Position] \in {0, 1}
  BY <1>1, CodesAreBits DEF IInv, TypeOK, Bit
<1>3. {1 - code[Position] : code \in active} \in SUBSET Bit
  BY <1>2 DEF Bit
<1>4. /\ complement \in {0, 1}
      /\ complement = 0 => \E code \in active : code[Position] = 1
  BY <1>2, <1>3, WireIsLowest DEF Bit
<1> HIDE DEF complement
<1>5. CASE NobodyAnswers(complement)
  <2>1. /\ pc' = "ended" /\ diff' = OW_DATA_ERR /\ result' = OW_DATA_ERR
        /\ UNCHANGED <<devices, family, ids, started, active, i, id, b, next_diff>>
    BY <1>5 DEF ReadComplement, complement, End
  <2>2. TypeOK'
    BY <2>1, Constants DEF IInv, TypeOK
  <2> QED
    BY <1>1, <2>1, <2>2 DEF IInv, PassInv, RecordedWasThere, Recorded
<1>6. CASE ~NobodyAnswers(complement)
  <2>1. /\ pc' = "write"
        /\ UNCHANGED <<devices, family, ids, started, active, i, id, result, diff>>
        /\ \/ complement = 0 /\ b = 0 /\ b' = 1 /\ next_diff' = i
           \/ b' = b /\ next_diff' = next_diff
    BY <1>6 DEF ReadComplement, complement
  <2>2. TypeOK'
    <3>1. b' \in Bit
      BY <1>1, <2>1 DEF Bit
    <3>2. next_diff' \in 0 .. 255
      <4>1. i \in 0 .. ROMCODE_BITS /\ next_diff \in 0 .. 255 /\ ROMCODE_BITS \in 1 .. 64
        BY Constants DEF IInv, TypeOK
      <4>2. i \in 0 .. 255
        BY <4>1
      <4> QED
        BY <2>1, <4>1, <4>2
    <3> QED
      BY <2>1, <3>1, <3>2 DEF IInv, TypeOK
  <2>3. b = 0 => SomeAgrees(0)
    BY <1>1 DEF IInv, PassInv
  <2>4. complement = 0 => SomeAgrees(1)
    BY <1>1, <1>4 DEF IInv, TypeOK, PassInv, SomeAgrees
  <2>5. SomeAgrees(b')
    BY <1>1, <1>4, <1>6, <2>1, <2>3, <2>4 DEF NobodyAnswers, Bit
  <2>6. SomeAgrees(b)'
    BY <2>1, <2>5 DEF SomeAgrees, Agrees, Position
  <2>7. PassInv' /\ RecordedWasThere'
    BY <1>1, <2>1, <2>6 DEF IInv, PassInv, Agrees, Position, RecordedWasThere, Recorded
  <2> QED
    BY <2>2, <2>7 DEF IInv
<1> QED
  BY <1>5, <1>6

(* The bit that is written is appended to what all that remain agree on;    *)
(* the last one makes the code that of a device.                            *)
LEMMA WriteBitKeeps == ASSUME IInv, WriteBit PROVE IInv'
<1>1. /\ Position \in 1 .. ROMCODE_BITS /\ b \in Bit /\ i \in 1 .. ROMCODE_BITS
      /\ id \in [1 .. ROMCODE_BITS -> Bit]
  BY Constants DEF IInv, TypeOK, PassInv, WriteBit, Position
<1>2. /\ id' = [id EXCEPT ![Position] = b] /\ i' = i - 1 /\ Position' = Position + 1
      /\ active' = {code \in active : code[Position] = b}
      /\ UNCHANGED <<devices, family, ids, result, started, diff, next_diff, b>>
  BY <1>1, Constants DEF WriteBit, Position
<1>3. /\ id' \in [1 .. ROMCODE_BITS -> Bit] /\ id'[Position] = b
      /\ \A k \in 1 .. ROMCODE_BITS : k # Position => id'[k] = id[k]
  BY <1>1, <1>2
<1>4. TypeOK'
  <2>1. i' \in 0 .. ROMCODE_BITS
    BY <1>1, <1>2, Constants
  <2>2. active' \subseteq devices' /\ pc' \in Places
    BY <1>2 DEF IInv, TypeOK, WriteBit, Places
  <2> QED
    BY <1>2, <1>3, <2>1, <2>2 DEF IInv, TypeOK, Places
<1>5. ASSUME NEW code, Agrees(code), code[Position] = b
      PROVE  Agrees(code)'
  BY <1>1, <1>2, <1>3, <1>5 DEF Agrees
<1>6. \A code \in active' : Agrees(code)'
  BY <1>2, <1>5 DEF IInv, PassInv, WriteBit
<1>7. PICK code \in started : Agrees(code) /\ code[Position] = b
  BY DEF IInv, PassInv, WriteBit, SomeAgrees
<1>8. CASE i = 1
  <2>1. pc' = "found" /\ Position' = ROMCODE_BITS + 1
    <3>1. pc' = "found"
      BY <1>8 DEF WriteBit
    <3>2. Position = ROMCODE_BITS
      BY <1>8, Constants DEF Position
    <3> QED
      BY <1>2, <3>1, <3>2
  <2>2. \A k \in 1 .. ROMCODE_BITS : code[k] = id'[k]
    BY <1>5, <1>7, <2>1, Constants DEF Agrees
  <2>3. code \in [1 .. ROMCODE_BITS -> Bit]
    BY CodesAreBits DEF IInv, TypeOK
  <2>4. id' = code
    <3>1. id' = [k \in 1 .. ROMCODE_BITS |-> id'[k]] /\ code = [k \in 1 .. ROMCODE_BITS |-> code[k]]
      BY <1>3, <2>3
    <3> QED
      BY <2>2, <3>1, Zenon
  <2> QED
    BY <1>2, <1>4, <2>1, <2>4 DEF IInv, PassInv, RecordedWasThere, Recorded, WriteBit
<1>9. CASE i # 1
  <2>1. pc' = "read" /\ i' > 0
    BY <1>9, <1>1, <1>2 DEF WriteBit
  <2> QED
    BY <1>2, <1>4, <1>6, <2>1 DEF IInv, PassInv, RecordedWasThere, Recorded, WriteBit
<1> QED
  BY <1>8, <1>9

LEMMA FoundKeeps == ASSUME IInv, Found PROVE IInv'
<1>1. /\ id \in started /\ id \in [1 .. ROMCODE_BITS -> Bit]
      /\ pc' \in {"reset", "ended"} /\ (ids' = ids \/ ids' = Append(ids, id))
      /\ UNCHANGED <<devices, family, started, active, next_diff, i, b, id>>
      /\ diff' = next_diff
  BY DEF IInv, TypeOK, PassInv, Found, End
<1>2. ids \in Seq([1 .. ROMCODE_BITS -> Bit])
  BY DEF IInv, TypeOK
<1>3. ids' \in Seq([1 .. ROMCODE_BITS -> Bit])
  BY <1>1, <1>2
<1>4. result' \in 0 .. 255
  BY Constants DEF IInv, TypeOK, Found, End
<1>5. TypeOK'
  BY <1>1, <1>3, <1>4 DEF IInv, TypeOK
<1>6. RecordedWasThere'
  BY <1>1, <1>2 DEF IInv, RecordedWasThere, Recorded
<1>7. PassInv'
  BY <1>1 DEF IInv, PassInv, Found
<1> QED
  BY <1>5, <1>6, <1>7 DEF IInv

LEMMA UnplugKeeps == ASSUME IInv, NEW code \in devices, Unplug(code) PROVE IInv'
<1>1. devices' \subseteq devices /\ active' = active \ {code} /\ active' \subseteq devices'
  BY DEF IInv, TypeOK, Unplug
<1>2. UNCHANGED <<pc, family, ids, result, started, diff, next_diff, i, b, id>>
  BY DEF Unplug
<1>3. TypeOK'
  BY <1>1, <1>2 DEF IInv, TypeOK
<1>4. PassInv' /\ RecordedWasThere'
  BY <1>1, <1>2 DEF IInv, PassInv, RecordedWasThere, Recorded, SomeAgrees, Agrees, Position
<1> QED
  BY <1>3, <1>4 DEF IInv

LEMMA StepKeeps == IInv /\ [Next]_vars => IInv'
<1> SUFFICES ASSUME IInv, [Next]_vars PROVE IInv'
  OBVIOUS
<1>1. CASE Search \/ Return
  BY <1>1, BetweenSearches
<1>2. CASE Reset
  BY <1>2, ResetKeeps
<1>3. CASE ReadBit
  BY <1>3, ReadBitKeeps
<1>4. CASE ReadComplement
  BY <1>4, ReadComplementKeeps
<1>5. CASE WriteBit
  BY <1>5, WriteBitKeeps
<1>6. CASE Found
  BY <1>6, FoundKeeps
<1>7. CASE \E code \in devices : Unplug(code)
  BY <1>7, UnplugKeeps
<1>8. CASE UNCHANGED vars
  <2>1. UNCHANGED <<devices, pc, family, ids, result, started, active, diff, next_diff, i, b, id>>
    BY <1>8 DEF vars, pass
  <2>2. TypeOK'
    BY <2>1 DEF IInv, TypeOK
  <2>3. PassInv' /\ RecordedWasThere'
    BY <2>1 DEF IInv, PassInv, RecordedWasThere, Recorded, SomeAgrees, Agrees, Position
  <2> QED
    BY <2>2, <2>3 DEF IInv
<1> QED
  BY <1>1, <1>2, <1>3, <1>4, <1>5, <1>6, <1>7, <1>8 DEF Next, MasterStep

-----------------------------------------------------------------------------
(* The search records only codes of devices that were on the bus when it    *)
(* began: whatever is unplugged between two slots, the bits it puts         *)
(* together are all of one device (ow_cmd_master_rom_search).               *)
THEOREM CodesAreOfDevices == Spec => []RecordedWasThere
<1>1. IInv => RecordedWasThere
  BY DEF IInv
<1> QED
  BY <1>1, InitInv, StepKeeps, PTL DEF Spec

-----------------------------------------------------------------------------
(* The order of the search.  Of the codes that part at a bit, those with a  *)
(* 1 come first; place d of an array of bits is its bit LeaveOf(d).         *)

BitStrings == [1 .. ROMCODE_BITS -> Bit]
LeaveOf(d) == ROMCODE_BITS - d + 1

(* The code is that of x before bit q.                                      *)
Follows(code, x, q) == \A k \in 1 .. ROMCODE_BITS : k < q => code[k] = x[k]

(* Somebody goes to 0 where x goes to 1.                                    *)
Branch(S, x, q) == x[q] = 1 /\ \E code \in S : Follows(code, x, q) /\ code[q] = 0

(* Place d is the last of the first m - 1 bits where that happens.          *)
Deepest(S, x, m, d) ==
    /\ d = 0 \/ (LeaveOf(d) \in 1 .. m - 1 /\ Branch(S, x, LeaveOf(d)))
    /\ \A q \in 1 .. m - 1 : Branch(S, x, q) => d # 0 /\ q <= LeaveOf(d)

(* A pass goes to 0 at place d and behind it to 0 only when it must.        *)
Way(S, x, m, d) ==
    \A k \in 1 .. m - 1 :
        /\ k = LeaveOf(d) => x[k] = 0
        /\ k > LeaveOf(d) /\ x[k] = 0 =>
              ~\E code \in S : Follows(code, x, k) /\ code[k] = 1

(* There is somebody to be found when a pass leaves x at place d.           *)
Ahead(S, x, d) ==
    \/ d = OW_SEARCH_FIRST
    \/ /\ d \in 1 .. ROMCODE_BITS
       /\ \E code \in S : Follows(code, x, LeaveOf(d)) /\ code[LeaveOf(d)] = 0

(* The codes that this pass and those after it come to.                     *)
Unvisited(code, x, d) ==
    \/ d = OW_SEARCH_FIRST
    \/ \E q \in 1 .. ROMCODE_BITS :
          /\ q <= LeaveOf(d) /\ Follows(code, x, q) /\ code[q] = 0
          /\ q = LeaveOf(d) \/ x[q] = 1

LEMMA LeaveIsPlace == \A d \in 0 .. 255 : LeaveOf(d) \in Int
BY Constants DEF LeaveOf

(* These depend on the bits before place d only, which a pass repeats.      *)
LEMMA SameBefore ==
    ASSUME NEW S, NEW x, NEW y, NEW d \in 0 .. 255,
           \A k \in 1 .. ROMCODE_BITS : k < LeaveOf(d) => x[k] = y[k]
    PROVE  /\ Ahead(S, x, d) <=> Ahead(S, y, d)
           /\ \A code : Unvisited(code, x, d) <=> Unvisited(code, y, d)
<1>1. ROMCODE_BITS \in Nat /\ LeaveOf(d) \in Int
  BY Constants DEF LeaveOf
<1> DEFINE L == LeaveOf(d)
<1>2. ASSUME NEW code, NEW q \in Int, q <= L PROVE Follows(code, x, q) <=> Follows(code, y, q)
  BY <1>1, <1>2 DEF Follows
<1>3. L <= L
  BY <1>1
<1>4. Ahead(S, x, d) <=> Ahead(S, y, d)
  BY <1>1, <1>2, <1>3 DEF Ahead
<1>5. ASSUME NEW code PROVE Unvisited(code, x, d) <=> Unvisited(code, y, d)
  <2>1. ASSUME NEW q \in 1 .. ROMCODE_BITS, q <= L
        PROVE  /\ Follows(code, x, q) <=> Follows(code, y, q)
               /\ q = L \/ x[q] = 1 <=> q = L \/ y[q] = 1
    BY <1>1, <1>2, <2>1
  <2> HIDE DEF L
  <2> QED
    BY <2>1 DEF Unvisited, L
<1> QED
  BY <1>4, <1>5

(* One more bit.                                                            *)
LEMMA OneMoreBit ==
    ASSUME NEW S, NEW x \in BitStrings, NEW p \in 1 .. ROMCODE_BITS, NEW bit \in Bit,
           NEW d \in 0 .. 255, NEW e \in 0 .. 255, NEW f \in 0 .. 255,
           Way(S, x, p, d), Deepest(S, x, p, e),
           p = LeaveOf(d) => bit = 0,
           p > LeaveOf(d) /\ bit = 0 => ~\E code \in S : Follows(code, x, p) /\ code[p] = 1,
           \/ f = ROMCODE_BITS - p + 1 /\ bit = 1 /\ \E code \in S : Follows(code, x, p) /\ code[p] = 0
           \/ f = e /\ (bit = 1 => ~\E code \in S : Follows(code, x, p) /\ code[p] = 0)
    PROVE  LET y == [x EXCEPT ![p] = bit] IN
           Way(S, y, p + 1, d) /\ Deepest(S, y, p + 1, f)
<1> DEFINE y == [x EXCEPT ![p] = bit]
<1>1. /\ ROMCODE_BITS \in Nat /\ p \in Nat /\ LeaveOf(d) \in Int /\ LeaveOf(e) \in Int
      /\ LeaveOf(f) \in Int
  <2>1. ROMCODE_BITS \in Nat
    BY Constants
  <2>2. p \in Nat
    BY <2>1
  <2> QED
    BY <2>1, <2>2, LeaveIsPlace
<1>2. y[p] = bit /\ \A k \in 1 .. ROMCODE_BITS : k # p => y[k] = x[k]
  BY DEF BitStrings
<1> HIDE DEF y
<1>3. ASSUME NEW code, NEW q \in Int, q <= p PROVE Follows(code, y, q) <=> Follows(code, x, q)
  BY <1>1, <1>2, <1>3 DEF Follows
<1>4. \A q \in 1 .. p - 1 : q \in Int /\ q <= p /\ q # p /\ q \in 1 .. ROMCODE_BITS
  BY <1>1
<1>5. \A q \in 1 .. p : q \in 1 .. p - 1 \/ q = p
  BY <1>1
<1>6. Way(S, y, p + 1, d)
  <2>1. ASSUME NEW k \in 1 .. p
        PROVE  /\ k = LeaveOf(d) => y[k] = 0
               /\ k > LeaveOf(d) /\ y[k] = 0 =>
                     ~\E code \in S : Follows(code, y, k) /\ code[k] = 1
    <3>1. CASE k = p
      BY <1>1, <1>2, <1>3, <3>1
    <3>2. CASE k \in 1 .. p - 1
      BY <1>2, <1>3, <1>4, <3>2 DEF Way
    <3> QED
      BY <1>5, <3>1, <3>2
  <2>2. (p + 1) - 1 = p
    BY <1>1
  <2> QED
    BY <2>1, <2>2 DEF Way
<1>7. \A q \in 1 .. p - 1 : Branch(S, y, q) <=> Branch(S, x, q)
  BY <1>2, <1>3, <1>4 DEF Branch
<1>8. Branch(S, y, p) <=> bit = 1 /\ \E code \in S : Follows(code, x, p) /\ code[p] = 0
  BY <1>1, <1>2, <1>3 DEF Branch
<1>9. (p + 1) - 1 = p /\ p \in 1 .. p /\ \A q \in 1 .. p - 1 : q \in 1 .. p /\ q <= p
  BY <1>1
<1>10. CASE f = ROMCODE_BITS - p + 1 /\ bit = 1 /\ \E code \in S : Follows(code, x, p) /\ code[p] = 0
  <2>1. LeaveOf(f) = p /\ f # 0
    BY <1>1, <1>10 DEF LeaveOf
  <2>2. Deepest(S, y, p + 1, f)
    BY <1>1, <1>5, <1>8, <1>9, <1>10, <2>1 DEF Deepest
  <2> QED
    BY <1>6, <2>2 DEF y
<1>11. CASE f = e /\ (bit = 1 => ~\E code \in S : Follows(code, x, p) /\ code[p] = 0)
  <2>1. ~Branch(S, y, p)
    BY <1>8, <1>11
  <2>2. Deepest(S, y, p + 1, f)
    BY <1>5, <1>7, <1>9, <1>11, <2>1 DEF Deepest
  <2> QED
    BY <1>6, <2>2 DEF y
<1> QED
  BY <1>10, <1>11

(* A set of numbers has a least one.                                        *)
LEMMA LeastOne ==
    ASSUME NEW T, T \subseteq Nat, T # {}
    PROVE  \E q \in T : \A k \in T : q <= k
<1>1. IsWellFoundedOn(OpToRel(<, Nat), Nat)
  BY NatLessThanWellFounded
<1> DEFINE R == OpToRel(<, Nat)
<1>2. \A x, y \in Nat : x < y => <<x, y>> \in R
  BY DEF OpToRel
<1> HIDE DEF R
<1>3. PICK q \in T : \A k \in T : ~(<<k, q>> \in R)
  <2>1. IsWellFoundedOn(R, Nat)
    BY <1>1 DEF R
  <2> QED
    BY <2>1, WFMin
<1>4. \A k \in T : ~(k < q)
  BY <1>2, <1>3
<1> QED
  BY <1>3, <1>4

(* A pass that went its way to the end visited one code, and no other.      *)
LEMMA OneVisited ==
    ASSUME NEW S \in SUBSET BitStrings, NEW x \in BitStrings,
           NEW d \in 0 .. 255, NEW e \in 0 .. 255,
           Way(S, x, ROMCODE_BITS + 1, d), Deepest(S, x, ROMCODE_BITS + 1, e),
           d = OW_SEARCH_FIRST \/ d \in 1 .. ROMCODE_BITS
    PROVE  /\ Unvisited(x, x, d)
           /\ \A code \in S : Unvisited(code, x, d) /\ code # x =>
                 e # 0 /\ Unvisited(code, x, e)
           /\ e # 0 => /\ ~Unvisited(x, x, e)
                       /\ \A code : Unvisited(code, x, e) => Unvisited(code, x, d)
<1> DEFINE N == ROMCODE_BITS
           L == LeaveOf(d)
           M == LeaveOf(e)
<1>1. N \in 1 .. 64 /\ L \in Int /\ M \in Int /\ (N + 1) - 1 = N
  BY Constants DEF LeaveOf
<1>2. d = OW_SEARCH_FIRST => L < 1
  BY Constants DEF OW_SEARCH_FIRST, LeaveOf
<1>3. d \in 1 .. N => L \in 1 .. N /\ d # OW_SEARCH_FIRST
  BY <1>1 DEF LeaveOf, OW_SEARCH_FIRST
<1>4. e # 0 => M \in 1 .. N /\ x[M] = 1 /\ e # OW_SEARCH_FIRST
  BY <1>1 DEF Deepest, Branch, LeaveOf, OW_SEARCH_FIRST
<1>5. \A k \in 1 .. N : /\ k = L => x[k] = 0
                        /\ k > L /\ x[k] = 0 => ~\E code \in S : Follows(code, x, k) /\ code[k] = 1
  BY <1>1 DEF Way
<1>6. \A q \in 1 .. N : Branch(S, x, q) => e # 0 /\ q <= M
  BY <1>1 DEF Deepest
<1>7. \A q \in 1 .. N : Follows(x, x, q)
  BY DEF Follows
<1> HIDE DEF L, M, N
<1>8. Unvisited(x, x, d)
  BY <1>1, <1>3, <1>5, <1>7 DEF Unvisited, L, N
<1>9. ASSUME e # 0 PROVE ~Unvisited(x, x, e)
  BY <1>4, <1>9 DEF Unvisited, M, N
<1>10. ASSUME e # 0, NEW code, Unvisited(code, x, e) PROVE Unvisited(code, x, d)
  <2>1. PICK q \in 1 .. N : q <= M /\ Follows(code, x, q) /\ code[q] = 0 /\ x[q] = 1
    BY <1>4, <1>10 DEF Unvisited, M, N
  <2>2. CASE d = OW_SEARCH_FIRST
    BY <2>2 DEF Unvisited
  <2>3. CASE d \in 1 .. N
    <3>1. L \in 1 .. N /\ x[L] = 0 /\ q # L
      BY <1>3, <1>5, <2>1, <2>3
    <3>2. CASE q < L
      BY <1>1, <2>1, <3>2 DEF Unvisited, L, N
    <3>3. CASE q > L
      <4>1. code[L] = 0 /\ Follows(code, x, L)
        BY <1>1, <2>1, <3>1, <3>3 DEF Follows, N
      <4> QED
        BY <1>1, <3>1, <4>1 DEF Unvisited, L, N
    <3> QED
      BY <1>1, <3>1, <3>2, <3>3
  <2> QED
    BY <2>2, <2>3 DEF N
<1>11. ASSUME NEW code \in S, Unvisited(code, x, d), code # x PROVE e # 0 /\ Unvisited(code, x, e)
  <2>1. PICK q \in 1 .. N : code[q] # x[q] /\ \A k \in 1 .. N : k < q => code[k] = x[k]
    <3> DEFINE T == {k \in 1 .. N : code[k] # x[k]}
    <3>1. T # {}
      <4>1. code \in [1 .. N -> Bit] /\ x \in [1 .. N -> Bit]
        BY DEF BitStrings, N
      <4>2. code = [k \in 1 .. N |-> code[k]] /\ x = [k \in 1 .. N |-> x[k]]
        BY <4>1
      <4>3. ASSUME \A k \in 1 .. N : code[k] = x[k] PROVE FALSE
        BY <1>11, <4>2, <4>3, Zenon
      <4> QED
        BY <4>3
    <3>2. PICK q \in T : \A k \in T : q <= k
      <4>1. T \subseteq Nat
        BY <1>1
      <4> QED
        BY <3>1, <4>1, LeastOne
    <3> QED
      BY <1>1, <3>2
  <2>2. Follows(code, x, q)
    BY <2>1 DEF Follows, N
  <2>3. code[q] \in {0, 1} /\ x[q] \in {0, 1}
    BY DEF BitStrings, Bit, N
  <2>4. CASE code[q] = 0 /\ x[q] = 1
    <3>1. Branch(S, x, q)
      BY <2>2, <2>4 DEF Branch
    <3>2. e # 0 /\ q <= M
      BY <1>6, <3>1
    <3> QED
      BY <2>2, <2>4, <3>2 DEF Unvisited, M, N
  <2>5. CASE code[q] = 1 /\ x[q] = 0
    <3>1. ~(q > L)
      BY <1>5, <2>2, <2>5
    <3>2. q <= L /\ L \in 1 .. N /\ d # OW_SEARCH_FIRST
      BY <1>1, <1>2, <1>3, <3>1 DEF N
    <3>3. PICK r \in 1 .. N : r <= L /\ Follows(code, x, r) /\ code[r] = 0 /\ (r = L \/ x[r] = 1)
      BY <1>11, <3>2 DEF Unvisited, L, N
    <3>4. ~(q < r)
      BY <2>1, <3>3 DEF Follows, N
    <3>5. r # q
      BY <2>5, <3>3
    <3>6. r < q
      BY <1>1, <3>4, <3>5
    <3>7. code[r] = x[r] /\ r # L
      BY <1>1, <2>1, <3>2, <3>6
    <3> QED
      BY <3>3, <3>7
  <2> QED
    BY <2>1, <2>3, <2>4, <2>5
<1> QED
  BY <1>8, <1>9, <1>10, <1>11

-----------------------------------------------------------------------------
(* The inductive invariant of the search, while no device goes away.  What  *)
(* was recorded is behind it and all of the family that was not is still    *)
(* ahead, in every pass as when it began; the pass goes the way of the last *)
(* one to the place where it leaves it, and remembers the place where the   *)
(* next one will leave it.                                                  *)

Whole == started = devices /\ devices # {}

(* The code and its length once the bit at hand is written.                 *)
NextId == IF pc = "write" THEN [id EXCEPT ![Position] = b] ELSE id
Limit == IF pc = "write" THEN Position + 1 ELSE Position

InPass == pc \in {"read", "complement", "write", "found"}

RecordsInv ==
    /\ IsFiniteSet(Recorded) /\ Cardinality(Recorded) = Len(ids)
    /\ \A k \in 1 .. Len(ids) : Family(ids[k]) = family
    /\ Len(ids) < MAX_DEVICES
    /\ \A code \in Recorded : ~Unvisited(code, id, diff)
    /\ \A code \in devices :
          Family(code) = family => code \in Recorded \/ Unvisited(code, id, diff)

WayInv ==
    /\ Way(devices, NextId, Limit, diff)
    /\ Deepest(devices, NextId, Limit, next_diff)
    /\ pc = "write" /\ Position < LeaveOf(diff) => b = id[Position]
    /\ pc # "found" => active = {code \in devices : Agrees(code)} /\ active # {}
    /\ pc = "complement" => (b = 0 <=> \E code \in active : code[Position] = 0)
    /\ pc = "write" => \E code \in active : code[Position] = b
    /\ pc = "found" <=> i = 0

SearchInv ==
    Whole => /\ pc = "reset" \/ InPass => RecordsInv /\ Ahead(devices, id, diff)
             /\ InPass => WayInv
             /\ FindsFamily

LEMMA UnplugEnds == ASSUME IInv, NEW code \in devices, Unplug(code) PROVE SearchInv'
<1>1. CASE pc = "idle"
  BY <1>1 DEF Unplug, SearchInv, InPass, FindsFamily
<1>2. CASE pc # "idle"
  <2>1. code \in started' /\ code \notin devices'
    BY <1>2 DEF IInv, PassInv, Unplug
  <2>2. ~Whole'
    BY <2>1 DEF Whole
  <2> QED
    BY <2>2 DEF SearchInv
<1> QED
  BY <1>1, <1>2

LEMMA SearchBegins == ASSUME IInv, Search PROVE SearchInv'
<1>1. pc' = "reset" /\ diff' = OW_SEARCH_FIRST /\ ids' = <<>>
  BY DEF Search
<1>2. Recorded' = {} /\ Len(ids') = 0
  BY <1>1 DEF Recorded
<1>3. MAX_DEVICES \in Nat \ {0}
  BY RomAssumption
<1>4. IsFiniteSet({}) /\ Cardinality({}) = 0
  BY FS_EmptySet
<1>5. RecordsInv'
  BY <1>1, <1>2, <1>3, <1>4 DEF RecordsInv, Unvisited
<1> QED
  BY <1>1, <1>5 DEF SearchInv, InPass, FindsFamily, Ahead

LEMMA ResetStays == ASSUME IInv, SearchInv, Reset PROVE SearchInv'
<1> SUFFICES ASSUME Whole' PROVE SearchInv'
  BY DEF SearchInv
<1>1. UNCHANGED <<devices, family, ids, started, b, id>> /\ pc = "reset"
  BY DEF Reset
<1>2. devices # {} /\ Whole
  BY <1>1 DEF Whole
<1>3. /\ pc' = "read" /\ active' = devices /\ next_diff' = OW_LAST_DEVICE
      /\ i' = ROMCODE_BITS /\ UNCHANGED <<diff, result>>
  BY <1>2 DEF Reset
<1>4. Position' = 1
  BY <1>3, Constants DEF Position
<1>5. (RecordsInv /\ Ahead(devices, id, diff))'
  BY <1>1, <1>2, <1>3 DEF SearchInv, RecordsInv, Recorded
<1>6. NextId' = id' /\ Limit' = 1 /\ i' # 0 /\ next_diff' = 0
  BY <1>3, <1>4, Constants DEF NextId, Limit, OW_LAST_DEVICE
<1>7. /\ Way(devices', id', 1, diff')
      /\ Deepest(devices', id', 1, 0)
  BY DEF Way, Deepest
<1>8. \A code \in devices' : Agrees(code)'
  BY <1>4 DEF Agrees
<1>9. WayInv'
  BY <1>1, <1>2, <1>3, <1>6, <1>7, <1>8 DEF WayInv
<1> QED
  BY <1>3, <1>5, <1>9 DEF SearchInv, FindsFamily

LEMMA ReadBitStays == ASSUME IInv, SearchInv, ReadBit PROVE SearchInv'
<1> SUFFICES ASSUME Whole' PROVE SearchInv'
  BY DEF SearchInv
<1>1. /\ pc = "read" /\ pc' = "complement"
      /\ UNCHANGED <<devices, family, ids, result, started, active, diff, next_diff, i, id>>
  BY DEF ReadBit
<1>2. RecordsInv /\ Ahead(devices, id, diff) /\ WayInv
  BY <1>1 DEF Whole, SearchInv, InPass
<1>3. (RecordsInv /\ Ahead(devices, id, diff))'
  BY <1>1, <1>2 DEF RecordsInv, Recorded
<1>4. Position \in 1 .. ROMCODE_BITS /\ Position' = Position
  BY <1>1, Constants DEF IInv, TypeOK, PassInv, Position
<1>5. {code[Position] : code \in active} \in SUBSET Bit
  <2>1. active \subseteq Codes
    BY DEF IInv, TypeOK
  <2>2. \A code \in active : code[Position] \in Bit
    BY <1>4, <2>1, CodesAreBits
  <2> QED
    BY <2>2, Zenon
<1>6. b' = 0 <=> \E code \in active : code[Position] = 0
  BY <1>5, WireIsLowest DEF ReadBit, Bit
<1>7. NextId' = NextId /\ Limit' = Limit
  BY <1>1, <1>4 DEF NextId, Limit
<1>8. active' = {code \in devices' : Agrees(code)'} /\ active' # {}
  BY <1>1, <1>2, <1>4 DEF WayInv, Agrees
<1>9. WayInv'
  BY <1>1, <1>2, <1>4, <1>6, <1>7, <1>8 DEF WayInv
<1> QED
  BY <1>1, <1>3, <1>9 DEF SearchInv, FindsFamily

(* Below the place where it leaves the last pass, this one can go where     *)
(* that one went, for the device it is looking for went there, too.         *)
LEMMA ReadComplementStays == ASSUME IInv, SearchInv, ReadComplement PROVE SearchInv'
<1> SUFFICES ASSUME Whole' PROVE SearchInv'
  BY DEF SearchInv
<1> DEFINE complement == Wire({1 - code[Position] : code \in active})
           p == Position
           L == LeaveOf(diff)
           Goes(bit) == \E code \in devices : Follows(code, id, p) /\ code[p] = bit
<1>1. pc = "complement" /\ UNCHANGED <<devices, family, ids, started, active, i, id>>
  BY DEF ReadComplement
<1>2. Whole /\ RecordsInv /\ Ahead(devices, id, diff) /\ WayInv
  BY <1>1 DEF Whole, SearchInv, InPass
<1>3. /\ ROMCODE_BITS \in 1 .. 64 /\ i \in 1 .. ROMCODE_BITS
      /\ p \in 1 .. ROMCODE_BITS /\ p = LeaveOf(i) /\ p = ROMCODE_BITS - i + 1
      /\ diff \in 0 .. 255 /\ next_diff \in 0 .. 255 /\ i \in 0 .. 255 /\ L \in Int
      /\ b \in {0, 1} /\ id \in BitStrings /\ devices \subseteq Codes
  BY <1>1, Constants DEF IInv, TypeOK, PassInv, Position, LeaveOf, Bit, BitStrings
<1>4. /\ diff > i <=> p > L
      /\ diff = i <=> p = L
  BY <1>3 DEF LeaveOf
<1>5. \A code \in devices : code[p] \in {0, 1}
  BY <1>3, CodesAreBits DEF Bit
<1>6. \A code \in devices : Agrees(code) <=> Follows(code, id, p)
  BY DEF Agrees, Follows
<1>7. /\ active \subseteq devices /\ active # {}
      /\ \A code : code \in active <=> code \in devices /\ Follows(code, id, p)
  BY <1>1, <1>2, <1>6 DEF WayInv
<1>8. b = 0 <=> Goes(0)
  <2>1. b = 0 <=> \E code \in active : code[p] = 0
    BY <1>1, <1>2 DEF WayInv
  <2> QED
    BY <1>7, <2>1
<1>9. complement \in {0, 1} /\ (complement = 0 <=> Goes(1))
  <2>1. {1 - code[p] : code \in active} \in SUBSET Bit
    BY <1>5, <1>7 DEF Bit
  <2>2. complement \in {0, 1} /\ (complement = 0 <=> 0 \in {1 - code[p] : code \in active})
    BY <2>1, WireIsLowest DEF Bit
  <2>3. 0 \in {1 - code[p] : code \in active} <=> \E code \in active : code[p] = 1
    BY <1>5, <1>7
  <2> QED
    BY <1>7, <2>2, <2>3
<1>10. Goes(0) \/ Goes(1)
  BY <1>5, <1>7
<1>11. Position' = p /\ \A code : Agrees(code)' <=> Agrees(code)
  BY <1>1 DEF Position, Agrees
<1> HIDE DEF complement
<1>12. /\ pc' = "write" /\ UNCHANGED <<result, diff>>
       /\ IF complement = 0 /\ b = 0 /\ TakesOne
          THEN b' = 1 /\ next_diff' = i
          ELSE UNCHANGED <<b, next_diff>>
  BY <1>8, <1>9, <1>10 DEF ReadComplement, NobodyAnswers, complement
<1>13. TakesOne <=> p > L \/ (id[p] = 1 /\ p # L)
  BY <1>4 DEF TakesOne
<1>14. p <= L => diff \in 1 .. ROMCODE_BITS
  BY <1>2, <1>3 DEF Ahead, LeaveOf, OW_SEARCH_FIRST
<1>15. p = L => Goes(0)
  BY <1>2, <1>3, <1>14 DEF Ahead, OW_SEARCH_FIRST
<1>16. id[p] \in {0, 1}
  BY <1>3 DEF BitStrings, Bit
<1>17. p < L => Goes(id[p])
  <2> SUFFICES ASSUME p < L PROVE Goes(id[p])
    OBVIOUS
  <2>1. diff \in 1 .. ROMCODE_BITS /\ diff # OW_SEARCH_FIRST
    BY <1>3, <1>14 DEF OW_SEARCH_FIRST
  <2>2. PICK code \in devices : Follows(code, id, L)
    BY <2>1, <1>2 DEF Ahead
  <2>3. code[p] = id[p] /\ Follows(code, id, p)
    BY <1>3, <2>2 DEF Follows
  <2> QED
    BY <2>2, <2>3
<1> HIDE DEF Goes
<1>18. /\ b' \in {0, 1} /\ Goes(b')
       /\ p < L => b' = id[p]
       /\ p = L => b' = 0
       /\ p > L /\ b' = 0 => ~Goes(1)
       /\ \/ next_diff' = i /\ b' = 1 /\ Goes(0)
          \/ next_diff' = next_diff /\ (b' = 1 => ~Goes(0))
  <2>1. CASE complement = 0 /\ b = 0 /\ TakesOne
    <3>1. b' = 1 /\ next_diff' = i /\ Goes(1) /\ Goes(0)
      BY <1>8, <1>9, <1>12, <2>1
    <3>2. p # L /\ (p < L => id[p] = 1)
      BY <1>3, <1>13, <2>1
    <3> QED
      BY <3>1, <3>2
  <2>2. CASE ~(complement = 0 /\ b = 0 /\ TakesOne)
    <3>1. b' = b /\ next_diff' = next_diff
      BY <1>12, <2>2
    <3>2. CASE b = 1
      <4>1. ~Goes(0) /\ Goes(1)
        BY <1>8, <1>10, <3>2
      <4>2. p # L /\ (p < L => id[p] = 1)
        BY <1>15, <1>16, <1>17, <4>1
      <4> QED
        BY <3>1, <3>2, <4>1, <4>2
    <3>3. CASE b = 0
      <4>1. Goes(0)
        BY <1>8, <3>3
      <4>2. p > L => ~Goes(1)
        BY <1>9, <1>13, <2>2, <3>3
      <4>3. p < L => id[p] = 0
        <5>1. p < L => complement # 0 \/ id[p] # 1
          BY <1>3, <1>13, <2>2, <3>3
        <5> QED
          BY <1>9, <1>16, <1>17, <5>1
      <4> QED
        BY <3>1, <3>3, <4>1, <4>2, <4>3
    <3> QED
      BY <1>3, <3>2, <3>3
  <2> QED
    BY <2>1, <2>2
<1>19. /\ Way(devices, id, p, diff) /\ Deepest(devices, id, p, next_diff)
  BY <1>1, <1>2 DEF WayInv, NextId, Limit
<1>20. /\ Way(devices, [id EXCEPT ![p] = b'], p + 1, diff)
       /\ Deepest(devices, [id EXCEPT ![p] = b'], p + 1, next_diff')
  <2>1. next_diff' \in 0 .. 255 /\ b' \in Bit
    BY <1>3, <1>18 DEF Bit
  <2>2. p > L /\ b' = 0 => ~\E code \in devices : Follows(code, id, p) /\ code[p] = 1
    BY <1>18 DEF Goes
  <2>3. \/ next_diff' = ROMCODE_BITS - p + 1 /\ b' = 1
           /\ \E code \in devices : Follows(code, id, p) /\ code[p] = 0
        \/ next_diff' = next_diff
           /\ (b' = 1 => ~\E code \in devices : Follows(code, id, p) /\ code[p] = 0)
    <3>1. i = ROMCODE_BITS - p + 1
      BY <1>3
    <3> QED
      BY <1>18, <3>1 DEF Goes
  <2>4. p = L => b' = 0
    BY <1>18
  <2>5. id \in BitStrings /\ p \in 1 .. ROMCODE_BITS /\ diff \in 0 .. 255 /\ next_diff \in 0 .. 255
    BY <1>3
  <2> HIDE DEF p
  <2> QED
    BY <1>19, <2>1, <2>2, <2>3, <2>4, <2>5, OneMoreBit
<1>21. NextId' = [id EXCEPT ![p] = b'] /\ Limit' = p + 1
  <2>1. NextId' = [id' EXCEPT ![Position'] = b'] /\ Limit' = Position' + 1
    BY <1>12 DEF NextId, Limit
  <2> QED
    BY <1>1, <1>11, <2>1
<1>22. \E code \in active' : code[Position'] = b'
  BY <1>1, <1>7, <1>11, <1>18 DEF Goes
<1>23. active' = {code \in devices' : Agrees(code)'} /\ active' # {}
  <2>1. active = {code \in devices : Agrees(code)}
    BY <1>1, <1>2 DEF WayInv
  <2> QED
    BY <1>1, <1>7, <1>11, <2>1
<1>24. Position' < LeaveOf(diff') => b' = id'[Position']
  BY <1>1, <1>11, <1>12, <1>18
<1>25. WayInv'
  <2>1. i' # 0 /\ pc' = "write" /\ diff' = diff /\ devices' = devices
    BY <1>1, <1>3, <1>12
  <2>2. Way(devices', NextId', Limit', diff') /\ Deepest(devices', NextId', Limit', next_diff')
    BY <1>20, <1>21, <2>1
  <2> QED
    BY <1>22, <1>23, <1>24, <2>1, <2>2 DEF WayInv
<1>26. (RecordsInv /\ Ahead(devices, id, diff))'
  BY <1>1, <1>2, <1>12 DEF RecordsInv, Recorded
<1> QED
  BY <1>12, <1>25, <1>26 DEF SearchInv, FindsFamily

(* The bits before the place where the pass leaves the last one are written *)
(* as they were: what is behind and ahead of the search stays so.           *)
LEMMA WriteBitStays == ASSUME IInv, SearchInv, WriteBit PROVE SearchInv'
<1> SUFFICES ASSUME Whole' PROVE SearchInv'
  BY DEF SearchInv
<1> DEFINE p == Position
<1>1. /\ pc = "write"
      /\ UNCHANGED <<devices, family, ids, result, started, diff, next_diff, b>>
      /\ active' = {code \in active : code[p] = b}
      /\ id' = [id EXCEPT ![p] = b] /\ i' = i - 1
      /\ pc' = IF i = 1 THEN "found" ELSE "read"
  BY DEF WriteBit
<1>2. Whole /\ RecordsInv /\ Ahead(devices, id, diff) /\ WayInv
  BY <1>1 DEF Whole, SearchInv, InPass
<1>3. /\ ROMCODE_BITS \in 1 .. 64 /\ i \in 1 .. ROMCODE_BITS
      /\ p \in 1 .. ROMCODE_BITS /\ p = ROMCODE_BITS - i + 1
      /\ diff \in 0 .. 255 /\ LeaveOf(diff) \in Int
      /\ id \in [1 .. ROMCODE_BITS -> Bit]
  BY <1>1, Constants DEF IInv, TypeOK, PassInv, Position, LeaveOf
<1>4. Position' = p + 1
  BY <1>1, <1>3 DEF Position
<1>5. id'[p] = b /\ \A k \in 1 .. ROMCODE_BITS : k # p => id'[k] = id[k]
  BY <1>1, <1>3
<1>6. \A k \in 1 .. ROMCODE_BITS : k < LeaveOf(diff) => id[k] = id'[k]
  BY <1>1, <1>2, <1>3, <1>5 DEF WayInv
<1>7. /\ Ahead(devices, id', diff)
      /\ \A code : Unvisited(code, id, diff) <=> Unvisited(code, id', diff)
  BY <1>2, <1>3, <1>6, SameBefore
<1>8. (RecordsInv /\ Ahead(devices, id, diff))'
  BY <1>1, <1>2, <1>7 DEF RecordsInv, Recorded
<1>9. NextId' = id' /\ Limit' = p + 1
  BY <1>1, <1>4 DEF NextId, Limit
<1>10. NextId = id' /\ Limit = p + 1
  BY <1>1 DEF NextId, Limit
<1>11. \A code : Agrees(code)' <=> Agrees(code) /\ code[p] = b
  BY <1>3, <1>4, <1>5 DEF Agrees
<1>12. active' = {code \in devices' : Agrees(code)'} /\ active' # {}
  <2>1. active = {code \in devices : Agrees(code)} /\ \E code \in active : code[p] = b
    BY <1>1, <1>2 DEF WayInv
  <2> QED
    BY <1>1, <1>11, <2>1
<1>13. pc' = "found" <=> i' = 0
  BY <1>1, <1>3
<1>14. WayInv'
  BY <1>1, <1>2, <1>9, <1>10, <1>12, <1>13 DEF WayInv
<1> QED
  BY <1>1, <1>8, <1>14 DEF SearchInv, FindsFamily

(* Codes that agree before the last bit are the same: it is the CRC.        *)
LEMMA LastBitFollows ==
    ASSUME NEW x \in Codes, NEW y \in Codes, Follows(x, y, ROMCODE_BITS)
    PROVE  x[ROMCODE_BITS] = y[ROMCODE_BITS]
<1>1. \A k \in 1 .. ROMCODE_BITS - 1 : x[k] = y[k]
  BY Constants DEF Follows
<1>2. {k \in 1 .. ROMCODE_BITS - 1 : x[k] = 1} = {k \in 1 .. ROMCODE_BITS - 1 : y[k] = 1}
  BY <1>1
<1> QED
  BY <1>2 DEF Codes

LEMMA FoundStays == ASSUME IInv, SearchInv, Found PROVE SearchInv'
<1> SUFFICES ASSUME Whole' PROVE SearchInv'
  BY DEF SearchInv
<1>1. /\ pc = "found" /\ diff' = next_diff
      /\ UNCHANGED <<devices, family, started, active, next_diff, i, b, id>>
  BY DEF Found
<1>2. Whole /\ RecordsInv /\ Ahead(devices, id, diff) /\ WayInv
  BY <1>1 DEF Whole, SearchInv, InPass
<1>3. /\ ROMCODE_BITS \in 1 .. 64 /\ diff \in 0 .. 255 /\ next_diff \in 0 .. 255
      /\ id \in BitStrings /\ id \in devices /\ devices \subseteq Codes
      /\ devices \in SUBSET BitStrings
      /\ ids \in Seq(BitStrings) /\ Len(ids) \in Nat /\ MAX_DEVICES \in Nat
  BY <1>1, <1>2, Constants, CodesAreBits, RomAssumption DEF IInv, TypeOK, PassInv, Whole, BitStrings
<1>4. Way(devices, id, ROMCODE_BITS + 1, diff) /\ Deepest(devices, id, ROMCODE_BITS + 1, next_diff)
  <2>1. i = 0
    BY <1>1, <1>2 DEF WayInv
  <2>2. Position = ROMCODE_BITS + 1
    BY <2>1, <1>3 DEF Position
  <2>3. NextId = id /\ Limit = ROMCODE_BITS + 1
    BY <1>1, <2>2 DEF NextId, Limit
  <2> QED
    BY <1>2, <2>3 DEF WayInv
<1>5. diff = OW_SEARCH_FIRST \/ diff \in 1 .. ROMCODE_BITS
  BY <1>2 DEF Ahead
<1>6. /\ Unvisited(id, id, diff)
      /\ \A code \in devices : Unvisited(code, id, diff) /\ code # id =>
            next_diff # 0 /\ Unvisited(code, id, next_diff)
      /\ next_diff # 0 => /\ ~Unvisited(id, id, next_diff)
                          /\ \A code : Unvisited(code, id, next_diff) => Unvisited(code, id, diff)
  <2> DEFINE D == diff
             E == next_diff
             X == id
             S == devices
  <2>1. S \in SUBSET BitStrings /\ X \in BitStrings /\ D \in 0 .. 255 /\ E \in 0 .. 255
    BY <1>3
  <2>2. Way(S, X, ROMCODE_BITS + 1, D) /\ Deepest(S, X, ROMCODE_BITS + 1, E)
    BY <1>4
  <2>3. D = OW_SEARCH_FIRST \/ D \in 1 .. ROMCODE_BITS
    BY <1>5
  <2> HIDE DEF D, E, X, S
  <2>4. /\ Unvisited(X, X, D)
        /\ \A code \in S : Unvisited(code, X, D) /\ code # X =>
              E # 0 /\ Unvisited(code, X, E)
        /\ E # 0 => /\ ~Unvisited(X, X, E)
                    /\ \A code : Unvisited(code, X, E) => Unvisited(code, X, D)
    BY <2>1, <2>2, <2>3, OneVisited, Zenon
  <2> QED
    BY <2>4 DEF D, E, X, S
<1>7. next_diff # 0 => /\ LeaveOf(next_diff) \in 1 .. ROMCODE_BITS
                       /\ Branch(devices, id, LeaveOf(next_diff))
  BY <1>3, <1>4 DEF Deepest
<1>8. next_diff # OW_PRESENCE_ERR /\ next_diff # OW_DATA_ERR
  <2>1. next_diff # 254
    BY <1>3, <1>7 DEF LeaveOf
  <2>2. ASSUME next_diff = 1 PROVE FALSE
    <3>1. LeaveOf(1) = ROMCODE_BITS
      BY <1>3 DEF LeaveOf
    <3>2. PICK code \in devices :
             id[ROMCODE_BITS] = 1 /\ Follows(code, id, ROMCODE_BITS) /\ code[ROMCODE_BITS] = 0
      BY <1>7, <2>2, <3>1 DEF Branch
    <3> QED
      BY <1>3, <3>2, LastBitFollows
  <2> QED
    BY <2>1, <2>2 DEF OW_PRESENCE_ERR, OW_DATA_ERR
<1>9. next_diff # 0 => Ahead(devices, id, next_diff)
  <2> SUFFICES ASSUME next_diff # 0 PROVE Ahead(devices, id, next_diff)
    OBVIOUS
  <2>1. next_diff \in 1 .. ROMCODE_BITS
    BY <1>3, <1>7 DEF LeaveOf
  <2> QED
    BY <1>7, <2>1 DEF Ahead, Branch
<1>10. CASE next_diff # 0 /\ Family(id) # family /\ pc' = "reset" /\ UNCHANGED <<ids, result>>
  <2>1. Recorded' = Recorded
    BY <1>10 DEF Recorded
  <2>2. \A code \in Recorded : ~Unvisited(code, id, next_diff)
    BY <1>2, <1>6, <1>10 DEF RecordsInv
  <2>3. \A code \in devices :
           Family(code) = family => code \in Recorded \/ Unvisited(code, id, next_diff)
    BY <1>2, <1>6, <1>10 DEF RecordsInv
  <2>4. RecordsInv'
    BY <1>1, <1>2, <1>10, <2>1, <2>2, <2>3 DEF RecordsInv
  <2>5. Ahead(devices', id', diff')
    BY <1>1, <1>9, <1>10
  <2> QED
    BY <1>10, <2>4, <2>5 DEF SearchInv, InPass, FindsFamily
<1>11. CASE /\ next_diff = 0 \/ Family(id) = family
            /\ ids' = Append(ids, id)
            /\ IF next_diff # 0 /\ Len(ids') < MAX_DEVICES
               THEN pc' = "reset" /\ UNCHANGED result
               ELSE End(OW_OK)
  <2>1. Len(ids') = Len(ids) + 1 /\ ids'[Len(ids) + 1] = id
        /\ \A k \in 1 .. Len(ids) : ids'[k] = ids[k]
    BY <1>3, <1>11
  <2>2. Recorded' = Recorded \cup {id}
    BY <1>3, <2>1 DEF Recorded
  <2>3. id \notin Recorded
    BY <1>2, <1>6 DEF RecordsInv
  <2>4. IsFiniteSet(Recorded') /\ Cardinality(Recorded') = Len(ids')
    BY <1>2, <2>1, <2>2, <2>3, FS_AddElement DEF RecordsInv
  <2>5. \A k \in 1 .. Len(ids) : Family(ids'[k]) = family
    BY <1>2, <2>1 DEF RecordsInv
  <2>6. \A code \in devices : Family(code) = family =>
           code \in Recorded' \/ (next_diff # 0 /\ Unvisited(code, id, next_diff))
    BY <1>2, <1>6, <2>2 DEF RecordsInv
  <2>7. CASE next_diff # 0 /\ Len(ids') < MAX_DEVICES
    <3>1. pc' = "reset" /\ Family(id) = family
      BY <1>11, <2>7
    <3>2. \A k \in 1 .. Len(ids') : Family(ids'[k]) = family
      <4>1. \A k \in 1 .. Len(ids') : k \in 1 .. Len(ids) \/ k = Len(ids) + 1
        BY <1>3, <2>1
      <4> QED
        BY <2>1, <2>5, <3>1, <4>1
    <3>3. \A code \in Recorded' : ~Unvisited(code, id, next_diff)
      BY <1>2, <1>6, <2>2, <2>7 DEF RecordsInv
    <3>4. RecordsInv'
      BY <1>1, <2>4, <2>6, <2>7, <3>2, <3>3 DEF RecordsInv
    <3>5. Ahead(devices', id', diff')
      BY <1>1, <1>9, <2>7
    <3> QED
      BY <3>1, <3>4, <3>5 DEF SearchInv, InPass, FindsFamily
  <2>8. CASE ~(next_diff # 0 /\ Len(ids') < MAX_DEVICES)
    <3>1. pc' = "ended" /\ result' = OW_OK
      BY <1>11, <2>8 DEF End
    <3>2. \A k \in 1 .. Len(ids') - 1 : Family(ids'[k]) = family
      BY <1>3, <2>1, <2>5
    <3>3. next_diff # 0 => Len(ids') = MAX_DEVICES
      BY <1>2, <1>3, <2>1, <2>8 DEF RecordsInv
    <3>4. FindsFamily'
      BY <1>1, <2>4, <2>6, <3>1, <3>2, <3>3 DEF FindsFamily
    <3> QED
      BY <3>1, <3>4 DEF SearchInv, InPass
  <2> QED
    BY <2>7, <2>8
<1> QED
  BY <1>8, <1>10, <1>11 DEF Found, OW_LAST_DEVICE

LEMMA SearchStays == IInv /\ SearchInv /\ [Next]_vars => SearchInv'
<1> SUFFICES ASSUME IInv, SearchInv, [Next]_vars PROVE SearchInv'
  OBVIOUS
<1>1. CASE Search
  BY <1>1, SearchBegins
<1>2. CASE Return
  BY <1>2 DEF Return, SearchInv, InPass, FindsFamily
<1>3. CASE Reset
  BY <1>3, ResetStays
<1>4. CASE ReadBit
  BY <1>4, ReadBitStays
<1>5. CASE ReadComplement
  BY <1>5, ReadComplementStays
<1>6. CASE WriteBit
  BY <1>6, WriteBitStays
<1>7. CASE Found
  BY <1>7, FoundStays
<1>8. CASE \E code \in devices : Unplug(code)
  BY <1>8, UnplugEnds
<1>9. CASE UNCHANGED vars
  <2>1. UNCHANGED <<devices, pc, family, ids, result, started, active, diff, next_diff, i, b, id>>
    BY <1>9 DEF vars, pass
  <2>2. Recorded' = Recorded /\ Position' = Position /\ \A code : Agrees(code)' <=> Agrees(code)
    BY <2>1 DEF Recorded, Position, Agrees
  <2>3. NextId' = NextId /\ Limit' = Limit
    BY <2>1, <2>2 DEF NextId, Limit
  <2>4. ASSUME RecordsInv PROVE RecordsInv'
    BY <2>1, <2>2, <2>4 DEF RecordsInv
  <2>5. ASSUME WayInv PROVE WayInv'
    BY <2>1, <2>2, <2>3, <2>5 DEF WayInv
  <2>6. ASSUME FindsFamily PROVE FindsFamily'
    BY <2>1, <2>2, <2>6 DEF FindsFamily
  <2> QED
    BY <2>1, <2>4, <2>5, <2>6 DEF SearchInv, Whole, InPass
<1> QED
  BY <1>1, <1>2, <1>3, <1>4, <1>5, <1>6, <1>7, <1>8, <1>9 DEF Next, MasterStep

(* A search that no device leaves before it ends reports success; it has    *)
(* recorded each code once, all but the last of the family, and every       *)
(* device of the family, or as many as there is room for                    *)
(* (ow_cmd_master_search_devices).                                          *)
THEOREM FamilyIsFound == Spec => []FindsFamily
<1>1. Init => SearchInv
  BY DEF Init, SearchInv, InPass, FindsFamily
<1>2. ASSUME IInv, SearchInv PROVE FindsFamily
  BY <1>2 DEF SearchInv, FindsFamily, Whole
<1> QED
  BY <1>1, <1>2, InitInv, StepKeeps, SearchStays, PTL DEF Spec
=============================================================================
