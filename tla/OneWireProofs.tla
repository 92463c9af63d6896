----------------------------- MODULE OneWireProofs -----------------------------
(***************************************************************************)
(* Proof that a master and a slave on one wire stay in step, for every     *)
(* sequence of resets and bits, every pause between them, and every time   *)
(* at which the slave starts, stops and starts again.                      *)
(***************************************************************************)
EXTENDS OneWire, TLAPS

MasterPlaces == {"idle", "low", "presence", "short", "sample", "hold", "recover"}
SlavePlaces ==
    {"off", "armed", "one", "zero", "reset", "presence", "pulsing", "answer", "pulling", "exit"}

(* Is a slot going on?                                                      *)
InSlot == master.pc # "idle"

(* When the master's wait ends, counted from the beginning of the slot.     *)
PhaseEnd ==
    CASE master.pc = "low" -> IF master.slot = RESET THEN OW_TR_MIN ELSE OW_TO_MIN
      [] master.pc = "presence" -> 120
      [] master.pc = "short" -> 140
      [] master.pc = "sample" -> 10
      [] master.pc = "hold" -> 30
      [] master.pc = "recover" -> 35
      [] OTHER -> 0

(* How far the slot has got, and how far it will be when the slave is due.  *)
Elapsed == PhaseEnd - master.wait
SlaveDue == Elapsed + slave.wait

(* The master pulls the line low; its next step releases it or ends that.   *)
MasterPulls == master.pc = "low" \/ (master.slot = 0 /\ master.pc \in {"sample", "hold"})

(* The times for which the lengths of the waits are made: an answer must be *)
(* on the line before the master looks at it.                               *)
InTime ==
    /\ Latencies \subseteq 1 .. 2 /\ Works \subseteq 0 .. 2
    /\ \A latency \in Latencies, work \in AnswerWorks : latency + work <= 2

(* When a slave that the first edge of a slot woke looks at the line.       *)
Looks == {latency + OW_TO_MAX : latency \in Latencies}

(* Where the two sides are, for how long, and who pulls the line.           *)
PlacesOK ==
    /\ master \in [pc : MasterPlaces, wait : Nat, slot : {0, 1, RESET}]
    /\ slave \in [pc : SlavePlaces, wait : Nat]
    /\ pulls \subseteq {"master", "slave"}
    /\ master.pc \in {"presence", "short"} => master.slot = RESET
    /\ master.pc \in {"sample", "hold", "recover"} => master.slot # RESET
    /\ master.pc = "low" => master.wait <= IF master.slot = RESET THEN 100 ELSE 5
    /\ master.pc \in {"sample", "recover"} => master.wait <= 5
    /\ master.pc \in {"hold", "presence", "short"} => master.wait <= 20
    /\ ("master" \in pulls) <=> MasterPulls
    /\ ("slave" \in pulls) <=> slave.pc \in {"pulling", "pulsing"}
    /\ slave.pc \in {"off", "armed", "presence"} => slave.wait = 0
    /\ present \in BOOLEAN /\ asked \in BOOLEAN /\ synced \in BOOLEAN
    /\ read \in Bit /\ answer \in Bit

(* Where in a slot the slave can be, however badly it was started.  It is   *)
(* due early when the end of the slot before woke it, and late when that of *)
(* this slot's low part did.  No wait for a reset that began at such an     *)
(* edge ends in the presence part of a reset slot, except at its very       *)
(* beginning.                                                               *)
SlaveInv ==
    /\ slave.pc = "one" =>
          /\ InSlot => \/ SlaveDue \in 0 .. 4 \/ SlaveDue \in 8 .. 9
                       \/ master.slot = 1 /\ SlaveDue \in 13 .. 14
                       \/ master.slot = 0 /\ SlaveDue \in 38 .. 39
                       \/ master.slot = RESET /\ SlaveDue \in 108 .. 109
          /\ ~InSlot => slave.wait <= 4
    /\ slave.pc = "zero" =>
          /\ InSlot
          /\ SlaveDue \in 23 .. 27 \/ (master.slot # 1 /\ SlaveDue \in 31 .. 32)
    /\ slave.pc = "reset" =>
          /\ slave.wait <= 73
          /\ (InSlot /\ master.slot = RESET) => SlaveDue <= 100 \/ SlaveDue \in 104 .. 105
    /\ slave.pc = "presence" /\ InSlot /\ master.slot = RESET =>
          SlaveDue = 0 \/ SlaveDue \in 100 .. 105
    /\ slave.pc = "pulsing" =>
          /\ slave.wait <= 20
          /\ (InSlot /\ master.slot = RESET) => SlaveDue <= 20 \/ SlaveDue \in 120 .. 125
    /\ slave.pc = "exit" => slave.wait <= 2
    /\ slave.pc \in {"answer", "pulling"} => asked /\ answer = 0
    /\ slave.pc = "off" => ~asked /\ ~synced

(* The slave is ready before the slot ends: the slot's first edge woke it,  *)
(* or it is armed and the slot has no more edges.                           *)
OnTime ==
    \/ slave.pc = "armed" /\ ~MasterPulls
    \/ /\ InSlot
       /\ \/ slave.pc = "one" /\ SlaveDue \in Looks
          \/ slave.pc = "zero" /\ master.slot # 1 /\ SlaveDue \in 31 .. 32
          \/ slave.pc = "answer" /\ master.slot = 1 /\ SlaveDue \in 8 .. 9
          \/ slave.pc = "pulling" /\ master.slot = 1 /\ SlaveDue \in 28 .. 29
          \/ slave.pc = "reset" /\ master.slot = RESET /\ SlaveDue \in 104 .. 105
          \/ slave.pc = "presence" /\ master.slot = RESET /\ SlaveDue \in 100 .. 105
          \/ slave.pc = "pulsing" /\ master.slot = RESET /\ SlaveDue \in 120 .. 125
          \/ /\ slave.pc = "exit"
             /\ SlaveDue \in CASE master.slot = 1 -> 8 .. 30
                               [] master.slot = 0 -> 31 .. 34
                               [] OTHER -> 120 .. 127

(* It has not yet taken the slot for anything.                              *)
Unheard == slave.pc \in {"one", "zero", "reset", "presence", "pulsing"}

(* A slave that has heard a 0 is on time: one that is not never answers a   *)
(* bit, and no master takes its answer for a presence pulse.  From the      *)
(* first presence pulse on it takes every slot for what it is.              *)
HeardInv ==
    /\ master.slot # 1 => answer = 1
    /\ InSlot /\ master.slot = RESET /\ Unheard /\ ~(slave.pc = "one" /\ SlaveDue > 9) => heard = <<>>
    /\ asked => OnTime
    /\ synced =>
          /\ OnTime
          /\ heard = IF Unheard THEN <<>> ELSE <<master.slot>>
          /\ answer = 0 => slave.pc \in {"answer", "pulling"} \/ Elapsed >= 28 \/ ~InSlot
          /\ master.slot # RESET /\ master.pc \in {"hold", "recover", "idle"} =>
                read = IF answer = 0 THEN 0 ELSE master.slot

(* The inductive invariant.                                                 *)
Inv == PlacesOK /\ SlaveInv /\ HeardInv

-----------------------------------------------------------------------------
(* What Go and MasterDrives do, field by field.                             *)
LEMMA Gone ==
    /\ \A m \in [pc : MasterPlaces, wait : Nat, slot : {0, 1, RESET}], place \in MasterPlaces, n \in Nat :
          /\ Go(m, place, n) \in [pc : MasterPlaces, wait : Nat, slot : {0, 1, RESET}]
          /\ Go(m, place, n).pc = place
          /\ Go(m, place, n).wait = n
          /\ Go(m, place, n).slot = m.slot
    /\ \A s \in [pc : SlavePlaces, wait : Nat], place \in SlavePlaces, n \in Nat :
          /\ Go(s, place, n) \in [pc : SlavePlaces, wait : Nat]
          /\ Go(s, place, n).pc = place
          /\ Go(s, place, n).wait = n
BY DEF Go

LEMMA PlaceNames ==
    /\ {"idle", "low", "presence", "short", "sample", "hold", "recover"} \subseteq MasterPlaces
    /\ {"off", "armed", "one", "zero", "reset"} \subseteq SlavePlaces
    /\ {"presence", "pulsing", "answer", "pulling", "exit"} \subseteq SlavePlaces
BY DEF MasterPlaces, SlavePlaces

LEMMA LooksInTime ==
    ASSUME InTime, NEW look \in Looks
    PROVE  /\ look \in 8 .. 9
           /\ \A work \in AnswerWorks : work \in Nat /\ look + work \in 8 .. 9
<1>1. PICK latency \in Latencies : look = latency + 7
  BY DEF Looks, OW_TO_MAX
<1>2. latency \in 1 .. 2
  BY DEF InTime
<1>3. ASSUME NEW work \in AnswerWorks PROVE work \in Nat /\ latency + work <= 2
  BY OneWireAssumption DEF InTime
<1> QED
  BY <1>1, <1>2, <1>3

LEMMA Driven ==
    ASSUME InTime, PlacesOK, NEW p, MasterDrives(p)
    PROVE  /\ pulls' = p
           /\ slave' \in [pc : SlavePlaces, wait : Nat]
           /\ \/ /\ slave.pc = "armed" /\ Line(p) # Line(pulls)
                 /\ slave'.pc = "one" /\ slave'.wait \in 8 .. 9 /\ slave'.wait \in Looks
              \/ /\ slave.pc # "armed" \/ Line(p) = Line(pulls)
                 /\ slave' = slave
<1>1. slave \in [pc : SlavePlaces, wait : Nat] /\ "one" \in SlavePlaces
  BY DEF PlacesOK, SlavePlaces
<1>2. CASE slave.pc = "armed" /\ Line(p) # Line(pulls)
  <2>1. PICK latency \in Latencies : slave' = Go(slave, "one", latency + OW_TO_MAX)
    BY <1>2 DEF MasterDrives
  <2>2. latency + OW_TO_MAX \in Nat /\ latency + OW_TO_MAX \in 8 .. 9
    BY DEF InTime, OW_TO_MAX
  <2>3. latency + OW_TO_MAX \in Looks
    BY DEF Looks
  <2>4. slave'.pc = "one" /\ slave'.wait = latency + OW_TO_MAX
        /\ slave' \in [pc : SlavePlaces, wait : Nat]
    BY <1>1, <2>1, <2>2, Gone
  <2> QED
    BY <1>2, <2>2, <2>3, <2>4 DEF MasterDrives
<1>3. CASE ~(slave.pc = "armed" /\ Line(p) # Line(pulls))
  BY <1>1, <1>3 DEF MasterDrives
<1> QED
  BY <1>2, <1>3

-----------------------------------------------------------------------------
LEMMA InitInv == Init => Inv
<1> SUFFICES ASSUME Init PROVE Inv
  OBVIOUS
<1> USE DEF Init
<1>1. PlacesOK
  BY DEF PlacesOK, MasterPlaces, SlavePlaces, RESET, Bit, MasterPulls
<1>2. SlaveInv
  BY DEF SlaveInv
<1>3. HeardInv
  BY DEF HeardInv, InSlot
<1> QED
  BY <1>1, <1>2, <1>3 DEF Inv

(* The master's actions.                                                    *)
LEMMA BeginKeeps ==
    ASSUME InTime, Inv, NEW slot \in {0, 1, RESET}, NEW ticks,
           ticks = IF slot = RESET THEN OW_TR_MIN ELSE OW_TO_MIN, Begin(slot, ticks)
    PROVE  Inv'
<1>1. /\ master.pc = "idle" /\ master.wait = 0
      /\ master' = [pc |-> "low", wait |-> ticks, slot |-> slot]
      /\ MasterDrives(Low) /\ heard' = <<>> /\ answer' = 1 /\ read' = 1
      /\ UNCHANGED <<present, asked, synced>>
  BY DEF Begin, At
<1>2. ticks \in Nat /\ ticks = IF slot = RESET THEN 100 ELSE 5
  BY DEF OW_TR_MIN, OW_TO_MIN
<1>3. /\ master'.pc = "low" /\ master'.wait = ticks /\ master'.slot = slot
      /\ master' \in [pc : MasterPlaces, wait : Nat, slot : {0, 1, RESET}]
  BY <1>1, <1>2 DEF MasterPlaces
<1>4. /\ pulls' = Low /\ slave' \in [pc : SlavePlaces, wait : Nat]
      /\ \/ /\ slave.pc = "armed" /\ Line(Low) # Line(pulls)
            /\ slave'.pc = "one" /\ slave'.wait \in 8 .. 9 /\ slave'.wait \in Looks
         \/ /\ slave.pc # "armed" \/ Line(Low) = Line(pulls)
            /\ slave' = slave
  BY <1>1, Driven DEF Inv
<1>5. /\ "master" \notin pulls /\ pulls \subseteq {"master", "slave"} /\ slave.wait \in Nat
      /\ "slave" \in pulls <=> slave.pc \in {"pulling", "pulsing"}
  BY <1>1 DEF Inv, PlacesOK, MasterPulls
<1>6. \/ /\ slave.pc = "armed" /\ slave'.pc = "one" /\ slave'.wait \in 8 .. 9 /\ slave'.wait \in Looks
      \/ slave.pc # "armed" /\ slave' = slave
  <2>1. ASSUME slave.pc = "armed" PROVE Line(Low) # Line(pulls)
    BY <1>5, <2>1 DEF Line, Low
  <2> QED
    BY <1>4, <2>1
<1>7. InSlot' /\ Elapsed' = 0 /\ SlaveDue' = slave'.wait /\ MasterPulls' /\ ~InSlot /\ ~MasterPulls
  <2>1. Elapsed' = 0
    BY <1>2, <1>3 DEF Elapsed, PhaseEnd, OW_TR_MIN, OW_TO_MIN
  <2> QED
    BY <1>1, <1>3, <1>4, <2>1 DEF InSlot, SlaveDue, MasterPulls
<1>8. asked \/ synced => slave.pc = "armed"
  BY <1>7 DEF Inv, HeardInv, OnTime
<1>9. slave.pc \notin {"zero", "answer", "pulling"}
  BY <1>7, <1>8 DEF Inv, SlaveInv
<1>10. PlacesOK'
  BY <1>1, <1>2, <1>3, <1>4, <1>5, <1>6, <1>7 DEF Inv, PlacesOK, Low, Bit
<1>11. SlaveInv'
  BY <1>1, <1>3, <1>5, <1>6, <1>7, <1>8, <1>9 DEF Inv, PlacesOK, SlaveInv
<1>12. OnTime' \/ (~asked' /\ ~synced')
  BY <1>1, <1>6, <1>7, <1>8 DEF OnTime
<1>13. HeardInv'
  BY <1>1, <1>3, <1>6, <1>7, <1>8, <1>9, <1>12 DEF Inv, HeardInv, Unheard
<1> QED
  BY <1>10, <1>11, <1>13 DEF Inv

LEMMA ReleaseKeeps == ASSUME InTime, Inv, Release PROVE Inv'
<1> DEFINE p == IF master.slot = 0 THEN pulls ELSE High
           place == IF master.slot = RESET THEN "presence" ELSE "sample"
           n == IF master.slot = RESET THEN 20 ELSE 5
<1>1. /\ master.pc = "low" /\ master.wait = 0
      /\ MasterDrives(p) /\ master' = Go(master, place, n)
      /\ UNCHANGED <<present, read, asked, synced, heard, answer>>
  BY DEF Release, At, OW_TP, OW_TS, hist
<1>2. /\ master \in [pc : MasterPlaces, wait : Nat, slot : {0, 1, RESET}]
      /\ "master" \in pulls /\ pulls \subseteq {"master", "slave"} /\ slave.wait \in Nat
      /\ ("slave" \in pulls) <=> slave.pc \in {"pulling", "pulsing"}
  BY <1>1 DEF Inv, PlacesOK, MasterPulls
<1>3. /\ master'.pc = place /\ master'.wait = n /\ master'.slot = master.slot
      /\ master' \in [pc : MasterPlaces, wait : Nat, slot : {0, 1, RESET}]
  <2>1. place \in MasterPlaces /\ n \in Nat
    BY DEF MasterPlaces
  <2> HIDE DEF place, n
  <2> QED
    BY <1>1, <1>2, <2>1, Gone
<1>4. /\ pulls' = p /\ slave' \in [pc : SlavePlaces, wait : Nat]
      /\ \/ /\ slave.pc = "armed" /\ Line(p) # Line(pulls)
            /\ slave'.pc = "one" /\ slave'.wait \in 8 .. 9
         \/ /\ slave.pc # "armed" \/ Line(p) = Line(pulls)
            /\ slave' = slave
  BY <1>1, Driven DEF Inv
<1>5. \/ /\ slave.pc = "armed" /\ master.slot # 0
         /\ slave'.pc = "one" /\ slave'.wait \in 8 .. 9
      \/ (slave.pc # "armed" \/ master.slot = 0) /\ slave' = slave
  <2>1. ASSUME slave.pc = "armed", master.slot # 0 PROVE Line(p) # Line(pulls)
    BY <1>2, <2>1 DEF Line, High
  <2> QED
    BY <1>4, <2>1
<1>6. /\ Elapsed = IF master.slot = RESET THEN 100 ELSE 5
      /\ Elapsed' = Elapsed /\ SlaveDue' = Elapsed + slave'.wait /\ SlaveDue = Elapsed + slave.wait
      /\ InSlot /\ InSlot' /\ MasterPulls /\ (MasterPulls' <=> master.slot = 0)
  <2>1. Elapsed = IF master.slot = RESET THEN 100 ELSE 5
    BY <1>1 DEF Elapsed, PhaseEnd, OW_TR_MIN, OW_TO_MIN
  <2>2. Elapsed' = IF master.slot = RESET THEN 100 ELSE 5
    BY <1>3 DEF Elapsed, PhaseEnd
  <2>3. InSlot /\ InSlot' /\ MasterPulls
    BY <1>1, <1>3 DEF InSlot, MasterPulls
  <2>4. MasterPulls' <=> master.slot = 0
    BY <1>3 DEF MasterPulls, RESET
  <2> QED
    BY <1>3, <2>1, <2>2, <2>3, <2>4 DEF SlaveDue
<1>7. asked \/ synced => slave.pc # "armed" /\ slave' = slave
  BY <1>5, <1>6 DEF Inv, HeardInv, OnTime
<1>8. PlacesOK'
  <2>1. ("master" \in pulls') <=> MasterPulls'
    BY <1>2, <1>4, <1>6 DEF High
  <2>2. ("slave" \in pulls') <=> slave'.pc \in {"pulling", "pulsing"}
    BY <1>2, <1>4, <1>5 DEF High
  <2>3. pulls' \subseteq {"master", "slave"}
    BY <1>2, <1>4 DEF High
  <2> QED
    BY <1>1, <1>3, <1>4, <1>5, <2>1, <2>2, <2>3 DEF Inv, PlacesOK
<1>9. SlaveInv'
  <2>1. CASE slave' = slave
    BY <1>1, <1>3, <1>6, <2>1 DEF Inv, SlaveInv
  <2>2. CASE slave'.pc = "one" /\ slave'.wait \in 8 .. 9 /\ master.slot # 0
    BY <1>3, <1>6, <2>2 DEF Inv, PlacesOK, SlaveInv, RESET
  <2> QED
    BY <1>5, <2>1, <2>2
<1>10. asked \/ synced => OnTime'
  BY <1>3, <1>6, <1>7 DEF Inv, HeardInv, OnTime
<1>11. HeardInv'
  <2>1. CASE slave' = slave
    BY <1>1, <1>3, <1>6, <1>10, <2>1 DEF Inv, HeardInv, Unheard
  <2>2. CASE slave'.pc = "one" /\ slave'.wait \in 8 .. 9 /\ master.slot # 0 /\ slave.pc = "armed"
    BY <1>1, <1>3, <1>6, <1>7, <2>2 DEF Inv, HeardInv, Unheard
  <2> QED
    BY <1>5, <2>1, <2>2
<1> QED
  BY <1>8, <1>9, <1>11 DEF Inv

LEMMA ReadPresenceKeeps == ASSUME Inv, ReadPresence PROVE Inv'
<1>1. /\ master.pc = "presence" /\ master.wait = 0 /\ master' = Go(master, "short", 20)
      /\ present' = (Line(pulls) = 0) /\ synced' = present'
      /\ UNCHANGED <<slave, pulls, read, asked, heard, answer>>
  BY DEF ReadPresence, At, OW_TP, hist
<1>2. /\ master \in [pc : MasterPlaces, wait : Nat, slot : {0, 1, RESET}] /\ master.slot = RESET
      /\ "master" \notin pulls /\ pulls \subseteq {"master", "slave"} /\ slave.wait \in Nat
      /\ ("slave" \in pulls) <=> slave.pc \in {"pulling", "pulsing"}
  BY <1>1 DEF Inv, PlacesOK, MasterPulls, RESET
<1>3. /\ master'.pc = "short" /\ master'.wait = 20 /\ master'.slot = RESET
      /\ master' \in [pc : MasterPlaces, wait : Nat, slot : {0, 1, RESET}]
  <2>1. "short" \in MasterPlaces
    BY PlaceNames
  <2> QED
    BY <1>1, <1>2, <2>1, Gone
<1>4. /\ Elapsed = 120 /\ Elapsed' = 120 /\ SlaveDue = 120 + slave.wait /\ SlaveDue' = 120 + slave.wait
      /\ InSlot /\ InSlot' /\ ~MasterPulls /\ ~MasterPulls'
  <2>1. Elapsed = 120
    BY <1>1 DEF Elapsed, PhaseEnd
  <2>2. Elapsed' = 120
    BY <1>3 DEF Elapsed, PhaseEnd
  <2> QED
    BY <1>1, <1>2, <1>3, <2>1, <2>2 DEF InSlot, SlaveDue, MasterPulls, RESET
<1>5. PlacesOK'
  BY <1>1, <1>2, <1>3, <1>4 DEF Inv, PlacesOK, Line
<1>6. synced' => slave.pc = "pulsing" /\ SlaveDue \in 120 .. 125
  <2> SUFFICES ASSUME synced' PROVE slave.pc = "pulsing" /\ SlaveDue \in 120 .. 125
    OBVIOUS
  <2>1. slave.pc \in {"pulling", "pulsing"}
    <3>1. Line(pulls) = 0
      BY <1>1
    <3>2. pulls # {}
      BY <3>1 DEF Line
    <3> QED
      BY <1>2, <3>2
  <2>2. slave.pc # "pulling"
    BY <1>2 DEF Inv, SlaveInv, HeardInv, OnTime, RESET
  <2>3. SlaveDue <= 20 \/ SlaveDue \in 120 .. 125
    BY <1>2, <1>4, <2>1, <2>2 DEF Inv, SlaveInv
  <2> QED
    BY <1>2, <1>4, <2>1, <2>2, <2>3
<1>7. SlaveInv'
  BY <1>1, <1>2, <1>3, <1>4, <1>6 DEF Inv, SlaveInv
<1>8. (asked => OnTime') /\ (synced' => OnTime')
  <2>1. asked => OnTime'
    BY <1>1, <1>2, <1>3, <1>4 DEF Inv, HeardInv, OnTime
  <2>2. synced' => OnTime'
    BY <1>1, <1>3, <1>4, <1>6 DEF OnTime
  <2> QED
    BY <2>1, <2>2
<1>9. HeardInv'
  <2>1. synced' => heard = <<>> /\ answer = 1
    BY <1>2, <1>4, <1>6 DEF Inv, HeardInv, Unheard, RESET
  <2> QED
    BY <1>1, <1>2, <1>3, <1>4, <1>6, <1>8, <2>1 DEF Inv, HeardInv, Unheard, RESET
<1> QED
  BY <1>5, <1>7, <1>9 DEF Inv

LEMMA ReadShortKeeps == ASSUME InTime, Inv, ReadShort PROVE Inv'
<1> DEFINE n == IF present' THEN 0 ELSE RetryDelay
<1>1. /\ master.pc = "short" /\ master.wait = 0 /\ master' = Go(master, "idle", n)
      /\ present' = (present /\ Line(pulls) = 1) /\ synced' = (synced /\ present')
      /\ UNCHANGED <<slave, pulls, read, asked, heard, answer>>
  BY DEF ReadShort, At, hist
<1>2. /\ master \in [pc : MasterPlaces, wait : Nat, slot : {0, 1, RESET}] /\ master.slot = RESET
      /\ slave.wait \in Nat
  BY <1>1 DEF Inv, PlacesOK, RESET
<1>3. /\ master'.pc = "idle" /\ master'.slot = RESET
      /\ master' \in [pc : MasterPlaces, wait : Nat, slot : {0, 1, RESET}]
  <2>1. n \in Nat /\ "idle" \in MasterPlaces
    BY DEF RetryDelay, MasterPlaces
  <2> HIDE DEF n
  <2> QED
    BY <1>1, <1>2, <2>1, Gone
<1>4. /\ Elapsed = 140 /\ SlaveDue = 140 + slave.wait
      /\ InSlot /\ ~InSlot' /\ ~MasterPulls /\ ~MasterPulls'
  <2>1. Elapsed = 140
    BY <1>1 DEF Elapsed, PhaseEnd
  <2> QED
    BY <1>1, <1>2, <1>3, <2>1 DEF InSlot, SlaveDue, MasterPulls, RESET
<1>5. PlacesOK'
  <2>1. present' \in BOOLEAN /\ synced' \in BOOLEAN
    BY <1>1 DEF Inv, PlacesOK
  <2> QED
    BY <1>1, <1>2, <1>3, <1>4, <2>1 DEF Inv, PlacesOK
<1>6. asked \/ synced => slave.pc = "armed"
  <2>1. asked \/ synced => OnTime
    BY DEF Inv, HeardInv
  <2>2. master.slot = 2 /\ SlaveDue >= 140
    BY <1>2, <1>4 DEF RESET
  <2>3. SlaveDue \notin Looks
    BY <2>2, LooksInTime
  <2> QED
    BY <1>4, <2>1, <2>2, <2>3 DEF OnTime
<1>7. synced' => synced
  BY <1>1
<1>8. SlaveInv'
  BY <1>1, <1>2, <1>3, <1>4, <1>6, <1>7 DEF Inv, SlaveInv, RESET
<1>9. asked' \/ synced' => OnTime'
  BY <1>1, <1>4, <1>6, <1>7 DEF OnTime
<1>10. HeardInv'
  BY <1>1, <1>2, <1>3, <1>4, <1>6, <1>7, <1>9 DEF Inv, HeardInv, Unheard, RESET
<1> QED
  BY <1>5, <1>8, <1>10 DEF Inv

LEMMA ReadBitKeeps == ASSUME Inv, ReadBit PROVE Inv'
<1>1. /\ master.pc = "sample" /\ master.wait = 0 /\ master' = Go(master, "hold", 20)
      /\ read' = IF Line(pulls) = 0 THEN 0 ELSE master.slot
      /\ UNCHANGED <<slave, pulls, present, asked, synced, heard, answer>>
  BY DEF ReadBit, At, hist, OW_DTOZ_MIN, OW_TZ_MIN, OW_TO_MIN
<1>2. /\ master \in [pc : MasterPlaces, wait : Nat, slot : {0, 1, RESET}] /\ master.slot \in {0, 1}
      /\ slave.wait \in Nat /\ pulls \subseteq {"master", "slave"}
      /\ ("master" \in pulls) <=> master.slot = 0
      /\ ("slave" \in pulls) <=> slave.pc \in {"pulling", "pulsing"}
  BY <1>1 DEF Inv, PlacesOK, RESET, MasterPulls
<1>3. /\ master'.pc = "hold" /\ master'.wait = 20 /\ master'.slot = master.slot
      /\ master' \in [pc : MasterPlaces, wait : Nat, slot : {0, 1, RESET}]
  <2>1. "hold" \in MasterPlaces
    BY PlaceNames
  <2> QED
    BY <1>1, <1>2, <2>1, Gone
<1>4. /\ Elapsed = 10 /\ Elapsed' = 10 /\ SlaveDue = 10 + slave.wait /\ SlaveDue' = 10 + slave.wait
      /\ InSlot /\ InSlot' /\ (MasterPulls <=> master.slot = 0) /\ (MasterPulls' <=> master.slot = 0)
  <2>1. Elapsed = 10
    BY <1>1 DEF Elapsed, PhaseEnd
  <2>2. Elapsed' = 10
    BY <1>3 DEF Elapsed, PhaseEnd
  <2>3. InSlot /\ InSlot' /\ (MasterPulls <=> master.slot = 0) /\ (MasterPulls' <=> master.slot = 0)
    BY <1>1, <1>3 DEF InSlot, MasterPulls
  <2> QED
    BY <1>1, <2>1, <2>2, <2>3 DEF SlaveDue
<1>5. PlacesOK'
  <2>1. read' \in Bit
    BY <1>1, <1>2 DEF Bit
  <2> QED
    BY <1>1, <1>2, <1>3, <1>4, <2>1 DEF Inv, PlacesOK
<1>6. SlaveInv'
  BY <1>1, <1>2, <1>3, <1>4 DEF Inv, SlaveInv, RESET
<1>7. OnTime' <=> OnTime
  BY <1>1, <1>3, <1>4 DEF OnTime
<1>8. synced => read' = IF answer = 0 THEN 0 ELSE master.slot
  <2> SUFFICES ASSUME synced PROVE read' = IF answer = 0 THEN 0 ELSE master.slot
    OBVIOUS
  <2>1. CASE master.slot = 0
    BY <1>1, <2>1
  <2>2. CASE master.slot = 1
    <3>1. OnTime /\ (answer = 0 => slave.pc \in {"answer", "pulling"})
      BY <1>4 DEF Inv, HeardInv
    <3>2. slave.pc \notin {"answer", "pulsing"}
      BY <1>2, <1>4, <2>2, <3>1 DEF OnTime, RESET, Inv, PlacesOK
    <3>3. answer = 0 <=> pulls # {}
      <4>1. pulls # {} <=> slave.pc = "pulling"
        <5>1. ("slave" \in pulls) <=> slave.pc = "pulling"
          BY <1>2, <3>2
        <5>2. "master" \notin pulls
          BY <1>2, <2>2
        <5>3. pulls # {} <=> "slave" \in pulls
          BY <1>2, <5>2
        <5> QED
          BY <5>1, <5>3
      <4>2. slave.pc = "pulling" => answer = 0
        BY DEF Inv, SlaveInv
      <4> QED
        BY <3>1, <3>2, <4>1, <4>2
    <3> QED
      BY <1>1, <2>2, <3>3 DEF Line
  <2> QED
    BY <1>2, <2>1, <2>2
<1>9. HeardInv'
  BY <1>1, <1>2, <1>3, <1>4, <1>7, <1>8 DEF Inv, HeardInv, Unheard, RESET
<1> QED
  BY <1>5, <1>6, <1>9 DEF Inv

LEMMA BitEndKeeps == ASSUME InTime, Inv, BitEnd PROVE Inv'
<1>1. /\ master.pc = "hold" /\ master.wait = 0 /\ master' = Go(master, "recover", 5)
      /\ MasterDrives(High) /\ UNCHANGED <<present, read, asked, synced, heard, answer>>
  BY DEF BitEnd, At, hist, OW_TRC
<1>2. /\ master \in [pc : MasterPlaces, wait : Nat, slot : {0, 1, RESET}] /\ master.slot \in {0, 1}
      /\ slave.wait \in Nat /\ pulls \subseteq {"master", "slave"}
      /\ ("master" \in pulls) <=> master.slot = 0
      /\ ("slave" \in pulls) <=> slave.pc \in {"pulling", "pulsing"}
  BY <1>1 DEF Inv, PlacesOK, RESET, MasterPulls
<1>3. /\ master'.pc = "recover" /\ master'.wait = 5 /\ master'.slot = master.slot
      /\ master' \in [pc : MasterPlaces, wait : Nat, slot : {0, 1, RESET}]
  <2>1. "recover" \in MasterPlaces
    BY PlaceNames
  <2> QED
    BY <1>1, <1>2, <2>1, Gone
<1>4. /\ pulls' = High /\ slave' \in [pc : SlavePlaces, wait : Nat]
      /\ \/ /\ slave.pc = "armed" /\ Line(High) # Line(pulls)
            /\ slave'.pc = "one" /\ slave'.wait \in 8 .. 9
         \/ /\ slave.pc # "armed" \/ Line(High) = Line(pulls)
            /\ slave' = slave
  BY <1>1, Driven DEF Inv
<1>5. \/ /\ slave.pc = "armed" /\ master.slot = 0
         /\ slave'.pc = "one" /\ slave'.wait \in 8 .. 9
      \/ (slave.pc # "armed" \/ master.slot = 1) /\ slave' = slave
  <2>1. ASSUME slave.pc = "armed", master.slot = 0 PROVE Line(High) # Line(pulls)
    BY <1>2, <2>1 DEF Line, High
  <2>2. ASSUME master.slot = 1 PROVE High = pulls
    BY <1>2, <2>2 DEF High
  <2> QED
    BY <1>2, <1>4, <2>1, <2>2
<1>6. /\ Elapsed = 30 /\ Elapsed' = 30 /\ SlaveDue = 30 + slave.wait /\ SlaveDue' = 30 + slave'.wait
      /\ InSlot /\ InSlot' /\ (MasterPulls <=> master.slot = 0) /\ ~MasterPulls'
  <2>1. Elapsed = 30
    BY <1>1 DEF Elapsed, PhaseEnd
  <2>2. Elapsed' = 30
    BY <1>3 DEF Elapsed, PhaseEnd
  <2>3. InSlot /\ InSlot' /\ (MasterPulls <=> master.slot = 0) /\ ~MasterPulls'
    BY <1>1, <1>3 DEF InSlot, MasterPulls
  <2> QED
    BY <2>1, <2>2, <2>3 DEF SlaveDue
<1>7. asked \/ synced => slave' = slave
  BY <1>5, <1>6 DEF Inv, HeardInv, OnTime
<1>8. PlacesOK'
  <2>1. "master" \notin pulls' /\ pulls' \subseteq {"master", "slave"}
    BY <1>2, <1>4 DEF High
  <2>2. ("slave" \in pulls') <=> slave'.pc \in {"pulling", "pulsing"}
    BY <1>2, <1>4, <1>5 DEF High
  <2> QED
    BY <1>1, <1>2, <1>3, <1>4, <1>5, <1>6, <2>1, <2>2 DEF Inv, PlacesOK, RESET
<1>9. SlaveInv'
  <2>1. CASE slave' = slave
    BY <1>1, <1>2, <1>3, <1>6, <2>1 DEF Inv, SlaveInv, RESET
  <2>2. CASE slave'.pc = "one" /\ slave'.wait \in 8 .. 9 /\ master.slot = 0
    BY <1>3, <1>6, <2>2 DEF SlaveInv
  <2> QED
    BY <1>5, <2>1, <2>2
<1>10. asked \/ synced => OnTime'
  BY <1>1, <1>3, <1>6, <1>7 DEF Inv, HeardInv, OnTime
<1>11. HeardInv'
  <2>1. CASE slave' = slave
    BY <1>1, <1>2, <1>3, <1>6, <1>10, <2>1 DEF Inv, HeardInv, Unheard, RESET
  <2>2. CASE slave' # slave
    BY <1>1, <1>2, <1>3, <1>7, <2>2 DEF Inv, HeardInv, RESET
  <2> QED
    BY <2>1, <2>2
<1> QED
  BY <1>8, <1>9, <1>11 DEF Inv

LEMMA RecoverKeeps == ASSUME InTime, Inv, Recover PROVE Inv'
<1>1. /\ master.pc = "recover" /\ master.wait = 0 /\ master' = Go(master, "idle", 0)
      /\ UNCHANGED <<slave, pulls, present, read, asked, synced, heard, answer>>
  BY DEF Recover, At, hist
<1>2. /\ master \in [pc : MasterPlaces, wait : Nat, slot : {0, 1, RESET}] /\ master.slot \in {0, 1}
      /\ slave.wait \in Nat
  BY <1>1 DEF Inv, PlacesOK, RESET
<1>3. /\ master'.pc = "idle" /\ master'.wait = 0 /\ master'.slot = master.slot
      /\ master' \in [pc : MasterPlaces, wait : Nat, slot : {0, 1, RESET}]
  <2>1. "idle" \in MasterPlaces
    BY PlaceNames
  <2> QED
    BY <1>1, <1>2, <2>1, Gone
<1>4. /\ Elapsed = 35 /\ SlaveDue = 35 + slave.wait
      /\ InSlot /\ ~InSlot' /\ ~MasterPulls /\ ~MasterPulls'
  <2>1. Elapsed = 35
    BY <1>1 DEF Elapsed, PhaseEnd
  <2>2. InSlot /\ ~InSlot' /\ ~MasterPulls /\ ~MasterPulls'
    BY <1>1, <1>3 DEF InSlot, MasterPulls
  <2> QED
    BY <2>1, <2>2 DEF SlaveDue
<1>5. PlacesOK'
  BY <1>1, <1>2, <1>3, <1>4 DEF Inv, PlacesOK
<1>6. asked \/ synced => slave.pc = "armed"
  <2>1. asked \/ synced => OnTime
    BY DEF Inv, HeardInv
  <2>2. SlaveDue \notin Looks
    BY <1>2, <1>4, LooksInTime
  <2>3. CASE master.slot = 0
    BY <1>2, <1>4, <2>1, <2>2, <2>3 DEF OnTime, RESET
  <2>4. CASE master.slot = 1
    BY <1>2, <1>4, <2>1, <2>2, <2>4 DEF OnTime, RESET
  <2> QED
    BY <1>2, <2>3, <2>4
<1>7. SlaveInv'
  BY <1>1, <1>2, <1>3, <1>4, <1>6 DEF Inv, SlaveInv, RESET
<1>8. asked \/ synced => OnTime'
  BY <1>1, <1>4, <1>6 DEF OnTime
<1>9. HeardInv'
  BY <1>1, <1>2, <1>3, <1>4, <1>6, <1>8 DEF Inv, HeardInv, Unheard, RESET
<1> QED
  BY <1>5, <1>7, <1>9 DEF Inv

(* The slave begins and ends.                                               *)
LEMMA SlaveStartKeeps == ASSUME Inv, SlaveStart PROVE Inv'
<1>1. /\ slave.pc = "off" /\ slave' = Go(slave, "armed", 0)
      /\ UNCHANGED <<master, pulls, present, read, asked, synced, heard, answer>>
  BY DEF SlaveStart, hist
<1>2. slave'.pc = "armed" /\ slave'.wait = 0 /\ slave' \in [pc : SlavePlaces, wait : Nat]
  BY <1>1, PlaceNames, Gone DEF Inv, PlacesOK
<1>3. ~asked /\ ~synced
  BY <1>1 DEF Inv, SlaveInv
<1>4. PlacesOK'
  BY <1>1, <1>2 DEF Inv, PlacesOK, MasterPulls
<1>5. SlaveInv'
  BY <1>2 DEF SlaveInv
<1>6. HeardInv'
  BY <1>1, <1>2, <1>3 DEF Inv, HeardInv, InSlot, Unheard
<1> QED
  BY <1>4, <1>5, <1>6 DEF Inv

LEMMA SlaveStopKeeps == ASSUME Inv, SlaveStop PROVE Inv'
<1>1. /\ slave' = Go(slave, "off", 0) /\ pulls' = pulls \ {"slave"}
      /\ asked' = FALSE /\ synced' = FALSE
      /\ UNCHANGED <<master, present, read, heard, answer>>
  BY DEF SlaveStop, hist
<1>2. slave'.pc = "off" /\ slave'.wait = 0 /\ slave' \in [pc : SlavePlaces, wait : Nat]
  BY <1>1, PlaceNames, Gone DEF Inv, PlacesOK
<1>3. PlacesOK'
  BY <1>1, <1>2 DEF Inv, PlacesOK, MasterPulls
<1>4. SlaveInv'
  BY <1>1, <1>2 DEF SlaveInv
<1>5. HeardInv'
  BY <1>1, <1>2 DEF Inv, HeardInv, InSlot, Unheard
<1> QED
  BY <1>3, <1>4, <1>5 DEF Inv

LEMMA Ranges ==
    ASSUME Inv
    PROVE  /\ Elapsed \in Int /\ slave.wait \in Nat
           /\ SlaveDue = Elapsed + slave.wait
           /\ master.slot \in {0, 1, 2}
<1>1. /\ master \in [pc : MasterPlaces, wait : Nat, slot : {0, 1, RESET}]
      /\ slave.wait \in Nat
  BY DEF Inv, PlacesOK
<1>2. PhaseEnd \in Int
  BY DEF PhaseEnd, OW_TR_MIN, OW_TO_MIN
<1> QED
  BY <1>1, <1>2 DEF Elapsed, SlaveDue, RESET

(* While only the slave moves, the master is where it was.                  *)
LEMMA MasterWaits ==
    ASSUME UNCHANGED master
    PROVE  /\ Elapsed' = Elapsed
           /\ SlaveDue' = Elapsed + slave'.wait
           /\ InSlot' <=> InSlot
           /\ MasterPulls' <=> MasterPulls
           /\ master'.slot = master.slot /\ master'.pc = master.pc
BY DEF Elapsed, PhaseEnd, InSlot, MasterPulls, SlaveDue

(* Where the master can be at a time of its slot.                           *)
LEMMA ElapsedTells ==
    ASSUME Inv, InSlot
    PROVE  /\ master.slot = RESET =>
                /\ Elapsed < 100 => MasterPulls
                /\ Elapsed > 100 => ~MasterPulls
           /\ master.slot = 1 =>
                /\ Elapsed < 5 => MasterPulls
                /\ Elapsed > 5 => ~MasterPulls
           /\ master.slot = 0 =>
                /\ Elapsed < 30 => MasterPulls
                /\ Elapsed > 30 => ~MasterPulls
                /\ Elapsed <= 35
           /\ master.pc \in {"hold", "recover"} => Elapsed >= 10
<1>1. /\ master \in [pc : MasterPlaces, wait : Nat, slot : {0, 1, RESET}]
      /\ master.pc \in {"low", "presence", "short", "sample", "hold", "recover"}
  BY DEF Inv, PlacesOK, InSlot, MasterPlaces
<1>2. CASE master.slot = RESET
  BY <1>1, <1>2 DEF Inv, PlacesOK, MasterPulls, Elapsed, PhaseEnd, RESET, OW_TR_MIN, OW_TO_MIN
<1>3. CASE master.slot = 1
  BY <1>1, <1>3 DEF Inv, PlacesOK, MasterPulls, Elapsed, PhaseEnd, RESET, OW_TR_MIN, OW_TO_MIN
<1>4. CASE master.slot = 0
  BY <1>1, <1>4 DEF Inv, PlacesOK, MasterPulls, Elapsed, PhaseEnd, RESET, OW_TR_MIN, OW_TO_MIN
<1> QED
  BY <1>1, <1>2, <1>3, <1>4 DEF RESET

(* The line is low when the master pulls it or the slave does.              *)
LEMMA LineTells ==
    ASSUME Inv, slave.pc \notin {"pulling", "pulsing"}
    PROVE  /\ Line(pulls) = 1 => ~MasterPulls
           /\ Line(pulls) = 0 => MasterPulls /\ InSlot
<1>1. /\ pulls \subseteq {"master", "slave"} /\ "slave" \notin pulls
      /\ ("master" \in pulls) <=> MasterPulls
  BY DEF Inv, PlacesOK
<1>2. Line(pulls) = 0 <=> "master" \in pulls
  BY <1>1 DEF Line
<1> QED
  BY <1>1, <1>2 DEF MasterPulls, InSlot

(* The slave's handler.                                                     *)
LEMMA SampleOneKeeps == ASSUME InTime, Inv, SampleOne PROVE Inv'
<1>1. slave.pc = "one" /\ slave.wait = 0 /\ UNCHANGED <<master, pulls, present, read, asked, synced>>
  BY DEF SampleOne, At
<1>2. slave \in [pc : SlavePlaces, wait : Nat]
  BY DEF Inv, PlacesOK
<1>3. /\ Line(pulls) \in {0, 1}
      /\ Line(pulls) = 1 => ~MasterPulls
      /\ Line(pulls) = 0 => MasterPulls /\ InSlot
  BY <1>1, LineTells DEF Line
<1>4. SlaveDue = Elapsed /\ Elapsed \in Int /\ master.slot \in {0, 1, 2}
  BY <1>1, Ranges
<1>5. /\ InSlot => \/ Elapsed \in 0 .. 4 \/ Elapsed \in 8 .. 9
                   \/ master.slot = 1 /\ Elapsed \in 13 .. 14
                   \/ master.slot = 0 /\ Elapsed \in 38 .. 39
                   \/ master.slot = RESET /\ Elapsed \in 108 .. 109
      /\ asked \/ synced => InSlot /\ Elapsed \in 8 .. 9 /\ Elapsed \in Looks
      /\ synced => heard = <<>>
  <2>1. \A look \in Looks : look \in 8 .. 9
    BY LooksInTime
  <2> QED
    BY <1>1, <1>4, <2>1 DEF Inv, SlaveInv, HeardInv, OnTime, Unheard
<1>6. asked \/ synced => Line(pulls) = 0 \/ master.slot = 1
  BY <1>3, <1>4, <1>5, ElapsedTells DEF RESET
<1>7. CASE Line(pulls) = 1 /\ heard' = Append(heard, 1) /\ answer' = 1
           /\ \E work \in Works : slave' = Go(slave, "exit", work)
  <2>1. /\ slave'.pc = "exit" /\ slave'.wait \in 0 .. 2
        /\ slave' \in [pc : SlavePlaces, wait : Nat]
    <3>1. PICK work \in Works : slave' = Go(slave, "exit", work)
      BY <1>7
    <3>2. work \in 0 .. 2 /\ work \in Nat
      BY DEF InTime
    <3>3. "exit" \in SlavePlaces
      BY PlaceNames
    <3>4. slave'.pc = "exit" /\ slave'.wait = work /\ slave' \in [pc : SlavePlaces, wait : Nat]
      BY <1>2, <3>1, <3>2, <3>3, Gone
    <3> QED
      BY <3>2, <3>4
  <2>2. /\ Elapsed' = Elapsed /\ (InSlot' <=> InSlot) /\ (MasterPulls' <=> MasterPulls)
        /\ SlaveDue' = Elapsed + slave'.wait
    BY <1>1, <2>1, MasterWaits
  <2>3. PlacesOK'
    BY <1>1, <1>7, <2>1, <2>2 DEF Inv, PlacesOK, Bit
  <2>4. SlaveInv'
    BY <2>1 DEF SlaveInv
  <2>5. asked \/ synced => OnTime' /\ master.slot = 1
    <3> SUFFICES ASSUME asked \/ synced PROVE OnTime' /\ master.slot = 1
      OBVIOUS
    <3>1. InSlot' /\ master.slot = 1 /\ master'.slot = 1
      BY <1>1, <1>5, <1>6, <1>7, <2>2
    <3>2. SlaveDue' \in 8 .. 30
      <4>1. Elapsed \in 8 .. 9
        BY <1>5
      <4>2. SlaveDue' = Elapsed + slave'.wait /\ slave'.wait \in 0 .. 2
        BY <2>1, <2>2
      <4> QED
        BY <4>1, <4>2
    <3> QED
      BY <2>1, <3>1, <3>2 DEF OnTime
  <2>6. synced => heard' = <<1>> /\ master.pc \notin {"hold", "recover", "idle"}
    BY <1>5, <1>7, ElapsedTells DEF InSlot
  <2>7. HeardInv'
    BY <1>1, <1>7, <2>1, <2>5, <2>6 DEF HeardInv, Unheard
  <2> QED
    BY <2>3, <2>4, <2>7 DEF Inv
<1>8. CASE Line(pulls) = 1 /\ heard' = Append(heard, 1) /\ asked /\ answer' = 0
           /\ \E work \in AnswerWorks : slave' = Go(slave, "answer", work)
  <2>1. /\ slave'.pc = "answer" /\ slave'.wait \in Nat
        /\ slave' \in [pc : SlavePlaces, wait : Nat] /\ Elapsed + slave'.wait \in 8 .. 9
    <3>1. "answer" \in SlavePlaces
      BY PlaceNames
    <3>2. PICK work \in AnswerWorks : slave' = Go(slave, "answer", work)
      BY <1>8
    <3>3. work \in Nat /\ Elapsed + work \in 8 .. 9
      BY <1>5, <1>8, LooksInTime
    <3> QED
      BY <1>2, <3>1, <3>2, <3>3, Gone
  <2>2. /\ Elapsed' = Elapsed /\ (InSlot' <=> InSlot) /\ (MasterPulls' <=> MasterPulls)
        /\ SlaveDue' = Elapsed + slave'.wait
    BY <1>1, <2>1, MasterWaits
  <2>3. master.slot = 1 /\ InSlot /\ Elapsed \in 8 .. 9
    BY <1>5, <1>6, <1>8
  <2>4. PlacesOK'
    BY <1>1, <1>8, <2>1, <2>2 DEF Inv, PlacesOK, Bit
  <2>5. SlaveInv'
    BY <1>1, <1>8, <2>1 DEF SlaveInv
  <2>6. OnTime'
    BY <1>1, <1>4, <2>1, <2>2, <2>3 DEF OnTime
  <2>7. synced => heard' = <<1>> /\ master.pc \notin {"hold", "recover", "idle"}
    BY <1>5, <1>8, ElapsedTells DEF InSlot
  <2>8. HeardInv'
    BY <1>1, <1>8, <2>1, <2>3, <2>6, <2>7 DEF HeardInv, Unheard
  <2> QED
    BY <2>4, <2>5, <2>8 DEF Inv
<1>9. CASE Line(pulls) = 0 /\ slave' = Go(slave, "zero", OW_DTOZ_MAX) /\ UNCHANGED hist
  <2>1. slave'.pc = "zero" /\ slave'.wait = 23 /\ slave' \in [pc : SlavePlaces, wait : Nat]
    <3>1. OW_DTOZ_MAX = 23
      BY DEF OW_DTOZ_MAX, OW_TZ_MAX, OW_TO_MAX
    <3> QED
      BY <1>2, <1>9, <3>1, PlaceNames, Gone
  <2>2. /\ Elapsed' = Elapsed /\ (InSlot' <=> InSlot) /\ (MasterPulls' <=> MasterPulls)
        /\ SlaveDue' = Elapsed + 23
    BY <1>1, <2>1, MasterWaits
  <2>3. InSlot /\ (Elapsed \in 0 .. 4 \/ (master.slot # 1 /\ Elapsed \in 8 .. 9))
    BY <1>3, <1>4, <1>5, <1>9, ElapsedTells
  <2>4. PlacesOK'
    BY <1>1, <1>9, <2>1, <2>2 DEF Inv, PlacesOK, hist
  <2>5. SlaveInv'
    BY <1>1, <1>4, <2>1, <2>2, <2>3 DEF SlaveInv
  <2>6. asked \/ synced => OnTime'
    BY <1>1, <1>4, <1>5, <2>1, <2>2, <2>3 DEF OnTime
  <2>7. master.slot = RESET => heard = <<>>
    <3>1. ~(slave.pc = "one" /\ SlaveDue > 9)
      BY <1>4, <2>3
    <3> QED
      BY <1>1, <2>3, <3>1 DEF Inv, HeardInv, Unheard
  <2>8. HeardInv'
    BY <1>1, <1>5, <1>9, <2>1, <2>2, <2>6, <2>7 DEF Inv, HeardInv, Unheard, hist
  <2> QED
    BY <2>4, <2>5, <2>8 DEF Inv
<1> QED
  BY <1>7, <1>8, <1>9 DEF SampleOne

LEMMA SampleZeroKeeps == ASSUME InTime, Inv, SampleZero PROVE Inv'
<1>1. /\ slave.pc = "zero" /\ slave.wait = 0
      /\ UNCHANGED <<master, pulls, present, read, synced, answer>>
  BY DEF SampleZero, At
<1>2. slave \in [pc : SlavePlaces, wait : Nat]
  BY DEF Inv, PlacesOK
<1>3. /\ Line(pulls) \in {0, 1}
      /\ Line(pulls) = 1 => ~MasterPulls
      /\ Line(pulls) = 0 => MasterPulls /\ InSlot
  BY <1>1, LineTells DEF Line
<1>4. SlaveDue = Elapsed /\ Elapsed \in Int /\ master.slot \in {0, 1, 2}
  BY <1>1, Ranges
<1>5. /\ InSlot /\ (Elapsed \in 23 .. 27 \/ (master.slot # 1 /\ Elapsed \in 31 .. 32))
      /\ asked \/ synced => master.slot # 1 /\ Elapsed \in 31 .. 32
      /\ synced \/ master.slot = RESET => heard = <<>>
  BY <1>1, <1>4 DEF Inv, SlaveInv, HeardInv, OnTime, Unheard
<1>6. CASE Line(pulls) = 1 /\ heard' = Append(heard, 0) /\ asked' = TRUE
           /\ \E work \in Works : slave' = Go(slave, "exit", work)
  <2>1. /\ slave'.pc = "exit" /\ slave'.wait \in 0 .. 2
        /\ slave' \in [pc : SlavePlaces, wait : Nat]
    <3>1. PICK work \in Works : slave' = Go(slave, "exit", work)
      BY <1>6
    <3>2. work \in 0 .. 2 /\ work \in Nat
      BY DEF InTime
    <3>3. "exit" \in SlavePlaces
      BY PlaceNames
    <3>4. slave'.pc = "exit" /\ slave'.wait = work /\ slave' \in [pc : SlavePlaces, wait : Nat]
      BY <1>2, <3>1, <3>2, <3>3, Gone
    <3> QED
      BY <3>2, <3>4
  <2>2. /\ Elapsed' = Elapsed /\ (InSlot' <=> InSlot) /\ (MasterPulls' <=> MasterPulls)
        /\ SlaveDue' = Elapsed + slave'.wait
        /\ master'.slot = master.slot
    BY <1>1, <2>1, MasterWaits
  <2>3. \/ master.slot = 1 /\ Elapsed \in 23 .. 27
        \/ master.slot = 0 /\ Elapsed \in 31 .. 32
    BY <1>3, <1>4, <1>5, <1>6, ElapsedTells DEF RESET
  <2>4. PlacesOK'
    BY <1>1, <1>6, <2>1, <2>2 DEF Inv, PlacesOK
  <2>5. SlaveInv'
    BY <2>1 DEF SlaveInv
  <2>6. OnTime'
    <3>1. CASE master.slot = 1 /\ Elapsed \in 23 .. 27
      <4>1. SlaveDue' \in 8 .. 30
        BY <2>1, <2>2, <3>1
      <4> QED
        BY <1>5, <2>1, <2>2, <3>1, <4>1 DEF OnTime
    <3>2. CASE master.slot = 0 /\ Elapsed \in 31 .. 32
      <4>1. SlaveDue' \in 31 .. 34
        BY <2>1, <2>2, <3>2
      <4> QED
        BY <1>5, <2>1, <2>2, <3>2, <4>1 DEF OnTime
    <3> QED
      BY <2>3, <3>1, <3>2
  <2>7. synced => master.slot = 0 /\ heard' = <<0>>
    BY <1>5, <1>6, <2>3
  <2>8. answer' = answer /\ (master.slot # 1 => answer = 1)
    BY <1>1 DEF Inv, HeardInv
  <2>9. HeardInv'
    <3>1. synced /\ master.pc \in {"hold", "recover", "idle"} => read = 0
      BY <2>7 DEF Inv, HeardInv, RESET
    <3> QED
      BY <1>1, <1>6, <2>1, <2>6, <2>7, <2>8, <3>1 DEF HeardInv, Unheard
  <2> QED
    BY <2>4, <2>5, <2>9 DEF Inv
<1>7. CASE Line(pulls) = 0 /\ slave' = Go(slave, "reset", OW_DTZR_MAX) /\ UNCHANGED <<asked, heard>>
  <2>1. slave'.pc = "reset" /\ slave'.wait = 73 /\ slave' \in [pc : SlavePlaces, wait : Nat]
    <3>1. OW_DTZR_MAX = 73
      BY DEF OW_DTZR_MAX, OW_TR_MAX, OW_TZ_MAX, OW_TO_MAX
    <3>2. "reset" \in SlavePlaces
      BY PlaceNames
    <3> QED
      BY <1>2, <1>7, <3>1, <3>2, Gone
  <2>2. /\ Elapsed' = Elapsed /\ (InSlot' <=> InSlot) /\ (MasterPulls' <=> MasterPulls)
        /\ SlaveDue' = Elapsed + 73
    BY <1>1, <2>1, MasterWaits
  <2>3. PlacesOK'
    BY <1>1, <1>7, <2>1, <2>2 DEF Inv, PlacesOK
  <2>4. SlaveInv'
    BY <1>1, <1>4, <1>5, <2>1, <2>2 DEF SlaveInv
  <2>5. asked \/ synced => OnTime'
    <3> SUFFICES ASSUME asked \/ synced PROVE OnTime'
      OBVIOUS
    <3>1. master.slot = RESET /\ Elapsed \in 31 .. 32
      BY <1>3, <1>4, <1>5, <1>7, ElapsedTells DEF RESET
    <3> QED
      BY <1>1, <1>5, <2>1, <2>2, <3>1 DEF OnTime
  <2>6. HeardInv'
    BY <1>1, <1>5, <1>7, <2>1, <2>2, <2>5 DEF Inv, HeardInv, Unheard
  <2> QED
    BY <2>3, <2>4, <2>6 DEF Inv
<1> QED
  BY <1>6, <1>7 DEF SampleZero

LEMMA SampleResetKeeps == ASSUME Inv, SampleReset PROVE Inv'
<1>1. /\ slave.pc = "reset" /\ slave.wait = 0
      /\ UNCHANGED <<master, pulls, present, read, asked, synced, heard, answer>>
  BY DEF SampleReset, At, hist
<1>2. slave \in [pc : SlavePlaces, wait : Nat]
  BY DEF Inv, PlacesOK
<1>3. /\ Line(pulls) \in {0, 1}
      /\ Line(pulls) = 1 => ~MasterPulls
      /\ Line(pulls) = 0 => MasterPulls /\ InSlot
  BY <1>1, LineTells DEF Line
<1>4. SlaveDue = Elapsed /\ Elapsed \in Int /\ master.slot \in {0, 1, 2}
  BY <1>1, Ranges
<1>5. /\ InSlot /\ master.slot = RESET => /\ Elapsed <= 100 \/ Elapsed \in 104 .. 105
                                          /\ heard = <<>>
      /\ asked \/ synced => InSlot /\ master.slot = RESET /\ Elapsed \in 104 .. 105
  BY <1>1, <1>4 DEF Inv, SlaveInv, HeardInv, OnTime, Unheard
<1>6. CASE Line(pulls) = 1
  <2>1. slave'.pc = "presence" /\ slave'.wait = 0 /\ slave' \in [pc : SlavePlaces, wait : Nat]
    <3>1. "presence" \in SlavePlaces
      BY PlaceNames
    <3> QED
      BY <1>2, <1>6, <3>1, Gone DEF SampleReset
  <2>2. /\ Elapsed' = Elapsed /\ (InSlot' <=> InSlot) /\ (MasterPulls' <=> MasterPulls)
        /\ SlaveDue' = Elapsed + 0
    BY <1>1, <2>1, MasterWaits
  <2>3. InSlot /\ master.slot = RESET => Elapsed \in 100 .. 105
    BY <1>3, <1>4, <1>5, <1>6, ElapsedTells
  <2>4. PlacesOK'
    BY <1>1, <2>1, <2>2 DEF Inv, PlacesOK
  <2>5. SlaveInv'
    BY <1>1, <1>4, <2>1, <2>2, <2>3 DEF SlaveInv
  <2>6. asked \/ synced => OnTime'
    BY <1>1, <1>4, <1>5, <2>1, <2>2, <2>3 DEF OnTime
  <2>7. HeardInv'
    BY <1>1, <1>5, <2>1, <2>2, <2>6 DEF Inv, HeardInv, Unheard
  <2> QED
    BY <2>4, <2>5, <2>7 DEF Inv
<1>7. CASE Line(pulls) = 0
  <2>1. slave'.pc = "exit" /\ slave'.wait = 0 /\ slave' \in [pc : SlavePlaces, wait : Nat]
    <3>1. "exit" \in SlavePlaces
      BY PlaceNames
    <3>2. slave' = Go(slave, "exit", 0)
      BY <1>7 DEF SampleReset
    <3> QED
      BY <1>2, <3>1, <3>2, Gone
  <2>2. /\ Elapsed' = Elapsed /\ (InSlot' <=> InSlot) /\ (MasterPulls' <=> MasterPulls)
    BY <1>1, <2>1, MasterWaits
  <2>3. ~asked /\ ~synced
    BY <1>3, <1>4, <1>5, <1>7, ElapsedTells
  <2>4. PlacesOK'
    BY <1>1, <2>1, <2>2 DEF Inv, PlacesOK
  <2>5. SlaveInv'
    BY <2>1 DEF SlaveInv
  <2>6. HeardInv'
    BY <1>1, <2>1, <2>2, <2>3 DEF Inv, HeardInv, Unheard
  <2> QED
    BY <2>4, <2>5, <2>6 DEF Inv
<1> QED
  BY <1>3, <1>6, <1>7

LEMMA SlavePullsKeeps ==
    ASSUME Inv, SlavePulls("answer", "pulling") \/ SlavePulls("presence", "pulsing")
    PROVE  Inv'
<1>1. /\ slave.wait = 0
      /\ \/ slave.pc = "answer" /\ slave' = Go(slave, "pulling", 20)
         \/ slave.pc = "presence" /\ slave' = Go(slave, "pulsing", 20)
  BY DEF SlavePulls, At, OW_TZ_MIN, OW_TS
<1>2. pulls' = pulls \cup {"slave"}
      /\ UNCHANGED <<master, present, read, asked, synced, heard, answer>>
  BY DEF SlavePulls, hist
<1>3. slave \in [pc : SlavePlaces, wait : Nat]
  BY DEF Inv, PlacesOK
<1>4. /\ slave'.wait = 20 /\ slave' \in [pc : SlavePlaces, wait : Nat]
      /\ \/ slave.pc = "answer" /\ slave'.pc = "pulling"
         \/ slave.pc = "presence" /\ slave'.pc = "pulsing"
  <2>1. "pulling" \in SlavePlaces /\ "pulsing" \in SlavePlaces
    BY PlaceNames
  <2>2. CASE slave.pc = "answer" /\ slave' = Go(slave, "pulling", 20)
    BY <1>3, <2>1, <2>2, Gone
  <2>3. CASE slave.pc = "presence" /\ slave' = Go(slave, "pulsing", 20)
    BY <1>3, <2>1, <2>3, Gone
  <2> QED
    BY <1>1, <2>2, <2>3
<1>5. SlaveDue = Elapsed /\ Elapsed \in Int /\ master.slot \in {0, 1, 2}
  BY <1>1, Ranges
<1>6. /\ Elapsed' = Elapsed /\ (InSlot' <=> InSlot) /\ (MasterPulls' <=> MasterPulls)
      /\ SlaveDue' = Elapsed + 20
  BY <1>2, <1>4, MasterWaits
<1>7. PlacesOK'
  BY <1>2, <1>4, <1>6 DEF Inv, PlacesOK
<1>8. SlaveInv'
  BY <1>2, <1>4, <1>5, <1>6 DEF Inv, SlaveInv
<1>9. asked \/ synced => OnTime'
  <2>1. asked \/ synced => OnTime
    BY DEF Inv, HeardInv
  <2>2. CASE slave.pc = "answer" /\ slave'.pc = "pulling"
    BY <1>2, <1>5, <1>6, <2>1, <2>2 DEF OnTime
  <2>3. CASE slave.pc = "presence" /\ slave'.pc = "pulsing"
    BY <1>2, <1>5, <1>6, <2>1, <2>3 DEF OnTime
  <2> QED
    BY <1>4, <2>2, <2>3
<1>10. HeardInv'
  BY <1>2, <1>4, <1>6, <1>9 DEF Inv, HeardInv, Unheard
<1> QED
  BY <1>7, <1>8, <1>10 DEF Inv

LEMMA SlaveReleasesKeeps == ASSUME InTime, Inv, SlaveReleases PROVE Inv'
<1>1. /\ slave.pc \in {"pulling", "pulsing"} /\ slave.wait = 0
      /\ pulls' = pulls \ {"slave"}
      /\ \/ /\ slave.pc = "pulsing"
            /\ asked' = FALSE /\ heard' = Append(heard, RESET)
            /\ \E work \in Works : slave' = Go(slave, "exit", work)
         \/ /\ slave.pc = "pulling" /\ UNCHANGED <<asked, heard>>
            /\ slave' = Go(slave, "exit", 0)
      /\ UNCHANGED <<master, present, read, synced, answer>>
  BY DEF SlaveReleases, At
<1>2. /\ slave'.pc = "exit" /\ slave'.wait \in 0 .. 2
      /\ slave' \in [pc : SlavePlaces, wait : Nat]
      /\ slave.pc = "pulling" => slave'.wait = 0
  <2>1. slave \in [pc : SlavePlaces, wait : Nat] /\ "exit" \in SlavePlaces
    BY PlaceNames DEF Inv, PlacesOK
  <2>2. CASE slave.pc = "pulsing"
    <3>1. PICK work \in Works : slave' = Go(slave, "exit", work)
      BY <1>1, <2>2
    <3>2. work \in 0 .. 2 /\ work \in Nat
      BY DEF InTime
    <3>3. slave'.pc = "exit" /\ slave'.wait = work /\ slave' \in [pc : SlavePlaces, wait : Nat]
      BY <2>1, <3>1, <3>2, Gone
    <3> QED
      BY <2>2, <3>2, <3>3
  <2>3. CASE slave.pc = "pulling"
    <3>1. slave' = Go(slave, "exit", 0)
      BY <1>1, <2>3
    <3> QED
      BY <2>1, <2>3, <3>1, Gone
  <2> QED
    BY <1>1, <2>2, <2>3
<1>3. SlaveDue = Elapsed /\ Elapsed \in Int /\ master.slot \in {0, 1, 2}
  BY <1>1, Ranges
<1>4. /\ Elapsed' = Elapsed /\ (InSlot' <=> InSlot) /\ (MasterPulls' <=> MasterPulls)
      /\ SlaveDue' = Elapsed + slave'.wait /\ master'.slot = master.slot
  BY <1>1, <1>2, MasterWaits
<1>5. PlacesOK'
  BY <1>1, <1>2, <1>4 DEF Inv, PlacesOK
<1>6. SlaveInv'
  BY <1>2 DEF SlaveInv
<1>7. asked \/ synced =>
         /\ InSlot
         /\ slave.pc = "pulling" => master.slot = 1 /\ Elapsed \in 28 .. 29
         /\ slave.pc = "pulsing" => master.slot = RESET /\ Elapsed \in 120 .. 125
  BY <1>1, <1>3 DEF Inv, HeardInv, OnTime
<1>8. asked \/ synced => OnTime'
  <2>1. CASE slave.pc = "pulling"
    BY <1>2, <1>3, <1>4, <1>7, <2>1 DEF OnTime
  <2>2. CASE slave.pc = "pulsing"
    BY <1>2, <1>3, <1>4, <1>7, <2>2 DEF OnTime, RESET
  <2> QED
    BY <1>1, <2>1, <2>2
<1>9. HeardInv'
  <2>1. asked' => asked
    BY <1>1
  <2>2. CASE slave.pc = "pulling"
    BY <1>1, <1>2, <1>3, <1>4, <1>7, <1>8, <2>1, <2>2 DEF Inv, HeardInv, Unheard
  <2>3. CASE slave.pc = "pulsing"
    <3>1. synced => heard' = <<RESET>> /\ master.slot = RESET /\ answer = 1
      BY <1>1, <1>7, <2>3 DEF Inv, HeardInv, Unheard, RESET
    <3> QED
      BY <1>1, <1>2, <1>4, <1>8, <2>1, <2>3, <3>1 DEF Inv, HeardInv, Unheard
  <2> QED
    BY <1>1, <2>2, <2>3
<1> QED
  BY <1>5, <1>6, <1>9 DEF Inv

LEMMA RearmKeeps == ASSUME Inv, Rearm PROVE Inv'
<1>1. /\ slave.pc = "exit" /\ slave.wait = 0 /\ slave' = Go(slave, "armed", 0)
      /\ UNCHANGED <<master, pulls, present, read, asked, synced, heard, answer>>
  BY DEF Rearm, At, hist
<1>2. slave'.pc = "armed" /\ slave'.wait = 0 /\ slave' \in [pc : SlavePlaces, wait : Nat]
  <2>1. slave \in [pc : SlavePlaces, wait : Nat] /\ "armed" \in SlavePlaces
    BY PlaceNames DEF Inv, PlacesOK
  <2> QED
    BY <1>1, <2>1, Gone
<1>3. SlaveDue = Elapsed /\ Elapsed \in Int /\ master.slot \in {0, 1, 2}
  BY <1>1, Ranges
<1>4. /\ Elapsed' = Elapsed /\ (InSlot' <=> InSlot) /\ (MasterPulls' <=> MasterPulls)
      /\ SlaveDue' = Elapsed + 0 /\ master'.slot = master.slot
  BY <1>1, <1>2, MasterWaits
<1>5. PlacesOK'
  BY <1>1, <1>2, <1>4 DEF Inv, PlacesOK
<1>6. SlaveInv'
  BY <1>2 DEF SlaveInv
<1>7. asked \/ synced => OnTime'
  <2> SUFFICES ASSUME asked \/ synced PROVE OnTime'
    OBVIOUS
  <2>1. InSlot /\ Elapsed \in CASE master.slot = 1 -> 8 .. 30
                                [] master.slot = 0 -> 31 .. 34
                                [] OTHER -> 120 .. 127
    BY <1>1, <1>3 DEF Inv, HeardInv, OnTime
  <2>2. ~MasterPulls
    <3>1. CASE master.slot = 1
      BY <1>3, <2>1, <3>1, ElapsedTells
    <3>2. CASE master.slot = 0
      BY <1>3, <2>1, <3>2, ElapsedTells
    <3>3. CASE master.slot = RESET
      BY <1>3, <2>1, <3>3, ElapsedTells DEF RESET
    <3> QED
      BY <1>3, <3>1, <3>2, <3>3 DEF RESET
  <2> QED
    BY <1>2, <1>4, <2>2 DEF OnTime
<1>8. HeardInv'
  BY <1>1, <1>2, <1>4, <1>7 DEF Inv, HeardInv, Unheard
<1> QED
  BY <1>5, <1>6, <1>8 DEF Inv

(* Waiting keeps the time at which a wait ends.                             *)
LEMMA TickKeeps == ASSUME Inv, Tick PROVE Inv'
<1>1. /\ ~Due(master) /\ ~Due(slave)
      /\ master' = Count(master) /\ slave' = Count(slave)
      /\ UNCHANGED <<pulls, present, read, asked, synced, heard, answer>>
  BY DEF Tick, hist
<1>2. /\ master \in [pc : MasterPlaces, wait : Nat, slot : {0, 1, RESET}]
      /\ slave \in [pc : SlavePlaces, wait : Nat]
  BY DEF Inv, PlacesOK
<1>3. /\ master' \in [pc : MasterPlaces, wait : Nat, slot : {0, 1, RESET}]
      /\ master'.pc = master.pc /\ master'.slot = master.slot
      /\ master'.wait = IF master.wait = 0 THEN 0 ELSE master.wait - 1
  BY <1>1, <1>2 DEF Count
<1>4. /\ slave' \in [pc : SlavePlaces, wait : Nat]
      /\ slave'.pc = slave.pc
      /\ slave'.wait = IF slave.wait = 0 THEN 0 ELSE slave.wait - 1
  BY <1>1, <1>2 DEF Count
<1>5. /\ InSlot => master.wait > 0
      /\ slave.pc \notin {"off", "armed"} => slave.wait > 0
      /\ slave.pc # "presence"
  <2>1. slave.pc = "presence" => slave.wait = 0
    BY DEF Inv, PlacesOK
  <2>2. master.pc \notin {"off", "armed"}
    BY <1>2 DEF MasterPlaces
  <2>3. slave.pc # "idle"
    BY <1>2 DEF SlavePlaces
  <2> QED
    BY <1>1, <1>2, <2>1, <2>2, <2>3 DEF Due, InSlot
<1>6. /\ Elapsed \in Int /\ SlaveDue = Elapsed + slave.wait /\ master.slot \in {0, 1, 2}
  BY Ranges
<1>7. /\ (InSlot' <=> InSlot) /\ (MasterPulls' <=> MasterPulls)
      /\ PhaseEnd' = PhaseEnd
  BY <1>3 DEF InSlot, MasterPulls, PhaseEnd
<1>8. InSlot => Elapsed' = Elapsed + 1
  <2>1. PhaseEnd \in Int
    BY DEF PhaseEnd, OW_TR_MIN, OW_TO_MIN
  <2> QED
    BY <1>2, <1>3, <1>5, <1>7, <2>1 DEF Elapsed
<1>9. InSlot /\ slave.pc \notin {"off", "armed"} => SlaveDue' = SlaveDue
  BY <1>2, <1>4, <1>5, <1>6, <1>8 DEF SlaveDue
<1>10. PlacesOK'
  BY <1>1, <1>2, <1>3, <1>4, <1>7 DEF Inv, PlacesOK
<1>11. SlaveInv'
  BY <1>1, <1>2, <1>3, <1>4, <1>5, <1>7, <1>9 DEF Inv, SlaveInv
<1>12. OnTime' <=> OnTime
  BY <1>3, <1>4, <1>7, <1>9 DEF OnTime
<1>13. HeardInv'
  BY <1>1, <1>3, <1>4, <1>6, <1>7, <1>8, <1>9, <1>12 DEF Inv, HeardInv, Unheard
<1> QED
  BY <1>10, <1>11, <1>13 DEF Inv

LEMMA StepKeeps == InTime /\ Inv /\ [Next]_vars => Inv'
<1> SUFFICES ASSUME InTime, Inv, [Next]_vars PROVE Inv'
  OBVIOUS
<1>1. CASE ResetBegin
  BY <1>1, BeginKeeps DEF ResetBegin
<1>2. CASE \E bit \in Bit : BitBegin(bit)
  <2>1. PICK bit \in Bit : Begin(bit, OW_TO_MIN)
    BY <1>2 DEF BitBegin
  <2>2. bit \in {0, 1, RESET} /\ bit # RESET
    BY DEF Bit, RESET
  <2> QED
    BY <2>1, <2>2, BeginKeeps
<1>3. CASE Release
  BY <1>3, ReleaseKeeps
<1>4. CASE ReadPresence
  BY <1>4, ReadPresenceKeeps
<1>5. CASE ReadShort
  BY <1>5, ReadShortKeeps
<1>6. CASE ReadBit
  BY <1>6, ReadBitKeeps
<1>7. CASE BitEnd
  BY <1>7, BitEndKeeps
<1>8. CASE Recover
  BY <1>8, RecoverKeeps
<1>9. CASE SlaveStart
  BY <1>9, SlaveStartKeeps
<1>10. CASE SlaveStop
  BY <1>10, SlaveStopKeeps
<1>11. CASE SampleOne
  BY <1>11, SampleOneKeeps
<1>12. CASE SampleZero
  BY <1>12, SampleZeroKeeps
<1>13. CASE SampleReset
  BY <1>13, SampleResetKeeps
<1>14. CASE SlavePulls("answer", "pulling") \/ SlavePulls("presence", "pulsing")
  BY <1>14, SlavePullsKeeps
<1>15. CASE SlaveReleases
  BY <1>15, SlaveReleasesKeeps
<1>16. CASE Rearm
  BY <1>16, RearmKeeps
<1>17. CASE Tick
  BY <1>17, TickKeeps
<1>18. CASE UNCHANGED vars
  <2>1. UNCHANGED <<master, slave, pulls, present, read, asked, synced, heard, answer>>
    BY <1>18 DEF vars, hist
  <2>2. /\ Elapsed' = Elapsed /\ SlaveDue' = SlaveDue /\ (InSlot' <=> InSlot)
        /\ (MasterPulls' <=> MasterPulls)
    BY <2>1 DEF Elapsed, PhaseEnd, SlaveDue, InSlot, MasterPulls
  <2>3. PlacesOK'
    BY <2>1, <2>2 DEF Inv, PlacesOK
  <2>4. SlaveInv'
    BY <2>1, <2>2 DEF Inv, SlaveInv
  <2>5. OnTime' <=> OnTime
    BY <2>1, <2>2 DEF OnTime
  <2>6. HeardInv'
    BY <2>1, <2>2, <2>5 DEF Inv, HeardInv, Unheard
  <2> QED
    BY <2>3, <2>4, <2>6 DEF Inv
<1> QED
  BY <1>1, <1>2, <1>3, <1>4, <1>5, <1>6, <1>7, <1>8, <1>9, <1>10, <1>11, <1>12, <1>13, <1>14,
     <1>15, <1>16, <1>17, <1>18 DEF Next, MasterStep, SlaveStep

-----------------------------------------------------------------------------
(* Master and slave stay in step: from the first reset with a presence      *)
(* pulse on, every slot is taken for what it was, once, the slave is ready  *)
(* before the next begins, and the master reads what the slave answered, in *)
(* any sequence of resets and bits with any pauses, whenever the slave was  *)
(* started and whenever it loses its power, as long as the interrupt's      *)
(* latency and the receiver's work keep to InTime.                          *)
THEOREM SlotsAreTaken == ASSUME InTime PROVE Spec => []SlotsAreHeard
<1>1. ASSUME Inv PROVE SlotsAreHeard
  <2> SUFFICES ASSUME At(master, "idle"), synced PROVE SlotsAreHeard
    BY DEF SlotsAreHeard
  <2>1. ~InSlot /\ master.pc = "idle"
    BY DEF At, InSlot
  <2>2. slave.pc = "armed"
    BY <1>1, <2>1 DEF Inv, HeardInv, OnTime
  <2> QED
    BY <1>1, <2>1, <2>2 DEF Inv, HeardInv, Unheard, SlotsAreHeard, Bit, RESET
<1>2. InTime /\ Inv /\ [Next]_vars => Inv'
  BY StepKeeps
<1>3. Inv /\ [Next]_vars => Inv'
  BY <1>2
<1> QED
  BY <1>1, <1>3, InitInv, PTL DEF Spec
================================================================================
