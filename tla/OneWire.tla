-------------------------------- MODULE OneWire --------------------------------
(***************************************************************************)
(* One wire between a master (drivers/OneWire/master/ow_ll_master.c) and a *)
(* slave (drivers/OneWire/slave/ow_ll_slave.c), bit by bit.                *)
(*                                                                         *)
(* Both sides pull the line low, wait and look at it; nothing but the      *)
(* lengths of their waits keeps them in step.  The slave's interrupt       *)
(* starts at any edge of the line while it is enabled, some time after the *)
(* edge, and is disabled until its handler is done.  Time passes in ticks  *)
(* of 10 us.                                                               *)
(***************************************************************************)
EXTENDS Integers, Sequences

CONSTANTS
    Latencies,   \* times from an edge to the first instruction of the handler
    Works,       \* times a callback takes that answers nothing
    AnswerWorks  \* times the callback takes to answer a 0

ASSUME OneWireAssumption ==
    Latencies \subseteq Nat /\ Works \subseteq Nat /\ AnswerWorks \subseteq Nat

(* ow_common.h, as the preprocessor leaves it: OW_TR_MAX - OW_DTOZ_MAX is   *)
(* OW_TR_MAX - OW_TZ_MAX - OW_TO_MAX.                                       *)
OW_TR_MIN == 100
OW_TR_MAX == 110
OW_TP == 20
OW_TO_MIN == 5
OW_TO_MAX == 7
OW_TZ_MIN == 25
OW_TZ_MAX == 30
OW_TS == 5
OW_TRC == 5
OW_DTOZ_MIN == OW_TZ_MIN - OW_TO_MIN
\* Faulty: a wait that is counted from the edge.
OW_DTOZ_MAX_FromEdge == OW_TZ_MAX
OW_DTOZ_MAX == OW_TZ_MAX - OW_TO_MAX
OW_DTZR_MAX == OW_TR_MAX - OW_TZ_MAX - OW_TO_MAX
RetryDelay == 50  \* between two resets of a master that got no presence pulse

VARIABLES
    master,   \* where the master is in a slot, for how long, and its slot
    slave,    \* where the slave's interrupt handler is, and for how long
    pulls,    \* who pulls the line low
    present,  \* did the last reset find a slave?
    read,     \* the bit the master has read in this slot
    asked,    \* has the slave heard a 0 since the last reset?
    synced,   \* history: was there no restart since the reset that found it?
    heard,    \* history: what the slave has taken this slot for
    answer    \* history: the bit the slave answered with

hist == <<heard, answer>>
vars == <<master, slave, pulls, present, read, asked, synced, hist>>

Bit == {0, 1}
RESET == 2  \* a slot that is a reset pulse and no bit
Line(p) == IF p = {} THEN 1 ELSE 0

At(side, place) == side.pc = place /\ side.wait = 0
Go(side, place, ticks) == [side EXCEPT !.pc = place, !.wait = ticks]

-----------------------------------------------------------------------------
Init ==
    /\ master = [pc |-> "idle", wait |-> 0, slot |-> RESET]
    /\ slave = [pc |-> "off", wait |-> 0]
    /\ pulls = {}
    /\ present = FALSE
    /\ read = 1
    /\ asked = FALSE
    /\ synced = FALSE
    /\ heard = <<>>
    /\ answer = 1

(* The master pulls or releases the line; an edge starts the handler.       *)
MasterDrives(p) ==
    /\ pulls' = p
    /\ IF slave.pc = "armed" /\ Line(p) # Line(pulls)
       THEN \E latency \in Latencies : slave' = Go(slave, "one", latency + OW_TO_MAX)
       ELSE UNCHANGED slave

Low == pulls \cup {"master"}
High == pulls \ {"master"}

Begin(slot, ticks) ==
    /\ At(master, "idle")
    /\ master' = [pc |-> "low", wait |-> ticks, slot |-> slot]
    /\ MasterDrives(Low)
    /\ heard' = <<>>
    /\ answer' = 1
    /\ read' = 1
    /\ UNCHANGED <<present, asked, synced>>

ResetBegin == Begin(RESET, OW_TR_MIN)

(* The callers send bits only when a slave is there.                        *)
BitBegin(bit) == present /\ Begin(bit, OW_TO_MIN)

(* The end of the low part of a reset and of a one.                         *)
Release ==
    /\ At(master, "low")
    /\ MasterDrives(IF master.slot = 0 THEN pulls ELSE High)
    /\ master' = IF master.slot = RESET THEN Go(master, "presence", OW_TP)
                 ELSE Go(master, "sample", OW_TS)
    /\ UNCHANGED <<present, read, asked, synced, hist>>

ReadPresence ==
    /\ At(master, "presence")
    /\ present' = (Line(pulls) = 0)
    /\ synced' = present'
    /\ master' = Go(master, "short", OW_TP)
    /\ UNCHANGED <<slave, pulls, read, asked, hist>>

ReadShort ==
    /\ At(master, "short")
    /\ present' = (present /\ Line(pulls) = 1)
    /\ master' = Go(master, "idle", IF present' THEN 0 ELSE RetryDelay)
    /\ synced' = (synced /\ present')
    /\ UNCHANGED <<slave, pulls, read, asked, hist>>

ReadBit ==
    /\ At(master, "sample")
    /\ read' = IF Line(pulls) = 0 THEN 0 ELSE master.slot
    /\ master' = Go(master, "hold", OW_DTOZ_MIN)
    /\ UNCHANGED <<slave, pulls, present, asked, synced, hist>>

BitEnd ==
    /\ At(master, "hold")
    /\ MasterDrives(High)
    /\ master' = Go(master, "recover", OW_TRC)
    /\ UNCHANGED <<present, read, asked, synced, hist>>

Recover ==
    /\ At(master, "recover")
    /\ master' = Go(master, "idle", 0)
    /\ UNCHANGED <<slave, pulls, present, read, asked, synced, hist>>

-----------------------------------------------------------------------------
(* ow_ll_slave_start, at any time.                                          *)
SlaveStart ==
    /\ slave.pc = "off"
    /\ slave' = Go(slave, "armed", 0)
    /\ UNCHANGED <<master, pulls, present, read, asked, synced, hist>>

(* The slave loses its power and starts again later.                        *)
SlaveStop ==
    /\ slave.pc # "off"
    /\ slave' = Go(slave, "off", 0)
    /\ pulls' = pulls \ {"slave"}
    /\ asked' = FALSE
    /\ synced' = FALSE
    /\ UNCHANGED <<master, present, read, hist>>

(* The callback takes its time; then the handler pulls the line low for a 0 *)
(* or is done.  A byte of ones is no command, so that the callback has a 0  *)
(* to answer only when it has heard one since the last reset.               *)
SampleOne ==
    /\ At(slave, "one")
    /\ \/ /\ Line(pulls) = 1
          /\ heard' = Append(heard, 1)
          /\ \/ /\ answer' = 1
                /\ \E work \in Works : slave' = Go(slave, "exit", work)
             \/ /\ asked
                /\ answer' = 0
                /\ \E work \in AnswerWorks : slave' = Go(slave, "answer", work)
       \/ /\ Line(pulls) = 0
          /\ slave' = Go(slave, "zero", OW_DTOZ_MAX)
          /\ UNCHANGED hist
    /\ UNCHANGED <<master, pulls, present, read, asked, synced>>

SampleZero ==
    /\ At(slave, "zero")
    /\ \/ /\ Line(pulls) = 1
          /\ heard' = Append(heard, 0)
          /\ asked' = TRUE
          /\ \E work \in Works : slave' = Go(slave, "exit", work)
       \/ /\ Line(pulls) = 0
          /\ slave' = Go(slave, "reset", OW_DTZR_MAX)
          /\ UNCHANGED <<asked, heard>>
    /\ UNCHANGED <<master, pulls, present, read, synced, answer>>

\* Faulty: a reset without a presence pulse.
SampleResetUnanswered ==
    /\ At(slave, "reset")
    /\ slave' = Go(slave, "exit", 0)
    /\ UNCHANGED <<master, pulls, present, read, asked, synced, hist>>

SampleReset ==
    /\ At(slave, "reset")
    /\ slave' = IF Line(pulls) = 1 THEN Go(slave, "presence", 0) ELSE Go(slave, "exit", 0)
    /\ UNCHANGED <<master, pulls, present, read, asked, synced, hist>>

(* ow_ll_slave_write_bit(0), for a bit or for the presence pulse.           *)
SlavePulls(from, to) ==
    /\ At(slave, from)
    /\ pulls' = pulls \cup {"slave"}
    /\ slave' = Go(slave, to, OW_TZ_MIN - OW_TS)
    /\ UNCHANGED <<master, present, read, asked, synced, hist>>

(* After the presence pulse the callback of a reset takes its time.         *)
SlaveReleases ==
    /\ At(slave, "pulling") \/ At(slave, "pulsing")
    /\ pulls' = pulls \ {"slave"}
    /\ \/ /\ slave.pc = "pulsing"
          /\ asked' = FALSE
          /\ heard' = Append(heard, RESET)
          /\ \E work \in Works : slave' = Go(slave, "exit", work)
       \/ /\ slave.pc = "pulling"
          /\ slave' = Go(slave, "exit", 0)
          /\ UNCHANGED <<asked, heard>>
    /\ UNCHANGED <<master, present, read, synced, answer>>

Rearm ==
    /\ At(slave, "exit")
    /\ slave' = Go(slave, "armed", 0)
    /\ UNCHANGED <<master, pulls, present, read, asked, synced, hist>>

-----------------------------------------------------------------------------
MasterStep == Release \/ ReadPresence \/ ReadShort \/ ReadBit \/ BitEnd \/ Recover
SlaveStep ==
    \/ SampleOne \/ SampleZero \/ SampleReset \/ SlaveReleases \/ Rearm
    \/ SlavePulls("answer", "pulling") \/ SlavePulls("presence", "pulsing")

Due(side) == side.wait = 0 /\ side.pc \notin {"idle", "off", "armed"}
Count(side) == [side EXCEPT !.wait = IF @ = 0 THEN 0 ELSE @ - 1]

Tick ==
    /\ ~Due(master) /\ ~Due(slave)
    /\ master' = Count(master)
    /\ slave' = Count(slave)
    /\ UNCHANGED <<pulls, present, read, asked, synced, hist>>

Next ==
    \/ ResetBegin \/ \E bit \in Bit : BitBegin(bit)
    \/ MasterStep \/ SlaveStart \/ SlaveStop \/ SlaveStep \/ Tick

Spec == Init /\ [][Next]_vars

(* Waits end, a slave that has stopped starts again, and a master begins    *)
(* every attempt with a reset (SensorReadData).                             *)
Fairness ==
    /\ WF_vars(Tick) /\ WF_vars(MasterStep) /\ WF_vars(SlaveStep)
    /\ WF_vars(SlaveStart)
    /\ SF_vars(ResetBegin)

FairSpec == Spec /\ Fairness

-----------------------------------------------------------------------------
(* When a slot is over the slave has taken it for what it was, once, and is *)
(* ready for the next, and the master has read what the slave answered, in  *)
(* every slot from the first reset with a presence pulse on, whenever the   *)
(* slave was started (ow_ll_master.c, ow_ll_slave.c).                       *)
SlotsAreHeard ==
    At(master, "idle") /\ synced =>
        /\ heard = <<master.slot>>
        /\ slave.pc = "armed"
        /\ master.slot \in Bit => read = IF answer = 0 THEN 0 ELSE master.slot

(* A slave that keeps its power is found again, though it started in the    *)
(* middle of a slot and heard what nobody sent: there is a reset whose      *)
(* presence pulse comes and ends in time.                                   *)
SlaveIsFound == <>[](slave.pc # "off") => []<>(At(master, "idle") /\ synced)
=============================================================================
