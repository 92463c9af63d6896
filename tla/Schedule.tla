------------------------------ MODULE Schedule ------------------------------
(***************************************************************************)
(* The schedule: the ScheduleManager task, the clock and alarm of the time *)
(* driver, the schedule and irrigation mailboxes, and the parts of         *)
(* UiController that read and post the values of the schedule.             *)
(*                                                                         *)
(* The clock is its hour: the second interrupt of the RTC moves it at any  *)
(* time, except that no two hours begin while the task is between TimeGet  *)
(* and TimeAlarmEnable.  The stores to flash are compiled out in the       *)
(* repository's configuration; what an earlier build has stored is what    *)
(* the initial states start from.                                          *)
(***************************************************************************)
EXTENDS Naturals

CONSTANTS
    HOURS_IN_DAY,
    MaxAmount,      \* the largest amount the UI lets the user set, in liters
    Stored          \* the [amount, freq] pairs the storage may hold at start

Amounts == 1..MaxAmount
Freqs == 1..HOURS_IN_DAY

\* What is stored is a schedule that was valid, or one whose frequency has not
\* been set yet; [amount |-> 0, freq |-> 0] is an empty storage.
ASSUME HoursAssumption == HOURS_IN_DAY \in Nat \ {0}
ASSUME MaxAmountAssumption == MaxAmount \in Nat \ {0}
ASSUME StoredAssumption ==
    Stored \subseteq {s \in [amount: 0..MaxAmount, freq: 0..HOURS_IN_DAY] :
                         s.freq # 0 => s.amount # 0}

VARIABLES
    hours,          \* TimeData.time.hours
    alarm,          \* TimeData.alarm_en, alarm_hour
    flags,          \* the system event group: ALARM and SCHED_LOADED
    mboxSchedule,   \* the unread values of the schedule mailbox
    mboxIrrigation, \* those of the irrigation mailbox
    data,           \* ScheduleManager.data
    pc,             \* where the task is
    ret,            \* where IScheduleNextIrrigation returns to
    t,              \* its local copy of the hour
    ui,             \* is the UI waiting for the schedule, idle or editing?
    stable,         \* is TmrValueStable running?
    values,         \* UiValues
    due,            \* history: hours until the alarm last planned, 0 for none
    slipped         \* history: has an hour begun since TimeGet?

taskVars == <<pc, ret, t>>
uiVars == <<ui, stable, values>>
history == <<due, slipped>>
vars == <<hours, alarm, flags, mboxSchedule, mboxIrrigation, data, taskVars,
          uiVars, history>>

\* Between TimeGet and TimeAlarmEnable.
Setting == pc \in {"set", "enable"}

\* A mailbox address holds at most one unread value; a post to an address that
\* holds one fails.
Put(mbox, addr, v) == IF mbox[addr] = {} THEN [mbox EXCEPT ![addr] = {v}] ELSE mbox
Read(mbox, addr) == [mbox EXCEPT ![addr] = {}]

Interval(freq) == HOURS_IN_DAY \div freq

\* Faulty variant of NextHour: the hour is brought back into
\* 0 .. HOURS_IN_DAY - 1.
NextHourZero(hour, interval) == (hour + interval) % HOURS_IN_DAY

\* The hour of the next irrigation.  Hour 0 is never used: the alarm hour is
\* compared with an hour that has been incremented and not yet wrapped.
NextHour(hour, interval) ==
    IF hour + interval > HOURS_IN_DAY THEN hour + interval - HOURS_IN_DAY
    ELSE hour + interval

-----------------------------------------------------------------------------
(* Faulty variants, each with one plausible mistake.                       *)

\* The amount is pended for without waiting.
PendAmountUnblocked ==
    /\ pc = "amount"
    /\ \/ mboxSchedule.AMOUNT = {} /\ UNCHANGED data
       \/ \E a \in mboxSchedule.AMOUNT : data' = [data EXCEPT !.amount = a]
    /\ mboxSchedule' = Read(mboxSchedule, "AMOUNT")
    /\ pc' = "freq"
    /\ UNCHANGED <<hours, alarm, flags, mboxIrrigation, ret, t, uiVars, history>>

\* A frequency is accepted only when there is none yet.
PendFreqOnce ==
    /\ pc = "freq"
    /\ \E f \in mboxSchedule.FREQ :
          IF data.freq = 0
          THEN /\ data' = [data EXCEPT !.freq = f, !.interval = Interval(f)]
               /\ pc' = "get"
          ELSE /\ pc' = "alarm"
               /\ UNCHANGED data
    /\ ret' = "alarm"
    /\ mboxSchedule' = Read(mboxSchedule, "FREQ")
    /\ UNCHANGED <<hours, alarm, flags, mboxIrrigation, t, uiVars, history>>

\* The next irrigation is counted from the hour it is set in.
AlarmSetFromNow ==
    /\ pc = "set"
    /\ LET hour == NextHour(hours, data.interval)
       IN  /\ data' = [data EXCEPT !.time = hour]
           /\ alarm' = [alarm EXCEPT !.hour = hour]
    /\ pc' = "enable"
    /\ UNCHANGED <<hours, flags, mboxSchedule, mboxIrrigation, ret, t, uiVars,
                   history>>

\* The alarm flag is left set.
ClearAlarmForgotten ==
    /\ pc = "clear"
    /\ pc' = "get"
    /\ ret' = "amount"
    /\ UNCHANGED <<hours, alarm, flags, mboxSchedule, mboxIrrigation, data, t,
                   uiVars, history>>

-----------------------------------------------------------------------------
(* ScheduleManagerInit, after TimeInit: load the schedule and the time, set *)
(* the alarm for a schedule that is complete.                               *)

IScheduleLoad(s) ==
    [amount |-> s.amount, freq |-> s.freq,
     interval |-> IF s.freq = 0 THEN 0 ELSE Interval(s.freq), time |-> 0]

Init ==
    /\ hours \in 0..(HOURS_IN_DAY - 1)
    /\ \E s \in Stored :
          LET loaded == IScheduleLoad(s)
              next == NextHour(hours, loaded.interval)
          IN  IF s.freq # 0
              THEN /\ data = [loaded EXCEPT !.time = next]
                   /\ alarm = [en |-> TRUE, hour |-> next]
                   /\ due = loaded.interval
              ELSE /\ data = loaded
                   /\ alarm = [en |-> FALSE, hour |-> 0]
                   /\ due = 0
    /\ flags = {}
    /\ mboxSchedule = [AMOUNT |-> {}, FREQ |-> {}]
    /\ mboxIrrigation = [AMOUNT |-> {}, TRIGGER |-> {}]
    /\ pc = "load"
    /\ ret = "alarm"
    /\ t = 0
    /\ ui = "waiting"
    /\ stable = FALSE
    /\ values = [amount |-> 1, freq |-> 1]
    /\ slipped = FALSE

-----------------------------------------------------------------------------
(* ScheduleManagerTask.                                                    *)

\* TASK_INIT: announce that the schedule can be read ...
AnnounceLoaded ==
    /\ pc = "load"
    /\ flags' = flags \cup {"SCHED_LOADED"}
    /\ pc' = "sync"
    /\ UNCHANGED <<hours, alarm, mboxSchedule, mboxIrrigation, data, ret, t,
                   uiVars, history>>

\* ... and wait until the UI has read it.
WaitSynced ==
    /\ pc = "sync"
    /\ "SCHED_LOADED" \notin flags
    /\ pc' = "amount"
    /\ UNCHANGED <<hours, alarm, flags, mboxSchedule, mboxIrrigation, data, ret,
                   t, uiVars, history>>

PendAmount ==
    /\ pc = "amount"
    /\ \E a \in mboxSchedule.AMOUNT :
          data' = IF a # 0 THEN [data EXCEPT !.amount = a] ELSE data
    /\ mboxSchedule' = Read(mboxSchedule, "AMOUNT")
    /\ pc' = "freq"
    /\ UNCHANGED <<hours, alarm, flags, mboxIrrigation, ret, t, uiVars, history>>

\* A new frequency replaces the alarm that was set.
PendFreq ==
    /\ pc = "freq"
    /\ \E f \in mboxSchedule.FREQ :
          \/ /\ f # data.freq /\ f # 0
             /\ data' = [data EXCEPT !.freq = f, !.interval = Interval(f)]
             /\ pc' = "get"
          \/ /\ f = data.freq \/ f = 0
             /\ pc' = "alarm"
             /\ UNCHANGED data
    /\ ret' = "alarm"
    /\ mboxSchedule' = Read(mboxSchedule, "FREQ")
    /\ UNCHANGED <<hours, alarm, flags, mboxIrrigation, t, uiVars, history>>

\* Wait for the alarm, then post the amount.
PostAmount ==
    /\ pc = "alarm"
    /\ "ALARM" \in flags
    /\ mboxIrrigation' = Put(mboxIrrigation, "AMOUNT", data.amount)
    /\ pc' = IF mboxIrrigation.AMOUNT = {} THEN "trigger" ELSE "amount"
    /\ UNCHANGED <<hours, alarm, flags, mboxSchedule, data, ret, t, uiVars,
                   history>>

\* When the amount could be posted, post the trigger.
PostTrigger ==
    /\ pc = "trigger"
    /\ mboxIrrigation' = Put(mboxIrrigation, "TRIGGER", "SCHEDULE")
    /\ pc' = IF mboxIrrigation.TRIGGER = {} THEN "clear" ELSE "amount"
    /\ UNCHANGED <<hours, alarm, flags, mboxSchedule, data, ret, t, uiVars,
                   history>>

\* When both could be posted, the alarm has been handled.
ClearAlarm ==
    /\ pc = "clear"
    /\ flags' = flags \ {"ALARM"}
    /\ pc' = "get"
    /\ ret' = "amount"
    /\ UNCHANGED <<hours, alarm, mboxSchedule, mboxIrrigation, data, t, uiVars,
                   history>>

(* IScheduleNextIrrigation.                                                *)

TimeGet ==
    /\ pc = "get"
    /\ t' = hours
    /\ due' = data.interval
    /\ slipped' = FALSE
    /\ pc' = "set"
    /\ UNCHANGED <<hours, alarm, flags, mboxSchedule, mboxIrrigation, data, ret,
                   uiVars>>

TimeAlarmSet ==
    /\ pc = "set"
    /\ LET hour == NextHour(t, data.interval)
       IN  /\ data' = [data EXCEPT !.time = hour]
           /\ alarm' = [alarm EXCEPT !.hour = hour]
    /\ pc' = "enable"
    /\ UNCHANGED <<hours, flags, mboxSchedule, mboxIrrigation, ret, t, uiVars,
                   history>>

TimeAlarmEnable ==
    /\ pc = "enable"
    /\ alarm' = [alarm EXCEPT !.en = TRUE]
    /\ pc' = ret
    /\ ret' = "alarm" /\ t' = 0
    /\ UNCHANGED <<hours, flags, mboxSchedule, mboxIrrigation, data, uiVars,
                   history>>

Task ==
    \/ AnnounceLoaded \/ WaitSynced \/ PendAmount \/ PendFreq
    \/ PostAmount \/ PostTrigger \/ ClearAlarm
    \/ TimeGet \/ TimeAlarmSet \/ TimeAlarmEnable

-----------------------------------------------------------------------------
(* ITimeIncrement, at the seconds that begin an hour.                      *)

Rings == alarm.en /\ hours + 1 = alarm.hour

ITimeIncrement ==
    /\ ~(Setting /\ slipped)
    /\ hours' = IF hours + 1 >= HOURS_IN_DAY THEN 0 ELSE hours + 1
    /\ flags' = IF Rings THEN flags \cup {"ALARM"} ELSE flags
    /\ due' = IF due > 0 THEN due - 1 ELSE 0
    /\ slipped' = Setting
    /\ UNCHANGED <<alarm, mboxSchedule, mboxIrrigation, data, taskVars, uiVars>>

-----------------------------------------------------------------------------
(* UiController.                                                           *)

Clamp(v, max) == IF v > max THEN max ELSE IF v < 1 THEN 1 ELSE v

IUiInit ==
    /\ ui = "waiting"
    /\ "SCHED_LOADED" \in flags
    /\ values' = [amount |-> Clamp(data.amount, MaxAmount),
                  freq |-> Clamp(data.freq, HOURS_IN_DAY)]
    /\ flags' = flags \ {"SCHED_LOADED"}
    /\ ui' = "idle"
    /\ UNCHANGED <<hours, alarm, mboxSchedule, mboxIrrigation, data, taskVars,
                   stable, history>>

IButtonCallbackUiActivate ==
    /\ ui = "idle"
    /\ ui' = "editing"
    /\ stable' = FALSE
    /\ UNCHANGED <<hours, alarm, flags, mboxSchedule, mboxIrrigation, data,
                   taskVars, values, history>>

\* Several presses of the increment and decrement buttons.
IValueChange ==
    /\ ui = "editing"
    /\ \/ \E a \in Amounts \ {values.amount} : values' = [values EXCEPT !.amount = a]
       \/ \E f \in Freqs \ {values.freq} : values' = [values EXCEPT !.freq = f]
    /\ UNCHANGED <<hours, alarm, flags, mboxSchedule, mboxIrrigation, data,
                   taskVars, ui, stable, history>>

ITimerCallbackUiInactive ==
    /\ ui = "editing"
    /\ ui' = "idle"
    /\ stable' = TRUE
    /\ UNCHANGED <<hours, alarm, flags, mboxSchedule, mboxIrrigation, data,
                   taskVars, values, history>>

\* TmrValueStable is periodic: the values are posted again and again, each only
\* when its address has been read.
ITimerCallbackValueStable ==
    /\ stable
    /\ mboxSchedule' = Put(Put(mboxSchedule, "AMOUNT", values.amount),
                           "FREQ", values.freq)
    /\ UNCHANGED <<hours, alarm, flags, mboxIrrigation, data, taskVars, uiVars,
                   history>>

\* The button posts a manual trigger.
PostManual ==
    /\ mboxIrrigation.TRIGGER = {}
    /\ mboxIrrigation' = Put(mboxIrrigation, "TRIGGER", "MANUAL")
    /\ UNCHANGED <<hours, alarm, flags, mboxSchedule, data, taskVars, uiVars,
                   history>>

-----------------------------------------------------------------------------
(* The irrigation controller reads a trigger and, for SCHEDULE and unless   *)
(* the level sensor is open, the amount.                                    *)

ControllerPends ==
    /\ mboxIrrigation.TRIGGER # {}
    /\ \/ mboxIrrigation' = Read(mboxIrrigation, "TRIGGER")
       \/ /\ "SCHEDULE" \in mboxIrrigation.TRIGGER
          /\ mboxIrrigation' = Read(Read(mboxIrrigation, "TRIGGER"), "AMOUNT")
    /\ UNCHANGED <<hours, alarm, flags, mboxSchedule, data, taskVars, uiVars,
                   history>>

Environment ==
    \/ ITimeIncrement
    \/ IUiInit \/ IButtonCallbackUiActivate \/ IValueChange
    \/ ITimerCallbackUiInactive \/ ITimerCallbackValueStable
    \/ PostManual \/ ControllerPends

Next == Task \/ Environment

Spec == Init /\ [][Next]_vars

\* The kernel runs a task that is ready and the callback of a timer that has
\* expired; the clock goes on; the controller reads its mailbox.  The buttons
\* owe nothing.
Fairness ==
    /\ WF_vars(Task)
    /\ WF_vars(ITimeIncrement)
    /\ WF_vars(IUiInit)
    /\ WF_vars(ITimerCallbackUiInactive)
    /\ WF_vars(ITimerCallbackValueStable)
    /\ WF_vars(ControllerPends)

FairSpec == Spec /\ Fairness

-----------------------------------------------------------------------------
(* Properties.                                                             *)

Slot(S) == {{}} \cup {{v} : v \in S}
ScheduleMbox == [AMOUNT: Slot(Amounts), FREQ: Slot(Freqs)]
IrrigationMbox == [AMOUNT: Slot(0..MaxAmount), TRIGGER: Slot({"SCHEDULE", "MANUAL"})]

\* Every variable keeps its type; the alarm hour stays within the day.
TypeOK ==
    /\ hours \in 0..(HOURS_IN_DAY - 1)
    /\ alarm \in [en: BOOLEAN, hour: 0..HOURS_IN_DAY]
    /\ flags \subseteq {"ALARM", "SCHED_LOADED"}
    /\ mboxSchedule \in ScheduleMbox
    /\ mboxIrrigation \in IrrigationMbox
    /\ data \in [amount: 0..MaxAmount, freq: 0..HOURS_IN_DAY,
                 interval: 0..HOURS_IN_DAY, time: 0..HOURS_IN_DAY]
    /\ pc \in {"load", "sync", "amount", "freq", "alarm", "trigger", "clear",
               "get", "set", "enable"}
    /\ ret \in {"amount", "alarm"}
    /\ t \in 0..(HOURS_IN_DAY - 1)
    /\ ui \in {"waiting", "idle", "editing"}
    /\ stable \in BOOLEAN
    /\ values \in [amount: Amounts, freq: Freqs]
    /\ due \in 0..HOURS_IN_DAY
    /\ slipped \in BOOLEAN

\* The hours from now until the clock next reaches hour, which is in
\* 1 .. HOURS_IN_DAY.
HoursUntil(hour) == IF hour > hours THEN hour - hours
                    ELSE hour + HOURS_IN_DAY - hours

\* An alarm that was set for interval hours after TimeGet stays set for that
\* hour, across midnight, changes of the frequency and alarms not yet handled.
AlarmIsDue ==
    due > 0 /\ ~Setting => alarm.en /\ HoursUntil(alarm.hour) = due

\* When that hour begins the alarm is raised: the interrupt compares the alarm
\* hour before the clock wraps, so that an alarm at midnight must be at
\* HOURS_IN_DAY and not at 0.
RingsWhenDue ==
    [][hours' # hours /\ due = 1 /\ ~Setting => "ALARM" \in flags']_vars

\* The irrigation controller is given positive amounts only, though the alarm
\* is set by the frequency alone and a stored schedule may have none.
PostsAreAmounts == mboxIrrigation.AMOUNT \subseteq Amounts

\* The amount of a trigger that was not posted, or was read with the level
\* sensor open, is left in the mailbox.
Stuck ==
    /\ mboxIrrigation.AMOUNT # {}
    /\ "SCHEDULE" \notin mboxIrrigation.TRIGGER
    /\ pc # "trigger"

\* From some time on the user leaves the buttons alone, having edited once.
Settled == <>[]stable

\* Then an alarm is handled, unless an amount is left in the mailbox.
AlarmServed == Settled /\ <>[]~Stuck => ("ALARM" \in flags ~> "ALARM" \notin flags)

\* Then the schedule becomes the one the user has set, whatever was in the
\* mailbox, whichever of the two posts was lost, and however often.
EditsTakeEffect ==
    Settled => <>[](data.amount = values.amount /\ data.freq = values.freq)

-----------------------------------------------------------------------------
(* The inductive invariant behind the safety properties.                   *)

\* A frequency is never there without an amount, nor an alarm without a
\* frequency.
AmountFirst ==
    /\ data.freq # 0 \/ pc = "freq" => data.amount # 0
    /\ data.freq # 0 => data.interval = Interval(data.freq)
    /\ alarm.en \/ "ALARM" \in flags => data.freq # 0
    /\ pc \in {"trigger", "clear", "get", "set", "enable"} => data.freq # 0

\* What IScheduleNextIrrigation knows between its steps, and what an hour that
\* begins there changes.
SetsFromThen ==
    /\ pc = "set" /\ ~slipped => t = hours /\ due = data.interval
    /\ pc = "set" /\ slipped => /\ hours = IF t + 1 = HOURS_IN_DAY THEN 0 ELSE t + 1
                                /\ due = data.interval - 1
    /\ pc = "enable" /\ due > 0 => HoursUntil(alarm.hour) = due

HourIsSet == alarm.en \/ pc = "enable" => alarm.hour > 0

IInv ==
    /\ TypeOK
    /\ AmountFirst
    /\ SetsFromThen
    /\ HourIsSet
    /\ AlarmIsDue
    /\ PostsAreAmounts
=============================================================================
