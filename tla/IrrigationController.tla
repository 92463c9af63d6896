------------------------ MODULE IrrigationController ------------------------
(***************************************************************************)
(* The irrigation controller: the IrrigationController task of             *)
(* sys_tasks/IrrigationController.c, the callbacks it registers, the pump  *)
(* driver they share (module Pump), the irrigation mailbox, and the parts  *)
(* of UiController and ScheduleManager that post in that mailbox.          *)
(*                                                                         *)
(* The task moves in steps between two accesses to state that a callback   *)
(* also touches.  Callbacks run to completion, between any two of these    *)
(* steps: nothing in the code keeps them away.  Which of these moments do  *)
(* harm, and which do not, is what the history variables tell apart.       *)
(*                                                                         *)
(* The PriorRTOS kernel and the level sensor probe are not part of the     *)
(* repository.  They are modelled from the way the code uses them: posting *)
(* in an occupied mailbox address fails, an infinite pend blocks until the *)
(* address is posted, a probe reports OPEN while the contact is open and   *)
(* reports CLOSED only after it has reported OPEN.                         *)
(***************************************************************************)
EXTENDS Pump, Naturals

CONSTANTS
    Amounts,        \* the irrigation amounts of the schedule, in liters
    TmrReloads,     \* may a timer created with TIMER_PARAMETER_AR restart when
                    \* it expires?  The possible answers
    TmrCreateOk,    \* the outcomes of TimerCreate for the delay timer
    PumpInits,      \* was PumpInit called?  The possible answers: it is not
                    \* after a failure of TimeInit, which always fails
    MoistureReadings, \* what MoistureSensorRead may return: it gets a handle
                      \* that is NULL, nothing in the code says what it reads
    TriggerAddress  \* what the moisture check posts: it passes the address of
                    \* its variable trigger, of which a mailbox keeps 16 bits

ASSUME AmountsAssumption ==
    /\ Amounts \subseteq Nat \ {0}
    /\ MoistureReadings \subseteq Nat
    /\ TriggerAddress \in Nat
ASSUME FlagsAssumption ==
    /\ PumpInits \subseteq BOOLEAN
    /\ TmrReloads \subseteq BOOLEAN
    /\ TmrCreateOk \subseteq BOOLEAN

VARIABLES
    pump,          \* the pump driver, one of PumpStates
    pc,            \* where the task is
    trigger,       \* the trigger the task is handling (or handled last)
    mbox,          \* MboxIrrigation: the unread value of each address
    PumpAmountMl,
    delay,         \* does TmrIrrigationDelay exist?
    flag,          \* SYSTEM_FLAG_PUMP_RUNNING
    error,         \* the last error raised and not cleared
    level,         \* the contact of the level sensor
    probe,         \* the level sensor probe: active?, its last report
    alarm,         \* SYSTEM_FLAG_ALARM and how far its handler is
    button,        \* the select button
    run,           \* history: which call started the current run
    late,          \* history: did the veto that holds come between the guard of
                   \* a start and the start?
    torn,          \* history: has a callback stopped the pump between the guard
                   \* of a start and the output, or started it in the midst of
                   \* a stop, and has nothing stopped it from end to end since?
    robbed         \* history: has a delayed run taken the amount that was read
                   \* last before the task could delay the run it was for?

taskVars == <<pc, trigger>>
envVars == <<alarm, button>>
raceVars == <<late, torn, robbed>>
vars == <<pump, pc, trigger, mbox, PumpAmountMl, delay, flag, error, level,
          probe, alarm, button, run, late, torn, robbed>>

Triggers == {"SCHEDULE", "MANUAL_ON", "MANUAL_OFF"}
Levels == {"CLOSED", "OPEN"}
Errors == {"NONE", "WATER_LEVEL", "PUMP_ACTIVATION"}

LITER_TO_MILLILITER(l) == l * 1000

\* MoistureThreshold keeps its initial value: it is pended for at address 2 of
\* a mailbox that has addresses 0 and 1.
MoistureThreshold == 0

\* A start goes from its guard to the flag, a stop from the flag Running to
\* the event flag.
Starting == {"run", "timer", "gpio_on", "probe_on", "flag_on"}
Stopping == {"gpio_off", "probe_off", "flag_off"}
\* From the guard of a start to the pump output.
BeforeOutput == {"run", "timer", "gpio_on"}
\* The task has read the amount of its trigger and may yet delay its run.
Holding == {"is_running", "delay"}
Blocked == {"trigger", "sleep"}
Steps == Blocked \cup {"level", "dispatch"} \cup Holding \cup {"guard"}
         \cup Starting \cup Stopping

\* MailboxPost to an address of which the last value was not read fails, so
\* each address holds a set of at most one value.
CanPost(addr) == mbox[addr] = {}
Posted(addr, v) == [mbox EXCEPT ![addr] = {v}]
Read(addr) == [mbox EXCEPT ![addr] = {}]

LevelSensorProbeStart == probe' = [probe EXCEPT !.on = TRUE]
LevelSensorProbeStop == probe' = [probe EXCEPT !.on = FALSE]

-----------------------------------------------------------------------------
(* Faulty variants of actions below, each with one plausible mistake.  A    *)
(* property that a variant does not break would say nothing of the action.  *)

\* The amount is read for every trigger.
PendAmountAnyTrigger ==
    /\ pc = "dispatch"
    /\ \/ /\ mbox.AMOUNT = {}
          /\ UNCHANGED PumpAmountMl
       \/ \E a \in mbox.AMOUNT : PumpAmountMl' = LITER_TO_MILLILITER(a)
    /\ mbox' = Read("AMOUNT")
    /\ robbed' = FALSE
    /\ pc' = "is_running"
    /\ UNCHANGED <<pump, trigger, delay, flag, error, level, probe, envVars,
                   run, late, torn>>

\* The amount is cleared when the run is delayed, not when it is over.
CreateDelayClearsAmount ==
    /\ pc = "delay"
    /\ \/ delay /\ UNCHANGED delay
       \/ ~delay /\ delay' \in TmrCreateOk
    /\ PumpAmountMl' = 0
    /\ pc' = "sleep"
    /\ UNCHANGED <<pump, trigger, mbox, flag, error, level, probe, envVars, run,
                   raceVars>>

\* The probe is not started with the run.
RunProbeForgotten ==
    /\ pc = "probe_on"
    /\ pc' = "flag_on"
    /\ UNCHANGED <<pump, trigger, mbox, PumpAmountMl, delay, flag, error,
                   level, probe, envVars, run, raceVars>>

\* PumpStop has nothing to do when the pump is not running.
StopSetIfRunning ==
    /\ pc = "dispatch"
    /\ trigger = "MANUAL_OFF"
    /\ pump' = [pump EXCEPT !.Running = FALSE]
    /\ run' = "none"
    /\ torn' = FALSE
    /\ pc' = IF pump.Running THEN "gpio_off" ELSE "probe_off"
    /\ UNCHANGED <<trigger, mbox, PumpAmountMl, delay, flag, error, level,
                   probe, envVars, late, robbed>>

-----------------------------------------------------------------------------
(* IrrigationControllerInit, after PumpInit or without it.                 *)

Init ==
    /\ \/ TRUE \in PumpInits /\ pump = PumpEnable(PumpInit, TRUE)
       \/ FALSE \in PumpInits /\ pump = PumpEnable(PumpNotInit, TRUE)
    /\ pc = "trigger"
    /\ trigger = "SCHEDULE"
    /\ mbox = [AMOUNT |-> {}, TRIGGER |-> {}]
    /\ PumpAmountMl = 0
    /\ delay = FALSE
    /\ flag = FALSE
    /\ error = "NONE"
    /\ level \in Levels
    /\ probe = [on |-> FALSE, last |-> "CLOSED"]
    /\ alarm = "clear"
    /\ button = "up"
    /\ run = "none"
    /\ late = FALSE
    /\ torn = FALSE
    /\ robbed = FALSE

-----------------------------------------------------------------------------
(* IrrigationControllerTask.                                               *)

\* TaskSleep ends, the task function starts again, its trigger is 0.  Its first
\* pend, for the threshold, fails at once, so that it goes on to pend for a
\* trigger.
Wake ==
    /\ pc = "sleep"
    /\ pc' = "trigger"
    /\ trigger' = "SCHEDULE"
    /\ UNCHANGED <<pump, mbox, PumpAmountMl, delay, flag, error, level, probe,
                   envVars, run, raceVars>>

PendTrigger ==
    /\ pc = "trigger"
    /\ \E t \in mbox.TRIGGER : trigger' = t
    /\ mbox' = Read("TRIGGER")
    /\ pc' = "level"
    /\ UNCHANGED <<pump, PumpAmountMl, delay, flag, error, level, probe,
                   envVars, run, raceVars>>

\* Whatever the trigger is, an open level sensor ends its handling.
CheckLevel ==
    /\ pc = "level"
    /\ \/ /\ level = "OPEN"
          /\ error' = "WATER_LEVEL"
          /\ pc' = "sleep"
       \/ /\ level = "CLOSED"
          /\ pc' = "dispatch"
          /\ UNCHANGED error
    /\ UNCHANGED <<pump, trigger, mbox, PumpAmountMl, delay, flag, level,
                   probe, envVars, run, raceVars>>

\* IRRIGATION_TRIGGER_SCHEDULE: read the amount if there is one.
PendAmount ==
    /\ pc = "dispatch"
    /\ trigger = "SCHEDULE"
    /\ \/ /\ mbox.AMOUNT = {}
          /\ UNCHANGED PumpAmountMl
       \/ \E a \in mbox.AMOUNT : PumpAmountMl' = LITER_TO_MILLILITER(a)
    /\ mbox' = Read("AMOUNT")
    /\ robbed' = FALSE
    /\ pc' = "is_running"
    /\ UNCHANGED <<pump, trigger, delay, flag, error, level, probe, envVars,
                   run, late, torn>>

\* PumpIsRunning decides between a delay and a run.
IsRunning ==
    /\ pc = "is_running"
    /\ pc' = IF pump.Running THEN "delay" ELSE "guard"
    /\ UNCHANGED <<pump, trigger, mbox, PumpAmountMl, delay, flag, error, level,
                   probe, envVars, run, raceVars>>

\* Delay the scheduled run, unless one is delayed already.  When the timer is
\* not created the trigger is forgotten.
CreateDelay ==
    /\ pc = "delay"
    /\ \/ delay /\ UNCHANGED delay
       \/ ~delay /\ delay' \in TmrCreateOk
    /\ pc' = "sleep"
    /\ UNCHANGED <<pump, trigger, mbox, PumpAmountMl, flag, error, level,
                   probe, envVars, run, raceVars>>

\* The guard of PumpRunForAmount (scheduled) and of PumpRun (manual).
RunGuard ==
    /\ \/ pc = "guard"
       \/ pc = "dispatch" /\ trigger = "MANUAL_ON"
    /\ \/ /\ PumpCanRun(pump)
          /\ pc' = "run"
          /\ UNCHANGED error
       \/ /\ ~PumpCanRun(pump)
          /\ pc' = "sleep"
          /\ error' = IF trigger = "SCHEDULE" THEN "PUMP_ACTIVATION" ELSE error
    /\ UNCHANGED <<pump, trigger, mbox, PumpAmountMl, delay, flag, level,
                   probe, envVars, run, raceVars>>

RunSet ==
    /\ pc = "run"
    /\ pump' = PumpSetRunning(pump)
    /\ \/ trigger = "SCHEDULE" /\ run' = "amount" /\ pc' = "timer"
       \/ trigger = "MANUAL_ON" /\ run' = "manual" /\ pc' = "gpio_on"
    /\ UNCHANGED <<trigger, mbox, PumpAmountMl, delay, flag, error, level,
                   probe, envVars, raceVars>>

RunTimer ==
    /\ pc = "timer"
    /\ pump' = PumpStartTmr(pump)
    /\ pc' = "gpio_on"
    /\ UNCHANGED <<trigger, mbox, PumpAmountMl, delay, flag, error, level,
                   probe, envVars, run, raceVars>>

RunGpio ==
    /\ pc = "gpio_on"
    /\ pump' = PumpSetGpio(pump, TRUE)
    /\ pc' = "probe_on"
    /\ UNCHANGED <<trigger, mbox, PumpAmountMl, delay, flag, error, level,
                   probe, envVars, run, raceVars>>

RunProbe ==
    /\ pc = "probe_on"
    /\ LevelSensorProbeStart
    /\ pc' = "flag_on"
    /\ UNCHANGED <<pump, trigger, mbox, PumpAmountMl, delay, flag, error,
                   level, envVars, run, raceVars>>

RunFlag ==
    /\ pc = "flag_on"
    /\ flag' = TRUE
    /\ pc' = "sleep"
    /\ UNCHANGED <<pump, trigger, mbox, PumpAmountMl, delay, error, level,
                   probe, envVars, run, raceVars>>

\* IRRIGATION_TRIGGER_MANUAL_OFF: PumpStop, LevelSensorProbeStop, clear flag.
StopSet ==
    /\ pc = "dispatch"
    /\ trigger = "MANUAL_OFF"
    /\ pump' = [pump EXCEPT !.Running = FALSE]
    /\ run' = "none"
    /\ torn' = FALSE
    /\ pc' = "gpio_off"
    /\ UNCHANGED <<trigger, mbox, PumpAmountMl, delay, flag, error, level,
                   probe, envVars, late, robbed>>

StopGpio ==
    /\ pc = "gpio_off"
    /\ pump' = PumpSetGpio(pump, FALSE)
    /\ pc' = "probe_off"
    /\ UNCHANGED <<trigger, mbox, PumpAmountMl, delay, flag, error, level,
                   probe, envVars, run, raceVars>>

StopProbe ==
    /\ pc = "probe_off"
    /\ LevelSensorProbeStop
    /\ pc' = "flag_off"
    /\ UNCHANGED <<pump, trigger, mbox, PumpAmountMl, delay, flag, error,
                   level, envVars, run, raceVars>>

StopFlag ==
    /\ pc = "flag_off"
    /\ flag' = FALSE
    /\ pc' = "sleep"
    /\ UNCHANGED <<pump, trigger, mbox, PumpAmountMl, delay, error, level,
                   probe, envVars, run, raceVars>>

Task ==
    \/ Wake \/ PendTrigger \/ CheckLevel
    \/ PendAmount \/ IsRunning \/ CreateDelay
    \/ RunGuard \/ RunSet \/ RunTimer \/ RunGpio \/ RunProbe \/ RunFlag
    \/ StopSet \/ StopGpio \/ StopProbe \/ StopFlag

-----------------------------------------------------------------------------
(* Callbacks.                                                              *)

\* PumpTmr expires.  Its callback stops the pump and reports to the composer,
\* which passes the report on to ICallbackPumpStopped.
ITimerCallbackPump ==
    /\ pump.Tmr = "counting"
    /\ \E r \in TmrReloads : pump' = PumpTmrExpire(pump, r)
    /\ run' = "none"
    /\ LevelSensorProbeStop
    /\ flag' = FALSE
    /\ torn' = (pc \in BeforeOutput)
    /\ UNCHANGED <<taskVars, mbox, PumpAmountMl, delay, error, level, envVars,
                   late, robbed>>

\* TmrIrrigationDelay expires.  While the pump is running the callback only
\* resets the timer, which changes nothing here.
ICallbackDelayedPumpRun ==
    /\ delay
    /\ ~pump.Running
    /\ \/ /\ PumpCanRun(pump)
          /\ pump' = PumpRunForAmount(pump)
          /\ run' = "amount"
          /\ LevelSensorProbeStart
          /\ flag' = TRUE
          /\ torn' = (torn \/ pc \in Stopping)
          /\ UNCHANGED error
       \/ /\ ~PumpCanRun(pump)
          /\ error' = "PUMP_ACTIVATION"
          /\ UNCHANGED <<pump, run, probe, flag, torn>>
    /\ PumpAmountMl' = 0
    /\ delay' = FALSE
    /\ robbed' = (pc \in Holding)
    /\ UNCHANGED <<taskVars, mbox, level, envVars, late>>

\* The probe reports an open contact: stop and disable the pump, restart the
\* probe.
LevelOpen ==
    /\ probe.on
    /\ level = "OPEN"
    /\ pump' = PumpEnable(PumpStop(pump), FALSE)
    /\ run' = "none"
    /\ error' = "WATER_LEVEL"
    /\ probe' = [on |-> TRUE, last |-> "OPEN"]
    /\ late' = (pc = "run")
    /\ torn' = (pc \in BeforeOutput)
    /\ UNCHANGED <<taskVars, mbox, PumpAmountMl, delay, flag, level, envVars,
                   robbed>>

\* The probe reports that the contact has closed again.
LevelClosed ==
    /\ probe = [on |-> TRUE, last |-> "OPEN"]
    /\ level = "CLOSED"
    /\ probe' = [on |-> FALSE, last |-> "CLOSED"]
    /\ pump' = PumpEnable(pump, TRUE)
    /\ late' = FALSE
    /\ UNCHANGED <<taskVars, mbox, PumpAmountMl, delay, flag, error, level,
                   envVars, run, torn, robbed>>

\* The moisture timer, which is always on, expires.  What is posted lands in
\* AMOUNT, and no trigger goes with it.
ICallbackMoistureSensorCheck(value) ==
    /\ value <= MoistureThreshold
    /\ mbox' = IF CanPost("AMOUNT") THEN Posted("AMOUNT", TriggerAddress) ELSE mbox
    /\ UNCHANGED <<pump, taskVars, PumpAmountMl, delay, flag, error, level,
                   probe, envVars, run, raceVars>>

Callback ==
    \/ ITimerCallbackPump \/ ICallbackDelayedPumpRun
    \/ LevelOpen \/ LevelClosed
    \/ \E value \in MoistureReadings : ICallbackMoistureSensorCheck(value)

-----------------------------------------------------------------------------
(* The tasks and callbacks that use the controller, and the tank.          *)

Quiet == UNCHANGED <<pump, taskVars, PumpAmountMl, delay, flag, probe, run, raceVars>>

\* UiController, select button held: it posts MANUAL_ON and does not look at
\* the result.  The hold timer of the button may restart, too.
IButtonCallbackPumpOn ==
    /\ button = "up" \/ TRUE \in TmrReloads
    /\ button' = "held"
    /\ mbox' = IF CanPost("TRIGGER") THEN Posted("TRIGGER", "MANUAL_ON") ELSE mbox
    /\ UNCHANGED <<error, level, alarm>>
    /\ Quiet

\* The button is released: it posts MANUAL_OFF, again whatever the result.
IButtonCallbackPumpOff ==
    /\ button = "held"
    /\ button' = "up"
    /\ mbox' = IF CanPost("TRIGGER") THEN Posted("TRIGGER", "MANUAL_OFF") ELSE mbox
    /\ UNCHANGED <<error, level, alarm>>
    /\ Quiet

\* The inactivity timer has replaced the release callback while the button was
\* held: the release posts nothing.
ReleaseUnnoticed ==
    /\ button = "held"
    /\ button' = "up"
    /\ UNCHANGED <<mbox, error, level, alarm>>
    /\ Quiet

ClearError ==
    /\ error # "NONE"
    /\ error' = "NONE"
    /\ UNCHANGED <<mbox, level, envVars>>
    /\ Quiet

\* The time driver reaches the alarm hour.
AlarmFires ==
    /\ alarm = "clear"
    /\ alarm' = "set"
    /\ UNCHANGED <<mbox, error, level, button>>
    /\ Quiet

\* ScheduleManager handles the alarm: it posts the amount and, when that has
\* worked, the trigger.  The alarm flag is cleared when both have; otherwise it
\* is kept for the next round of the task.
PostAmount(a) ==
    /\ alarm = "set"
    /\ CanPost("AMOUNT")
    /\ mbox' = Posted("AMOUNT", a)
    /\ alarm' = "amount_posted"
    /\ UNCHANGED <<error, level, button>>
    /\ Quiet

PostTrigger ==
    /\ alarm = "amount_posted"
    /\ \/ /\ CanPost("TRIGGER")
          /\ mbox' = Posted("TRIGGER", "SCHEDULE")
          /\ alarm' = "clear"
       \/ /\ ~CanPost("TRIGGER")
          /\ alarm' = "set"
          /\ UNCHANGED mbox
    /\ UNCHANGED <<error, level, button>>
    /\ Quiet

\* Water leaves the tank or the tank is filled.
LevelChanges ==
    /\ level' \in Levels \ {level}
    /\ UNCHANGED <<mbox, error, envVars>>
    /\ Quiet

Environment ==
    \/ IButtonCallbackPumpOn \/ IButtonCallbackPumpOff \/ ReleaseUnnoticed
    \/ ClearError \/ AlarmFires \/ PostTrigger \/ LevelChanges
    \/ \E a \in Amounts : PostAmount(a)

Next == Task \/ Callback \/ Environment

Spec == Init /\ [][Next]_vars

\* The kernel runs a task that is ready, and the level sensor probe reports an
\* open contact while it is on.  The timers, the button, the alarm and the tank
\* owe nothing.
Fairness == WF_vars(Task) /\ WF_vars(LevelOpen)

FairSpec == Spec /\ Fairness

-----------------------------------------------------------------------------
(* Properties.                                                             *)

Slot(S) == {{}} \cup {{v} : v \in S}

\* Every variable keeps its type.
TypeOK ==
    /\ pump \in PumpStates
    /\ pc \in Steps
    /\ trigger \in Triggers
    /\ mbox \in [AMOUNT: Slot(Amounts \cup {TriggerAddress}),
                 TRIGGER: Slot(Triggers)]
    /\ PumpAmountMl \in Nat
    /\ delay \in BOOLEAN
    /\ flag \in BOOLEAN
    /\ error \in Errors
    /\ level \in Levels
    /\ probe \in [on: BOOLEAN, last: Levels]
    /\ alarm \in {"clear", "set", "amount_posted"}
    /\ button \in {"up", "held"}
    /\ run \in {"none", "manual", "amount"}
    /\ late \in BOOLEAN
    /\ torn \in BOOLEAN
    /\ robbed \in BOOLEAN

\* The task is not in the middle of handling a trigger.
Calm == pc \in Blocked

\* The level sensor's veto can be defied in one way only: by a start whose guard
\* had passed when the report came.  No delayed run, no second report, no pump
\* timer and no order of probe starts and stops lets a disabled pump run.
\* (PumpEnable, the guards of the PumpRun functions, ICallbackLevelSensorCheck)
OnlyLateStartsDefyVeto == pump.Running /\ ~pump.Enabled => late

\* Between two triggers the output agrees with the Running flag, which every
\* decision to start or delay a run reads, and a running pump is watched by the
\* level sensor probe and announced to the UI.  Probe and flag are switched by
\* four paths (task, pump timer, delayed run, level sensor) that interrupt each
\* other anywhere; the moments that do lasting harm are those of torn, and one
\* undisturbed stop mends it.
RunningIsSupervised ==
    Calm /\ ~torn => /\ pump.Gpio = pump.Running
                     /\ pump.Running => probe.on /\ flag

\* A delayed run keeps an amount to pump: the amount is set by one trigger and
\* zeroed by the callback of an earlier one, and only a callback that comes when
\* the task has read the amount and not yet looked for a delay takes it away.
DelayedRunHasAmount == delay /\ ~robbed => PumpAmountMl # 0

\* Where a SCHEDULE trigger can be before the task reads its amount.
ManagerHasTrigger == alarm = "amount_posted"
MailboxHasTrigger == "SCHEDULE" \in mbox.TRIGGER
TaskHasTrigger == trigger = "SCHEDULE" /\ pc \in {"level", "dispatch"}

\* The alarm is waiting, the amount address is occupied, and no SCHEDULE
\* trigger is on its way to empty it.
Jammed ==
    /\ alarm = "set"
    /\ mbox.AMOUNT # {}
    /\ ~MailboxHasTrigger
    /\ ~TaskHasTrigger

\* Once the schedule is jammed nothing the controller, the UI or the tank does
\* clears it: AMOUNT is read only for a SCHEDULE trigger, which is posted only
\* after AMOUNT was.
JamIsForever == [][Jammed => Jammed']_vars

\* A dry pump does not keep running: when the contact opens during a run, the
\* output is switched off or the contact closes again, whatever interrupts what,
\* unless a start or a stop was torn.
DryRunEnds ==
    pump.Gpio /\ level = "OPEN" /\ ~torn
        ~> ~pump.Gpio \/ level = "CLOSED" \/ torn

\* A MANUAL_OFF that was posted switches the output off, whatever comes between
\* the steps that handle it; only an open contact makes the task pass it over.
StopIsObeyed ==
    "MANUAL_OFF" \in mbox.TRIGGER ~> ~pump.Gpio \/ level = "OPEN"

-----------------------------------------------------------------------------
(* The controller implements the pump interlock.                           *)

Interlock == INSTANCE PumpInterlock
                 WITH allowed <- pump.Enabled, granted <- pc = "run"

\* Every step of task, callbacks and environment is a grant, a start, an end, a
\* veto or a permission of the interlock, or invisible to it, also when a
\* callback comes between the guard of a start and the start.
ImplementsInterlock == Interlock!InterlockSpec

-----------------------------------------------------------------------------
(* The inductive invariant behind the safety properties.                   *)

\* What is handled where.
TaskInv ==
    /\ pc = "run" => trigger # "MANUAL_OFF"
    /\ pc \in Holding \cup {"guard", "timer"} => trigger = "SCHEDULE"

RunInv == run = "none" <=> ~pump.Running
VetoInv == pump.Enabled <=> probe.last = "CLOSED"
LateInv == pump.Running \/ pc = "run" => pump.Enabled \/ late

\* What holds while no start or stop was torn: the pump is consistent where the
\* task is, and each of the companions of Running lags behind it in the steps
\* before its own only.
WholeInv == ~torn =>
    /\ pump.Running \/ pc = "run" => pump.Enabled
    /\ pc \in {"timer", "gpio_on"} => pump.Running
    /\ pc \in Stopping => ~pump.Running
    /\ pc \notin {"timer", "gpio_on", "gpio_off"} => pump.Gpio = pump.Running
    /\ pump.Running /\ pc \notin {"timer", "gpio_on", "probe_on"} => probe.on
    /\ pump.Running /\ pc \notin {"timer", "gpio_on", "probe_on", "flag_on"}
         => flag

ControlInv == TaskInv /\ RunInv /\ VetoInv /\ LateInv /\ WholeInv

\* A SCHEDULE trigger is in one place only until the task reads its amount, and
\* the amount is in the mailbox meanwhile, where the moisture check cannot
\* replace it.
AmountInv ==
    /\ ~(ManagerHasTrigger /\ MailboxHasTrigger)
    /\ ~(ManagerHasTrigger /\ TaskHasTrigger)
    /\ ~(MailboxHasTrigger /\ TaskHasTrigger)
    /\ ManagerHasTrigger \/ MailboxHasTrigger \/ TaskHasTrigger
         => mbox.AMOUNT # {} /\ mbox.AMOUNT \subseteq Amounts
    /\ delay \/ pc \in Holding => PumpAmountMl > 0 \/ robbed

IInv == TypeOK /\ ControlInv /\ AmountInv
=============================================================================
