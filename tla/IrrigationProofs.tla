-------------------------- MODULE IrrigationProofs --------------------------
(***************************************************************************)
(* Machine-checked proofs about the irrigation controller.                 *)
(***************************************************************************)
EXTENDS IrrigationController, TLAPS

\* The driver's functions stay within the driver's states.
LEMMA PumpTypes ==
    \A p \in PumpStates :
        /\ PumpSetRunning(p) \in PumpStates
        /\ PumpStartTmr(p) \in PumpStates
        /\ PumpSetGpio(p, TRUE) \in PumpStates
        /\ PumpSetGpio(p, FALSE) \in PumpStates
        /\ PumpStop(p) \in PumpStates
        /\ PumpEnable(p, TRUE) \in PumpStates
        /\ PumpEnable(p, FALSE) \in PumpStates
        /\ \A b \in BOOLEAN : PumpTmrExpire(p, b) \in PumpStates
  BY DEF PumpStates, PumpSetRunning, PumpStartTmr, PumpSetGpio, PumpStop,
         PumpEnable, PumpTmrExpire

LEMMA RunForAmountType ==
    ASSUME NEW p \in PumpStates
    PROVE  PumpRunForAmount(p) \in PumpStates
<1>1. PumpSetRunning(p) \in PumpStates
  BY PumpTypes
<1>2. PumpStartTmr(PumpSetRunning(p)) \in PumpStates
  BY <1>1, PumpTypes
<1> QED BY <1>2, PumpTypes DEF PumpRunForAmount

\* What a mailbox operation leaves is a mailbox.
LEMMA MboxTypes ==
    ASSUME TypeOK
    PROVE  /\ Read("AMOUNT") \in [AMOUNT: Slot(Amounts \cup {TriggerAddress}),
                                  TRIGGER: Slot(Triggers)]
           /\ Read("TRIGGER") \in [AMOUNT: Slot(Amounts \cup {TriggerAddress}),
                                   TRIGGER: Slot(Triggers)]
           /\ \A a \in Amounts \cup {TriggerAddress} :
                Posted("AMOUNT", a) \in
                    [AMOUNT: Slot(Amounts \cup {TriggerAddress}),
                     TRIGGER: Slot(Triggers)]
           /\ \A t \in Triggers :
                Posted("TRIGGER", t) \in
                    [AMOUNT: Slot(Amounts \cup {TriggerAddress}),
                     TRIGGER: Slot(Triggers)]
  BY DEF TypeOK, Read, Posted, Slot

LEMMA ReadTypes ==
    ASSUME TypeOK
    PROVE  /\ \A t \in mbox.TRIGGER : t \in Triggers
           /\ \A a \in mbox.AMOUNT : a \in Nat
  BY AmountsAssumption DEF TypeOK, Slot

\* Every variable keeps its type, for every choice of the constants.
THEOREM TypeCorrect == Spec => []TypeOK
<1>1. Init => TypeOK
  <2> SUFFICES ASSUME Init PROVE TypeOK
    OBVIOUS
  <2>1. PumpInit \in PumpStates /\ PumpNotInit \in PumpStates
    BY DEF PumpInit, PumpNotInit, PumpStates
  <2>2. pump \in PumpStates
    BY <2>1, PumpTypes DEF Init
  <2>3. mbox \in [AMOUNT: Slot(Amounts \cup {TriggerAddress}),
                  TRIGGER: Slot(Triggers)]
    BY DEF Init, Slot
  <2> QED BY <2>2, <2>3 DEF Init, TypeOK, Steps, Blocked, Triggers, Levels, Errors
<1>2. TypeOK /\ [Next]_vars => TypeOK'
  <2> SUFFICES ASSUME TypeOK, [Next]_vars
               PROVE  TypeOK'
    OBVIOUS
  <2> USE DEF TypeOK, Steps, Blocked, Holding, Starting, Stopping
  <2>1. CASE Task
    <3> USE DEF envVars, raceVars
    <3>1. CASE Wake BY <3>1 DEF Wake, Triggers
    <3>2. CASE PendTrigger BY <3>2, MboxTypes, ReadTypes DEF PendTrigger
    <3>3. CASE CheckLevel BY <3>3 DEF CheckLevel, Errors
    <3>4. CASE PendAmount
      <4>1. PumpAmountMl' \in Nat
        BY <3>4, ReadTypes DEF PendAmount, LITER_TO_MILLILITER
      <4> QED BY <3>4, <4>1, MboxTypes DEF PendAmount
    <3>5. CASE IsRunning BY <3>5 DEF IsRunning
    <3>6. CASE CreateDelay BY <3>6, FlagsAssumption DEF CreateDelay
    <3>7. CASE RunGuard BY <3>7 DEF RunGuard, Errors
    <3>8. CASE RunSet BY <3>8, PumpTypes DEF RunSet
    <3>9. CASE RunTimer BY <3>9, PumpTypes DEF RunTimer
    <3>10. CASE RunGpio BY <3>10, PumpTypes DEF RunGpio
    <3>11. CASE RunProbe BY <3>11 DEF RunProbe, LevelSensorProbeStart
    <3>12. CASE RunFlag BY <3>12 DEF RunFlag
    <3>13. CASE StopSet BY <3>13 DEF StopSet, PumpStates
    <3>14. CASE StopGpio BY <3>14, PumpTypes DEF StopGpio
    <3>15. CASE StopProbe BY <3>15 DEF StopProbe, LevelSensorProbeStop
    <3>16. CASE StopFlag BY <3>16 DEF StopFlag
    <3> QED
      BY <2>1, <3>1, <3>2, <3>3, <3>4, <3>5, <3>6, <3>7, <3>8, <3>9, <3>10,
         <3>11, <3>12, <3>13, <3>14, <3>15, <3>16 DEF Task
  <2>2. CASE Callback
    <3> USE DEF taskVars, envVars, raceVars
    <3>1. CASE ITimerCallbackPump
      <4>1. pump' \in PumpStates
        BY <3>1, PumpTypes, FlagsAssumption DEF ITimerCallbackPump
      <4>2. (pc \in BeforeOutput) \in BOOLEAN /\ torn' = (pc \in BeforeOutput)
        BY <3>1 DEF ITimerCallbackPump
      <4> QED
        BY <3>1, <4>1, <4>2 DEF ITimerCallbackPump, LevelSensorProbeStop
    <3>2. CASE ICallbackDelayedPumpRun
      <4>1. pump' \in PumpStates
        BY <3>2, RunForAmountType DEF ICallbackDelayedPumpRun
      <4>2. (torn \/ pc \in Stopping) \in BOOLEAN /\ (pc \in Holding) \in BOOLEAN
        OBVIOUS
      <4>3. torn' = (torn \/ pc \in Stopping) \/ torn' = torn
        BY <3>2, Zenon DEF ICallbackDelayedPumpRun
      <4>4. robbed' = (pc \in Holding)
        BY <3>2, Zenon DEF ICallbackDelayedPumpRun
      <4>5. torn' \in BOOLEAN /\ robbed' \in BOOLEAN
        BY <4>2, <4>3, <4>4, Zenon
      <4> QED
        BY <3>2, <4>1, <4>5
        DEF ICallbackDelayedPumpRun, LevelSensorProbeStart, Errors
    <3>3. CASE LevelOpen
      <4>1. pump' \in PumpStates
        BY <3>3, PumpTypes DEF LevelOpen
      <4>2. /\ (pc \in BeforeOutput) \in BOOLEAN /\ (pc = "run") \in BOOLEAN
            /\ torn' = (pc \in BeforeOutput) /\ late' = (pc = "run")
        BY <3>3 DEF LevelOpen
      <4> QED BY <3>3, <4>1, <4>2 DEF LevelOpen, Levels, Errors
    <3>4. CASE LevelClosed
      <4>1. pump' \in PumpStates
        BY <3>4, PumpTypes DEF LevelClosed
      <4>2. probe' \in [on: BOOLEAN, last: Levels]
        BY <3>4 DEF LevelClosed, Levels
      <4>3. late' \in BOOLEAN
        BY <3>4 DEF LevelClosed
      <4>4. UNCHANGED <<taskVars, mbox, PumpAmountMl, delay, flag, error, level,
                        envVars, run, torn, robbed>>
        BY <3>4 DEF LevelClosed
      <4> QED BY <4>1, <4>2, <4>3, <4>4
    <3>5. CASE \E value \in MoistureReadings : ICallbackMoistureSensorCheck(value)
      <4>1. Posted("AMOUNT", TriggerAddress) \in
                [AMOUNT: Slot(Amounts \cup {TriggerAddress}),
                 TRIGGER: Slot(Triggers)]
        BY MboxTypes
      <4>2. mbox' = Posted("AMOUNT", TriggerAddress) \/ mbox' = mbox
        BY <3>5 DEF ICallbackMoistureSensorCheck
      <4> QED
        BY <3>5, <4>1, <4>2, TypeOK DEF ICallbackMoistureSensorCheck
    <3> QED BY <2>2, <3>1, <3>2, <3>3, <3>4, <3>5 DEF Callback
  <2>3. CASE Environment
    <3> USE DEF Quiet, taskVars, envVars, raceVars
    <3>1. CASE IButtonCallbackPumpOn
      BY <3>1, MboxTypes DEF IButtonCallbackPumpOn, Triggers
    <3>2. CASE IButtonCallbackPumpOff
      BY <3>2, MboxTypes DEF IButtonCallbackPumpOff, Triggers
    <3>3. CASE ReleaseUnnoticed BY <3>3 DEF ReleaseUnnoticed
    <3>4. CASE ClearError BY <3>4 DEF ClearError, Errors
    <3>5. CASE AlarmFires BY <3>5 DEF AlarmFires
    <3>6. CASE PostTrigger BY <3>6, MboxTypes DEF PostTrigger, Triggers
    <3>7. CASE LevelChanges BY <3>7 DEF LevelChanges
    <3>8. CASE \E a \in Amounts : PostAmount(a) BY <3>8, MboxTypes DEF PostAmount
    <3> QED
      BY <2>3, <3>1, <3>2, <3>3, <3>4, <3>5, <3>6, <3>7, <3>8 DEF Environment
  <2>4. CASE UNCHANGED vars BY <2>4 DEF vars
  <2> QED BY <2>1, <2>2, <2>3, <2>4 DEF Next
<1> QED BY <1>1, <1>2, PTL DEF Spec

-----------------------------------------------------------------------------
(* Control: who may run the pump, and what interrupting the task can do.    *)

\* The control part of the invariant is inductive, with callbacks between any
\* two steps of the task.
LEMMA ControlInductive == TypeOK /\ ControlInv /\ [Next]_vars => ControlInv'
<1> SUFFICES ASSUME TypeOK, ControlInv, [Next]_vars
             PROVE  ControlInv'
  OBVIOUS
<1> USE DEF TypeOK, PumpStates, ControlInv, TaskInv, RunInv, VetoInv, LateInv,
        WholeInv, Holding, Stopping, raceVars
<1>1. CASE Task
  <2>1. CASE Wake BY <2>1 DEF Wake
  <2>2. CASE PendTrigger BY <2>2 DEF PendTrigger
  <2>3. CASE CheckLevel BY <2>3 DEF CheckLevel
  <2>4. CASE PendAmount BY <2>4 DEF PendAmount
  <2>5. CASE IsRunning BY <2>5 DEF IsRunning
  <2>6. CASE CreateDelay BY <2>6 DEF CreateDelay
  <2>7. CASE RunGuard BY <2>7 DEF RunGuard, PumpCanRun
  <2>8. CASE RunSet BY <2>8 DEF RunSet, PumpSetRunning
  <2>9. CASE RunTimer BY <2>9 DEF RunTimer, PumpStartTmr
  <2>10. CASE RunGpio BY <2>10 DEF RunGpio, PumpSetGpio
  <2>11. CASE RunProbe BY <2>11 DEF RunProbe, LevelSensorProbeStart
  <2>12. CASE RunFlag BY <2>12 DEF RunFlag
  <2>13. CASE StopSet BY <2>13 DEF StopSet
  <2>14. CASE StopGpio BY <2>14 DEF StopGpio, PumpSetGpio
  <2>15. CASE StopProbe BY <2>15 DEF StopProbe, LevelSensorProbeStop
  <2>16. CASE StopFlag BY <2>16 DEF StopFlag
  <2> QED
    BY <1>1, <2>1, <2>2, <2>3, <2>4, <2>5, <2>6, <2>7, <2>8, <2>9, <2>10,
       <2>11, <2>12, <2>13, <2>14, <2>15, <2>16 DEF Task
<1>2. CASE Callback
  <2> USE DEF taskVars, BeforeOutput
  <2>1. CASE ITimerCallbackPump
    BY <2>1 DEF ITimerCallbackPump, LevelSensorProbeStop, PumpTmrExpire, PumpStop
  <2>2. CASE ICallbackDelayedPumpRun
    <3>1. CASE PumpCanRun(pump)
      <4>1. (pump').Running /\ (pump').Gpio /\ (pump').Enabled
        BY <2>2, <3>1 DEF ICallbackDelayedPumpRun, PumpCanRun,
           PumpRunForAmount, PumpStartTmr, PumpSetRunning, PumpSetGpio
      <4>2. run' = "amount" /\ (probe').on /\ (probe').last = probe.last /\ flag'
        BY <2>2, <3>1 DEF ICallbackDelayedPumpRun, LevelSensorProbeStart
      <4>3. torn' <=> torn \/ pc \in Stopping
        BY <2>2, <3>1 DEF ICallbackDelayedPumpRun
      <4>4. pc' = pc /\ trigger' = trigger /\ late' = late /\ pump.Enabled
        BY <2>2, <3>1 DEF ICallbackDelayedPumpRun, PumpCanRun
      <4> QED BY <4>1, <4>2, <4>3, <4>4
    <3>2. CASE ~PumpCanRun(pump)
      BY <2>2, <3>2 DEF ICallbackDelayedPumpRun
    <3> QED BY <3>1, <3>2
  <2>3. CASE LevelOpen BY <2>3 DEF LevelOpen, PumpEnable, PumpStop
  <2>4. CASE LevelClosed BY <2>4 DEF LevelClosed, PumpEnable
  <2>5. CASE \E value \in MoistureReadings : ICallbackMoistureSensorCheck(value)
    BY <2>5 DEF ICallbackMoistureSensorCheck
  <2> QED BY <1>2, <2>1, <2>2, <2>3, <2>4, <2>5 DEF Callback
<1>3. CASE Environment
  BY <1>3 DEF Environment, Quiet, taskVars, IButtonCallbackPumpOn,
     IButtonCallbackPumpOff, ReleaseUnnoticed, ClearError, AlarmFires,
     PostTrigger, LevelChanges, PostAmount
<1>4. CASE UNCHANGED vars BY <1>4 DEF vars
<1> QED BY <1>1, <1>2, <1>3, <1>4 DEF Next

\* The task, the pump timer, the delay timer and the level sensor keep the
\* control part of the invariant, in every interleaving.
THEOREM ControlCorrect == Spec => []ControlInv
<1>1. Init => ControlInv
  <2> SUFFICES ASSUME Init PROVE ControlInv
    OBVIOUS
  <2>1. ~pump.Running /\ pump.Enabled /\ ~pump.Gpio
    BY DEF Init, PumpInit, PumpNotInit, PumpEnable
  <2>2. TaskInv
    BY DEF Init, TaskInv, Holding
  <2>3. RunInv /\ VetoInv /\ LateInv
    BY <2>1 DEF Init, RunInv, VetoInv, LateInv
  <2>4. WholeInv
    BY <2>1 DEF Init, WholeInv, Stopping, PumpInit, PumpNotInit, PumpEnable
  <2> QED BY <2>2, <2>3, <2>4 DEF ControlInv
<1> QED BY <1>1, ControlInductive, TypeCorrect, PTL DEF Spec

\* A disabled pump runs only because its veto came between the guard of a start
\* and the start.
THEOREM VetoHolds == Spec => []OnlyLateStartsDefyVeto
<1>1. ControlInv => OnlyLateStartsDefyVeto
  BY DEF ControlInv, LateInv, OnlyLateStartsDefyVeto
<1> QED BY <1>1, ControlCorrect, PTL

\* Between two triggers the output agrees with the Running flag, and a running
\* pump is watched by the probe and announced to the UI, unless a start or a
\* stop was torn and no stop has mended it.
THEOREM RunIsSupervised == Spec => []RunningIsSupervised
<1>1. ControlInv => RunningIsSupervised
  BY DEF ControlInv, WholeInv, RunningIsSupervised, Calm, Blocked
<1> QED BY <1>1, ControlCorrect, PTL

\* The task, its callbacks and the driver implement the pump interlock, with
\* callbacks between any two steps of the task.
THEOREM InterlockImplemented == Spec => ImplementsInterlock
<1> USE DEF Interlock!interlockVars
<1>1. Init => Interlock!InterlockInit
  BY DEF Init, Interlock!InterlockInit, PumpInit, PumpNotInit, PumpEnable
<1>2. TypeOK /\ ControlInv /\ [Next]_vars
        => [Interlock!InterlockNext]_(Interlock!interlockVars)
  <2> SUFFICES ASSUME TypeOK, ControlInv, [Next]_vars
               PROVE  [Interlock!InterlockNext]_(Interlock!interlockVars)
    OBVIOUS
  <2> USE DEF Interlock!InterlockNext, Interlock!Idle, Interlock!Kinds,
          Interlock!Grant, Interlock!Begin, Interlock!Start, Interlock!Finish,
          Interlock!Veto, Interlock!Permit, TypeOK, PumpStates, ControlInv,
          RunInv, TaskInv
  <2>1. CASE Task
    <3>1. CASE RunGuard BY <3>1 DEF RunGuard, PumpCanRun
    <3>2. CASE RunSet BY <3>2 DEF RunSet, PumpSetRunning
    <3>3. CASE StopSet BY <3>3 DEF StopSet
    <3>4. CASE RunTimer \/ RunGpio \/ StopGpio
      BY <3>4 DEF RunTimer, RunGpio, StopGpio, PumpStartTmr, PumpSetGpio
    <3>5. CASE \/ Wake \/ PendTrigger \/ CheckLevel \/ PendAmount \/ IsRunning
               \/ CreateDelay \/ RunProbe \/ RunFlag \/ StopProbe \/ StopFlag
      BY <3>5 DEF Wake, PendTrigger, CheckLevel, PendAmount, IsRunning,
         CreateDelay, RunProbe, RunFlag, StopProbe, StopFlag
    <3> QED BY <2>1, <3>1, <3>2, <3>3, <3>4, <3>5 DEF Task
  <2>2. CASE Callback
    <3> USE DEF taskVars
    <3>1. CASE ITimerCallbackPump
      BY <3>1 DEF ITimerCallbackPump, PumpTmrExpire, PumpStop
    <3>2. CASE ICallbackDelayedPumpRun
      BY <3>2 DEF ICallbackDelayedPumpRun, PumpCanRun, PumpRunForAmount,
         PumpStartTmr, PumpSetRunning, PumpSetGpio
    <3>3. CASE LevelOpen BY <3>3 DEF LevelOpen, PumpEnable, PumpStop
    <3>4. CASE LevelClosed BY <3>4 DEF LevelClosed, PumpEnable
    <3>5. CASE \E value \in MoistureReadings :
                  ICallbackMoistureSensorCheck(value)
      BY <3>5 DEF ICallbackMoistureSensorCheck
    <3> QED BY <2>2, <3>1, <3>2, <3>3, <3>4, <3>5 DEF Callback
  <2>3. CASE Environment
    BY <2>3 DEF Environment, Quiet, taskVars, IButtonCallbackPumpOn,
       IButtonCallbackPumpOff, ReleaseUnnoticed, ClearError, AlarmFires,
       PostTrigger, LevelChanges, PostAmount
  <2>4. CASE UNCHANGED vars BY <2>4 DEF vars
  <2> QED BY <2>1, <2>2, <2>3, <2>4 DEF Next
<1> QED
  BY <1>1, <1>2, ControlCorrect, TypeCorrect, PTL
  DEF Spec, ImplementsInterlock, Interlock!InterlockSpec

-----------------------------------------------------------------------------
(* Amounts: what a delayed run pumps.                                      *)

\* A trigger has its amount with it until the task reads it, and what the task
\* has read is there when it delays the run.
LEMMA AmountInductive ==
    TypeOK /\ ControlInv /\ AmountInv /\ [Next]_vars => AmountInv'
<1> SUFFICES ASSUME TypeOK, ControlInv, AmountInv, [Next]_vars
             PROVE  AmountInv'
  OBVIOUS
<1> USE DEF TypeOK, AmountInv, ManagerHasTrigger, MailboxHasTrigger,
        TaskHasTrigger, Holding
<1>1. CASE Task
  <2> USE DEF envVars, raceVars
  <2>1. CASE Wake BY <2>1 DEF Wake
  <2>2. CASE PendTrigger
    <3>1. PICK t \in mbox.TRIGGER : trigger' = t
      BY <2>2 DEF PendTrigger
    <3>2. (mbox.TRIGGER)' = {} /\ (mbox.AMOUNT)' = mbox.AMOUNT
      BY <2>2 DEF PendTrigger, Read
    <3> QED BY <2>2, <3>1, <3>2 DEF PendTrigger
  <2>3. CASE CheckLevel BY <2>3 DEF CheckLevel
  <2>4. CASE PendAmount
    <3>1. (mbox.TRIGGER)' = mbox.TRIGGER /\ (mbox.AMOUNT)' = {}
      BY <2>4 DEF PendAmount, Read
    <3>2. mbox.AMOUNT # {} /\ mbox.AMOUNT \subseteq Amounts
          /\ ~ManagerHasTrigger /\ ~MailboxHasTrigger
      BY <2>4 DEF PendAmount
    <3>3. PumpAmountMl' > 0
      <4>1. PICK a \in mbox.AMOUNT : PumpAmountMl' = LITER_TO_MILLILITER(a)
        BY <2>4, <3>2 DEF PendAmount
      <4>2. a \in Amounts
        BY <3>2, <4>1
      <4>3. a \in Nat /\ a > 0
        BY <4>2, AmountsAssumption
      <4> QED BY <4>1, <4>3 DEF LITER_TO_MILLILITER
    <3>4. ~ManagerHasTrigger' /\ ~MailboxHasTrigger' /\ ~TaskHasTrigger'
      BY <2>4, <3>1, <3>2 DEF PendAmount
    <3> QED BY <3>3, <3>4
  <2>5. CASE IsRunning BY <2>5 DEF IsRunning
  <2>6. CASE CreateDelay BY <2>6 DEF CreateDelay
  <2>7. CASE RunGuard BY <2>7 DEF RunGuard
  <2>8. CASE RunSet BY <2>8 DEF RunSet
  <2>9. CASE RunTimer BY <2>9 DEF RunTimer
  <2>10. CASE RunGpio BY <2>10 DEF RunGpio
  <2>11. CASE RunProbe BY <2>11 DEF RunProbe
  <2>12. CASE RunFlag BY <2>12 DEF RunFlag
  <2>13. CASE StopSet BY <2>13 DEF StopSet
  <2>14. CASE StopGpio BY <2>14 DEF StopGpio
  <2>15. CASE StopProbe BY <2>15 DEF StopProbe
  <2>16. CASE StopFlag BY <2>16 DEF StopFlag
  <2> QED
    BY <1>1, <2>1, <2>2, <2>3, <2>4, <2>5, <2>6, <2>7, <2>8, <2>9, <2>10,
       <2>11, <2>12, <2>13, <2>14, <2>15, <2>16 DEF Task
<1>2. CASE Callback
  <2> USE DEF taskVars, envVars, raceVars
  <2>1. CASE ITimerCallbackPump BY <2>1 DEF ITimerCallbackPump
  <2>2. CASE ICallbackDelayedPumpRun BY <2>2 DEF ICallbackDelayedPumpRun
  <2>3. CASE LevelOpen BY <2>3 DEF LevelOpen
  <2>4. CASE LevelClosed BY <2>4 DEF LevelClosed
  <2>5. CASE \E value \in MoistureReadings : ICallbackMoistureSensorCheck(value)
    BY <2>5 DEF ICallbackMoistureSensorCheck, CanPost, Posted
  <2> QED BY <1>2, <2>1, <2>2, <2>3, <2>4, <2>5 DEF Callback
<1>3. CASE Environment
  <2> USE DEF Quiet, taskVars, envVars, raceVars, CanPost, Posted
  <2>1. CASE IButtonCallbackPumpOn BY <2>1 DEF IButtonCallbackPumpOn
  <2>2. CASE IButtonCallbackPumpOff BY <2>2 DEF IButtonCallbackPumpOff
  <2>3. CASE ReleaseUnnoticed BY <2>3 DEF ReleaseUnnoticed
  <2>4. CASE ClearError BY <2>4 DEF ClearError
  <2>5. CASE AlarmFires BY <2>5 DEF AlarmFires
  <2>6. CASE PostTrigger BY <2>6 DEF PostTrigger
  <2>7. CASE LevelChanges BY <2>7 DEF LevelChanges
  <2>8. CASE \E a \in Amounts : PostAmount(a) BY <2>8 DEF PostAmount
  <2> QED
    BY <1>3, <2>1, <2>2, <2>3, <2>4, <2>5, <2>6, <2>7, <2>8 DEF Environment
<1>4. CASE UNCHANGED vars BY <1>4 DEF vars
<1> QED BY <1>1, <1>2, <1>3, <1>4 DEF Next

\* The whole inductive invariant holds.
THEOREM InvariantCorrect == Spec => []IInv
<1>1. Init => AmountInv
  BY DEF Init, AmountInv, ManagerHasTrigger, MailboxHasTrigger,
     TaskHasTrigger, Holding
<1> QED
  BY <1>1, AmountInductive, ControlCorrect, TypeCorrect, PTL DEF Spec, IInv

\* A run that was delayed has an amount to pump when it is due, unless the run
\* before it took the amount in the moment before it was delayed.
THEOREM DelayedRunsPump == Spec => []DelayedRunHasAmount
<1>1. IInv => DelayedRunHasAmount
  BY DEF IInv, TypeOK, AmountInv, DelayedRunHasAmount
<1> QED BY <1>1, InvariantCorrect, PTL

\* A jammed schedule stays jammed, whatever callbacks do to the task.
THEOREM JamIsPermanent == Spec => JamIsForever
<1>1. TypeOK /\ [Next]_vars => [Jammed => Jammed']_vars
  <2> SUFFICES ASSUME TypeOK, [Next]_vars, Jammed
               PROVE  Jammed'
    OBVIOUS
  <2> USE DEF Jammed, MailboxHasTrigger, TaskHasTrigger, TypeOK
  <2>1. CASE Task
    <3>1. CASE PendTrigger
      <4>1. trigger' # "SCHEDULE"
        BY <3>1 DEF PendTrigger
      <4> QED BY <3>1, <4>1 DEF PendTrigger, Read, envVars
    <3>2. CASE CheckLevel BY <3>2 DEF CheckLevel, envVars
    <3>3. CASE PendAmount BY <3>3 DEF PendAmount
    <3>4. CASE \/ Wake \/ IsRunning \/ CreateDelay \/ RunGuard \/ RunSet \/ RunTimer
               \/ RunGpio \/ RunProbe \/ RunFlag \/ StopSet \/ StopGpio
               \/ StopProbe \/ StopFlag
      BY <3>4 DEF Wake, IsRunning, CreateDelay, RunGuard, RunSet, RunTimer, RunGpio,
         RunProbe, RunFlag, StopSet, StopGpio, StopProbe, StopFlag, envVars
    <3> QED BY <2>1, <3>1, <3>2, <3>3, <3>4 DEF Task
  <2>2. CASE Callback
    BY <2>2 DEF Callback, ITimerCallbackPump, ICallbackDelayedPumpRun,
       LevelOpen, LevelClosed, ICallbackMoistureSensorCheck, CanPost, taskVars,
       envVars
  <2>3. CASE Environment
    <3> USE DEF Quiet, taskVars, envVars, raceVars, CanPost, Posted
    <3>1. CASE IButtonCallbackPumpOn BY <3>1 DEF IButtonCallbackPumpOn
    <3>2. CASE IButtonCallbackPumpOff BY <3>2 DEF IButtonCallbackPumpOff
    <3>3. CASE PostTrigger BY <3>3 DEF PostTrigger
    <3>4. CASE \E a \in Amounts : PostAmount(a) BY <3>4 DEF PostAmount
    <3>5. CASE ReleaseUnnoticed \/ ClearError \/ AlarmFires \/ LevelChanges
      BY <3>5 DEF ReleaseUnnoticed, ClearError, AlarmFires, LevelChanges
    <3> QED BY <2>3, <3>1, <3>2, <3>3, <3>4, <3>5 DEF Environment
  <2>4. CASE UNCHANGED vars BY <2>4 DEF vars
  <2> QED BY <2>1, <2>2, <2>3, <2>4 DEF Next
<1> QED BY <1>1, TypeCorrect, PTL DEF Spec, JamIsForever
=============================================================================
