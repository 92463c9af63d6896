--------------------------- MODULE ScheduleProofs ---------------------------
(***************************************************************************)
(* Machine-checked proofs about the schedule, for a day of any length.     *)
(***************************************************************************)
EXTENDS Schedule, Integers, TLAPS

-----------------------------------------------------------------------------
(* Arithmetic of the hours.                                                *)

\* A frequency the user can set gives an interval of one hour to one day.
LEMMA IntervalInDay ==
    ASSUME NEW f \in Freqs
    PROVE  Interval(f) \in 1..HOURS_IN_DAY
<1>1. f \in Nat \ {0} /\ f <= HOURS_IN_DAY /\ HOURS_IN_DAY \in Nat
  BY HoursAssumption DEF Freqs
<1> DEFINE q == HOURS_IN_DAY \div f
           r == HOURS_IN_DAY % f
<1>2. q \in Int /\ r \in 0..(f - 1) /\ HOURS_IN_DAY = f * q + r
  BY <1>1
<1>3. q >= 1
  BY <1>1, <1>2
<1>4. q <= HOURS_IN_DAY
  BY <1>1, <1>2, <1>3
<1> QED BY <1>2, <1>3, <1>4 DEF Interval

\* The alarm hour is an hour the interrupt compares with, and the clock takes
\* the interval to get there.
LEMMA NextHourIsIntervalAway ==
    ASSUME hours \in 0..(HOURS_IN_DAY - 1), NEW i \in 1..HOURS_IN_DAY
    PROVE  /\ NextHour(hours, i) \in 1..HOURS_IN_DAY
           /\ HoursUntil(NextHour(hours, i)) = i
  BY HoursAssumption DEF NextHour, HoursUntil

\* An hour later an alarm that is more than an hour away is an hour nearer.
LEMMA HourComesNearer ==
    ASSUME hours \in 0..(HOURS_IN_DAY - 1), NEW hour \in 1..HOURS_IN_DAY,
           hours' = IF hours + 1 >= HOURS_IN_DAY THEN 0 ELSE hours + 1,
           HoursUntil(hour) > 1
    PROVE  (HoursUntil(hour))' = HoursUntil(hour) - 1
  BY HoursAssumption DEF HoursUntil

\* The alarm hour that is an hour away is the one the interrupt compares with.
LEMMA HourStrikes ==
    ASSUME hours \in 0..(HOURS_IN_DAY - 1), NEW hour \in 1..HOURS_IN_DAY,
           HoursUntil(hour) = 1
    PROVE  hours + 1 = hour
  BY HoursAssumption DEF HoursUntil

-----------------------------------------------------------------------------
(* Types.                                                                  *)

\* What is read from a mailbox, and that a mailbox stays one.
LEMMA ReadTypes ==
    ASSUME TypeOK
    PROVE  /\ \A a \in mboxSchedule.AMOUNT : a \in Amounts
           /\ \A f \in mboxSchedule.FREQ : f \in Freqs
  BY DEF TypeOK, ScheduleMbox, Slot

LEMMA ScheduleMboxTypes ==
    ASSUME NEW m \in ScheduleMbox
    PROVE  /\ Read(m, "AMOUNT") \in ScheduleMbox
           /\ Read(m, "FREQ") \in ScheduleMbox
           /\ \A a \in Amounts : Put(m, "AMOUNT", a) \in ScheduleMbox
           /\ \A f \in Freqs : Put(m, "FREQ", f) \in ScheduleMbox
  BY DEF ScheduleMbox, Slot, Put, Read

LEMMA IrrigationMboxTypes ==
    ASSUME NEW m \in IrrigationMbox
    PROVE  /\ Read(m, "AMOUNT") \in IrrigationMbox
           /\ Read(m, "TRIGGER") \in IrrigationMbox
           /\ \A a \in 0..MaxAmount : Put(m, "AMOUNT", a) \in IrrigationMbox
           /\ Put(m, "TRIGGER", "SCHEDULE") \in IrrigationMbox
           /\ Put(m, "TRIGGER", "MANUAL") \in IrrigationMbox
  BY DEF IrrigationMbox, Slot, Put, Read

LEMMA InitTyped == Init => TypeOK
<1> SUFFICES ASSUME Init PROVE TypeOK
  OBVIOUS
<1>1. PICK s \in Stored :
        /\ data \in {IScheduleLoad(s),
                     [IScheduleLoad(s) EXCEPT
                        !.time = NextHour(hours, IScheduleLoad(s).interval)]}
        /\ s.freq # 0 => /\ alarm = [en |-> TRUE,
                                     hour |-> NextHour(hours, IScheduleLoad(s).interval)]
                         /\ due = IScheduleLoad(s).interval
                         /\ data = [IScheduleLoad(s) EXCEPT
                                !.time = NextHour(hours, IScheduleLoad(s).interval)]
        /\ s.freq = 0 => /\ alarm = [en |-> FALSE, hour |-> 0]
                         /\ due = 0
                         /\ data = IScheduleLoad(s)
  BY DEF Init
<1>2. s \in [amount: 0..MaxAmount, freq: 0..HOURS_IN_DAY]
  BY StoredAssumption
<1>3. hours \in 0..(HOURS_IN_DAY - 1)
  BY DEF Init
<1>M. /\ mboxSchedule \in ScheduleMbox
      /\ mboxIrrigation \in IrrigationMbox
      /\ values \in [amount: Amounts, freq: Freqs]
      /\ t \in 0..(HOURS_IN_DAY - 1)
  BY HoursAssumption, MaxAmountAssumption
  DEF Init, ScheduleMbox, IrrigationMbox, Slot, Amounts, Freqs
<1>N. /\ flags = {} /\ pc = "load" /\ ret = "alarm"
      /\ ui = "waiting" /\ stable = FALSE /\ slipped = FALSE
  BY DEF Init
<1>4. CASE s.freq = 0
  <2>1. IScheduleLoad(s) \in [amount: 0..MaxAmount, freq: 0..HOURS_IN_DAY,
                 interval: 0..HOURS_IN_DAY, time: 0..HOURS_IN_DAY]
    BY <1>2, <1>4, HoursAssumption DEF IScheduleLoad
  <2>2. /\ alarm \in [en: BOOLEAN, hour: 0..HOURS_IN_DAY]
        /\ due \in 0..HOURS_IN_DAY
    <3>1. alarm = [en |-> FALSE, hour |-> 0] /\ due = 0
      BY <1>1, <1>4, Zenon
    <3>2. 0 \in 0..HOURS_IN_DAY
      BY HoursAssumption
    <3> QED BY <3>1, <3>2, Zenon
  <2>3. data \in [amount: 0..MaxAmount, freq: 0..HOURS_IN_DAY,
                 interval: 0..HOURS_IN_DAY, time: 0..HOURS_IN_DAY]
    BY <1>1, <1>4, <2>1
  <2> QED BY <1>3, <1>M, <1>N, <2>2, <2>3 DEF TypeOK
<1>5. CASE s.freq # 0
  <2>1. s.freq \in Freqs
    BY <1>2, <1>5, HoursAssumption DEF Freqs
  <2>2. Interval(s.freq) \in 1..HOURS_IN_DAY
    BY <2>1, IntervalInDay
  <2>3. NextHour(hours, Interval(s.freq)) \in 1..HOURS_IN_DAY
    BY <1>3, <2>2, NextHourIsIntervalAway
  <2>4. /\ IScheduleLoad(s).interval = Interval(s.freq)
        /\ data \in [amount: 0..MaxAmount, freq: 0..HOURS_IN_DAY,
                 interval: 0..HOURS_IN_DAY, time: 0..HOURS_IN_DAY]
    BY <1>1, <1>2, <1>5, <2>2, <2>3, HoursAssumption DEF IScheduleLoad
  <2>5. /\ alarm \in [en: BOOLEAN, hour: 0..HOURS_IN_DAY]
        /\ due \in 0..HOURS_IN_DAY
    <3>1. /\ alarm = [en |-> TRUE, hour |-> NextHour(hours, Interval(s.freq))]
          /\ due = Interval(s.freq)
      BY <1>1, <1>5, <2>4, Zenon
    <3>2. /\ NextHour(hours, Interval(s.freq)) \in 0..HOURS_IN_DAY
          /\ Interval(s.freq) \in 0..HOURS_IN_DAY
      BY <2>2, <2>3, HoursAssumption
    <3> QED BY <3>1, <3>2, Zenon
  <2> QED BY <1>3, <1>M, <1>N, <2>4, <2>5 DEF TypeOK
<1> QED BY <1>4, <1>5

LEMMA NextTyped == TypeOK /\ [Next]_vars => TypeOK'
<1> SUFFICES ASSUME TypeOK, [Next]_vars PROVE TypeOK'
  OBVIOUS
<1> USE HoursAssumption, MaxAmountAssumption
<1> USE DEF taskVars, uiVars, history
<1>1. CASE AnnounceLoaded BY <1>1 DEF AnnounceLoaded, TypeOK
<1>2. CASE WaitSynced BY <1>2 DEF WaitSynced, TypeOK
<1>3. CASE PendAmount
  <2>1. PICK a \in mboxSchedule.AMOUNT :
          data' = IF a # 0 THEN [data EXCEPT !.amount = a] ELSE data
    BY <1>3 DEF PendAmount
  <2>2. a \in 0..MaxAmount
    BY ReadTypes DEF Amounts
  <2>3. mboxSchedule' \in ScheduleMbox
    BY <1>3, ScheduleMboxTypes DEF PendAmount, TypeOK
  <2> QED BY <1>3, <2>1, <2>2, <2>3 DEF PendAmount, TypeOK
<1>4. CASE PendFreq
  <2>1. PICK f \in mboxSchedule.FREQ :
          data' \in {data, [data EXCEPT !.freq = f, !.interval = Interval(f)]}
    BY <1>4 DEF PendFreq
  <2>2. f \in 0..HOURS_IN_DAY /\ Interval(f) \in 0..HOURS_IN_DAY
    BY ReadTypes, IntervalInDay DEF Freqs
  <2>3. mboxSchedule' \in ScheduleMbox
    BY <1>4, ScheduleMboxTypes DEF PendFreq, TypeOK
  <2>4. pc' \in {"get", "alarm"}
    BY <1>4 DEF PendFreq
  <2> QED BY <1>4, <2>1, <2>2, <2>3, <2>4 DEF PendFreq, TypeOK
<1>5. CASE PostAmount
  <2>1. data.amount \in 0..MaxAmount
    BY DEF TypeOK
  <2> QED BY <1>5, <2>1, IrrigationMboxTypes DEF PostAmount, TypeOK
<1>6. CASE PostTrigger BY <1>6, IrrigationMboxTypes DEF PostTrigger, TypeOK
<1>7. CASE ClearAlarm BY <1>7 DEF ClearAlarm, TypeOK
<1>8. CASE TimeGet BY <1>8 DEF TimeGet, TypeOK
<1>9. CASE TimeAlarmSet
  <2>1. PICK hour \in 0..HOURS_IN_DAY :
          /\ data' = [data EXCEPT !.time = hour]
          /\ alarm' = [alarm EXCEPT !.hour = hour]
    <3>1. NextHour(t, data.interval) \in 0..HOURS_IN_DAY
      BY DEF NextHour, TypeOK
    <3> QED BY <1>9, <3>1 DEF TimeAlarmSet
  <2>2. data' \in [amount: 0..MaxAmount, freq: 0..HOURS_IN_DAY,
                  interval: 0..HOURS_IN_DAY, time: 0..HOURS_IN_DAY]
    BY <2>1 DEF TypeOK
  <2>3. alarm' \in [en: BOOLEAN, hour: 0..HOURS_IN_DAY]
    BY <2>1, Zenon DEF TypeOK
  <2> QED BY <1>9, <2>2, <2>3 DEF TimeAlarmSet, TypeOK
<1>10. CASE TimeAlarmEnable
  <2>1. alarm' \in [en: BOOLEAN, hour: 0..HOURS_IN_DAY]
    BY <1>10, Zenon DEF TimeAlarmEnable, TypeOK
  <2> QED BY <1>10, <2>1 DEF TimeAlarmEnable, TypeOK
<1>11. CASE ITimeIncrement BY <1>11 DEF ITimeIncrement, Setting, TypeOK
<1>12. CASE IUiInit BY <1>12 DEF IUiInit, Clamp, Amounts, Freqs, TypeOK
<1>13. CASE IButtonCallbackUiActivate
  BY <1>13 DEF IButtonCallbackUiActivate, TypeOK
<1>14. CASE IValueChange BY <1>14 DEF IValueChange, TypeOK
<1>15. CASE ITimerCallbackUiInactive
  BY <1>15 DEF ITimerCallbackUiInactive, TypeOK
<1>16. CASE ITimerCallbackValueStable
  <2>1. values.amount \in Amounts /\ values.freq \in Freqs
    BY DEF TypeOK
  <2>2. Put(mboxSchedule, "AMOUNT", values.amount) \in ScheduleMbox
    BY <2>1, ScheduleMboxTypes DEF TypeOK
  <2> QED BY <1>16, <2>1, <2>2, ScheduleMboxTypes DEF ITimerCallbackValueStable, TypeOK
<1>17. CASE PostManual BY <1>17, IrrigationMboxTypes DEF PostManual, TypeOK
<1>18. CASE ControllerPends
  BY <1>18, IrrigationMboxTypes DEF ControllerPends, TypeOK
<1>19. CASE UNCHANGED vars BY <1>19 DEF vars, TypeOK
<1> QED
  BY <1>1, <1>2, <1>3, <1>4, <1>5, <1>6, <1>7, <1>8, <1>9, <1>10, <1>11, <1>12,
     <1>13, <1>14, <1>15, <1>16, <1>17, <1>18, <1>19
  DEF Next, Task, Environment

\* Every variable of the schedule keeps its type; the clock and the alarm hour
\* stay within the day, however long it is.
THEOREM TypeCorrect == Spec => []TypeOK
  BY InitTyped, NextTyped, PTL DEF Spec

-----------------------------------------------------------------------------
(* Amounts: there is one whenever an alarm may be raised.                  *)

AmountInv == AmountFirst /\ PostsAreAmounts

LEMMA InitAmount == Init => AmountInv
<1> SUFFICES ASSUME Init PROVE AmountInv
  OBVIOUS
<1>1. PICK s \in Stored :
        /\ data.amount = s.amount /\ data.freq = s.freq
        /\ s.freq # 0 => data.interval = Interval(s.freq)
        /\ s.freq = 0 => alarm.en = FALSE
  BY DEF Init, IScheduleLoad
<1>2. s.freq # 0 => s.amount # 0
  BY StoredAssumption
<1>3. mboxIrrigation.AMOUNT = {} /\ flags = {} /\ pc = "load"
  BY DEF Init
<1> QED BY <1>1, <1>2, <1>3 DEF AmountInv, AmountFirst, PostsAreAmounts

LEMMA NextAmount == TypeOK /\ AmountInv /\ [Next]_vars => AmountInv'
<1> SUFFICES ASSUME TypeOK, AmountInv, [Next]_vars PROVE AmountInv'
  OBVIOUS
<1> USE DEF taskVars, uiVars, history, AmountInv
<1>1. CASE AnnounceLoaded
  BY <1>1 DEF AnnounceLoaded, AmountFirst, PostsAreAmounts
<1>2. CASE WaitSynced BY <1>2 DEF WaitSynced, AmountFirst, PostsAreAmounts
<1>3. CASE PendAmount
  <2>1. PICK a \in mboxSchedule.AMOUNT :
          data' = IF a # 0 THEN [data EXCEPT !.amount = a] ELSE data
    BY <1>3 DEF PendAmount
  <2>2. a # 0
    BY ReadTypes, MaxAmountAssumption DEF Amounts
  <2>3. /\ data'.amount # 0 /\ data'.freq = data.freq
        /\ data'.interval = data.interval
    BY <2>1, <2>2 DEF TypeOK
  <2> QED BY <1>3, <2>3 DEF PendAmount, AmountFirst, PostsAreAmounts
<1>4. CASE PendFreq
  <2>1. data.amount # 0
    BY <1>4 DEF PendFreq, AmountFirst
  <2>2. PICK f \in mboxSchedule.FREQ :
          \/ /\ f # 0 /\ pc' = "get"
             /\ data' = [data EXCEPT !.freq = f, !.interval = Interval(f)]
          \/ pc' = "alarm" /\ data' = data
    BY <1>4 DEF PendFreq
  <2>3. CASE pc' = "alarm" /\ data' = data
    BY <1>4, <2>3 DEF PendFreq, AmountFirst, PostsAreAmounts
  <2>4. CASE /\ f # 0 /\ pc' = "get"
             /\ data' = [data EXCEPT !.freq = f, !.interval = Interval(f)]
    <3>1. /\ data'.freq = f /\ data'.interval = Interval(f)
          /\ data'.amount = data.amount
      BY <2>4 DEF TypeOK
    <3> QED
      BY <1>4, <2>1, <2>4, <3>1 DEF PendFreq, AmountFirst, PostsAreAmounts
  <2> QED BY <2>2, <2>3, <2>4
<1>5. CASE PostAmount
  <2>1. data.amount \in Amounts
    BY <1>5, MaxAmountAssumption DEF PostAmount, AmountFirst, TypeOK, Amounts
  <2>2. mboxIrrigation'.AMOUNT \subseteq Amounts
    BY <1>5, <2>1 DEF PostAmount, Put, PostsAreAmounts, TypeOK, IrrigationMbox
  <2>3. data.freq # 0
    BY <1>5 DEF PostAmount, AmountFirst
  <2> QED BY <1>5, <2>2, <2>3 DEF PostAmount, AmountFirst, PostsAreAmounts
<1>6. CASE PostTrigger
  <2>1. mboxIrrigation'.AMOUNT = mboxIrrigation.AMOUNT
    BY <1>6 DEF PostTrigger, Put, TypeOK, IrrigationMbox
  <2> QED BY <1>6, <2>1 DEF PostTrigger, AmountFirst, PostsAreAmounts
<1>7. CASE ClearAlarm BY <1>7 DEF ClearAlarm, AmountFirst, PostsAreAmounts
<1>8. CASE TimeGet BY <1>8 DEF TimeGet, AmountFirst, PostsAreAmounts
<1>9. CASE TimeAlarmSet
  <2>1. /\ data'.amount = data.amount /\ data'.freq = data.freq
        /\ data'.interval = data.interval
    BY <1>9 DEF TimeAlarmSet, TypeOK
  <2>2. data.freq # 0
    BY <1>9 DEF TimeAlarmSet, AmountFirst
  <2> QED BY <1>9, <2>1, <2>2 DEF TimeAlarmSet, AmountFirst, PostsAreAmounts
<1>10. CASE TimeAlarmEnable
  <2>1. data.freq # 0
    BY <1>10 DEF TimeAlarmEnable, AmountFirst
  <2> QED BY <1>10, <2>1 DEF TimeAlarmEnable, AmountFirst, PostsAreAmounts
<1>11. CASE ITimeIncrement
  <2>1. "ALARM" \in flags' => "ALARM" \in flags \/ alarm.en
    BY <1>11 DEF ITimeIncrement, Rings
  <2> QED BY <1>11, <2>1 DEF ITimeIncrement, AmountFirst, PostsAreAmounts
<1>12. CASE IUiInit BY <1>12 DEF IUiInit, AmountFirst, PostsAreAmounts
<1>13. CASE IButtonCallbackUiActivate
  BY <1>13 DEF IButtonCallbackUiActivate, AmountFirst, PostsAreAmounts
<1>14. CASE IValueChange BY <1>14 DEF IValueChange, AmountFirst, PostsAreAmounts
<1>15. CASE ITimerCallbackUiInactive
  BY <1>15 DEF ITimerCallbackUiInactive, AmountFirst, PostsAreAmounts
<1>16. CASE ITimerCallbackValueStable
  BY <1>16 DEF ITimerCallbackValueStable, AmountFirst, PostsAreAmounts
<1>17. CASE PostManual
  <2>1. mboxIrrigation'.AMOUNT = mboxIrrigation.AMOUNT
    BY <1>17 DEF PostManual, Put, TypeOK, IrrigationMbox
  <2> QED BY <1>17, <2>1 DEF PostManual, AmountFirst, PostsAreAmounts
<1>18. CASE ControllerPends
  <2>1. mboxIrrigation'.AMOUNT \subseteq mboxIrrigation.AMOUNT
    BY <1>18 DEF ControllerPends, Read, TypeOK, IrrigationMbox
  <2> QED BY <1>18, <2>1 DEF ControllerPends, AmountFirst, PostsAreAmounts
<1>19. CASE UNCHANGED vars BY <1>19 DEF vars, AmountFirst, PostsAreAmounts
<1> QED
  BY <1>1, <1>2, <1>3, <1>4, <1>5, <1>6, <1>7, <1>8, <1>9, <1>10, <1>11, <1>12,
     <1>13, <1>14, <1>15, <1>16, <1>17, <1>18, <1>19
  DEF Next, Task, Environment

\* The irrigation controller is only ever given positive amounts: the alarm
\* cannot be on before a frequency is set, nor a frequency before an amount.
THEOREM OnlyAmountsArePosted == Spec => []PostsAreAmounts
<1>1. AmountInv => PostsAreAmounts
  BY DEF AmountInv
<1> QED BY <1>1, InitTyped, NextTyped, InitAmount, NextAmount, PTL DEF Spec

-----------------------------------------------------------------------------
(* The alarm: it is set for the hour that was planned.                     *)

AlarmInv == SetsFromThen /\ HourIsSet /\ AlarmIsDue

\* A schedule with a frequency has an interval of one hour to one day.
LEMMA IntervalOfSchedule ==
    ASSUME TypeOK, AmountInv, data.freq # 0
    PROVE  data.interval \in 1..HOURS_IN_DAY
<1>1. data.freq \in Freqs
  BY HoursAssumption DEF TypeOK, Freqs
<1> QED BY <1>1, IntervalInDay DEF AmountInv, AmountFirst

LEMMA InitAlarm == Init => AlarmInv
<1> SUFFICES ASSUME Init PROVE AlarmInv
  OBVIOUS
<1>1. PICK s \in Stored :
        /\ s.freq # 0 => /\ alarm.en
                         /\ alarm.hour = NextHour(hours, Interval(s.freq))
                         /\ due = Interval(s.freq)
        /\ s.freq = 0 => alarm.en = FALSE /\ due = 0
  BY DEF Init, IScheduleLoad
<1>2. hours \in 0..(HOURS_IN_DAY - 1) /\ pc = "load"
  BY DEF Init
<1>3. CASE s.freq = 0
  BY <1>1, <1>2, <1>3 DEF AlarmInv, SetsFromThen, HourIsSet, AlarmIsDue
<1>4. CASE s.freq # 0
  <2>1. s.freq \in Freqs
    BY <1>4, StoredAssumption, HoursAssumption DEF Freqs
  <2>2. /\ alarm.hour \in 1..HOURS_IN_DAY
        /\ HoursUntil(alarm.hour) = due
    BY <1>1, <1>2, <1>4, <2>1, IntervalInDay, NextHourIsIntervalAway
  <2> QED
    BY <1>1, <1>2, <1>4, <2>2, HoursAssumption
    DEF AlarmInv, SetsFromThen, HourIsSet, AlarmIsDue
<1> QED BY <1>3, <1>4

\* What the steps that leave clock and alarm alone, and neither begin nor end
\* between TimeGet and TimeAlarmEnable, preserve.
LEMMA AlarmUntouched ==
    ASSUME AlarmInv, UNCHANGED <<hours, alarm, due>>,
           pc \notin {"set", "enable"}, pc' \notin {"set", "enable"}
    PROVE  AlarmInv'
  BY DEF AlarmInv, SetsFromThen, HourIsSet, AlarmIsDue, Setting, HoursUntil

\* The same for the steps that the task has no part in.
LEMMA TaskUntouched ==
    ASSUME AlarmInv, UNCHANGED <<hours, alarm, due, slipped, data, pc, t>>
    PROVE  AlarmInv'
  BY DEF AlarmInv, SetsFromThen, HourIsSet, AlarmIsDue, Setting, HoursUntil

LEMMA NextAlarm == TypeOK /\ AmountInv /\ AlarmInv /\ [Next]_vars => AlarmInv'
<1> SUFFICES ASSUME TypeOK, AmountInv, AlarmInv, [Next]_vars PROVE AlarmInv'
  OBVIOUS
<1> USE DEF taskVars, uiVars, history
<1>1. CASE \/ AnnounceLoaded \/ WaitSynced \/ PendAmount \/ PendFreq
           \/ PostAmount \/ PostTrigger \/ ClearAlarm
  <2>1. /\ UNCHANGED <<hours, alarm, due>>
        /\ pc \notin {"set", "enable"} /\ pc' \notin {"set", "enable"}
    BY <1>1 DEF AnnounceLoaded, WaitSynced, PendAmount, PendFreq, PostAmount,
                PostTrigger, ClearAlarm
  <2> QED BY <2>1, AlarmUntouched
<1>2. CASE TimeGet
  BY <1>2 DEF TimeGet, AlarmInv, SetsFromThen, HourIsSet, AlarmIsDue, Setting
<1>3. CASE TimeAlarmSet
  <2>1. data.interval \in 1..HOURS_IN_DAY
    BY <1>3, IntervalOfSchedule DEF TimeAlarmSet, AmountInv, AmountFirst
  <2>2. alarm'.hour = NextHour(t, data.interval)
    BY <1>3 DEF TimeAlarmSet, TypeOK
  <2>3. alarm'.hour \in 1..HOURS_IN_DAY
    BY <2>1, <2>2, HoursAssumption DEF NextHour, TypeOK
  <2>4. due > 0 => HoursUntil(alarm'.hour) = due
    <3>1. CASE ~slipped
      <4>1. t = hours /\ due = data.interval
        BY <1>3, <3>1 DEF TimeAlarmSet, AlarmInv, SetsFromThen
      <4> QED BY <2>1, <2>2, <4>1, NextHourIsIntervalAway DEF TypeOK
    <3>2. CASE slipped
      <4>1. /\ hours = IF t + 1 = HOURS_IN_DAY THEN 0 ELSE t + 1
            /\ due = data.interval - 1
        BY <1>3, <3>2 DEF TimeAlarmSet, AlarmInv, SetsFromThen
      <4> QED
        BY <2>1, <2>2, <4>1, HoursAssumption DEF NextHour, HoursUntil, TypeOK
    <3> QED BY <3>1, <3>2
  <2>5. /\ pc' = "enable" /\ UNCHANGED <<hours, due>>
    BY <1>3 DEF TimeAlarmSet
  <2> QED
    BY <2>3, <2>4, <2>5, HoursAssumption
    DEF AlarmInv, SetsFromThen, HourIsSet, AlarmIsDue, Setting, HoursUntil
<1>4. CASE TimeAlarmEnable
  <2>1. alarm'.hour = alarm.hour /\ alarm'.en = TRUE
    BY <1>4 DEF TimeAlarmEnable, TypeOK
  <2>2. /\ pc = "enable" /\ UNCHANGED <<hours, due>>
        /\ pc' \in {"amount", "alarm"}
    BY <1>4 DEF TimeAlarmEnable, TypeOK
  <2> QED
    BY <2>1, <2>2
    DEF AlarmInv, SetsFromThen, HourIsSet, AlarmIsDue, Setting, HoursUntil
<1>5. CASE ITimeIncrement
  <2>1. /\ hours' = IF hours + 1 >= HOURS_IN_DAY THEN 0 ELSE hours + 1
        /\ due' = IF due > 0 THEN due - 1 ELSE 0
        /\ slipped' = Setting
        /\ UNCHANGED <<alarm, data, pc, t>>
        /\ ~(Setting /\ slipped)
    BY <1>5 DEF ITimeIncrement
  <2>2. due' > 0 => due > 1 /\ due' = due - 1
    BY <2>1 DEF TypeOK
  <2>3. HourIsSet'
    BY <2>1 DEF AlarmInv, HourIsSet
  <2>4. ASSUME due' > 0, alarm.hour > 0, HoursUntil(alarm.hour) = due
        PROVE  (HoursUntil(alarm.hour))' = due'
    BY <2>1, <2>2, <2>4, HoursAssumption DEF HoursUntil, TypeOK
  <2>5. AlarmIsDue'
    BY <2>1, <2>2, <2>4 DEF AlarmInv, AlarmIsDue, HourIsSet, Setting
  <2>6. SetsFromThen'
    <3>1. CASE pc = "set"
      <4>1. ~slipped /\ t = hours /\ due = data.interval
        BY <2>1, <3>1 DEF AlarmInv, SetsFromThen, Setting
      <4>2. data.interval \in 1..HOURS_IN_DAY
        BY <3>1, IntervalOfSchedule DEF AmountInv, AmountFirst
      <4>3. hours' = IF t' + 1 = HOURS_IN_DAY THEN 0 ELSE t' + 1
        BY <2>1, <4>1, HoursAssumption DEF TypeOK
      <4>4. due' = data'.interval - 1
        BY <2>1, <4>1, <4>2, HoursAssumption
      <4>5. pc' = "set" /\ slipped' = TRUE
        BY <2>1, <3>1 DEF Setting
      <4> QED BY <4>3, <4>4, <4>5 DEF SetsFromThen
    <3>2. CASE pc = "enable"
      BY <2>1, <2>2, <2>4, <3>2
      DEF AlarmInv, SetsFromThen, HourIsSet
    <3>3. CASE pc \notin {"set", "enable"}
      BY <2>1, <3>3 DEF SetsFromThen
    <3> QED BY <3>1, <3>2, <3>3
  <2> QED BY <2>3, <2>5, <2>6 DEF AlarmInv
<1>6. CASE \/ IUiInit \/ IButtonCallbackUiActivate \/ IValueChange
           \/ ITimerCallbackUiInactive \/ ITimerCallbackValueStable
           \/ PostManual \/ ControllerPends
  <2>1. UNCHANGED <<hours, alarm, due, slipped, data, pc, t>>
    BY <1>6 DEF IUiInit, IButtonCallbackUiActivate, IValueChange,
                ITimerCallbackUiInactive, ITimerCallbackValueStable,
                PostManual, ControllerPends
  <2> QED BY <2>1, TaskUntouched
<1>7. CASE UNCHANGED vars
  BY <1>7, TaskUntouched DEF vars
<1> QED
  BY <1>1, <1>2, <1>3, <1>4, <1>5, <1>6, <1>7 DEF Next, Task, Environment

\* The inductive invariant of the schedule.
THEOREM InvariantCorrect == Spec => []IInv
<1>1. TypeOK /\ AmountInv /\ AlarmInv => IInv
  BY DEF IInv, AmountInv, AlarmInv
<1> QED
  BY <1>1, InitTyped, NextTyped, InitAmount, NextAmount, InitAlarm, NextAlarm, PTL
  DEF Spec

\* The alarm stays set for the hour that was planned, whatever the interval,
\* the hour it was planned at and the length of the day.
THEOREM AlarmKeepsItsHour == Spec => []AlarmIsDue
<1>1. IInv => AlarmIsDue
  BY DEF IInv
<1> QED BY <1>1, InvariantCorrect, PTL

\* When the planned hour begins, the alarm is raised.
THEOREM AlarmRings == Spec => RingsWhenDue
<1>1. IInv /\ [Next]_vars
        => [hours' # hours /\ due = 1 /\ ~Setting => "ALARM" \in flags']_vars
  <2> SUFFICES ASSUME IInv, Next, hours' # hours, due = 1, ~Setting
               PROVE  "ALARM" \in flags'
    OBVIOUS
  <2>1. ITimeIncrement
    BY DEF Next, Task, Environment, taskVars, uiVars, history, AnnounceLoaded,
           WaitSynced, PendAmount, PendFreq, PostAmount, PostTrigger, ClearAlarm,
           TimeGet, TimeAlarmSet, TimeAlarmEnable, IUiInit,
           IButtonCallbackUiActivate, IValueChange, ITimerCallbackUiInactive,
           ITimerCallbackValueStable, PostManual, ControllerPends
  <2>2. alarm.en /\ HoursUntil(alarm.hour) = 1 /\ alarm.hour > 0
    BY DEF IInv, AlarmIsDue, HourIsSet
  <2>3. hours + 1 = alarm.hour
    BY <2>2, HourStrikes DEF IInv, TypeOK
  <2> QED BY <2>1, <2>2, <2>3 DEF ITimeIncrement, Rings
<1> QED BY <1>1, InvariantCorrect, PTL DEF Spec, RingsWhenDue
=============================================================================
