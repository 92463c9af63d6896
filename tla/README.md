# Verification of the irrigation base module

TLA+ models of the firmware under `src/prg/`, their model-checking runs, and
machine-checked proofs. Paths below are relative to `src/prg/`.

The repository has no tests, its `README.md` is a stub and `doc/` holds two
pictures. The models are translated from the C code; comments in the code and
in its headers are the only statements of intent there are, and where the code
contradicts one, a run shows it (section 6).

## 1. Inventory

The firmware runs on an STM32F1 under PriorRTOS (not part of the repository).
`ComposerTask` initializes everything once; from then on three tasks, a handful
of kernel timers and the interrupt handlers share mailboxes, one event group and
the drivers' static variables, without locks.

| Component | State it keeps | Operations | Talks to |
|---|---|---|---|
| Irrigation controller (`sys_tasks/IrrigationController.c`) | `PumpAmountMl`, `TmrIrrigationDelay`, irrigation mailbox | handle a trigger; callbacks for pump stopped, delayed run, level sensor, moisture check | pump, level sensor probe, event group, system manager |
| Pump driver (`drivers/Pump`) | `Running`, `Enabled`, `PumpTmr`, output pin | enable, run, run for an amount, stop, timer callback | composer, which forwards "pump stopped" |
| Level sensor (`drivers/LevelSensor`), moisture sensor (`drivers/MoistureSensor`) | contact, reading | read; the controller also calls a probe that the repository does not contain | irrigation controller |
| Schedule manager (`sys_tasks/ScheduleManager.c`) | schedule data, schedule mailbox | take a new amount and frequency, handle an alarm, compute the next alarm, store and load | time, storage, irrigation mailbox, UI |
| Time driver (`drivers/Time`) | clock, alarm hour and enable | count a second, raise the alarm flag | event group |
| Storage driver (`drivers/Storage`) on `low_ware/Src/flash.c` | file metadata, journal address; two flash sectors | mount, format, write, read, set the read offset | flash |
| UI controller (`sys_tasks/UiController.c`), buttons (`drivers/Button`) | UI state and saved state, selected value, callbacks per button, three timers | show system flags, edit and post values, manual pump, clear error | both mailboxes, event group |
| System manager, event group (`sys_tasks/System*.c`) | last error, flags | raise, clear | all tasks |
| RS485 multi-master bus (`drivers/MMB485`) | per node: bus state, transceiver mode, priority, two timers, receive buffer, bytes left | transmit, listen, receive interrupt, arbitration timer, timeout timer | other nodes; the user by a callback with a result |
| OneWire (`drivers/OneWire`) | the line; the slave's interrupt handler and its bit counters; the master's place in a slot, the code and the place to search next | reset, read and write bits; receive and answer bytes; search ROM codes | the two ends of one wire |
| Garden sensor (`drivers/GardenSensor`) | master: retries; slave: command, type, data | read a status, read a value, with a CRC and retries | OneWire |
| Sensor controller (`sys_tasks/SensorController.c`) | mailbox, log of sensors | started by nobody; its sending is a stub | RS485 bus |
| LED, displays, GUI libraries, GFsm | output only, or not built in | | |

What is hard to get right, and hard to test, is listed line by line under
`hazards` in `PROJECT.json`. In short:

* **Interleaving.** Timer and sensor callbacks run between the task's steps; the
  pump flags, the UI's states and the descriptor of a bus are read and written
  without a lock.
* **Ordering.** Starts and stops of pump, probe, timer and flag are spread over
  a task and four callbacks that can come in any order.
* **Mailboxes of one value.** A post to an address that was not read fails, and
  most callers do not look at the result.
* **Time.** On the bus and on the wire nothing but delays keeps the sides apart:
  announcements, timeouts and the sampling of bits race each other.
* **Counting.** Master and slave each count the bits of a byte, and the search
  for devices packs a position and an error into one byte.
* **Power loss.** The storage driver writes a record and its metadata in many
  flash operations and must find its way back after any of them.

What makes each component correct:

* Irrigation controller and pump: nothing but a start that was already past its
  guard defies the level sensor's veto; a run is supervised (probe and flag) from
  start to end; a dry run ends; a posted MANUAL_OFF switches the pump off.
* Storage: what was acknowledged survives; nothing half-written becomes visible;
  files do not run into each other.
* Schedule and time: after every handled alarm the next one is set, once per
  interval; every alarm is handled.
* UI: the shown state follows the system flags; errors are not hidden.
* Bus: a node yields to a higher priority it has heard; each request gets one
  result; the transmitter does not stay on.
* OneWire and garden sensor: every slot is taken for what it was; an answer stays
  in its frame; a call returns; a search finds every device of a family and no
  device that does not exist.

## 2. Plan

The path from a schedule to a running pump comes first, then what it stands on,
then the parts beside it.

| Order | Modules | State |
|---|---|---|
| 1 | `Pump`, `IrrigationController`, `PumpInterlock` (abstract), `IrrigationClaims`, `IrrigationProofs` | done |
| 2 | `Storage`, `RecordLog` (abstract), `MCStorage`, `StorageProofs` | done |
| 3 | `Schedule`, `MCSchedule`, `ScheduleProofs` | done |
| 4 | `Ui`, `UiProofs` | done |
| 5 | `Mmb485`, `BusRequest` (abstract), `MCMmb485`, `MmbClaims`, `Mmb485Proofs` | done |
| 6 | `OneWire` and `OneWireProofs` (one slot, in time), `GardenSensor` with `Crc8`, `MCGardenSensor`, `GardenClaims` and `GardenProofs` (a call, slot by slot) | done |
| 7 | `RomSearch`, `RomSearchProofs` | done |
| 8 | `SchedulePersistence`: `Schedule`'s stores on top of `RecordLog`, with restarts | when the stores are compiled in again |
| 9 | `SensorController` on top of `BusRequest` | when its sending is written |

Composition. `IrrigationController` composes the pump driver (as functions on
its state), the task, its callbacks, the mailbox and the posting sides of the UI
and of the schedule. `Schedule` composes the schedule task, the clock and the
posting of edited values, with the reading side of the irrigation controller.
The two overlap on the irrigation mailbox: each has the other's side of it as
actions of its environment. `Ui` takes the flags the others set as environment.
`Mmb485` composes any number of nodes with the bus between them. `OneWire` and
`GardenSensor` are two levels of one stack: the first shows, in time, when a slot
is taken for what it is; the second takes slots as steps and lets some of them be
missed, misread or taken for a reset.

Abstract specifications. `PumpInterlock` (a start is granted while the pump is
idle and allowed to run, each grant starts one run at most, a veto ends the run
that is under way but not a start that was granted before it) is implemented by
`IrrigationController`;
`RecordLog` (a log per file that grows by whole records and is lost only in one
named case) is implemented by `Storage`; `BusRequest` (a request is granted, fails
or is abandoned, only a granted one succeeds, each comes to its end) is
implemented by every node of `Mmb485`. All three are checked as a `PROPERTY`; the
first, the second and the safety part of the third are also proved.

## 3. Models and code

**`Pump`** (`drivers/Pump/pump.c`). A driver state `[Running, Enabled, Gpio,
Tmr]` and one function per driver call; `Tmr` is "none" (`PumpInit` was not
called), "idle" or "counting". `PumpStop` leaves the timer counting, as the code
does; disabling a running pump stops it. How long a run takes is left out, and
`PumpRunForDuration` has no caller.

**`IrrigationController`** (`sys_tasks/IrrigationController.c`). `pc` is the
place in the task between two accesses to state that a callback also touches:
pend, level check, dispatch, the amount, `PumpIsRunning`, the delay timer, then
the guard and the assignments of `PumpRun`, `PumpRunForAmount` or `PumpStop` one
by one, then probe and flag. The callbacks (`ITimerCallbackPump`,
`ICallbackDelayedPumpRun`, the two reports of the level sensor, the moisture
check) are single actions, possible between any two steps of the task. A start
may therefore go on after the veto that came behind its guard, and a stop may
cross a delayed run. What the firmware may meet is left open: the pump driver
initialized or not (`PumpInits`), a delay timer that cannot be created
(`TmrCreateOk`; the trigger is then forgotten), timers that reload or not
(`TmrReloads`), any value from the moisture sensor (`MoistureReadings`; the code
passes a handle that is NULL). The task's first pend, for the moisture threshold,
is for an address its mailbox does not have and fails at once; a wake begins with
the trigger 0, SCHEDULE.
History: `run`, which call started the run under way; `late`, the veto came
between the guard of a start and the start; `torn`, a callback stopped the pump
between the guard of a start and its output, or started it in the midst of a stop,
and no undisturbed stop has mended that; `robbed`, a delayed run has zeroed the
amount that the task had read for the next one.

**`Schedule`** (`sys_tasks/ScheduleManager.c`, `drivers/Time/time.c`, parts of
`sys_tasks/UiController.c`). The task with its two pends for a new amount and
frequency, the wait for the alarm, the two posts and `IScheduleNextIrrigation` in
its three steps; the clock in hours, because minutes and seconds only tell when
an hour begins; the comparison of the alarm hour *before* the hour wraps. The UI
reads the stored values, edits them and posts them, again and again, from
`TmrValueStable`. History: `due`, the hours until the alarm that was planned, and
`slipped`, whether an hour began between `TimeGet` and `TimeAlarmEnable`; at most
one does (the steps take microseconds).

**`Ui`** (`sys_tasks/UiController.c`, `drivers/Button/button.c`,
`sys_tasks/SystemManager.c`). The task's round: read the flags, choose a state,
and `ISysStateSet` for it, of which every step reads or writes one of the two
volatile states once: compare, branch, test for a state to be saved, read, test
the order, *read again*, store, show. `IUiInit` enables the buttons and then runs
the same `ISysStateSet`; only after it is the loaded flag cleared. C does not say
which side of `CurrentState >= SavedState` is read first; the model reads the left
one. Buttons interrupt, so the callbacks of the three buttons and of the two
timers may come between any two steps of the task; `ISysStateSet` in a callback is
one step. History: `unposted`, `manual`, `raced` (an error was last cleared inside
a round of the task) and `stray` (the state that was saved is not the one that had
been checked: a button showed SET_AMOUNT or SET_FREQ between the two readings).

**`Storage`** (`drivers/Storage/storage.c`, `low_ware/Src/flash.c`). `cells` is
the data sector in half-words, `slots` the metadata sector as a journal of
copies, each erased, torn (programmed without its CRC) or valid; these two
survive `PowerLoss`, which is possible between any two flash operations.
`Metadata` and `store` are the driver's RAM. Records are written half-word by
half-word with the padding of `flash_write`, a programmed half-word refuses
another value. A record shows only if all its half-words hold its value
(`RecordAt`), so that a record that is half there, or overwritten in part, is not
taken for a whole one. The history `acked` holds the records whose write returned
OK. The walk of `IMetadataFind` ends at the first slot that is not valid or at the
end of the sector; with all slots valid the code reads one more behind it, which
is taken for invalid.

**`Mmb485`** (`drivers/MMB485/mmb485.c`). A descriptor per node with its
transceiver mode; a tick is one priority level of the arbitration delay. The two
timer handlers are split where the receive interrupt of the same node may come:
between the identifier and the priority of an announcement, between reading the
arbitration buffer and looking at it again (`won`), between the bytes of the
data, before and after the user's callback (`result`, `return`). The callback may
call `Mmb485Transmit` or a listen function, as the code allows. The calls of a
task are split where a timer handler of its node may come: `Mmb485Transmit` sets
the number of bytes, then the state, then the priority, then the timers; the
listen functions set the state, then buffer and receiver, then the timeout. A call
made in a callback is one step, because timer handlers do not interrupt each
other. The code stops a timer in a few places only. One that goes on where its
handler does nothing, or while a task is about to restart it, is `Loose`: it may
be due at any moment, whatever its interval.
What is sent while another transmitter is on arrives as noise. The eight bytes of
the identifier stand as two, and the receive buffer has room for one announcement.
History: `outbid`, the node has heard a higher priority since its round began (in
whole announcements that follow one another, the only ones its handler
recognizes); `again`, the user asked again in the callback of what was sent;
`overtaken`, a timeout came between the state of a listening node and its
receiver; `pending` is what the user knows (does it wait for a result?).

**`OneWire`** (`master/ow_ll_master.c`, `slave/ow_ll_slave.c`,
`common/ow_common.h`). Where the master and the slave's interrupt handler are,
how long each still waits, and who pulls the line. The delays are those of the
header as the preprocessor computes them; `OW_DTZR_MAX` lacks parentheses. The
handler starts some ticks after an edge (`Latencies`). Its callback takes
`AnswerWorks` when it answers a 0, *before* the handler pulls the line, and `Works`
otherwise, after a presence pulse too; edges while the handler runs are missed.
The slave may be powered off and on at any time. `synced` is true from the end of
a presence pulse that was seen until a restart, and a reset whose short check
fails does not count.

**`GardenSensor`** (`master/garden_sensor_master.c`, `slave/garden_sensor_slave.c`,
`slave/ow_cmd_slave.c`, `common/crc8.c`). A call of `SensorReadData` with its
retries, bit by bit, against the slave's byte layer. The checksum is a constant,
of which only the range is assumed; the runs give it `crc8` of module `Crc8`, which
computes it as the code does. An attempt has at most `MaxFaults` slots that the
slave misses, misreads or takes for a reset; what the master reads in a missed slot
is the bit or, over a presence pulse, 0. History: `frame`, what the slave is to
answer, `wire`, what it has answered. Without a fault the slave ends its data when
the master has read its last byte (section 6); the bits of its CRC are asked for
by nobody.

**`RomSearch`** (`master/ow_cmd_master.c`). `ow_cmd_master_rom_search` bit by
bit, and the loops around it: a pass per device, the place where the next pass
turns, the recording of codes. Devices answer together and the line carries the
AND; they may be unplugged between any two slots. `id`, uninitialized in the code,
is read at no place where that matters: the first pass goes to 1 wherever devices
differ. The CRC in the last bits is one parity bit. History: `started`, the
devices when the search began.

`PROJECT.json` maps every definition to its lines. Each module with a model has a
section of *faulty variants*, operators with one plausible mistake each: every
property of every passing run is broken by one of them.

## 4. Runs

| Run | Bounds | Shows |
|---|---|---|
| `irrigation` | one amount, callbacks between any two steps of the task, the pump driver initialized or not, timers that may or may not reload, a delay timer that may not be created, moisture readings 0 and 1 | which veto can be defied and by what, the supervision of runs, the amount of a delayed run, the pump interlock, the jam; dry runs and runs the user stops end |
| `storage` | a file of 8 bytes for records of 4, one of 12 for records of 3, three journal slots, offsets modulo 32, power loss anywhere | acknowledged records survive, the journal is in order, files do not overlap, the record log |
| `schedule` | a day of 4 hours, amount 1, three stored schedules | a planned alarm rings when it is due; only amounts are posted; alarms are served and edits take effect |
| `ui` | both error flags | what is shown, edited and posted agrees with flags, buttons and timers in every interleaving, and comes to rest with them |
| `bus` | two nodes; the user of one asks with priority 1 or 2 and listens, that of the other asks with 1; messages of 2 bytes, timeouts of 0 and 8 ticks, a listen timeout and an arbitration delay of 1, a buffer of 3 bytes, one task in the midst of a call at a time (`MaxCalls`) | a node that heard a higher priority is silent, the transceiver follows the state, every wait is limited, requests are kept, the bus is released |
| `onewire` | handlers that start 10 us after an edge, callbacks that take 10 us at most to answer a 0, and none or 20 us otherwise | from the first answered reset on every slot is taken for what it was, whenever the slave was started; a slave that stays powered is found |
| `garden_sensor` | two types, two readings, two attempts, one fault in each | an answer stays in its frame, an attempt without a fault is in step whatever came before, a call returns |
| `rom_search` | codes of 3 bits and a parity bit, family of 1 bit, room for 3 codes, every bus of up to 4 devices, unplugged at any time | the search finds the family and nothing that is not there, and ends |
| `claim_*` | as their component | one counterexample each (section 6) |

Why the bounds are enough:

* *Irrigation.* The control does not look at the size of an amount, only whether
  it is zero; one amount makes every mailbox, timer and flag combination. The
  proofs cover any set of positive amounts.
* *Storage.* Three slots let the journal fill up, be rewritten and be torn at
  its first, middle and last slot. Two records fill the first file, so that a
  third meets its end; records of the second need padding, so that a second one
  meets the first's. The offsets 0, 4 and 28 reach every record, and 28 wraps
  around modulo 32. A file smaller than the one before it would overlap it,
  because its start is computed from its own size (`storage.c:209`); the
  firmware's two files are of one size. `MCStorage` assumes `FilesAreApart` and
  `RecordsFit`, the hypotheses of the proofs.
* *Schedule.* A day of four hours has the intervals 4, 2, 1 and a truncated 4/3;
  every alarm hour, midnight included, occurs at every clock hour. With one amount
  a user changes between none and some, and between frequencies; a change from one
  positive amount to another takes TLC longer than
  a run may last, and is covered by the safety proofs, not by `EditsTakeEffect`. The safety properties
  are proved for a day of any length.
* *UI.* The model is finite as it is; the values are abstracted to whether one
  was changed. The critical error is included although nothing in the repository
  raises it.
* *Bus.* Two nodes meet in every pair of states: both announce, one interrupts
  the other's announcement or data, one times out in the midst of its
  arbitration or of a call, and a second announcement finds the buffer full. With
  a timeout of 8 ticks a node may win, lose and wait again, or fail. What one node
  only does (listen, ask with the lower priority) the other never does, so the
  names are not symmetric. One task at a time is held up in a call; the safety
  properties are proved for any number of nodes and of such tasks, and any delays.
* *OneWire.* The master looks at an answer 100 us after its edge, and a handler
  looks at the line 70 us after it has started: latency and answer together must
  take less than 30 us. TLC agrees with this limit from both sides: latencies of
  10 and 20 us pass with an answer that takes no time and fail with one of 10 us;
  a latency of 10 us passes with other callbacks of 30 us and fails with 40. A
  handler that starts in the tick of its edge looks at a zero just as the master
  releases the line and takes it for a reset. For latencies up to 20 us, answers
  in time and other callbacks up to 20 us it is also proved. Nothing in the
  repository says which of these a slave meets, hence the faults of `GardenSensor`.
* *Garden sensor.* Two attempts are the fewest in which one can leave something
  behind for the next. The readings and types differ in both bytes of an answer.
* *ROM search.* On up to four devices with codes of four bits passes turn at
  every place, keep a way above it and give up a branch; the array is smaller
  than the bus. That the family is recorded and nothing that was not there is
  proved for any codes and buses.

Fairness, and why the code justifies it:

* The tasks: weak fairness. Each loops on a pend or a sleep, and PriorRTOS runs a
  task that is ready.
* The level sensor's report of an open contact: weak fairness, as long as the
  probe is on. `DryRunEnds` and `StopIsObeyed` need no more than this and the task.
  `claim_alarm_jammed` has strong fairness for the timers, the report of a closed
  contact and the schedule's posts in addition: its counterexample is not for want
  of any of them.
* The UI's timers: weak fairness; the kernel runs the callback of an expired timer.
* The bus: weak fairness for each node's handlers, strong fairness for time and
  for calls that were made, because a loose timer may come again and again between
  their steps, and a task goes on all the same. Time waits for what is due, so
  that handlers, which take less than a tick, are done within it.
* The wire and the search: weak fairness for time, for both sides' steps (each
  waits for its own delay only) and for the start of a slave; strong fairness for
  resets, because every attempt of a master begins with one. A slave may lose its
  power again and again, so `SlaveIsFound` is about one that keeps it from some
  time on.
* The clock: weak fairness, it is driven by the RTC interrupt.
* Buttons, tank, pump flags and the raising of alarms and errors owe nothing.
  Liveness that needs the user to leave the buttons alone says so in its premise
  (`Settled`, `UserRests`). The inactivity timer is reset by every press; its
  fairness is only used under these premises.

What the properties exclude, by name:

* `OnlyLateStartsDefyVeto`: `late`; `claim_late_start` shows it.
* `RunningIsSupervised`, `DryRunEnds`: `torn`. `DelayedRunHasAmount`: `robbed`.
* `StopIsObeyed`: an open contact, at which the task passes every trigger over.
* `AlarmServed`: `Stuck`, the jam of section 6.
* `ErrorIsReal`, `NothingStaleStays`: `raced`. `ShowsWhatIsEdited`,
  `NothingStaleStays`: `stray`; the latter also the state INITIALIZED.
* `TransceiverFollowsState`: `overtaken` and `again`.

Each of these names a moment at which the code goes wrong; the property says that
there is no other. `ImplementsRequests` includes that every request comes to its
end, and `BusIsReleased` needs no premise. `CHECK_DEADLOCK` is on in every run: no
model can stop.

## 5. Proofs

`tlapm` checks all proofs. Assumptions are the `ASSUME`s on the constants and,
named in each theorem that needs them: in `StorageProofs` `FilesAreApart` and
`RecordsFit`, what the configuration of the files must see to; in `OneWireProofs`
`InTime`, the times the protocol leaves to a slave.

**`IrrigationProofs`.** With callbacks between any two steps of the task, for any
amounts, boots, timers and moisture readings. `OnlyLateStartsDefyVeto` is not
inductive: between the guard of a start and its assignment the task relies on what
it has read. `LateInv` extends it to that moment: a pump that runs or is about to
is enabled, or the veto came there. `TaskInv` says which trigger is handled
where; `RunInv` and `VetoInv` tie the history `run` and the sensor's last report to
the driver's flags. `WholeInv` says, as long as nothing is torn, how far output,
probe and flag may lag behind `Running` at each `pc`; a callback that stops the
pump in front of the task's next assignment is exactly what makes `torn` true, and
everywhere else what a callback does to all of them at once preserves it. Together
these are `ControlInv`, from which follow `VetoHolds`, `RunIsSupervised` and
`InterlockImplemented` (initial states and every step map; the start that was
granted and has not begun is `pc = "run"`). `AmountInv` adds that a SCHEDULE
trigger is in one place at a time and has its amount with it, and that a delayed
run has its amount unless it was `robbed`: `DelayedRunsPump`. `JamIsPermanent`
needs the types only.

**`ScheduleProofs`.** For a day of any length: `AlarmIsDue` relates the alarm
hour, the clock and the history `due` across midnight. It is inductive with
`AmountFirst` (no alarm without a frequency, no frequency without an amount),
`SetsFromThen` (what `IScheduleNextIrrigation` knows between its steps, and what
an hour that begins there changes) and `HourIsSet` (hour 0 is never used, the
reason why midnight works). `AlarmRings` is the action property that follows,
`OnlyAmountsArePosted` comes from `AmountFirst`.

**`UiProofs`.** For any set of errors that may be raised, with a button between
any two accesses to the states. `ErrorIsReal` needs `RoundIsReal`, that what a task
has read and chosen, or holds in hand to save, is still true of the error flag in
a round in which no error is cleared. `ShowsWhatIsEdited` needs `TaskEditsNothing`:
until a state strays only INITIALIZED, IDLE and ERROR are saved, so that a task
cannot bring an edit back, and what was checked to be saved can in the meantime
only have become the state of a value. `NothingInHand` says that outside
`ISysStateSet` nothing is read ahead, and `ButtonsAgree` what the callbacks of the
buttons say of each other.

**`StorageProofs`.** For any files, records, sector sizes and offsets, power loss
anywhere. `ValidSlots`, the walk of `IMetadataFind`, is a count, and what a walk
counts is an induction; the invariant `Journal` therefore carries the count: there
is an `n` for which `JournalOf(n)` says that the slots below `n` are valid, those
above are erased, and where the driver and slot `n` are in each step of an
operation. Then `ValidSlots(slots) = n`. With `NewestIsLoaded` it gives
`JournalIsPrefix` and `OffsetsArePersistent`. That no offset wraps around follows
from the flash: a record that was programmed ends inside the data sector, which
is smaller than `OffsetMod`.

What the records are is `RInv`. The newest copy counts exactly the acknowledged
records (`NewestOf`), and each of them is in the flash, whole (`RecordsAreStored`).
RAM may be ahead (`RamIsAhead`), by the record whose metadata is being stored, or
by any number when a torn slot keeps the driver from storing (`Blocked`): then
records are written behind one another and none is acknowledged, and a mount finds
the old end again. `Programming` and `Programmed` follow a record from its first
half-word to its acknowledgement. A half-word that is programmed lies behind all
records of its own file and, because files are apart, in no other file
(`ProgrammedCell`); from this follows `WritesStayInFile`. `DiskLogIsShown` then
says that a mount finds `acked`, with the record in hand while the journal is
rewritten: this is `AckedIsDurable`, and step by step it is `RecordLog`.

The code compares only the first address of a record with the end of its file.
`RecordsFit` is what makes that enough: each record that starts inside the file
ends there with its padding. Records that are a multiple of four bytes must
divide their file. Of records that need padding only the first must fit, for
there is no second (`OneRecord`, proved as `PaddedOnce`): it would start at an odd
address, or on a zero of the padding. The files of the firmware, 512 bytes each
for records of 3 and of 6 bytes, meet `FilesAreApart` (`RisingFilesAreApart`), and
`RecordsFit` as long as no record of 6 bytes holds the value 0: one that begins
with a zero half-word can be written behind another, and the last of 86 of them
would run into the next file.

**`Mmb485Proofs`.** For any number of nodes, priorities, message sizes and delays,
and any number of tasks in the midst of a call. `YieldsToHigher` needs `BidOK`:
what a node in the arbitration has heard of a higher priority is in its buffer,
whole and behind announcements only (`WillLose`), until its timer handler reads it;
what comes after that leaves the buffer filled, which is what `ITransmitData` looks
at. `WaitIsLimited` and `TransceiverFollowsState` are parts of `PlaceOK`, which
ties the state and the timers to the place of the handler, of `CallOK`, which does
so for the place of a call, and of `ModeOK`, which says where the transceiver is
not as the state says: before a call has come to it, after a timeout in such a
moment (`overtaken`), and when the callback of what was sent asked again (`again`).
`RequestsAreKept` maps every step of the bus to a step of `BusRequest` or to a
stutter.

**`OneWireProofs`.** For any sequence of resets and bits, any pauses, and a slave
that is powered on and off at any time. Nothing but time keeps the two sides
apart, so the invariant counts it: `Elapsed`, how far the slot has got, and
`SlaveDue`, how far it will be when the slave's wait is over. `SlaveInv` bounds
where in a slot a slave can be, however badly it was started: an edge wakes it
only at the beginning of a slot, or where the master lets go of the line.
`OnTime` is the narrower set of moments of a slave that was woken by the first
edge of the slot; it is ready again before the slot ends. A slave is made to
answer only by its user, after it heard a 0, and one that heard a 0 is on time;
hence no bad slave pulls the line in a presence part, and the master's `synced`
means what it says. From then on `HeardInv` has the slave `OnTime` and the slot
taken for what it is. The hypothesis `InTime` has a latency of one or two ticks,
callbacks of at most two, and *latency and answer together at most two*: the
callback comes before the pull, and the pull before the master's look at the line.

**`GardenProofs`.** For any sensors, readings, number of attempts and faults, and
any checksum of a byte. `AnswersAreFramed` follows from `Answering`, which names
the data a slave has in hand, in the CRC state only as some data whose frame and
CRC these are, because the slave has forgotten them by then; `FrameHasBits` says
where the bits of data and CRC are in the frame, and `AnsweredIsNext` that the
bit a slave answers is the next of it. `InStep` needs `Counting`: a slave that
answers has heard three bytes, so that the master reads ones and no fault-free
slot makes the slave give up; and the first byte is 0 or 1, so that its first bit
is the whole command.

**`RomSearchProofs`.** For codes of any length and any number of devices.
`RecordedWasThere` needs that in every pass those that still take part agree with
the bits of the code so far, and that whenever a bit is to be written some device
that was there agrees with the code and has that bit (`SomeAgrees`): the wire can
be low for a bit that was read only because a device pulled it. A pass that has
written the last bit has therefore the code of a device, though that device may
be gone.

`FamilyIsFound` is about the order of the passes. Of two codes that part at a bit
the one with a 1 there comes first. `Unvisited` names the codes that are left: they
agree with the last code up to the place where the next pass turns, or part from
it at an earlier 1. `RecordsInv` says that every code of the family is recorded or
left, and none is both. Within a pass `WayInv` follows the two places of the code:
`Way` says that the pass repeats the last one up to its turn and goes to 1 behind
it wherever somebody does, `Deepest` that `next_diff` is the last place where
somebody else goes to 0. What a pass comes to is then the first of what was left
(`OneVisited`), and when there is no next place nothing is left. `Ahead` says that
a pass which begins has somebody to find. It needs that no device goes away: the
premise of `FindsFamily`.

Induction. The provers cannot use the induction theorems of the library, which
take an operator as a parameter. Where a proof needs one it is made of sets: a set
of numbers that holds 0 and all successors misses none, or it would miss a least
one (`NumbersFollow`, for the starts of the files), and a set of places that is not
empty has a least one (`LeastOne`, for the first bit at which two codes part).

Only model-checked: all liveness (it rests on fairness and ENABLED, which the
prover does not handle), that is `DryRunEnds`, `StopIsObeyed`, `AlarmServed`,
`EditsTakeEffect`, `FlagsAreShown`, `NothingStaleStays`, `BusIsReleased`, the
liveness part of `ImplementsRequests`, `SlaveIsFound`, `ReadEnds` and `SearchEnds`;
the computation of the CRC (bitwise operators); and the claims. Every safety
property of a run is proved.

## 6. Where code and comments disagree

Each of these is a run that ends in a counterexample:

| Run | The comment | The code |
|---|---|---|
| `claim_late_start` | "The pump is stopped and disabled." (`IrrigationController.c:225`) | a manual start has passed its guard (`pump.c:111`); before its first assignment a delayed run starts pump and probe, and the probe's report stops and disables the pump; the start goes on and runs it |
| `claim_alarm_jammed` | "the scheduled run must still occur" (`IrrigationController.c:153`) | a trigger read with the contact open leaves its amount in the mailbox; no alarm is handled any more |
| `claim_bus_not_idle` | "Wait until the bus is idle i.e. no received messages" (`mmb485.c:438`) | a node that waits has its receiver off and announces itself in the midst of another node's data |
| `claim_garden_read` | "Read a byte from the sensor." (`garden_sensor_master.c:111`) | the sensor looks at its command only when a byte after the type has come, which is the first the master reads: it takes 0xFF and the high byte for the data, the low byte for their CRC, and no reading succeeds but by coincidence |

Further comments that the code does not follow. The models behave as the code,
and none of their properties states the comment:

* `IrrigationController.c:114`, "the pump is ran indefinitely until a manual off
  trigger is received": `PumpStop` does not stop the timer of an earlier scheduled
  run, which ends the manual run.
* `IrrigationController.c:227`, "The Level Sensor probe must be restarted to
  re-enable the pump": the probe may be stopped while the pump is disabled, and
  nothing starts it again.
* `storage.h:31`, "Write data to a file": after a record of six bytes the next
  write fails on its padding, unless it begins with a zero half-word; after one of
  three bytes it fails always, because its address is odd.
* `storage.h:22`, "A mount can only succeed if the filesystem has been formatted
  (once)": a power loss while the journal is rewritten leaves nothing to mount.
* `ScheduleManager.h:29`, "Irrigation frequency (per day)": the interval is
  rounded down; 5 a day become 6.
* `mmb485.h:120`: the callback is to be called when all data was transmitted; it
  gets OK, too, when an announcement in the buffer withheld the data.
* `ow_cmd_slave.c:77`, "Shift the receives bits in to a byte": bits are or-ed into
  a byte that only a reset clears; behind the command 0x01 the sensors 0 and 2 are
  taken for 1 and 3.
* `mmb485.h:122`: `Mmb485Transmit` returns an error on every path.

Also met while modelling, and part of the models or of the `hazards`, without a
comment that says otherwise:

* `TimeInit` returns an error on every path. The composer then skips `PumpInit`,
  and the result of `StorageMount` overwrites the error: the system starts and
  `PumpTmr` was never created (`PumpInits`). A scheduled run then has no end by
  itself; only the user or the level sensor ends it.
* A start that is interrupted between its guard and its output, or a stop that a
  delayed run crosses, leaves output, flag, probe and timer apart (`torn`) until
  the next undisturbed stop. A delayed run that is due between the reading of an
  amount and the creation of the next delay zeroes that amount (`robbed`).
* MANUAL_OFF is not handled while the level sensor is open; a run that the level
  sensor stops leaves the pump flag set; a delayed run is dropped when its timer
  cannot be created.
* The moisture check posts the address of its variable as an amount, and no
  trigger. While no SCHEDULE trigger is on its way, nothing reads this amount and
  the schedule is jammed. No SCHEDULE trigger finds it: one that is on its way has
  its own amount in front of it.
* The UI reads `CurrentState` for the check (`UiController.c:276`) and again for
  the assignment (`:277`). A button between them has SET_AMOUNT or SET_FREQ saved,
  which the UI returns to when nothing is edited (`stray`).
* A timeout between `mmb485.c:110` and `:115` (or `:128` and `:134`) leaves the
  receiver on in the high impedance state (`overtaken`). A node whose user asks
  again in the callback of what was sent waits with its transmitter on (`again`),
  until its first announcement is sent or the timeout ends it.
* With all metadata slots valid, the walk that looks for the newest copy
  (`storage.c:303`) reads one slot behind the last, past the end of the flash.
* On the bus, two nodes with equal priorities both win (`mmb485.c:286`, an empty
  branch); a part of an announcement is consumed and its rest not recognized; the
  limit of a message (`:70`) is not in bytes; nothing reads the flag that
  `Mmb485AlwaysListenEnable` stores.
* `GardenSensorStatusRead` sends no type, but the slave answers only when it has
  one. It takes the bytes the master reads for it, all ones, which is the value of
  SENSOR_TYPE_NONE: a status is never answered.
* A value is sent high byte first and stored in the order of the master's
  processor.
* `moisture_sensor.c:26` looks for a free slot on the wrong side of its
  comparison: no sensor is ever registered.
* The pump-on hold threshold (`UI_THRESHOLD_PUMP_ON_MS`) is stored and never
  given to the hold timer.
* The inactivity timer (5 s) replaces the release callback while the button is
  held (3 s for the pump): a release in the second between it and the next hold
  callback stops nothing.
* An error that is cleared while the task is in its round is shown once more,
  saved, and returned to later (`raced`).
* The state INITIALIZED, the one at boot, stays saved until another state is: an
  alarm flag that the UI sees once brings its red LED back.
* One variable keeps the last error: clearing it clears errors nobody has seen.
* With an interval of one hour, an hour that begins while the next alarm is being
  set delays it by a day. An edit takes effect only after the next alarm, and the
  first alarm after a restart is handled only after the first edit.

## 7. External parts, and what is not modelled

Assumed of PriorRTOS, from the way the code uses it: a post to an address whose
value was not read fails (`ScheduleManager.c:188-198`); an infinite pend blocks;
a pend for an address the mailbox does not have fails at once; a timer with
`TIMER_PARAMETER_AR` may or may not restart (both are modelled); a
`TIMER_PARAMETER_PERIODIC` timer goes on after it has expired (the moisture and
sensor check timers rely on it, `ITimerCallbackUiInactive` stops its own), so
`TmrValueStable` posts again and again. If such a timer expired only once,
`AlarmServed` would hold for one alarm per edit. A callback runs to completion.

The level sensor probe (`LevelSensorProbeStart`, `LevelSensorProbeStop`, the
registration of `ICallbackLevelSensorCheck`) is called and not defined in the
repository: a probe that is on reports OPEN while the contact is open, and CLOSED
once after that. Flash programs an erased half-word, or any half-word to zero,
and fails otherwise; errors of the hardware itself are not modelled.

`SCHEDULE_MANAGER_DEBUG_DISABLE_STORAGE_WRITE` compiles the schedule's stores
out, so `Schedule` starts from a stored schedule and never stores one. The values
and their limits are in `Schedule` (the UI keeps amounts in 1..1000 and
frequencies in 1..24); stepping to a limit is abstracted to choosing another
value. Display, LED and log contents, initialization order (one fixed sequence),
pin and clock set-up, generated and GUI code are not modelled.

`PumpTmr` is 0 when `PumpInit` was not called, which is no timer's id: setting and
starting it does nothing. What `MoistureSensorRead` returns for the handle that is
NULL is any value.

On the bus, `TimerStart` and the HAL succeed, and a message does not wrap the
counters of microseconds. A timer handler of a node is not interrupted by its
tasks. Where a periodic timer goes on and the time of its next expiry is no longer
tied to anything the node waits for, it is loose instead of counted (section 3).

Of the OneWire stack, `ow_cmd_master_command` with its match and skip of ROM codes
has no caller (the garden sensor sends its bytes itself), and parasite power and
the ports are registers of another processor. `SensorController.c` is started by
nobody and its sending is a stub: there is no behaviour to check. The LED and
the displays only show what they are given. GFsm and the GUI libraries are not
built into the controller.

About six sevenths of the source lines under `src/prg/` are CMSIS and ST's HAL,
with the start-up code. They are vendored, they make no decision of this
system, and what the drivers rely on (flash programming, the UART, pins) appears
as external steps. The models are about the rest.
