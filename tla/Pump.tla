--------------------------------- MODULE Pump ---------------------------------
(***************************************************************************)
(* The pump driver, drivers/Pump/pump.c, as functions on the driver's      *)
(* state.  A caller that runs several driver calls without being preempted *)
(* composes these functions in one step; the irrigation task, which can be *)
(* preempted between two assignments of a driver call, takes them one by   *)
(* one.  The kernel timer PumpTmr belongs to the driver's state: it is the *)
(* only way a run for an amount ends by itself.                            *)
(***************************************************************************)
\* Running and Enabled are the driver's two flags, Gpio the level of the pump
\* output, Tmr the state of PumpTmr.  Its interval is left out: how long a run
\* takes is no question of these models.
PumpStates == [Running: BOOLEAN, Enabled: BOOLEAN, Gpio: BOOLEAN,
               Tmr: {"none", "idle", "counting"}]

\* PumpInit creates PumpTmr without TIMER_PARAMETER_ON: it is not counting.
PumpInit == [Running |-> FALSE, Enabled |-> FALSE, Gpio |-> FALSE,
             Tmr |-> "idle"]

\* The static variables when PumpInit was not called: there is no timer.
PumpNotInit == [PumpInit EXCEPT !.Tmr = "none"]

\* Faulty variants of two functions below: the guard does not look at Enabled,
\* or not at Running; the output is not switched off with the flag.
PumpCanRunDisabled(p) == ~p.Running
PumpCanRunTwice(p) == p.Enabled
PumpStopKeepsGpio(p) == [p EXCEPT !.Running = FALSE]

\* The guard that the three PumpRun functions share.
PumpCanRun(p) == ~p.Running /\ p.Enabled

PumpSetRunning(p) == [p EXCEPT !.Running = TRUE]
\* Setting and starting a timer that does not exist does nothing.
PumpStartTmr(p) == [p EXCEPT !.Tmr = IF @ = "none" THEN @ ELSE "counting"]
PumpSetGpio(p, on) == [p EXCEPT !.Gpio = on]

\* PumpRunForAmount, once its guard has passed.
PumpRunForAmount(p) == PumpSetGpio(PumpStartTmr(PumpSetRunning(p)), TRUE)

\* PumpStop leaves PumpTmr counting and does not report to OnPumpStopped.
PumpStop(p) == [p EXCEPT !.Running = FALSE, !.Gpio = FALSE]

\* Disabling a running pump stops it.
PumpEnable(p, en) ==
    LET q == [p EXCEPT !.Enabled = en]
    IN  IF ~en /\ p.Running THEN PumpStop(q) ELSE q

\* ITimerCallbackPump, without the OnPumpStopped call.  PumpTmr is created
\* with TIMER_PARAMETER_AR: reload says whether the kernel restarts it.
PumpTmrExpire(p, reload) ==
    [PumpStop(p) EXCEPT !.Tmr = IF reload THEN "counting" ELSE "idle"]
===============================================================================
