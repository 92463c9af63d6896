-------------------------- MODULE IrrigationClaims --------------------------
(***************************************************************************)
(* What comments of the repository say of the irrigation controller, and   *)
(* the code does not do.                                                   *)
(***************************************************************************)
EXTENDS IrrigationController

\* IrrigationController.c:225: "The pump is stopped and disabled."  A pump that
\* the level sensor has disabled does not run.
RunsOnlyEnabled == pump.Running => pump.Enabled

\* With timers that expire, a contact whose closing is reported and a schedule
\* task that runs, too.
ClaimSpec ==
    /\ FairSpec
    /\ SF_vars(ITimerCallbackPump)
    /\ SF_vars(ICallbackDelayedPumpRun)
    /\ SF_vars(LevelClosed)
    /\ SF_vars(PostTrigger)
    /\ SF_vars(\E a \in Amounts : PostAmount(a))

\* IrrigationController.c:153: "... the scheduled run must still occur."  When
\* the user leaves the button alone, an alarm that is raised is handed to the
\* controller in the end.
AlarmIsHandled == <>[](button = "up") => (alarm = "set" ~> alarm = "clear")
=============================================================================
