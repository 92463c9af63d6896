---------------------------- MODULE PumpInterlock ----------------------------
(***************************************************************************)
(* What the irrigation controller promises about the pump, without its     *)
(* timers and mailboxes.  A start is granted while the pump is idle and    *)
(* allowed to run, each grant starts one run at most, and nothing runs     *)
(* without a grant.  A veto ends the run that is under way in the same     *)
(* step; what it does not end is a start that was granted before it and    *)
(* has not begun: there is at most one.                                    *)
(***************************************************************************)
VARIABLES
    run,       \* the kind of the run under way
    allowed,   \* may the pump be started?
    granted    \* has a start been granted that has not begun yet?

interlockVars == <<run, allowed, granted>>

Kinds == {"manual", "amount"}

InterlockInit == run = "none" /\ allowed = TRUE /\ granted = FALSE

Idle == run = "none" /\ allowed = TRUE

Grant == Idle /\ granted = FALSE /\ granted' = TRUE /\ UNCHANGED <<run, allowed>>

\* The start that was granted begins, whatever has happened since.
Begin == granted = TRUE /\ granted' = FALSE /\ run' \in Kinds /\ UNCHANGED allowed

\* Granted and begun in one step.
Start == Idle /\ run' \in Kinds /\ UNCHANGED <<allowed, granted>>

Finish == run # "none" /\ run' = "none" /\ UNCHANGED <<allowed, granted>>

Veto == run' = "none" /\ allowed' = FALSE /\ UNCHANGED granted

Permit == allowed = FALSE /\ allowed' = TRUE /\ UNCHANGED <<run, granted>>

InterlockNext == Grant \/ Begin \/ Start \/ Finish \/ Veto \/ Permit

InterlockSpec == InterlockInit /\ [][InterlockNext]_interlockVars
==============================================================================
