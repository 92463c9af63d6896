---------------------------------- MODULE Ui ----------------------------------
(***************************************************************************)
(* The user interface: sys_tasks/UiController.c on the buttons of          *)
(* drivers/Button/button.c, and the flags and errors of                    *)
(* sys_tasks/SystemManager.c.                                              *)
(*                                                                         *)
(* The task looks at the system flags every 500 ms and shows a state; the  *)
(* callbacks of the three buttons and of two timers show states of their   *)
(* own.  Buttons interrupt: a callback may come between any two steps of   *)
(* the task, and a step reads or writes one of the volatile states once.   *)
(* Callbacks run to completion.                                            *)
(*                                                                         *)
(* The values themselves, and what becomes of the values and triggers that *)
(* are posted, are in the modules Schedule and IrrigationController.       *)
(***************************************************************************)
EXTENDS Naturals

CONSTANT Errors     \* the error flags SystemRaiseError is called for

ErrorFlags == {"ERROR", "ERROR_CRIT"}

ASSUME ErrorsAssumption == Errors \subseteq ErrorFlags

VARIABLES
    flags,       \* EvgSystem
    pc,          \* where the task is
    sys_flags,   \* the flags the task has read in this round
    prev,        \* prev_sys_flags: had it read any in the round before?
    target,      \* the parameter of the task's ISysStateSet
    seen,        \* the value of CurrentState it has read and is about to use
    init_done,   \* ui_init_done
    sys,         \* CurrentState and SavedState
    release,     \* the select button's release callback
    saved,       \* ButtonCallbackSelectRelease
    incdec,      \* have the increment and decrement buttons a callback?
    display,     \* what the seven segment display shows
    selected,    \* SelectedValue
    inactive,    \* is TmrUiInactive running?
    stable,      \* is TmrValueStable running?
    unposted,    \* history: was a value changed and not posted since?
    manual,      \* history: the manual run the held button has asked for
    raced,       \* history: was an error last cleared within a task round?
    stray        \* history: was another state saved than the one checked?

setVars == <<pc, target, seen>>
taskVars == <<setVars, sys_flags, prev, init_done>>
uiVars == <<release, saved, incdec, display, selected, inactive, stable, unposted>>
pastVars == <<manual, raced, stray>>
vars == <<flags, taskVars, sys, uiVars, pastVars>>

SYS_STATE ==
    [INITIALIZED |-> 0, SET_AMOUNT |-> 1, SET_FREQ |-> 2, PUMPING |-> 3,
     IDLE |-> 10, ERROR |-> 11, CLEAR_ERROR |-> 12, CRIT_ERROR |-> 21]
INDICATOR_SAVE == 9
INDICATOR_PRESERVE == 19

States == DOMAIN SYS_STATE \ {"CLEAR_ERROR"}
Flags == {"ALARM", "PUMP_RUNNING", "SCHED_LOADED"} \cup ErrorFlags
Values == {"SET_AMOUNT", "SET_FREQ"}

-----------------------------------------------------------------------------
(* Faulty variants of operators below, each with one plausible mistake.     *)

\* Every state gives way to a higher one only.
PreservedAlways(state) == SYS_STATE[state] >= SYS_STATE["INITIALIZED"]

\* The saved state is not replaced with the current one.
ClearedKeepsSaved(s) == [s EXCEPT !.current = "IDLE"]

-----------------------------------------------------------------------------
(* ISysStateSet.                                                           *)

\* A state to be preserved is not saved, and gives way to a higher one only.
Preserved(state) == SYS_STATE[state] >= INDICATOR_PRESERVE
Indicates(state) == SYS_STATE[state] > INDICATOR_SAVE
Above(state, other) == SYS_STATE[state] > SYS_STATE[other]

\* The state that is left is saved, when it is one to return to.
Save(s) ==
    IF Indicates(s.current) /\ ~Preserved(s.current) /\ ~Above(s.saved, s.current)
    THEN [s EXCEPT !.saved = s.current] ELSE s

GivesWay(current, state) ==
    /\ state # current
    /\ Preserved(current) => Above(state, current)

\* The whole of it, in a callback.
ISysStateSet(s, state) ==
    IF GivesWay(s.current, state) THEN [Save(s) EXCEPT !.current = state] ELSE s

ISysStateReturn(s) == ISysStateSet(s, s.saved)

\* ISysStateSet for SYS_STATE_CLEAR_ERROR.
Cleared(s) == [current |-> "IDLE", saved |-> "IDLE"]

-----------------------------------------------------------------------------
(* Faulty variants of actions below.                                       *)

\* The release callback is left as it is while the button is held.
PumpOnKeepsRelease ==
    /\ release # "none"
    /\ manual' = "on"
    /\ UNCHANGED <<flags, taskVars, sys, uiVars, raced, stray>>

\* The selected value is not reset.
DeactivateKeepsSelected(s) ==
    /\ display' = "off"
    /\ incdec' = FALSE
    /\ release' = "Activate" /\ saved' = "Activate"
    /\ stable' = TRUE
    /\ inactive' = FALSE
    /\ sys' = ISysStateReturn(s)
    /\ UNCHANGED <<selected, unposted>>

\* The values are not posted when the UI becomes inactive.
DeactivateKeepsValues(s) ==
    /\ display' = "off"
    /\ incdec' = FALSE
    /\ release' = "Activate" /\ saved' = "Activate"
    /\ inactive' = FALSE
    /\ selected' = 0
    /\ sys' = ISysStateReturn(s)
    /\ UNCHANGED <<stable, unposted>>

\* The UI becomes inactive and goes on to show what it showed.
DeactivateShowsOn(s) ==
    /\ display' = "off"
    /\ incdec' = FALSE
    /\ release' = "Activate" /\ saved' = "Activate"
    /\ stable' = TRUE
    /\ inactive' = FALSE
    /\ selected' = 0
    /\ sys' = s
    /\ UNCHANGED unposted

-----------------------------------------------------------------------------
(* UiControllerInit and UiControllerTask.                                  *)

Init ==
    /\ flags = {}
    /\ pc = "init"
    /\ sys_flags = {}
    /\ prev = FALSE
    /\ target = "INITIALIZED" /\ seen = "INITIALIZED"
    /\ init_done = FALSE
    /\ sys = [current |-> "INITIALIZED", saved |-> "INITIALIZED"]
    /\ release = "none" /\ saved = "none"
    /\ incdec = FALSE
    /\ display = "off"
    /\ selected = 0
    /\ inactive = FALSE
    /\ stable = FALSE
    /\ unposted = FALSE
    /\ manual = "off"
    /\ raced = FALSE
    /\ stray = FALSE

\* From here on the buttons may interrupt, IUiInit's ISysStateSet included.
IUiInit ==
    /\ pc = "init"
    /\ "SCHED_LOADED" \in flags
    /\ release' = "Activate" /\ saved' = "Activate"
    /\ target' = "IDLE"
    /\ pc' = "compare"
    /\ UNCHANGED <<flags, sys_flags, prev, seen, init_done, sys, incdec, display,
                   selected, inactive, stable, unposted, pastVars>>

InitDone ==
    /\ pc = "loaded"
    /\ flags' = flags \ {"SCHED_LOADED"}
    /\ init_done' = TRUE
    /\ pc' = "get"
    /\ UNCHANGED <<sys_flags, prev, target, seen, sys, uiVars, pastVars>>

GetFlags ==
    /\ pc = "get"
    /\ sys_flags' = flags
    /\ pc' = "choose"
    /\ UNCHANGED <<flags, prev, target, seen, init_done, sys, uiVars, pastVars>>

\* A critical error goes before a running pump, a running pump before an error.
\* The task returns to the saved state once more after the last flag is gone.
Chosen ==
    IF "ERROR_CRIT" \in sys_flags THEN {"CRIT_ERROR"}
    ELSE IF "PUMP_RUNNING" \in sys_flags THEN {"PUMPING"}
    ELSE IF "ERROR" \in sys_flags THEN {"ERROR"}
    ELSE IF prev THEN {sys.saved} ELSE {}

ChooseState ==
    /\ pc = "choose"
    /\ \/ \E state \in Chosen : target' = state /\ pc' = "compare"
       \/ /\ Chosen = {}
          /\ pc' = "get"
          /\ UNCHANGED target
    /\ prev' = (sys_flags # {})
    /\ sys_flags' = {}
    /\ UNCHANGED <<flags, seen, init_done, sys, uiVars, pastVars>>

-----------------------------------------------------------------------------
(* ISysStateSet in the task.                                               *)

GoTo(label) == pc' = label /\ UNCHANGED target

\* It returns to the round, or to IUiInit.
Return ==
    /\ pc' = IF init_done THEN "get" ELSE "loaded"
    /\ target' = "INITIALIZED"

SetKeeps ==
    UNCHANGED <<flags, sys_flags, prev, init_done, uiVars, manual, raced>>

\* One condition on CurrentState after the other.
Decide ==
    /\ \/ /\ pc = "compare"
          /\ IF target = sys.current THEN Return ELSE GoTo("branch")
       \/ /\ pc = "branch"
          /\ GoTo(IF Preserved(sys.current) THEN "higher" ELSE "indicator")
       \/ /\ pc = "indicator"
          /\ GoTo(IF Indicates(sys.current) THEN "read" ELSE "show")
       \/ /\ pc = "higher"
          /\ IF Above(target, sys.current) THEN GoTo("show") ELSE Return
    /\ SetKeeps /\ UNCHANGED <<sys, seen, stray>>

\* CurrentState is read for the comparison with SavedState, and read again for
\* the assignment.
Read ==
    /\ \/ pc = "read" /\ GoTo("order")
       \/ pc = "reread" /\ GoTo("store")
    /\ seen' = sys.current
    /\ SetKeeps /\ UNCHANGED <<sys, stray>>

Order ==
    /\ pc = "order"
    /\ GoTo(IF Above(sys.saved, seen) THEN "show" ELSE "reread")
    /\ seen' = "INITIALIZED"
    /\ SetKeeps /\ UNCHANGED <<sys, stray>>

SaveState ==
    /\ pc = "store"
    /\ sys' = [sys EXCEPT !.saved = seen]
    /\ stray' = (stray \/ seen \in Values)
    /\ GoTo("show")
    /\ seen' = "INITIALIZED"
    /\ SetKeeps

ShowState ==
    /\ pc = "show"
    /\ sys' = [sys EXCEPT !.current = target]
    /\ Return
    /\ SetKeeps /\ UNCHANGED <<seen, stray>>

Task ==
    \/ IUiInit \/ InitDone \/ GetFlags \/ ChooseState
    \/ Decide \/ Read \/ Order \/ SaveState \/ ShowState

-----------------------------------------------------------------------------
(* What the callbacks share.                                               *)

ValueOf(index) == IF index = 0 THEN "SET_AMOUNT" ELSE "SET_FREQ"

\* ITimerCallbackUiInactive, which the clear-error callback calls too: s is
\* what CurrentState and SavedState are when it begins.
Deactivate(s) ==
    /\ display' = "off"
    /\ incdec' = FALSE
    /\ release' = "Activate" /\ saved' = "Activate"
    /\ stable' = TRUE
    /\ inactive' = FALSE
    /\ selected' = 0
    /\ sys' = ISysStateReturn(s)
    /\ UNCHANGED unposted

-----------------------------------------------------------------------------
(* The select button.  It has no callback for being pressed: it is pressed   *)
(* and held, or released again, at any time once it interrupts.            *)

\* The button is held: its timer expires again and again.
IButtonCallbackPumpOn ==
    /\ release # "none"
    /\ release' = "PumpOff"
    /\ manual' = "on"
    /\ UNCHANGED <<flags, taskVars, sys, saved, incdec, display, selected,
                   inactive, stable, unposted, raced, stray>>

\* The button is released after it was held.
IButtonCallbackPumpOff ==
    /\ release = "PumpOff"
    /\ manual' = "off"
    /\ release' = saved
    /\ UNCHANGED <<flags, sys, saved, incdec, display, selected, inactive,
                   stable, unposted, raced, stray>>

\* Nothing but the timers changes when the pump is running.
IButtonCallbackUiActivate ==
    /\ release = "Activate"
    /\ stable' = FALSE
    /\ inactive' = TRUE
    /\ \/ /\ sys.current \notin {"ERROR", "PUMPING"}
          /\ incdec' = TRUE
          /\ release' = "Select" /\ saved' = "Select"
          /\ display' = ValueOf(selected)
          /\ sys' = ISysStateSet(sys, "SET_AMOUNT")
       \/ /\ sys.current = "ERROR"
          /\ release' = "ClearError" /\ saved' = "ClearError"
          /\ display' = "code"
          /\ UNCHANGED <<sys, incdec>>
       \/ /\ sys.current = "PUMPING"
          /\ UNCHANGED <<sys, release, saved, incdec, display>>
    /\ UNCHANGED <<flags, selected, unposted, pastVars>>

IButtonCallbackSelect ==
    /\ release = "Select"
    /\ selected' = 1 - selected
    /\ sys' = ISysStateSet(sys, ValueOf(selected'))
    /\ display' = ValueOf(selected')
    /\ UNCHANGED <<flags, release, saved, incdec, inactive, stable, unposted,
                   pastVars>>

\* SystemClearError, ISysStateSet for SYS_STATE_CLEAR_ERROR, and the callback
\* of the inactivity timer.
IButtonCallbackClearError ==
    /\ release = "ClearError"
    /\ flags' = flags \ ErrorFlags
    /\ Deactivate(Cleared(sys))
    /\ raced' = (pc # "get")
    /\ stray' = (stray /\ pc # "get")
    /\ UNCHANGED manual

Release ==
    /\ \/ IButtonCallbackPumpOff \/ IButtonCallbackUiActivate
       \/ IButtonCallbackSelect \/ IButtonCallbackClearError
    /\ UNCHANGED taskVars

-----------------------------------------------------------------------------
(* The other two buttons, and the timers.                                  *)

IButtonCallbackIncDec ==
    /\ incdec
    /\ unposted' = TRUE
    /\ display' = ValueOf(selected)
    /\ UNCHANGED <<flags, taskVars, sys, release, saved, incdec, selected,
                   inactive, stable, pastVars>>

\* The release callback is replaced though the button may be held.
ITimerCallbackUiInactive ==
    /\ inactive
    /\ Deactivate(sys)
    /\ manual' = IF manual = "on" THEN "cut" ELSE manual
    /\ UNCHANGED <<flags, taskVars, raced, stray>>

\* Both values are posted; TmrValueStable goes on.
ITimerCallbackValueStable ==
    /\ stable
    /\ unposted' = FALSE
    /\ UNCHANGED <<flags, taskVars, sys, release, saved, incdec, display,
                   selected, inactive, stable, pastVars>>

-----------------------------------------------------------------------------
(* The rest of the system.                                                 *)

Quiet == UNCHANGED <<taskVars, sys, uiVars, pastVars>>

SystemRaiseError(e) == flags' = flags \cup {e} /\ Quiet

\* The irrigation controller and the pump's callbacks, the time driver and the
\* schedule task.
FlagSet(f) == flags' = flags \cup {f} /\ Quiet
FlagClear(f) == flags' = flags \ {f} /\ Quiet

ScheduleLoaded ==
    /\ pc = "init"
    /\ FlagSet("SCHED_LOADED")

Environment ==
    \/ \E e \in Errors \ flags : SystemRaiseError(e)
    \/ \E f \in {"ALARM", "PUMP_RUNNING"} :
          IF f \in flags THEN FlagClear(f) ELSE FlagSet(f)
    \/ ScheduleLoaded

Next ==
    \/ Task
    \/ IButtonCallbackPumpOn \/ Release \/ IButtonCallbackIncDec
    \/ ITimerCallbackUiInactive \/ ITimerCallbackValueStable
    \/ Environment

Spec == Init /\ [][Next]_vars

\* The kernel runs the task when its sleep is over and the callback of a timer
\* that has expired; the schedule task announces the schedule.  The buttons, the
\* pump and the alarm owe nothing.
Fairness ==
    /\ WF_vars(Task)
    /\ WF_vars(ScheduleLoaded)
    /\ WF_vars(ITimerCallbackUiInactive)
    /\ WF_vars(ITimerCallbackValueStable)

FairSpec == Spec /\ Fairness

-----------------------------------------------------------------------------
(* Properties.                                                             *)

Labels ==
    {"init", "loaded", "get", "choose", "compare", "branch", "indicator", "read",
     "order", "reread", "store", "show", "higher"}
Callbacks == {"none", "Activate", "Select", "ClearError", "PumpOff"}

\* Every variable keeps its type; CLEAR_ERROR is never shown or saved.
TypeOK ==
    /\ flags \subseteq Flags
    /\ pc \in Labels
    /\ sys_flags \subseteq Flags
    /\ prev \in BOOLEAN
    /\ target \in States
    /\ seen \in States
    /\ init_done \in BOOLEAN
    /\ sys \in [current: States, saved: States]
    /\ release \in Callbacks
    /\ saved \in Callbacks \ {"PumpOff"}
    /\ incdec \in BOOLEAN
    /\ display \in Values \cup {"off", "code"}
    /\ selected \in 0..1
    /\ inactive \in BOOLEAN
    /\ stable \in BOOLEAN
    /\ unposted \in BOOLEAN
    /\ manual \in {"off", "on", "cut"}
    /\ raced \in BOOLEAN
    /\ stray \in BOOLEAN

\* An error that is shown, or that the task may return to, is there: it has not
\* been cleared, unless it was cleared while the task was in the middle of a
\* round.  Three pieces of code change the two states without a lock.
ErrorIsReal ==
    (sys.current = "ERROR" \/ sys.saved = "ERROR") /\ ~raced => "ERROR" \in flags

\* The state that says a value is edited is shown only while the buttons edit
\* that value, and the display shows it.  Once the task has saved such a state,
\* which a button shows between its check of CurrentState and its second reading,
\* that state comes back when nothing is edited; there is no other way to it.
ShowsWhatIsEdited ==
    /\ ~stray /\ sys.current \in Values
         => incdec /\ sys.current = ValueOf(selected)
    /\ incdec => display = ValueOf(selected)

\* A changed value is going to be posted: one of the two timers is running, in
\* whatever order buttons, errors and pump runs came.
EditIsNotForgotten == unposted => inactive \/ stable

\* A value is never posted while it can still be changed, and the display is
\* never left on.
PostsOnlyFinishedEdits ==
    /\ stable => ~incdec
    /\ incdec \/ display # "off" => inactive

\* While the select button is held for a manual run, its release will end the
\* run, unless the inactivity timer has expired meanwhile; otherwise it does
\* what it did before the button was held.
HeldRunIsEnded ==
    /\ manual = "on" <=> release = "PumpOff"
    /\ release # "PumpOff" => release = saved

\* A pump that runs on, and an error that is not cleared, are shown again and
\* again, whatever the user does meanwhile.
FlagsAreShown ==
    /\ <>[]("PUMP_RUNNING" \in flags)
         => []<>(sys.current \in {"PUMPING", "CRIT_ERROR"})
    /\ <>[]("ERROR" \in flags /\ "PUMP_RUNNING" \notin flags)
         => []<>(sys.current \in {"ERROR", "CRIT_ERROR"})

\* From some time on the user leaves the buttons alone.
UserRests == <>[][~Release /\ ~IButtonCallbackIncDec]_vars

\* A pump that has stopped is not shown for ever, whatever the user does.  When
\* the user rests and no flag is set, the UI comes to rest: no error or edit that
\* is over stays on show.  INITIALIZED may, as the state the UI had at boot, and
\* what the two interrupted rounds named by raced and stray bring back.
NothingStaleStays ==
    /\ <>[]("PUMP_RUNNING" \notin flags) => <>[](sys.current # "PUMPING")
    /\ UserRests /\ <>[](flags = {} /\ ~raced /\ ~stray)
         => <>[](sys.current \in {"IDLE", "INITIALIZED"})

-----------------------------------------------------------------------------
(* The inductive invariant behind the safety properties.                   *)

\* In a round in which no error is cleared, what the task has read and chosen
\* is still true of the error flag.
RoundIsReal ==
    ~raced =>
        /\ pc = "choose" /\ "ERROR" \in sys_flags => "ERROR" \in flags
        /\ target = "ERROR" \/ seen = "ERROR" => "ERROR" \in flags

\* Until a state strays only these are saved, and so returned to; the task never
\* chooses to show that a value is edited.  What it is about to save was one of
\* them when it was checked, and a button can only have made a value of it.
ReturnStates == {"INITIALIZED", "IDLE", "ERROR"}
Saving == {"read", "order", "reread", "store"}
TaskEditsNothing ==
    ~stray =>
        /\ sys.saved \in ReturnStates
        /\ target \in ReturnStates \cup {"PUMPING", "CRIT_ERROR"}
        /\ pc = "indicator" => sys.current # "CRIT_ERROR"
        /\ pc \in Saving => {sys.current, seen} \subseteq ReturnStates \cup Values

\* The locals of ISysStateSet hold nothing outside it.
NothingInHand ==
    /\ pc \notin {"order", "store"} => seen = "INITIALIZED"
    /\ pc \in {"init", "loaded", "get", "choose"} => target = "INITIALIZED"

\* What the select button does says whether the UI is active; until IUiInit it
\* cannot do anything.
ButtonsAgree ==
    /\ saved = "Select" <=> incdec
    /\ saved = "ClearError" => inactive
    /\ ~incdec => selected = 0
    /\ pc = "init" => release = "none" /\ saved = "none" /\ ~inactive

IInv ==
    /\ TypeOK
    /\ ErrorIsReal
    /\ RoundIsReal
    /\ ShowsWhatIsEdited
    /\ TaskEditsNothing
    /\ NothingInHand
    /\ ButtonsAgree
    /\ EditIsNotForgotten
    /\ PostsOnlyFinishedEdits
    /\ HeldRunIsEnded
=============================================================================
