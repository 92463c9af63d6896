------------------------------- MODULE UiProofs -------------------------------
(***************************************************************************)
(* Proofs about module Ui, for any set of errors that may be raised: the   *)
(* UI shows and posts what the buttons, the flags and the timers say, in   *)
(* every order of task steps and callbacks.                                *)
(***************************************************************************)
EXTENDS Ui, TLAPS

SysStates == [current: States, saved: States]

-----------------------------------------------------------------------------
(* ISysStateSet.                                                           *)

\* Only a state that is returned to is saved, and only a critical error refuses
\* to give way.
LEMMA SetFacts ==
    ASSUME NEW s \in SysStates, NEW state \in States
    PROVE  LET n == ISysStateSet(s, state)
           IN  /\ n \in SysStates
               /\ n.saved # s.saved
                    => n.saved = s.current /\ s.current \in {"IDLE", "ERROR"}
               /\ n.current \in {s.current, state}
               /\ s.current # "CRIT_ERROR" => n.current = state
<1>1. /\ Save(s) \in SysStates
      /\ Save(s).current = s.current
      /\ Save(s).saved # s.saved
           => Save(s).saved = s.current /\ s.current \in {"IDLE", "ERROR"}
  BY DEF Save, Indicates, Preserved, Above, SysStates, States, SYS_STATE,
         INDICATOR_SAVE, INDICATOR_PRESERVE
<1>2. s.current # "CRIT_ERROR" => ~Preserved(s.current)
  BY DEF Preserved, SysStates, States, SYS_STATE, INDICATOR_PRESERVE
<1>3. CASE GivesWay(s.current, state)
  BY <1>1, <1>3 DEF ISysStateSet, SysStates
<1>4. CASE ~GivesWay(s.current, state)
  BY <1>2, <1>4 DEF ISysStateSet, GivesWay
<1> QED BY <1>3, <1>4

-----------------------------------------------------------------------------
(* The inductive invariant.                                                *)

\* At boot nothing is shown, edited or posted.
LEMMA InitInv == Init => IInv
<1> SUFFICES ASSUME Init PROVE IInv
  OBVIOUS
<1>1. TypeOK
  <2>1. sys \in [current: States, saved: States]
    BY DEF Init, States, SYS_STATE
  <2>2. target \in States /\ seen \in States
    BY DEF Init, States, SYS_STATE
  <2>3. selected \in 0..1
    BY DEF Init
  <2> QED
    BY <2>1, <2>2, <2>3, Zenon DEF Init, TypeOK, Callbacks, Labels
<1>2. /\ ErrorIsReal /\ RoundIsReal /\ ShowsWhatIsEdited
      /\ TaskEditsNothing /\ NothingInHand
  BY DEF Init, ErrorIsReal, RoundIsReal, ShowsWhatIsEdited, TaskEditsNothing,
         NothingInHand, ReturnStates, Saving, Values
<1>3. ButtonsAgree /\ EditIsNotForgotten /\ PostsOnlyFinishedEdits /\ HeldRunIsEnded
  BY DEF Init, ButtonsAgree, EditIsNotForgotten, PostsOnlyFinishedEdits,
         HeldRunIsEnded
<1> QED
  BY <1>1, <1>2, <1>3 DEF IInv

\* A step of the task after IUiInit leaves the buttons and the timers alone.
LEMMA ButtonsKept ==
    ASSUME IInv, UNCHANGED <<uiVars, manual>>, pc' # "init"
    PROVE  ButtonsAgree' /\ EditIsNotForgotten' /\ PostsOnlyFinishedEdits' /\ HeldRunIsEnded'
BY DEF IInv, uiVars, ButtonsAgree, EditIsNotForgotten, PostsOnlyFinishedEdits,
   HeldRunIsEnded

\* The task reads the flags and chooses a state: one it has read as a flag, or
\* finds saved.
LEMMA GetFlagsInv == IInv /\ GetFlags => IInv'
<1> SUFFICES ASSUME IInv, GetFlags PROVE IInv'
  OBVIOUS
<1>1. TypeOK'
  BY DEF GetFlags, IInv, TypeOK, Labels, uiVars, pastVars
<1>2. ErrorIsReal' /\ RoundIsReal' /\ ShowsWhatIsEdited' /\ TaskEditsNothing'
  BY DEF GetFlags, IInv, ErrorIsReal, RoundIsReal, ShowsWhatIsEdited,
     TaskEditsNothing, Saving, ValueOf, uiVars, pastVars
<1>3. NothingInHand'
  BY DEF GetFlags, IInv, NothingInHand
<1>4. ButtonsAgree' /\ EditIsNotForgotten' /\ PostsOnlyFinishedEdits' /\ HeldRunIsEnded'
  BY ButtonsKept DEF GetFlags, pastVars
<1> QED
  BY <1>1, <1>2, <1>3, <1>4 DEF IInv

LEMMA ChooseStateInv == IInv /\ ChooseState => IInv'
<1> SUFFICES ASSUME IInv, ChooseState PROVE IInv'
  OBVIOUS
<1>1. /\ Chosen \subseteq States
      /\ ~stray => Chosen \subseteq ReturnStates \cup {"PUMPING", "CRIT_ERROR"}
  BY DEF Chosen, IInv, TypeOK, TaskEditsNothing, ReturnStates, States, SYS_STATE
<1>2. "ERROR" \in Chosen => "ERROR" \in sys_flags \/ sys.saved = "ERROR"
  BY DEF Chosen
<1>3. \/ pc' = "get" /\ target' = target
      \/ pc' = "compare" /\ target' \in Chosen
  BY DEF ChooseState
<1>4. target = "INITIALIZED" /\ seen' = "INITIALIZED"
  BY DEF ChooseState, IInv, NothingInHand
<1>5. (sys_flags # {}) \in BOOLEAN /\ prev' = (sys_flags # {})
  BY DEF ChooseState
<1>6. TypeOK'
  BY <1>1, <1>3, <1>5 DEF ChooseState, IInv, TypeOK, Labels, uiVars, pastVars
<1>7. ErrorIsReal' /\ RoundIsReal'
  BY <1>2, <1>3, <1>4 DEF ChooseState, IInv, RoundIsReal, ErrorIsReal, pastVars
<1>8. ShowsWhatIsEdited' /\ TaskEditsNothing' /\ NothingInHand'
  BY <1>1, <1>3, <1>4 DEF ChooseState, IInv, ShowsWhatIsEdited,
     TaskEditsNothing, NothingInHand, Saving, ValueOf, uiVars, pastVars
<1>9. ButtonsAgree' /\ EditIsNotForgotten' /\ PostsOnlyFinishedEdits' /\ HeldRunIsEnded'
  BY <1>3, ButtonsKept DEF ChooseState, pastVars
<1> QED
  BY <1>6, <1>7, <1>8, <1>9 DEF IInv

\* ISysStateSet in the task; between two of its steps any callback may have run.
\* What a step leaves alone:
LEMMA SetStepInv ==
    ASSUME IInv, SetKeeps, pc \notin {"init", "loaded", "get", "choose"},
           \/ Return
           \/ UNCHANGED target /\ pc' \in Labels \ {"init", "loaded", "get", "choose"},
           sys' \in SysStates, seen' \in States, stray' \in BOOLEAN,
           pc' \notin {"order", "store"} => seen' = "INITIALIZED",
           ErrorIsReal', ~raced /\ seen' = "ERROR" => "ERROR" \in flags,
           ShowsWhatIsEdited',
           ~stray' => /\ ~stray
                      /\ sys'.saved \in ReturnStates
                      /\ pc' = "indicator" => sys'.current # "CRIT_ERROR"
                      /\ pc' \in Saving
                           => {sys'.current, seen'} \subseteq ReturnStates \cup Values
    PROVE  IInv'
<1>1. /\ pc' \in Labels \ {"init", "choose"}
      /\ target' \in {target, "INITIALIZED"}
      /\ pc' \in {"loaded", "get"} => target' = "INITIALIZED"
  BY DEF Return, Labels
<1>2. target' \in States
  BY <1>1 DEF IInv, TypeOK, States, SYS_STATE
<1>3. TypeOK'
  BY <1>1, <1>2, Zenon DEF SetKeeps, IInv, TypeOK, SysStates, uiVars
<1>4. RoundIsReal' /\ NothingInHand'
  BY <1>1 DEF SetKeeps, IInv, RoundIsReal, NothingInHand
<1>5. TaskEditsNothing'
  BY <1>1 DEF IInv, TaskEditsNothing, ReturnStates
<1>6. ButtonsAgree' /\ EditIsNotForgotten' /\ PostsOnlyFinishedEdits' /\ HeldRunIsEnded'
  BY <1>1, ButtonsKept DEF SetKeeps
<1> QED
  BY <1>3, <1>4, <1>5, <1>6 DEF IInv

\* Reading CurrentState to decide what is next.
LEMMA DecideInv == IInv /\ Decide => IInv'
<1> SUFFICES ASSUME IInv, Decide PROVE IInv'
  OBVIOUS
<1>1. SetKeeps /\ sys' = sys /\ seen' = seen /\ stray' = stray
  BY DEF Decide
<1>2. /\ pc \in {"compare", "branch", "indicator", "higher"}
      /\ \/ Return
         \/ /\ UNCHANGED target
            /\ pc' \in {"branch", "higher", "indicator", "read", "show"}
      /\ pc' = "indicator" => ~Preserved(sys.current)
      /\ pc' = "read" => pc = "indicator" /\ Indicates(sys.current)
  BY DEF Decide, GoTo, Return
<1>3. sys \in SysStates /\ seen \in States /\ stray \in BOOLEAN
  BY DEF IInv, TypeOK, SysStates
<1>4. seen = "INITIALIZED" /\ pc' \notin {"order", "reread", "store"}
  BY <1>2 DEF IInv, NothingInHand, Return
<1>5. /\ pc' = "indicator" => sys.current # "CRIT_ERROR"
      /\ ~stray /\ pc' = "read" => sys.current \in {"IDLE", "ERROR"}
  BY <1>2, <1>3 DEF Preserved, Indicates, IInv, TaskEditsNothing, SysStates,
     States, SYS_STATE, INDICATOR_PRESERVE, INDICATOR_SAVE
<1>6. ErrorIsReal' /\ ShowsWhatIsEdited'
  BY <1>1 DEF SetKeeps, IInv, ErrorIsReal, ShowsWhatIsEdited, ValueOf, uiVars
<1>7. ~stray' => /\ ~stray
                 /\ sys'.saved \in ReturnStates
                 /\ pc' = "indicator" => sys'.current # "CRIT_ERROR"
                 /\ pc' \in Saving
                      => {sys'.current, seen'} \subseteq ReturnStates \cup Values
  BY <1>1, <1>4, <1>5 DEF IInv, TaskEditsNothing, Saving, ReturnStates
<1>8. \/ Return
      \/ UNCHANGED target /\ pc' \in Labels \ {"init", "loaded", "get", "choose"}
  BY <1>2 DEF Labels
<1>9. ~raced /\ seen' = "ERROR" => "ERROR" \in flags
  BY <1>1, <1>4
<1>10. pc \notin {"init", "loaded", "get", "choose"}
  BY <1>2
<1> QED
  BY <1>1, <1>3, <1>4, <1>6, <1>7, <1>8, <1>9, <1>10, SetStepInv

\* Reading it into the hand: what a button has made of it is known.
LEMMA ReadInv == IInv /\ Read => IInv'
<1> SUFFICES ASSUME IInv, Read PROVE IInv'
  OBVIOUS
<1>1. SetKeeps /\ sys' = sys /\ seen' = sys.current /\ stray' = stray
  BY DEF Read
<1>2. /\ pc \in {"read", "reread"}
      /\ UNCHANGED target
      /\ pc' \in {"order", "store"}
  BY DEF Read, GoTo
<1>3. sys' \in SysStates /\ seen' \in States /\ stray' \in BOOLEAN
  BY <1>1 DEF IInv, TypeOK, SysStates
<1>4. ErrorIsReal' /\ ShowsWhatIsEdited'
  BY <1>1 DEF SetKeeps, IInv, ErrorIsReal, ShowsWhatIsEdited, ValueOf, uiVars
<1>5. ~raced /\ seen' = "ERROR" => "ERROR" \in flags
  BY <1>1 DEF IInv, ErrorIsReal
<1>6. ~stray' => /\ ~stray
                 /\ sys'.saved \in ReturnStates
                 /\ pc' = "indicator" => sys'.current # "CRIT_ERROR"
                 /\ pc' \in Saving
                      => {sys'.current, seen'} \subseteq ReturnStates \cup Values
  BY <1>1, <1>2 DEF IInv, TaskEditsNothing, Saving
<1>7. pc \notin {"init", "loaded", "get", "choose"}
  BY <1>2
<1>8. pc' \in Labels \ {"init", "loaded", "get", "choose"}
  BY <1>2 DEF Labels
<1> QED
  BY <1>1, <1>2, <1>3, <1>4, <1>5, <1>6, <1>7, <1>8, SetStepInv

\* Comparing it with SavedState.
LEMMA OrderInv == IInv /\ Order => IInv'
<1> SUFFICES ASSUME IInv, Order PROVE IInv'
  OBVIOUS
<1>1. SetKeeps /\ sys' = sys /\ seen' = "INITIALIZED" /\ stray' = stray
  BY DEF Order
<1>2. pc = "order" /\ UNCHANGED target /\ pc' \in {"show", "reread"}
  BY DEF Order, GoTo
<1>3. sys' \in SysStates /\ seen' \in States /\ stray' \in BOOLEAN
  BY <1>1 DEF IInv, TypeOK, SysStates, States, SYS_STATE
<1>4. ErrorIsReal' /\ ShowsWhatIsEdited'
  BY <1>1 DEF SetKeeps, IInv, ErrorIsReal, ShowsWhatIsEdited, ValueOf, uiVars
<1>5. ~stray' => /\ ~stray
                 /\ sys'.saved \in ReturnStates
                 /\ pc' = "indicator" => sys'.current # "CRIT_ERROR"
                 /\ pc' \in Saving
                      => {sys'.current, seen'} \subseteq ReturnStates \cup Values
  BY <1>1, <1>2 DEF IInv, TaskEditsNothing, Saving, ReturnStates
<1>6. pc \notin {"init", "loaded", "get", "choose"}
  BY <1>2
<1>7. pc' \in Labels \ {"init", "loaded", "get", "choose"}
  BY <1>2 DEF Labels
<1> QED
  BY <1>1, <1>2, <1>3, <1>4, <1>5, <1>6, <1>7, SetStepInv

\* Saving what is in the hand: it strays when that says a value is edited.
LEMMA SaveStateInv == IInv /\ SaveState => IInv'
<1> SUFFICES ASSUME IInv, SaveState PROVE IInv'
  OBVIOUS
<1>1. /\ SetKeeps /\ sys' = [sys EXCEPT !.saved = seen]
      /\ seen' = "INITIALIZED" /\ stray' = (stray \/ seen \in Values)
  BY DEF SaveState
<1>2. pc = "store" /\ UNCHANGED target /\ pc' = "show"
  BY DEF SaveState, GoTo
<1>3. (stray \/ seen \in Values) \in BOOLEAN
  OBVIOUS
<1>4. sys' \in SysStates /\ seen' \in States /\ stray' \in BOOLEAN
  BY <1>1, <1>3 DEF IInv, TypeOK, SysStates, States, SYS_STATE
<1>5. sys'.current = sys.current /\ sys'.saved = seen
  BY <1>1 DEF IInv, TypeOK
<1>6. ErrorIsReal'
  BY <1>1, <1>5 DEF SetKeeps, IInv, ErrorIsReal, RoundIsReal
<1>7. ~stray' => ~stray /\ seen \notin Values
  BY <1>1
<1>8. ShowsWhatIsEdited'
  BY <1>1, <1>5, <1>7 DEF SetKeeps, IInv, ShowsWhatIsEdited, ValueOf, uiVars
<1>9. ~stray' => /\ ~stray
                 /\ sys'.saved \in ReturnStates
                 /\ pc' = "indicator" => sys'.current # "CRIT_ERROR"
                 /\ pc' \in Saving
                      => {sys'.current, seen'} \subseteq ReturnStates \cup Values
  BY <1>2, <1>5, <1>7 DEF IInv, TaskEditsNothing, Saving
<1>10. pc \notin {"init", "loaded", "get", "choose"}
  BY <1>2
<1>11. pc' \in Labels \ {"init", "loaded", "get", "choose"}
  BY <1>2 DEF Labels
<1> QED
  BY <1>1, <1>2, <1>4, <1>6, <1>8, <1>9, <1>10, <1>11, SetStepInv

\* Showing the chosen state: it is still true of the error flag.
LEMMA ShowStateInv == IInv /\ ShowState => IInv'
<1> SUFFICES ASSUME IInv, ShowState PROVE IInv'
  OBVIOUS
<1>1. /\ SetKeeps /\ sys' = [sys EXCEPT !.current = target]
      /\ seen' = seen /\ stray' = stray /\ Return
  BY DEF ShowState
<1>2. pc = "show" /\ pc' \in {"get", "loaded"} /\ seen = "INITIALIZED"
  BY DEF ShowState, Return, IInv, NothingInHand
<1>3. sys' \in SysStates /\ seen' \in States /\ stray' \in BOOLEAN
  BY <1>1 DEF IInv, TypeOK, SysStates
<1>4. sys'.current = target /\ sys'.saved = sys.saved
  BY <1>1 DEF IInv, TypeOK
<1>5. ErrorIsReal'
  BY <1>1, <1>4 DEF SetKeeps, IInv, ErrorIsReal, RoundIsReal
<1>6. ~stray => target \notin Values
  BY DEF IInv, TaskEditsNothing, ReturnStates, Values
<1>7. ShowsWhatIsEdited'
  BY <1>1, <1>4, <1>6 DEF SetKeeps, IInv, ShowsWhatIsEdited, ValueOf, uiVars
<1>8. ~stray' => /\ ~stray
                 /\ sys'.saved \in ReturnStates
                 /\ pc' = "indicator" => sys'.current # "CRIT_ERROR"
                 /\ pc' \in Saving
                      => {sys'.current, seen'} \subseteq ReturnStates \cup Values
  BY <1>1, <1>2, <1>4 DEF IInv, TaskEditsNothing, Saving
<1>9. ~raced /\ seen' = "ERROR" => "ERROR" \in flags
  BY <1>1, <1>2
<1>10. pc \notin {"init", "loaded", "get", "choose"}
  BY <1>2
<1> QED
  BY <1>1, <1>2, <1>3, <1>5, <1>7, <1>8, <1>9, <1>10, SetStepInv

\* The select button gets its first callback.
LEMMA IUiInitInv == IInv /\ IUiInit => IInv'
<1> SUFFICES ASSUME IInv, IUiInit PROVE IInv'
  OBVIOUS
<1>1. target' \in States
  BY DEF IUiInit, States, SYS_STATE
<1>2. TypeOK'
  BY <1>1 DEF IUiInit, IInv, TypeOK, Callbacks, Labels, pastVars
<1>3. ErrorIsReal' /\ RoundIsReal' /\ TaskEditsNothing' /\ NothingInHand'
  BY DEF IUiInit, IInv, ErrorIsReal, RoundIsReal, TaskEditsNothing,
         NothingInHand, ReturnStates, Saving, pastVars
<1>4. ShowsWhatIsEdited'
  BY DEF IUiInit, IInv, ShowsWhatIsEdited, ValueOf, pastVars
<1>5. ButtonsAgree' /\ EditIsNotForgotten' /\ PostsOnlyFinishedEdits' /\ HeldRunIsEnded'
  BY DEF IUiInit, IInv, ButtonsAgree, EditIsNotForgotten,
         PostsOnlyFinishedEdits, HeldRunIsEnded, pastVars
<1> QED
  BY <1>2, <1>3, <1>4, <1>5 DEF IInv

LEMMA InitDoneInv == IInv /\ InitDone => IInv'
<1> SUFFICES ASSUME IInv, InitDone PROVE IInv'
  OBVIOUS
<1>1. flags' \subseteq Flags /\ ("ERROR" \in flags' <=> "ERROR" \in flags)
  BY DEF InitDone, IInv, TypeOK
<1>2. TypeOK'
  BY <1>1 DEF InitDone, IInv, TypeOK, Labels, uiVars, pastVars
<1>3. ErrorIsReal' /\ RoundIsReal' /\ TaskEditsNothing' /\ NothingInHand'
  BY <1>1 DEF InitDone, IInv, ErrorIsReal, RoundIsReal, TaskEditsNothing,
         NothingInHand, Saving, pastVars
<1>4. ShowsWhatIsEdited'
  BY DEF InitDone, IInv, ShowsWhatIsEdited, ValueOf, uiVars, pastVars
<1>5. ButtonsAgree' /\ EditIsNotForgotten' /\ PostsOnlyFinishedEdits' /\ HeldRunIsEnded'
  BY ButtonsKept DEF InitDone, pastVars
<1> QED
  BY <1>2, <1>3, <1>4, <1>5 DEF IInv

\* What a callback that shows only values or states to return to leaves the task.
LEMMA TaskKept ==
    ASSUME IInv, UNCHANGED <<taskVars, stray>>,
           ~stray => /\ sys'.saved \in ReturnStates
                     /\ sys'.current \in {sys.current} \cup ReturnStates \cup Values
    PROVE  TaskEditsNothing' /\ NothingInHand'
<1>1. UNCHANGED <<pc, target, seen, stray>>
  BY DEF taskVars, setVars
<1>2. "CRIT_ERROR" \notin ReturnStates \cup Values
  BY DEF ReturnStates, Values
<1> QED
  BY <1>1, <1>2 DEF IInv, TaskEditsNothing, NothingInHand

\* The held button: its release is going to end the run.
LEMMA IButtonCallbackPumpOnInv == IInv /\ IButtonCallbackPumpOn => IInv'
<1> SUFFICES ASSUME IInv, IButtonCallbackPumpOn PROVE IInv'
  OBVIOUS
<1>1. TypeOK'
  BY DEF IButtonCallbackPumpOn, IInv, TypeOK, Callbacks, taskVars, setVars
<1>2. ErrorIsReal' /\ RoundIsReal' /\ ShowsWhatIsEdited'
  BY DEF IButtonCallbackPumpOn, IInv, ErrorIsReal, RoundIsReal,
         ShowsWhatIsEdited, ValueOf, taskVars, setVars
<1>3. TaskEditsNothing' /\ NothingInHand'
  BY TaskKept DEF IButtonCallbackPumpOn, IInv, TaskEditsNothing
<1>4. ButtonsAgree' /\ EditIsNotForgotten' /\ PostsOnlyFinishedEdits' /\ HeldRunIsEnded'
  BY DEF IButtonCallbackPumpOn, IInv, ButtonsAgree, EditIsNotForgotten,
         PostsOnlyFinishedEdits, HeldRunIsEnded, taskVars, setVars
<1> QED
  BY <1>1, <1>2, <1>3, <1>4 DEF IInv

\* A value changes while the inactivity timer runs.
LEMMA IButtonCallbackIncDecInv == IInv /\ IButtonCallbackIncDec => IInv'
<1> SUFFICES ASSUME IInv, IButtonCallbackIncDec PROVE IInv'
  OBVIOUS
<1>1. TypeOK'
  BY DEF IButtonCallbackIncDec, IInv, TypeOK, Values, ValueOf, taskVars, setVars,
         pastVars
<1>2. ErrorIsReal' /\ RoundIsReal' /\ ShowsWhatIsEdited'
  BY DEF IButtonCallbackIncDec, IInv, ErrorIsReal, RoundIsReal,
         ShowsWhatIsEdited, ValueOf, taskVars, setVars, pastVars
<1>3. TaskEditsNothing' /\ NothingInHand'
  BY TaskKept DEF IButtonCallbackIncDec, IInv, TaskEditsNothing, pastVars
<1>4. ButtonsAgree' /\ EditIsNotForgotten' /\ PostsOnlyFinishedEdits' /\ HeldRunIsEnded'
  BY DEF IButtonCallbackIncDec, IInv, ButtonsAgree, EditIsNotForgotten,
         PostsOnlyFinishedEdits, HeldRunIsEnded, taskVars, setVars, pastVars
<1> QED
  BY <1>1, <1>2, <1>3, <1>4 DEF IInv

\* The values are posted.
LEMMA ITimerCallbackValueStableInv == IInv /\ ITimerCallbackValueStable => IInv'
<1> SUFFICES ASSUME IInv, ITimerCallbackValueStable PROVE IInv'
  OBVIOUS
<1>1. TypeOK'
  BY DEF ITimerCallbackValueStable, IInv, TypeOK, taskVars, setVars, pastVars
<1>2. ErrorIsReal' /\ RoundIsReal' /\ ShowsWhatIsEdited'
  BY DEF ITimerCallbackValueStable, IInv, ErrorIsReal, RoundIsReal,
         ShowsWhatIsEdited, ValueOf, taskVars, setVars, pastVars
<1>3. TaskEditsNothing' /\ NothingInHand'
  BY TaskKept DEF ITimerCallbackValueStable, IInv, TaskEditsNothing, pastVars
<1>4. ButtonsAgree' /\ EditIsNotForgotten' /\ PostsOnlyFinishedEdits' /\ HeldRunIsEnded'
  BY DEF ITimerCallbackValueStable, IInv, ButtonsAgree, EditIsNotForgotten,
         PostsOnlyFinishedEdits, HeldRunIsEnded, taskVars, setVars, pastVars
<1> QED
  BY <1>1, <1>2, <1>3, <1>4 DEF IInv

\* Flags come and go; nothing but the UI clears an error.
LEMMA EnvironmentInv == IInv /\ Environment => IInv'
<1> SUFFICES ASSUME IInv, Environment PROVE IInv'
  OBVIOUS
<1>1. flags' \subseteq Flags /\ ("ERROR" \in flags => "ERROR" \in flags')
  BY ErrorsAssumption DEF Environment, SystemRaiseError, FlagSet, FlagClear,
         ScheduleLoaded, IInv, TypeOK, Flags, ErrorFlags
<1>2. Quiet
  BY DEF Environment, SystemRaiseError, FlagSet, FlagClear, ScheduleLoaded
<1>3. TypeOK'
  BY <1>1, <1>2 DEF Quiet, IInv, TypeOK, taskVars, setVars, uiVars, pastVars
<1>4. ErrorIsReal' /\ RoundIsReal' /\ ShowsWhatIsEdited'
  BY <1>1, <1>2 DEF Quiet, IInv, ErrorIsReal, RoundIsReal, ShowsWhatIsEdited,
         ValueOf, taskVars, setVars, uiVars, pastVars
<1>5. TaskEditsNothing' /\ NothingInHand'
  BY <1>2, TaskKept DEF Quiet, IInv, TaskEditsNothing, pastVars
<1>6. ButtonsAgree' /\ EditIsNotForgotten' /\ PostsOnlyFinishedEdits' /\ HeldRunIsEnded'
  BY <1>2 DEF Quiet, IInv, ButtonsAgree, EditIsNotForgotten,
         PostsOnlyFinishedEdits, HeldRunIsEnded, taskVars, setVars, uiVars, pastVars
<1> QED
  BY <1>3, <1>4, <1>5, <1>6 DEF IInv

-----------------------------------------------------------------------------
(* The callbacks that show states.                                         *)

\* When the UI becomes inactive no value is edited, shown or left unposted.
LEMMA DeactivateInv ==
    ASSUME IInv, NEW s \in SysStates, Deactivate(s), UNCHANGED taskVars,
           flags' \subseteq Flags, pc # "init",
           raced' \in BOOLEAN, stray' \in BOOLEAN, manual' \in {"off", "cut"},
           ~raced' => /\ s.current = "ERROR" \/ s.saved = "ERROR" => "ERROR" \in flags'
                      /\ RoundIsReal',
           s.current \in {sys.current, "IDLE"}, s.saved \in {sys.saved, "IDLE"},
           ~stray' /\ stray => pc = "get" /\ s.current = "IDLE" /\ s.saved = "IDLE"
    PROVE  IInv'
<1>1. s.saved \in States
  BY DEF SysStates
<1>2. /\ sys' \in SysStates
      /\ sys'.saved # s.saved
           => sys'.saved = s.current /\ s.current \in {"IDLE", "ERROR"}
      /\ sys'.current \in {s.current, s.saved}
      /\ s.current # "CRIT_ERROR" => sys'.current = s.saved
  BY <1>1, SetFacts DEF Deactivate, ISysStateReturn
<1>3. UNCHANGED <<pc, target, seen, sys_flags, prev, init_done>>
  BY DEF taskVars, setVars
<1>4. TypeOK'
  <2>1. selected' \in 0..1
    BY DEF Deactivate
  <2>2. unposted' \in BOOLEAN
    BY DEF Deactivate, IInv, TypeOK
  <2> QED
    BY <1>2, <1>3, <2>1, <2>2, Zenon DEF Deactivate, IInv, TypeOK, SysStates,
       Callbacks
<1>5. ErrorIsReal' /\ RoundIsReal'
  BY <1>2 DEF ErrorIsReal, RoundIsReal
<1>6. ~stray' => s.saved \in ReturnStates /\ sys'.saved \in ReturnStates
  BY <1>2 DEF IInv, TaskEditsNothing, ReturnStates
<1>7. ~stray' => sys'.current \in {"CRIT_ERROR"} \cup ReturnStates
  BY <1>2, <1>6
<1>8. TaskEditsNothing' /\ NothingInHand'
  <2>1. CASE stray
    <3>1. NothingInHand'
      BY <1>3 DEF IInv, NothingInHand
    <3>2. ~stray' => pc' = "get" /\ target' = "INITIALIZED"
      BY <2>1, <1>3 DEF IInv, NothingInHand
    <3> QED
      BY <1>6, <3>1, <3>2 DEF TaskEditsNothing, ReturnStates, Saving
  <2>2. CASE ~stray
    <3>1. ~stray' => sys'.current \in {sys.current} \cup ReturnStates
      BY <1>2, <1>6 DEF ReturnStates
    <3> QED
      BY <2>2, <1>3, <1>6, <3>1 DEF IInv, TaskEditsNothing, NothingInHand,
         ReturnStates
  <2> QED BY <2>1, <2>2
<1>9. ShowsWhatIsEdited'
  BY <1>7 DEF Deactivate, ShowsWhatIsEdited, ReturnStates, Values
<1>10. ButtonsAgree' /\ EditIsNotForgotten' /\ PostsOnlyFinishedEdits' /\ HeldRunIsEnded'
  BY <1>3 DEF Deactivate, ButtonsAgree, EditIsNotForgotten,
     PostsOnlyFinishedEdits, HeldRunIsEnded
<1> QED
  BY <1>4, <1>5, <1>8, <1>9, <1>10 DEF IInv

\* The inactivity timer, also while the button is held.
LEMMA ITimerCallbackUiInactiveInv == IInv /\ ITimerCallbackUiInactive => IInv'
<1> SUFFICES ASSUME IInv, ITimerCallbackUiInactive PROVE IInv'
  OBVIOUS
<1>1. sys \in SysStates /\ Deactivate(sys)
  BY DEF ITimerCallbackUiInactive, IInv, TypeOK, SysStates
<1>2. manual' \in {"off", "cut"} /\ pc # "init"
  BY DEF ITimerCallbackUiInactive, IInv, TypeOK, ButtonsAgree
<1>3. UNCHANGED <<flags, taskVars, raced, stray>>
  BY DEF ITimerCallbackUiInactive
<1>4. flags' \subseteq Flags /\ raced' \in BOOLEAN /\ stray' \in BOOLEAN
  BY <1>3 DEF IInv, TypeOK
<1>5. (sys.current = "ERROR" \/ sys.saved = "ERROR") /\ ~raced' => "ERROR" \in flags'
  BY <1>3 DEF IInv, ErrorIsReal
<1>6. RoundIsReal'
  BY <1>3 DEF IInv, RoundIsReal, taskVars, setVars
<1> QED
  BY <1>1, <1>2, <1>3, <1>4, <1>5, <1>6, DeactivateInv

\* Releasing the button when an error is shown clears it.
LEMMA ClearErrorInv ==
    ASSUME IInv, UNCHANGED taskVars, IButtonCallbackClearError
    PROVE  IInv'
<1>1. /\ Cleared(sys) \in SysStates
      /\ Cleared(sys).current = "IDLE" /\ Cleared(sys).saved = "IDLE"
  BY DEF Cleared, SysStates, States, SYS_STATE
<1>2. /\ (pc # "get") \in BOOLEAN /\ raced' = (pc # "get")
      /\ (stray /\ pc # "get") \in BOOLEAN /\ stray' = (stray /\ pc # "get")
  BY DEF IButtonCallbackClearError
<1>3. Deactivate(Cleared(sys)) /\ flags' \subseteq Flags
  BY DEF IButtonCallbackClearError, IInv, TypeOK
<1>4. manual' \in {"off", "cut"} /\ pc # "init"
  BY DEF IButtonCallbackClearError, IInv, TypeOK, ButtonsAgree, HeldRunIsEnded
<1>5. ~raced' => RoundIsReal'
  BY <1>2 DEF RoundIsReal, IInv, NothingInHand, taskVars, setVars
<1>6. ~stray' /\ stray => pc = "get"
  BY <1>2
<1> QED
  BY <1>1, <1>2, <1>3, <1>4, <1>5, <1>6, DeactivateInv

\* Releasing it otherwise activates the UI or selects the other value.
LEMMA UiActivateInv ==
    ASSUME IInv, UNCHANGED taskVars, IButtonCallbackUiActivate
    PROVE  IInv'
<1>1. sys \in SysStates /\ "SET_AMOUNT" \in States
  BY DEF IInv, TypeOK, SysStates, States, SYS_STATE
<1>2. ~incdec /\ selected = 0 /\ saved = "Activate" /\ pc # "init" /\ manual # "on"
  BY DEF IButtonCallbackUiActivate, IInv, TypeOK, ButtonsAgree, HeldRunIsEnded
<1>3. /\ sys' \in SysStates
      /\ sys'.saved # sys.saved
           => sys'.saved = sys.current /\ sys.current \in {"IDLE", "ERROR"}
      /\ sys'.current \in {sys.current, "SET_AMOUNT"}
      /\ sys'.current # sys.current => incdec'
  BY <1>1, SetFacts DEF IButtonCallbackUiActivate
<1>4. UNCHANGED <<flags, manual, raced, stray, pc>>
  BY DEF IButtonCallbackUiActivate, taskVars, setVars, pastVars
<1>5. TypeOK'
  BY <1>2, <1>3, <1>4 DEF IButtonCallbackUiActivate, IInv, TypeOK, SysStates,
     Callbacks, Values, ValueOf, taskVars, setVars
<1>6. ErrorIsReal' /\ RoundIsReal'
  BY <1>3, <1>4 DEF IInv, ErrorIsReal, RoundIsReal, taskVars, setVars
<1>7. TaskEditsNothing' /\ NothingInHand'
  BY <1>3, <1>4, TaskKept DEF IInv, TaskEditsNothing, ReturnStates, Values
<1>8. ShowsWhatIsEdited'
  BY <1>2, <1>3, <1>4 DEF IButtonCallbackUiActivate, IInv, ShowsWhatIsEdited,
     ValueOf, Values
<1>9. ButtonsAgree' /\ EditIsNotForgotten' /\ PostsOnlyFinishedEdits' /\ HeldRunIsEnded'
  BY <1>2, <1>4 DEF IButtonCallbackUiActivate, IInv, ButtonsAgree,
     EditIsNotForgotten, PostsOnlyFinishedEdits, HeldRunIsEnded
<1> QED
  BY <1>5, <1>6, <1>7, <1>8, <1>9 DEF IInv

\* The other value is selected, shown and announced.
LEMMA SelectInv ==
    ASSUME IInv, UNCHANGED taskVars, IButtonCallbackSelect
    PROVE  IInv'
<1>1. sys \in SysStates /\ ValueOf(selected') \in States /\ ValueOf(selected') \in Values
  BY DEF IInv, TypeOK, SysStates, States, SYS_STATE, ValueOf, Values
<1>2. incdec /\ pc # "init" /\ manual # "on" /\ selected' \in 0..1
  BY DEF IButtonCallbackSelect, IInv, TypeOK, ButtonsAgree, HeldRunIsEnded
<1>3. /\ sys' \in SysStates
      /\ sys'.saved # sys.saved
           => sys'.saved = sys.current /\ sys.current \in {"IDLE", "ERROR"}
      /\ sys'.current \in {sys.current, ValueOf(selected')}
      /\ sys.current # "CRIT_ERROR" => sys'.current = ValueOf(selected')
  BY <1>1, SetFacts DEF IButtonCallbackSelect
<1>4. UNCHANGED <<flags, manual, raced, stray, pc>>
  BY DEF IButtonCallbackSelect, taskVars, setVars, pastVars
<1>5. TypeOK'
  BY <1>1, <1>2, <1>3, <1>4 DEF IButtonCallbackSelect, IInv, TypeOK, SysStates,
     taskVars, setVars
<1>6. ErrorIsReal' /\ RoundIsReal'
  BY <1>1, <1>3, <1>4 DEF IInv, ErrorIsReal, RoundIsReal, Values, taskVars, setVars
<1>7. TaskEditsNothing' /\ NothingInHand'
  BY <1>1, <1>3, <1>4, TaskKept DEF IInv, TaskEditsNothing, ReturnStates
<1>8. ShowsWhatIsEdited'
  BY <1>1, <1>2, <1>3 DEF IButtonCallbackSelect, ShowsWhatIsEdited, Values
<1>9. ButtonsAgree' /\ EditIsNotForgotten' /\ PostsOnlyFinishedEdits' /\ HeldRunIsEnded'
  BY <1>1, <1>2, <1>4 DEF IButtonCallbackSelect, IInv, ButtonsAgree,
     EditIsNotForgotten, PostsOnlyFinishedEdits, HeldRunIsEnded
<1> QED
  BY <1>5, <1>6, <1>7, <1>8, <1>9 DEF IInv

\* Releasing it after it was held restores what the button did.
LEMMA PumpOffInv ==
    ASSUME IInv, UNCHANGED taskVars, IButtonCallbackPumpOff
    PROVE  IInv'
<1>1. saved # "PumpOff" /\ pc # "init"
  BY DEF IButtonCallbackPumpOff, IInv, TypeOK, ButtonsAgree
<1>2. TypeOK'
  BY DEF IButtonCallbackPumpOff, IInv, TypeOK, Callbacks, taskVars, setVars
<1>3. ErrorIsReal' /\ RoundIsReal' /\ ShowsWhatIsEdited'
  BY DEF IButtonCallbackPumpOff, IInv, ErrorIsReal, RoundIsReal,
     ShowsWhatIsEdited, ValueOf, taskVars, setVars
<1>4. TaskEditsNothing' /\ NothingInHand'
  BY TaskKept DEF IButtonCallbackPumpOff, IInv, TaskEditsNothing
<1>5. ButtonsAgree' /\ EditIsNotForgotten' /\ PostsOnlyFinishedEdits' /\ HeldRunIsEnded'
  BY <1>1 DEF IButtonCallbackPumpOff, IInv, ButtonsAgree, EditIsNotForgotten,
     PostsOnlyFinishedEdits, HeldRunIsEnded, taskVars, setVars
<1> QED
  BY <1>2, <1>3, <1>4, <1>5 DEF IInv

\* Every step preserves the invariant.
LEMMA StepInv == IInv /\ [Next]_vars => IInv'
<1> SUFFICES ASSUME IInv, [Next]_vars PROVE IInv'
  OBVIOUS
<1>1. CASE Task
  BY <1>1, IUiInitInv, InitDoneInv, GetFlagsInv, ChooseStateInv, DecideInv,
     ReadInv, OrderInv, SaveStateInv, ShowStateInv DEF Task
<1>2. CASE IButtonCallbackPumpOn \/ IButtonCallbackIncDec
  BY <1>2, IButtonCallbackPumpOnInv, IButtonCallbackIncDecInv
<1>3. CASE Release
  BY <1>3, PumpOffInv, UiActivateInv, SelectInv, ClearErrorInv DEF Release
<1>4. CASE ITimerCallbackUiInactive \/ ITimerCallbackValueStable
  BY <1>4, ITimerCallbackUiInactiveInv, ITimerCallbackValueStableInv
<1>5. CASE Environment
  BY <1>5, EnvironmentInv
<1>6. CASE UNCHANGED vars
  <2>1. UNCHANGED <<flags, taskVars, sys, uiVars, manual, raced, stray>>
    BY <1>6 DEF vars, pastVars
  <2>2. TypeOK' /\ ErrorIsReal' /\ RoundIsReal' /\ ShowsWhatIsEdited'
    BY <2>1 DEF IInv, TypeOK, ErrorIsReal, RoundIsReal, ShowsWhatIsEdited,
       ValueOf, taskVars, setVars, uiVars
  <2>3. TaskEditsNothing' /\ NothingInHand'
    BY <2>1, TaskKept DEF IInv, TaskEditsNothing
  <2>4. ButtonsAgree' /\ EditIsNotForgotten' /\ PostsOnlyFinishedEdits' /\ HeldRunIsEnded'
    BY <2>1 DEF IInv, ButtonsAgree, EditIsNotForgotten, PostsOnlyFinishedEdits,
       HeldRunIsEnded, taskVars, setVars, uiVars
  <2> QED BY <2>2, <2>3, <2>4 DEF IInv
<1> QED
  BY <1>1, <1>2, <1>3, <1>4, <1>5, <1>6 DEF Next

-----------------------------------------------------------------------------
(* The theorems.                                                           *)

\* The inductive invariant: the task, the buttons and the timers agree about
\* what is shown, edited and posted, whatever comes between two readings of
\* CurrentState.
THEOREM InvariantCorrect == Spec => []IInv
BY InitInv, StepInv, PTL DEF Spec

\* Every variable keeps its type.
THEOREM TypeCorrect == Spec => []TypeOK
<1>1. IInv => TypeOK
  BY DEF IInv
<1> QED BY <1>1, InvariantCorrect, PTL

\* No error is shown, or returned to, that is not there: ISysStateSet and
\* SystemClearError, unless the error was cleared within a round of the task.
THEOREM ErrorsAreReal == Spec => []ErrorIsReal
<1>1. IInv => ErrorIsReal
  BY DEF IInv
<1> QED BY <1>1, InvariantCorrect, PTL

\* The LED, the display and the buttons agree about the value that is edited,
\* until the task has saved a state a button has shown behind its check.
THEOREM EditIsShown == Spec => []ShowsWhatIsEdited
<1>1. IInv => ShowsWhatIsEdited
  BY DEF IInv
<1> QED BY <1>1, InvariantCorrect, PTL

\* A changed value waits for one of the two timers, and is not posted while the
\* buttons can change it.
THEOREM EditsAreKept == Spec => [](EditIsNotForgotten /\ PostsOnlyFinishedEdits)
<1>1. IInv => EditIsNotForgotten /\ PostsOnlyFinishedEdits
  BY DEF IInv
<1> QED BY <1>1, InvariantCorrect, PTL

\* Releasing a held button ends the manual run it has asked for, unless the
\* inactivity timer expired meanwhile.
THEOREM ManualRunEnds == Spec => []HeldRunIsEnded
<1>1. IInv => HeldRunIsEnded
  BY DEF IInv
<1> QED BY <1>1, InvariantCorrect, PTL
=============================================================================
