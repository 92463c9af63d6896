SPECIFICATION FairSpec
CONSTANTS
    Amounts = {1}
    PumpInits = {TRUE, FALSE}
    TmrReloads = {TRUE, FALSE}
    TmrCreateOk = {TRUE, FALSE}
    MoistureReadings = {0, 1}
    TriggerAddress = 2
INVARIANTS
    OnlyLateStartsDefyVeto
    RunningIsSupervised
    DelayedRunHasAmount
PROPERTIES
    ImplementsInterlock
    JamIsForever
    DryRunEnds
    StopIsObeyed
