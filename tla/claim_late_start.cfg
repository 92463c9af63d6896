SPECIFICATION Spec
CONSTANTS
    Amounts = {1}
    PumpInits = {FALSE}
    TmrReloads = {TRUE, FALSE}
    TmrCreateOk = {TRUE, FALSE}
    MoistureReadings = {1}
    TriggerAddress = 2
INVARIANTS
    RunsOnlyEnabled
