SPECIFICATION ClaimSpec
CONSTANTS
    Amounts = {1}
    PumpInits = {FALSE}
    TmrReloads = {TRUE, FALSE}
    TmrCreateOk = {TRUE}
    MoistureReadings = {1}
    TriggerAddress = 2
PROPERTIES
    AlarmIsHandled
