SPECIFICATION FairSpec
CONSTANTS
    Types = {0, 2}
    Readings <- MCReadings
    Statuses = {0}
    Crc <- crc8
    GARDEN_SENSOR_CONFIG_NUM_RETRIES = 2
    MaxFaults = 1
INVARIANTS
    AnswersAreFramed
    InStep
PROPERTIES
    ReadEnds
