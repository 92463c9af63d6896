SPECIFICATION FairSpec
CONSTANTS
    ROMCODE_BITS = 4
    FAMILY_BITS = 1
    MAX_DEVICES = 3
    MaxOnBus = 4
INVARIANTS
    FindsFamily
    RecordedWasThere
PROPERTIES
    SearchEnds
