SPECIFICATION FairSpec
CONSTANT
    Errors = {"ERROR", "ERROR_CRIT"}
INVARIANTS
    ErrorIsReal
    
    EditIsNotForgotten
    HeldRunIsEnded
PROPERTIES
    FlagsAreShown
    NothingStaleStays
