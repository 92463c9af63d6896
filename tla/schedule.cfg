SPECIFICATION FairSpec
CONSTANTS
    HOURS_IN_DAY = 4
    MaxAmount = 1
    Stored <- StoredSchedules
INVARIANTS
    AlarmIsDue
    PostsAreAmounts
PROPERTIES
    RingsWhenDue
    AlarmServed
    EditsTakeEffect
