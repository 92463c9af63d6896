SPECIFICATION FairSpec
CONSTANTS
    Latencies = {1}
    Works = {0, 2}
    AnswerWorks = {0, 1}
INVARIANTS
    SlotsAreHeard
PROPERTIES
    SlaveIsFound
