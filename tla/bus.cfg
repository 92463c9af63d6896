SPECIFICATION FairSpec
CONSTANTS
    n1 = n1
    n2 = n2
    Nodes = {n1, n2}
    Prios = {1, 2}
    Asks <- MCAsks
    Listeners = {n1}
    Sizes = {2}
    Timeouts = {0, 8}
    ListenTimeout = 1
    ARBITRATION_DELAY_BASE = 1
    RX_BUFFER_SIZE = 3
    MaxCalls = 1
INVARIANTS
    YieldsToHigher
    TransceiverFollowsState
    WaitIsLimited
PROPERTIES
    ImplementsRequests
    BusIsReleased
