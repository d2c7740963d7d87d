SPECIFICATION Spec
CONSTANTS
    Clients = {c1, c2}
    NFds = 2
    HeaderLen = 2
    Lens = {2, 3}
    Huge = 9
    InitSize = 2
    BlockSize = 2
    MaxEvents = 2
    MaxRequests = 2
    NoOne = NoOne
    Allowed = {"reset", "fault"}
INVARIANTS TypeOK StreamIntact NoOverrun NothingForgotten
PROPERTIES RequestsWhole RequestsServed
CHECK_DEADLOCK FALSE
