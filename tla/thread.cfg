SPECIFICATION Spec
CONSTANTS
    Clients = {c1, c2}
    Owner = c1
    Worker = w
    NoThread = NoThread
    MaxCalls = 3
INVARIANTS TypeOK MutexBalanced
PROPERTIES TerminateStops WakeUpReaches
CHECK_DEADLOCK FALSE
