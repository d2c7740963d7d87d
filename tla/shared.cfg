SPECIFICATION Spec
CONSTANTS
    Serials = {s1}
    NoSerial = NoSerial
    Values = {v}
    NoValue = NoValue
    StatusFreq = 3
    Handles = {h1, h2}
    NoHandle = NoHandle
    MaxSequence = 3
    MaxOpens = 2
INVARIANTS TypeOK
PROPERTIES WriterOnly CommitKept
CHECK_DEADLOCK FALSE
