SPECIFICATION Spec
CONSTANTS
    Serials = {s1, s2}
    NoSerial = NoSerial
    Values = {v1, v2}
    NoValue = NoValue
    StatusFreq = 5
    MaxSequence = 6
    Allowed = {"fault"}
SYMMETRY Symmetry
INVARIANT OpenTransactionPublished
PROPERTY ImplementsTxStore
