SPECIFICATION Spec
CONSTANTS
    Serials = {s1, s2}
    NoSerial = NoSerial
    Values = {v1, v2}
    NoValue = NoValue
    StatusFreq = 50
    MaxSequence = 6
    Allowed = {"rewrite"}
SYMMETRY Symmetry
PROPERTY RollbackRestores
