SPECIFICATION Spec
CONSTANTS
    Serials = {s1, s2}
    NoSerial = NoSerial
    Values = {v1}
    NoValue = NoValue
    StatusFreq = 4
    MaxSequence = 7
    Allowed = {"rewrite", "dirtyClose", "crash"}
SYMMETRY Symmetry
INVARIANTS TypeOK IndexNamesRecord LogNamesRecord DataIsMaster LogEnumeratesData SavedStateLag
