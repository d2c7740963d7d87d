SPECIFICATION RSpec
CONSTANTS
    Serials = {s1, s2}
    NoSerial = NoSerial
    Values = {v1, v2}
    NoValue = NoValue
    StatusFreq = 3
    MaxSequence = 5
    Allowed = {"rewrite"}
    MaxLives = 2
SYMMETRY Symmetry
INVARIANTS ReplicaMirrors ReplicaConverges ReplicaNamesRecord ReplicaReadersLag
