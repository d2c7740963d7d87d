SPECIFICATION RSpec
CONSTANTS
    Serials = {s1}
    NoSerial = NoSerial
    Values = {v1}
    NoValue = NoValue
    StatusFreq = 4
    MaxSequence = 3
    Allowed = {}
    MaxLives = 1
PROPERTIES ReplicaCatchesUp
