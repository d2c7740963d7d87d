SPECIFICATION Spec
CONSTANTS
    Serials = {s1, s2}
    NoSerial = NoSerial
    Values = {v}
    NoValue = NoValue
    StatusFreq = 5
    MaxSequence = 6
    Readers = {r1}
    Deaths = {"crash"}
SYMMETRY Symmetry
INVARIANTS TypeOK WriterReadsWork PublishedIntact ReadOutcome
PROPERTIES ImplementsCalls
