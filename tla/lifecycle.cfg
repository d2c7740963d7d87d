SPECIFICATION Spec
CONSTANTS
    Procs = {p1, p2}
    Writer = p1
    Keys = {k1, k2}
    NoHash = NoHash
    Flags = {"read", "write", "create"}
    Allowed = {"crash", "lose", "foreign"}
    MaxRecords = 2
INVARIANTS TypeOK WrittenSequenceKept ForeignRefused
PROPERTIES OpensWhole StaysLinked DataKept
SYMMETRY Symmetry
