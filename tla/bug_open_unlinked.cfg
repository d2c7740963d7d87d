SPECIFICATION Spec
CONSTANTS
    Procs = {p1}
    Writer = p1
    Keys = {k1}
    NoHash = NoHash
    Flags = {"read", "create"}
    Allowed = {"crash"}
    MaxRecords = 1
INVARIANTS OpenedLinked
