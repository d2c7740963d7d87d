SPECIFICATION Spec
CONSTANTS
    RecSize = 2
    DynSizes = {3, 4}
    StructSize = 1
    BufferSizes = {0, 1, 2}
    CacheSizes = {0, 3}
    MaxRecords = 3
    MaxWrites = 3
INVARIANTS TypeOK CacheCoherent ScanAligned
PROPERTIES ReadFinds
