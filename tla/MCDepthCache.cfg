CONSTANTS
    Keys = {k1, k2, k3, k4}
    Values = {f1, f2}
    MaxLimit = 3
SPECIFICATION Spec
INVARIANTS
    LruMirrorsEntries
    WithinLimit
PROPERTY ImplementsRecencyCache
