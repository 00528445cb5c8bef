CONSTANTS
    a = a
    b = b
    empty = empty
    small = small
    tiny = tiny
    shared = shared
    own = own
    m = m
    video = video
    Threads = {t1, t2}
    States = {shared, own}
    SharedState = shared
    Models = {m}
    SequenceModels = {}
    NoModel = NoModel
    Nothing = Nothing
    Frames = {a, b}
    EmptyFrame = empty
    SizeOf <- OneSize
    Sizes = {small}
    TinySizes = {}
    Unhashed = {}
    Requests <- FreezeRequests
    Attempts = 1
    Tiles = 1
    Buffers = {b1, b2}
    NoBuffer = NoBuffer
    max_buffers_ = 1
    MaxLimit = 1
    MaxRenders = 3
    MaxPurges = 1
SPECIFICATION Spec
SYMMETRY Symmetry
INVARIANTS
    FrozenOutputIsOfItsHash
CHECK_DEADLOCK FALSE
