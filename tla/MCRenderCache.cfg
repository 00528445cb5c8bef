CONSTANTS
    a = a
    b = b
    empty = empty
    small = small
    tiny = tiny
    shared = shared
    own = own
    m = m
    video = video
    Threads = {t1, t2}
    States = {shared}
    SharedState = shared
    Models = {m}
    SequenceModels = {}
    NoModel = NoModel
    Nothing = Nothing
    Frames = {a, b}
    EmptyFrame = empty
    SizeOf <- OneSize
    Sizes = {small}
    TinySizes = {}
    Unhashed = {}
    Requests <- CacheRequests
    Attempts = 1
    Tiles = 2
    Buffers = {b1, b2}
    NoBuffer = NoBuffer
    max_buffers_ = 1
    MaxLimit = 1
    MaxRenders = 3
    MaxPurges = 1
SPECIFICATION Spec
SYMMETRY Symmetry
INVARIANTS
    CachedDepthIsOfItsKey
    HistoryIsOfItsHash
    OutputIsOfRequest
    BuffersComeBack
    OneOwner
PROPERTY AcquiredIsClear
CHECK_DEADLOCK FALSE
