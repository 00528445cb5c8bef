CONSTANTS
    a = a
    b = b
    empty = empty
    small = small
    tiny = tiny
    shared = shared
    own = own
    m = m
    video = video
    Threads = {t1}
    States = {shared, own}
    SharedState = shared
    Models = {m, video}
    SequenceModels = {video}
    NoModel = NoModel
    Nothing = Nothing
    Frames = {a, b, empty}
    EmptyFrame = empty
    SizeOf <- TinyB
    Sizes = {small, tiny}
    TinySizes = {tiny}
    Unhashed = {b}
    Requests <- ModelRequests
    Attempts = 2
    Tiles = 2
    Buffers = {b1, b2}
    NoBuffer = NoBuffer
    max_buffers_ = 1
    MaxLimit = 2
    MaxRenders = 3
    MaxPurges = 0
SPECIFICATION FairSpec
INVARIANTS
    OutputIsOfRequest
PROPERTY EveryRenderReturns
CHECK_DEADLOCK FALSE
