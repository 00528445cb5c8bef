CONSTANTS
    a = a
    b = b
    c = c
    d = d
    u = u
    s = s
    Blank = blank
    Frames <- AllFrames
    HashOf <- Hashes
    SizeOf <- Sizes
    Models <- TwoModels
    MinHistory = 2
    RequiredHits = 2
    Cooldown = 2
SPECIFICATION Spec
INVARIANTS
    WindowIsReal
    ShowsRequest
PROPERTY
    ImplementsSlidingWindow
