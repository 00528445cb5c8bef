SPECIFICATION FairSpec
CONSTANTS
    m1 = m1
    m2 = m2
    Models = {m1, m2}
    DefaultModel = m1
    Full = 20
    NaN = NaN
    NoTable = NoTable
    NoData = NoData
    None = None
    NoLayer = NoLayer
    HostThreads = {h1, h2}
    LegacyThreads = {l1}
    SdkCalls <- MCSdkCalls
    LegacyCalls <- MCLegacyCalls
    Environments <- MCEnvironments
    MaxCalls <- MCMaxCalls
INVARIANTS
    RenderLeavesAPicture
    RenderUsesItsParams
    PictureIsReadRight
    StaysInTheRow
    InitialisedTogether
    ModelStaysOnMenu
    SetupIsAnswered
PROPERTY
    CallsReturn
CHECK_DEADLOCK FALSE
