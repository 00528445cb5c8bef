CONSTANTS
    Procs = {p1, p2}
    f1 = f1
    f2 = f2
    f3 = f3
    Files <- AllFiles
    Entries <- InOrder
    Primary = primary
    Secondary = secondary
    Legacy = legacy
    HasSecondary = TRUE
SPECIFICATION FairSpec
INVARIANTS
    ReadyMeansWhole
    SettlesWhole
PROPERTY EveryCallReturns
