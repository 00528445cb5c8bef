SPECIFICATION Spec
CONSTANTS
    h1 = h1
    Hosts = {h1, h2}
    Services = {s1, s2}
    FixedPort = FixedPort
    NoPort = NoPort
    NoService = NoService
    Options <- MCOptions
    Deadline = 2
    MaxStarts = 2
    MaxCrashes = 1
    Models = {m1, m2}
    NoModel = NoModel
    Frames = {f1}
    NoFrame = NoFrame
    Endpoint = Endpoint
    MaxRuns <- MCMaxRuns
INVARIANTS
    GivesUpOnlyOnSilence
    OneServiceInUse
    SuccessLeavesNoFile
    RunIsAnswered
    TempFilesGo
CHECK_DEADLOCK FALSE
