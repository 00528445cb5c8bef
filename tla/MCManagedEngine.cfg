CONSTANTS
    depth = depth
    plain = plain
    depthOnnx = depthOnnx
    depthData = depthData
    plainOnnx = plainOnnx
    NoModel = NoModel
    Models <- MCModels
    Files <- MCFiles
    MainFile <- MCMainFile
    AssetsOf <- MCAssetsOf
    Unusable = {plain}
    Options <- MCOptions
SPECIFICATION FairSpec
INVARIANT FailuresAreExplained
PROPERTIES ImplementsEngine RunningModelStays FindsTheService RunsWhatHasArrived
