SPECIFICATION FairSpec
CONSTANTS
    SizeMax = 16383
    MaxDim = 7
    MinElements = 125
    DefaultSize <- DefaultSizeValue
    MaxArgs = 3
    LogicalCores = 2
    UnsignedMod = 16
    SizeArgs <- SizeArgsValue
    ThreadArgs = {0, 2, 9, 16}
    TimeArgs = {0, 1, 3}
    RepeatArgs = {1, 16}
    SocketArgs <- SocketArgsValue
    PrecisionArgs = {"float", "int8", "fp4"}
    Requests = {1, 2}
    SocketCount = 2
    MemoryReadings = {0, 200, 3000, 16383}
INVARIANTS SubmittedIsStandard AcceptedSizeFits NothingHeld
PROPERTIES SubmitsAtMostOnce ProgramEnds
