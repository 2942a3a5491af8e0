\* Two requests, one of them unfit; a server and one live instance that stop and are replaced, every fault
SPECIFICATION PipelineSpec
CONSTANTS
    r1 = r1
    r2 = r2
    i1 = i1
    i2 = i2
    usdt = usdt
    Requests = {r1, r2}
    Fit = {r1}
    Faults = {"call", "doubt"}
    MaxRestarts = 2
    Instances = {i1, i2}
    Tokens = {usdt}
    Token <- AllUsdt
    MaxCopies = 2
    MaxLive = 1
    BatchSize = 2
    MinBatchSize = 1
    BatchThreshold = 1
    InfraErrors = {"timeout", "hostname"}
    SignErrors = {"fatal"}
    BatchErrors = {"funds"}
    Unstable = {i1, i2}
    NoInstance = NoInstance
INVARIANTS ApiTypeOK WaitingIsQueued RefusedUnpaid
PROPERTIES RefinesSignOnce OnlySignedPublished
CHECK_DEADLOCK FALSE
