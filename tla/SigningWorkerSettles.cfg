\* One instance that runs on, databases and queues without failures, signing may fail; no symmetry (liveness)
SPECIFICATION FairSpec
CONSTANTS
    r1 = r1
    r2 = r2
    i1 = i1
    i2 = i2
    usdt = usdt
    Requests <- Both
    Instances = {i1}
    Tokens = {usdt}
    Token <- AllUsdt
    MaxCopies = 2
    MaxLive = 1
    BatchSize = 2
    MinBatchSize = 2
    BatchThreshold = 2
    InfraErrors = {}
    SignErrors = {"connection", "hostname", "fatal"}
    BatchErrors = {"hostname", "funds", "fatal"}
    Unstable = {}
    NoInstance = NoInstance
INVARIANTS FailedNotPublished NoneStranded
PROPERTIES Settles
CHECK_DEADLOCK FALSE
