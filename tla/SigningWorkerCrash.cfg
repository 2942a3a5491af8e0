\* An instance crashes and another one takes over: the claimed request is not processed again
SPECIFICATION FairSpec
CONSTANTS
    r1 = r1
    r2 = r2
    i1 = i1
    i2 = i2
    usdt = usdt
    Requests <- One
    Instances = {i1, i2}
    Tokens = {usdt}
    Token <- AllUsdt
    MaxCopies = 2
    MaxLive = 1
    BatchSize = 2
    MinBatchSize = 1
    BatchThreshold = 1
    InfraErrors = {}
    SignErrors = {}
    BatchErrors = {}
    Unstable = {i1}
    NoInstance = NoInstance
PROPERTIES Settles
CHECK_DEADLOCK FALSE
