\* Two live instances that may crash, two requests that one signs as a batch and the other alone
SPECIFICATION Spec
CONSTANTS
    r1 = r1
    r2 = r2
    i1 = i1
    i2 = i2
    usdt = usdt
    Requests <- Both
    Instances = {i1, i2}
    Tokens = {usdt}
    Token <- AllUsdt
    MaxCopies = 1
    MaxLive = 2
    BatchSize = 2
    MinBatchSize = 2
    BatchThreshold = 2
    InfraErrors = {"hostname"}
    SignErrors = {"fatal"}
    BatchErrors = {}
    Unstable = {i1, i2}
    NoInstance = NoInstance
SYMMETRY Symmetry
INVARIANTS AtMostOnePublished
CHECK_DEADLOCK FALSE
