\* Two live instances that may crash, one request, every class of error
SPECIFICATION Spec
CONSTANTS
    r1 = r1
    r2 = r2
    i1 = i1
    i2 = i2
    usdt = usdt
    Requests <- One
    Instances = {i1, i2}
    Tokens = {usdt}
    Token <- AllUsdt
    MaxCopies = 2
    MaxLive = 2
    BatchSize = 2
    MinBatchSize = 1
    BatchThreshold = 1
    InfraErrors = {"timeout", "connection", "hostname", "fatal"}
    SignErrors = {"connection", "hostname", "fatal"}
    BatchErrors = {"hostname", "funds", "fatal"}
    Unstable = {i1, i2}
    NoInstance = NoInstance
SYMMETRY Symmetry
INVARIANTS TypeOK ExclusiveClaim InPlayUnpaid
PROPERTIES RefinesSignOnce
CHECK_DEADLOCK FALSE
