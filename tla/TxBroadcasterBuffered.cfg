\* One worker that keeps running, a node that takes everything, no faults
SPECIFICATION FairSpec
CONSTANTS
    w1 = w1
    w2 = w2
    w3 = w3
    Workers = {w1}
    Running = {w1}
    Txs = {0, 1}
    Returned = {}
    BatchSize = 2
    BufferSize = 2
    MaxRetries = 2
    Answers = {}
    Faults = {}
    Overlap = FALSE
PROPERTIES Delivered
CHECK_DEADLOCK FALSE
