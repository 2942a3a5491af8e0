\* Two transactions in one worker, which may stop at any step, with refusals and faults
\* that put messages back beside the buffered ones
SPECIFICATION Spec
CONSTANTS
    w1 = w1
    w2 = w2
    w3 = w3
    Workers = {w1}
    Running = {w1}
    Txs = {0, 1}
    Returned = {}
    BatchSize = 2
    BufferSize = 2
    MaxRetries = 2
    Answers = {"permanent"}
    Faults = {"retryable"}
    Overlap = FALSE
INVARIANTS TypeOK RecordsTrue DeletedAccounted
PROPERTIES OrderKept
CHECK_DEADLOCK FALSE
