\* One transaction, two workers side by side and a third that starts when both are
\* gone, every answer and every fault, and the next nonce returned to the pool
SPECIFICATION Spec
CONSTANTS
    w1 = w1
    w2 = w2
    w3 = w3
    Workers = {w1, w2, w3}
    Running = {w1, w2}
    Txs = {0}
    Returned = {1}
    BatchSize = 1
    BufferSize = 1
    MaxRetries = 2
    Answers = {"retryable", "permanent"}
    Faults = {"retryable", "permanent"}
    Overlap = FALSE
INVARIANTS LockExclusive
CHECK_DEADLOCK FALSE
