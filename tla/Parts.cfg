\* Four messages enqueued and three waiting, two polls of two dead messages, texts of up to two patterns;
\* two calls of the signer, two rounds and two additions on the list, three attempts
SPECIFICATION PartsSpec
CONSTANTS
    m1 = m1
    m2 = m2
    p1 = p1
    p2 = p2
    c1 = c1
    c2 = c2
    usdt = usdt
    msq = msq
    q1 = q1
    q2 = q2
    a1 = a1
    a2 = a2
    Ids = {1, 2}
    Queues = {"broadcast-tx", "tx-request"}
    Bases = {8, 9}
    Waits = {5, 70}
    Delays = {0, 1}
    MaxQueueSize = 3
    MaxTime = 2
    MaxBorn = 4
    Msgs = {m1, m2}
    Unparsable = {m2}
    Polls = {p1, p2}
    BatchSize = 2
    MaxReceives = 2
    Texts <- MCTexts
    QueueTypes = {"broadcast-tx", "signed-tx", "tx-request"}
    EnableDummyTx = FALSE
    Tokens = {usdt, msq}
    MaxTransfer <- MCMaxTransfer
    Calls = {c1, c2}
    Works <- MCWorks
    BlockGas = 400
    Overhead = 35
    BaseGas = 65
    PerCall = 5
    Estimates = {200, 320}
    Prices = {10, 11}
    PendingTxs <- MCPendingTxs
    Malformed <- MCMalformed
    Rounds = {q1, q2}
    Adders = {a1, a2}
    MaxRetries = 3
    Codes = {"INSUFFICIENT_FUNDS", "NONCE_TOO_HIGH", "NONCE_TOO_LOW", "NONCE_EXPIRED", "NETWORK_ERROR", "TIMEOUT", "none"}
    NodeTexts <- MCNodeTexts
    DbTexts = {{}, {"outage"}}
SYMMETRY Symmetry
INVARIANTS PartsTypeOK CountedOnce EntriesEnd OnlyMendableReturned SplitSound ReturnedComplete  NonceKept AddressExclusive OutcomeTrue
PROPERTIES TakesMostUrgent
CHECK_DEADLOCK FALSE
