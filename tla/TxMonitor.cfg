\* One transaction whose result may come twice, two checks at a time, calls that fail, lost connections, restarts
SPECIFICATION Spec
CONSTANTS
    t1 = t1
    t2 = t2
    c1 = c1
    c2 = c2
    Txs = {t1}
    Configured = {t1}
    Checkers = {c1, c2}
    MaxAdds = 2
    MaxHeight = 3
    Required = 2
    MaxRetries = 2
    NodeFails = TRUE
    MaxSockets = 3
    Drops = 2
    MaxChecks = 2
    Bounds <- MCBounds
INVARIANTS TypeOK ConfirmedOnChain FailedHasCause FollowedUntilFinal LossNoticed ConnectingEnds
SYMMETRY Symmetry
CHECK_DEADLOCK FALSE
