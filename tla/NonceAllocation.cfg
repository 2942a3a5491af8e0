\* A running fleet of two, or one instance at a time from a cold start; crashes, outsiders
SPECIFICATION Spec
CONSTANTS
    i1 = i1
    i2 = i2
    Instances = {i1, i2}
    Tasks = {1, 2}
    Fleets <- ColdOrRunning
    Histories = {0, 1}
    MaxNonce = 3
    Overlap = FALSE
    Expires = FALSE
    Missing = Missing
SYMMETRY Symmetry
INVARIANTS TypeOK NonceUnique CounterAhead BatchAheadOfNode
PROPERTIES AllotsOnce
CHECK_DEADLOCK FALSE
