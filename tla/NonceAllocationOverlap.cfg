\* An instance creates its signer while another one allocates
SPECIFICATION Spec
CONSTANTS
    i1 = i1
    i2 = i2
    Instances = {i1, i2}
    Tasks = {1, 2}
    Fleets <- Cold
    Histories = {0}
    MaxNonce = 3
    Overlap = TRUE
    Expires = FALSE
    Missing = Missing
SYMMETRY Symmetry
INVARIANTS NonceUnique
CHECK_DEADLOCK FALSE
