\* One probe that this machine or a jump host denies.
SPECIFICATION Spec
CONSTANTS
    n1 = n1
    n2 = n2
    Nonces = {n1}
    MaxPieces = 3
    Timeouts = TRUE
INVARIANTS
    ProbeMeansAnswered
