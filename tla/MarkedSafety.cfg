\* Two marked commands and the probes around them on hosts that repeat what they see.
SPECIFICATION Spec
CONSTANTS
    n1 = n1
    n2 = n2
    Nonces = {n1, n2}
    MaxPieces = 5
    Timeouts = TRUE
INVARIANTS
    TypeOK
    ReachedMeansStarted
    StartedIsReached
    DiagnosticsAreIntact
    
