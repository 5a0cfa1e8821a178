\* A marked command that is cut off after its marker.
SPECIFICATION Spec
CONSTANTS
    n1 = n1
    n2 = n2
    Nonces = {n1}
    MaxPieces = 3
    Timeouts = TRUE
INVARIANTS
    UnreachableIsBeforeMarker
