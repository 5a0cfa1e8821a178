\* Two commands while authorities come and go and stdout fails.
SPECIFICATION Spec
CONSTANTS
    Spellings <- MCSpellings
    Fold <- MCFold
    Skew = 0
    c1 = c1
    c2 = c2
    Commands = {c1, c2}
    Requests <- MCRequests
    Backends = {"mesh-plus", "legacy", "other"}
    MeshPlus = {"compatible", "incompatible", "missing"}
    Configs <- MCConfigs
    Unparsable <- MCUnparsable
    Oversized <- MCOversized
    Now = 2
    Faults = TRUE
    StdoutErrors = TRUE
SYMMETRY CommandSymmetry
INVARIANTS
    TypeOK
    StatusFitsDocument
    AnswersAreTrue
PROPERTIES
    AuthorityIsBound
