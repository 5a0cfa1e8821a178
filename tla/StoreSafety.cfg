\* Two processes, with and without a mesh, no faults: every interleaving.
SPECIFICATION Spec
CONSTANTS
    Spellings <- MCSpellings
    Fold <- MCFold
    NameRank <- MCNameRank
    MaxHosts = 2
    NoProc = NoProc
    p1 = p1
    p2 = p2
    Procs = {p1, p2}
    Meshes <- MCAllMeshes
    Targets = {"vpn", "db"}
    Times = {1, 2}
    InitialDocs <- MCInitialDocs
    LegacyDocs <- MCLegacyDocs
    ReadErrors = FALSE
    WriteErrors = FALSE
    Kills = FALSE
    PowerLosses = FALSE
    MaxRecords = 3
SYMMETRY ProcSymmetry
INVARIANTS
    TypeOK
    AnswerIsTrue
    RewriteSettles
PROPERTIES
    RecencyNeverRegresses
CHECK_DEADLOCK FALSE
