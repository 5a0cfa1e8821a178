\* Two processes, kills, I/O errors in reads and writes, power losses; every
\* process that goes on ends its operation.
SPECIFICATION FairSpec
CONSTANTS
    Spellings <- MCSpellings
    Fold <- MCFold
    NameRank <- MCNameRank
    MaxHosts = 2
    NoProc = NoProc
    p1 = p1
    p2 = p2
    Procs = {p1, p2}
    Meshes <- MCMeshes
    Targets = {"vpn"}
    Times = {1}
    InitialDocs <- MCFaultyDocs
    LegacyDocs <- MCUsedBefore
    ReadErrors = TRUE
    WriteErrors = TRUE
    Kills = TRUE
    PowerLosses = TRUE
    MaxRecords = 2
INVARIANTS
    NeverTorn
    RepliesTruthful
PROPERTIES
    ImplementsLedger
    EveryOperationEnds
CHECK_DEADLOCK FALSE
