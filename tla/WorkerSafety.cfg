\* Three workers under changing configurations and route health, nothing fails.
SPECIFICATION Spec
CONSTANTS
    Spellings <- MCSpellings
    Fold <- MCFold
    NameRank <- MCNameRank
    Skew = 0
    MaxHosts = 5
    w1 = w1
    w2 = w2
    w3 = w3
    Workers = {w1, w2, w3}
    Tasks <- MCTasks
    Configs <- MCConfigs
    Meshes <- MCMeshes
    HealthFiles <- MCLanFailed
    Targets = {"web", "db", "lan"}
    Times = {1}
    Imports = {}
    FirstBook <- Used
    UnreadableBooks = FALSE
    LoadErrors = FALSE
    StateErrors = FALSE
    SyncErrors = FALSE
    Edits = TRUE
    Forgets = FALSE
    Kills = FALSE
    PowerLosses = FALSE
SYMMETRY WorkerSymmetry
INVARIANTS
    TypeOK
    OneTerminalToChosenHost
    UsageIsComplete
    TerminalUnlessGone
CHECK_DEADLOCK FALSE
