\* Two workers and forgetting pickers, failing reads, writes, syncs and power losses.
SPECIFICATION FairSpec
CONSTANTS
    Spellings <- MCSpellings
    Fold <- MCFold
    NameRank <- MCNameRank
    Skew = 0
    MaxHosts = 2
    w1 = w1
    w2 = w2
    w3 = w3
    Workers = {w1, w2}
    Tasks <- MCFewTasks
    Configs <- MCOfficeOnly
    Meshes <- MCOfficeMeshes
    HealthFiles <- MCNoHealth
    Targets = {"web", "lan"}
    Times = {1}
    Imports = {}
    FirstBook <- OnceUsed
    UnreadableBooks = TRUE
    LoadErrors = TRUE
    StateErrors = TRUE
    SyncErrors = TRUE
    Edits = FALSE
    Forgets = TRUE
    Kills = TRUE
    PowerLosses = TRUE
INVARIANTS
    OpensInTime
    UsageIsEarned
PROPERTIES
    TerminalOpens
CHECK_DEADLOCK FALSE
