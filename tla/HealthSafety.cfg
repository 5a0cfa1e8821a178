\* Two reporters, edits of the configuration, the clock, no faults.
SPECIFICATION Spec
CONSTANTS
    Spellings <- MCSpellings
    Fold <- MCFold
    Skew = 1
    NoProc = NoProc
    p1 = p1
    p2 = p2
    Procs = {p1, p2}
    Configs <- MCConfigs
    Unparsable <- MCUnparsable
    Reports <- MCAllReports
    InitialDocs <- MCInitialDocs
    Edits = TRUE
    ReadErrors = FALSE
    WriteErrors = FALSE
    SyncErrors = FALSE
    Kills = FALSE
    PowerLosses = FALSE
    MaxClock = 2
SYMMETRY ProcSymmetry
INVARIANTS
    TypeOK
    AnswersAreTrue
    ReportWasCurrent
    DatedWithinSkew
CHECK_DEADLOCK FALSE
