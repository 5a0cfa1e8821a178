\* Two reporters of a success and of failures; kills, errors and power losses at
\* every step, under a configuration that stays what it is.
SPECIFICATION FairSpec
CONSTANTS
    Spellings <- MCSpellings
    Fold <- MCFold
    Skew = 1
    NoProc = NoProc
    p1 = p1
    p2 = p2
    Procs = {p1, p2}
    Configs <- MCOfficeOrBroken
    Unparsable <- MCUnparsable
    Reports <- MCFaultyReports
    InitialDocs <- MCFaultyDocs
    Edits = FALSE
    ReadErrors = TRUE
    WriteErrors = TRUE
    SyncErrors = TRUE
    Kills = TRUE
    PowerLosses = TRUE
    MaxClock = 3
PROPERTIES
    ImplementsRegister
    DeclaredOrderReturns
    EveryReportEnds
CHECK_DEADLOCK FALSE
