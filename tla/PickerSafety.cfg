\* One window under two configurations, with faults and other processes.
SPECIFICATION Spec
CONSTANTS
    Spellings <- MCSpellings
    Fold <- MCFold
    NameRank <- MCNameRank
    MaxHosts = 2
    Configs <- MCConfigs
    Histories <- MCHistories
    Times = {1, 2}
    MaxUsage = 2
    Faults = TRUE
    Edits = TRUE
    OldWindows = TRUE
INVARIANTS
    TypeOK
PROPERTIES
    RowsAccountForHistory
    SelectionStays
    EnterActsOnHighlighted
    ForgetTouchesOneRow
