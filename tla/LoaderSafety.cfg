\* Edits and renamings at any time, one rule broken per file.
SPECIFICATION Spec
CONSTANTS
    Spellings <- MCSpellings
    Fold <- MCFold
    Identifiers <- MCIdentifiers
    Localhost = "localhost"
    Bad <- MCBad
    Omitted <- MCOmitted
    Files <- MCFiles
    Names <- MCNames
    HostLimit = 3
INVARIANTS
    TypeOK
    AcceptedIsValid
    RevisionFixesMeaning
PROPERTIES
    ReadsAsDeclared
