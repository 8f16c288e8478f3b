\* All formulas of up to five tokens, some longer, calls with up to two filters,
\* and every first day of 2023 and 2024.
CONSTANTS
    Worlds <- PrWorlds
    Schemas <- SchemaWith
    Accesses <- McAccesses
    Unreadable = Unreadable
    Rows <- McRows
    NoField = NoField
    Words <- McWords
    Numbers = {"1"}
    BadToken = "@"
    MaxTokens = 11
    Tokens = {"a", "x", "1", "sum", "(", ")", "+", "*"}
    MaxLength = 5
    FirstYear = 2021
    LastYear = 2026
    Unparsable = Unparsable
    Missing = Missing
    Periods <- McPeriods
SPECIFICATION PrSpec
CHECK_DEADLOCK FALSE
INVARIANTS
    RowsWithinAccess
    OfferedIsAccepted
    AcceptedIsBuildable
    FormulaTree
    AcceptedIsWellFormed
    SumReferencesResolve
    MainCoversPickedDays
    ComparisonPrecedes
    ComparisonIsInterval
