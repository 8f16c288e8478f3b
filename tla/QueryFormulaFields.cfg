\* A formula over fields that are not inside a sum.
CONSTANTS
    Worlds <- McWorlds
    Schemas <- SchemaWith
    Accesses <- McAccesses
    Unreadable = Unreadable
    Rows <- McRows
    NoField = NoField
    Words <- McWords
    Numbers = {"1"}
    BadToken = "@"
    MaxTokens = 11
    Tokens = {"a", "1", "*"}
    MaxLength = 3
SPECIFICATION Spec
CHECK_DEADLOCK FALSE
INVARIANT
    ReferencesResolve
