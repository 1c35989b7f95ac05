SPECIFICATION FairSpec
CONSTANTS
    NodeIds = {"a", "b", "c", "d", "e"}
    Columns <- ColumnNames
    Prefix <- RightPrefix
    MaxNodes = 4
    MaxEdges = 4
    Definitions <- RunDefinitions
    MaxRows = 2
    SourceRows = 3
    NoNode = NoNode
CHECK_DEADLOCK FALSE
INVARIANTS TypeOK NoInternalError RejectsExactlyCycles
PROPERTIES DataIsImmutable RunSpec RunAdvances RunEnds
