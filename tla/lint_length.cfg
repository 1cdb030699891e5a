SPECIFICATION Spec
CONSTANTS
    Paths <- MCPaths
    ValidNames <- MCValidNames
    Parts <- MCParts
    Categories <- MCCategories
    DefaultFilters <- MCDefaultFilters
    DefaultLength = 1
    Sessions <- LengthSessions
INVARIANT NearestLengthCounts
CHECK_DEADLOCK FALSE
