SPECIFICATION Spec
CONSTANTS
    Paths <- MCPaths
    ValidNames <- MCValidNames
    Parts <- MCParts
    Categories <- MCCategories
    DefaultFilters <- MCDefaultFilters
    DefaultLength = 1
    Sessions <- NolintSessions
INVARIANT NolintHonoured
CHECK_DEADLOCK FALSE
