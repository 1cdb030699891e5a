SPECIFICATION Spec
CONSTANTS
    Paths <- MCPaths
    ValidNames <- MCValidNames
    Parts <- MCParts
    Categories <- MCCategories
    DefaultFilters <- MCDefaultFilters
    DefaultLength = 1
    Sessions <- MCSessions
INVARIANTS
    FiltersRestored
    PrintedExactly
    CountsAgree
CHECK_DEADLOCK FALSE
