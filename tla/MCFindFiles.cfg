SPECIFICATION Spec
CONSTANTS
    Characters = {"a", "A", "b", "?", "*", "/"}
    Patterns <- MCPatterns
    Directories <- MCDirectories
INVARIANT FoundIsRight
PROPERTY SearchEnds
CHECK_DEADLOCK FALSE
