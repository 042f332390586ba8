SPECIFICATION Spec
CONSTANTS
    Characters = {"a", "A", "b", "?", "*", "/"}
    Patterns <- CrossingPatterns
    Directories <- CrossingDirectories
INVARIANT StarStaysInSegment
CHECK_DEADLOCK FALSE
