SPECIFICATION Spec
CONSTANTS
    Variables = {a, b}
    Contents = {c1, c2}
    Dead = Dead
    MovedOut = MovedOut
    Garbage = Garbage
    Absent = Absent
SYMMETRY Symmetric
INVARIANTS TagIsTrue WholeUntilThrown
PROPERTIES ThrowKeepsOrEmpties ReturnedMeansDone
CHECK_DEADLOCK FALSE
