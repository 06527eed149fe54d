SPECIFICATION Spec
CONSTANTS
    Name = {x, y}
    MaxScopes = 4
    ReadThrough = TRUE
    ShareCaptured = TRUE
    Redeclare = TRUE
SYMMETRY Names
INVARIANTS TypeOK FreeThreaded
CHECK_DEADLOCK FALSE
