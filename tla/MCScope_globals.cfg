SPECIFICATION Spec
CONSTANTS
    Name = {x}
    MaxScopes = 4
    ReadThrough = TRUE
    ShareCaptured = FALSE
    Redeclare = FALSE
INVARIANTS GlobalsNotCaptured
CHECK_DEADLOCK FALSE
