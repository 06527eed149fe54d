SPECIFICATION Spec
CONSTANTS
    Name = {x}
    MaxScopes = 5
    ReadThrough = FALSE
    ShareCaptured = FALSE
    Redeclare = FALSE
INVARIANTS GlobalsStayGlobal PromotedEverywhere NoForeignSlot OneCellPerName
CHECK_DEADLOCK FALSE
