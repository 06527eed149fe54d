SPECIFICATION Spec
CONSTANTS
    Obj = {o1, o2, o3, o4, o5}
    Natives = {}
    Size <- UnitSize
    GcThreshold = 4
    StackLimit = 2
    MaxConstants = 2
    MaxGlobals = 0
    MaxProperties = 1
    FreshMarks = {FALSE, TRUE}
    CaptureAny = FALSE
    OverwriteCallee = FALSE
SYMMETRY Addresses
INVARIANTS FunctionCellsTraced
CHECK_DEADLOCK FALSE
