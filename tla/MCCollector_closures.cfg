SPECIFICATION Spec
CONSTANTS
    Obj = {o1, o2, o3, o4}
    Natives = {}
    Size <- UnitSize
    GcThreshold = 4
    StackLimit = 2
    MaxConstants = 2
    MaxGlobals = 1
    MaxProperties = 1
    FreshMarks = {FALSE}
    CaptureAny = FALSE
    OverwriteCallee = FALSE
SYMMETRY Addresses
INVARIANTS NoDangling CollectionExact GarbageBounded
PROPERTIES HeapPromise
CHECK_DEADLOCK FALSE
