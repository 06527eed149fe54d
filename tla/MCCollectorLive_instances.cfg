SPECIFICATION CompiledSpec
CONSTANTS
    co = co
    main = main
    cls = cls
    Obj = {co, main, cls, o1, o2}
    Natives = {}
    Size <- UnitSize
    GcThreshold = 4
    StackLimit = 2
    MaxConstants = 3
    MaxGlobals = 0
    MaxProperties = 1
    FreshMarks = {FALSE}
    CaptureAny = FALSE
    OverwriteCallee = FALSE
INVARIANTS NoDangling
PROPERTIES AllocationServed
CHECK_DEADLOCK FALSE
