SPECIFICATION Spec
CONSTANTS
    Obj = {o1, o2, o3, o4}
    Natives = {}
    Size <- MixedSize
    GcThreshold = 5
    StackLimit = 1
    MaxConstants = 3
    MaxGlobals = 1
    MaxProperties = 1
    FreshMarks = {FALSE, TRUE}
    CaptureAny = FALSE
    OverwriteCallee = FALSE
SYMMETRY Addresses
INVARIANTS TypeOK BytesExact SweepClearsMarks
PROPERTIES RootsSurvive
CHECK_DEADLOCK FALSE
