\* Programs that compile and go wrong, on a stack of eight slots. The machine stops when a program ends.
CONSTANTS
    Lexicon <- MCLexicon
    StackLimit = 8
    Sessions <- CarelessSessions
SPECIFICATION Spec
INVARIANTS
    TypeOK
    StackInArray
PROPERTIES
    MachineSpec
CHECK_DEADLOCK FALSE
