\* Branches, loops, blocks, functions, closures, classes. The machine stops when a program ends.
CONSTANTS
    Lexicon <- MCLexicon
    StackLimit = 512
    Sessions <- ProgramSessions
SPECIFICATION Spec
INVARIANTS
    ResultRight
    NeverStuck
    NeverUndefined
    FrameBalanced
    OnInstruction
    WithinFrame
    NothingLost
    CollectionsDefined
PROPERTIES
    Ends
    VerifiedSpec
    RootedSpec
    DefinedSpec
    Unnoticed
CHECK_DEADLOCK FALSE
