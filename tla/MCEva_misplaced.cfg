\* Variables found in the wrong place. The machine stops when a program ends.
CONSTANTS
    Lexicon <- MCLexicon
    StackLimit = 512
    Sessions <- MisplacedSessions
SPECIFICATION Spec
INVARIANTS
    ResultRight
CHECK_DEADLOCK FALSE
