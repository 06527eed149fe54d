\* Every program of up to three pieces, one after another on the same parser.
CONSTANTS
    Pieces <- MCPieces
    MaxPieces = 3
    Characters <- MCCharacters
    Texts <- MCTexts
    IntMax = 9
SPECIFICATION Spec
INVARIANTS
    TypeOK
    LocationsExact
    StacksAgree
    NeverCorrupt
    ParseRight
    ErrorPlaced
PROPERTIES
    Answers
CHECK_DEADLOCK FALSE
