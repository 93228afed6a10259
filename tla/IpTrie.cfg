\* Two networks among addresses of three bits.
SPECIFICATION Spec
CONSTANTS
    Bits = 3
    MaxInserts = 2
INVARIANTS
    IInv
PROPERTIES
    AnswersAsASet
CHECK_DEADLOCK FALSE
