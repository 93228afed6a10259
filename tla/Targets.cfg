\* Two sessions at a time, an edit of the configuration and updates of the
\* lists in between.
SPECIFICATION Spec
CONSTANTS
    s1 = s1
    s2 = s2
    NONE = NONE
    Sessions <- MCSessions
    Blank <- MCBlank
    TooLong = {}
    Lower <- MCLower
    Undotted <- MCUndotted
    Within <- MCWithin
    Literals = {"p1", "p2"}
    Files <- MCFiles
    FirstFiles <- MCFirstFiles
    LaterFiles <- MCLaterFiles
    Lists <- MCLists
    Requests <- MCRequests
    Answers <- MCAnswers
    Hash <- MCHash
    MaxLoads = 2
    MaxAccepts = 2
SYMMETRY Symmetric
INVARIANTS
    TargetsInv
    RoutedByOwnState
    EvenTurns
    FairShares
    SentAsAnswered
CHECK_DEADLOCK FALSE
