\* Two versions, two lines, one publication.
SPECIFICATION Spec
CONSTANTS
    Versions <- MCVersions
    Known <- MCKnown
    Lines <- MCLines
    MaxPublish = 1
INVARIANTS
    IInv
    TransferEarned
    BlockedSeesNothing
    NoMutualWait
CHECK_DEADLOCK FALSE
