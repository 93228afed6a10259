\* Two packets or other byte strings, a cut anywhere.
SPECIFICATION Spec
CONSTANTS
    Base = 4
    Modulus = 32
    MaxVarIntBytes = 3
    MaxFrameLength = 4
    Packets <- MCPackets
    Others <- MCOthers
    Unreadable = Unreadable
    MaxSent = 2
INVARIANTS
    CodecInv
    CleanEnd
PROPERTIES
    Delivers
CHECK_DEADLOCK FALSE
