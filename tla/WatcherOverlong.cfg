\* A configuration with an update interval beyond the range of Instant.
SPECIFICATION Spec
CONSTANTS
    Bodies <- MCBodies
    Invalid <- MCInvalid
    Missing = "missing"
    Default = "on"
    CutShort <- MCCutShort
    AutoUpdate <- MCAutoUpdate
    AutoDownload <- MCAutoDownload
    LogPath <- MCLogPath
    NoState = NoState
    Overlong <- MCOverlong
    DataFiles <- MCNoFile
    KindOf <- MCNoFileKindOf
    Order <- MCNoFileOrder
    Maintained = {}
    StartBodies <- MCStartBodies
    MaxGen <- MCOneEdit
    MaxRelease = 1
    MaxFaults = 0
    MaxErrors = 0
    EditsAtStart = FALSE
INVARIANTS
    Survives
CHECK_DEADLOCK FALSE
