\* A file is edited before the watcher exists.
SPECIFICATION Spec
CONSTANTS
    Bodies <- MCBodies
    Invalid <- MCInvalid
    Missing = "missing"
    Default = "on"
    CutShort <- MCCutShort
    AutoUpdate <- MCAutoUpdate
    AutoDownload <- MCAutoDownload
    LogPath <- MCLogPath
    NoState = NoState
    Overlong <- MCNotOverlong
    DataFiles <- MCNoFile
    KindOf <- MCNoFileKindOf
    Order <- MCNoFileOrder
    Maintained = {}
    StartBodies <- MCStartBodies
    MaxGen <- MCOneEdit
    MaxRelease = 1
    MaxFaults = 0
    MaxErrors = 0
    EditsAtStart = TRUE
INVARIANTS
    NoLostEdit
CHECK_DEADLOCK FALSE
