\* The same with one fault.
SPECIFICATION FairSpec
CONSTANTS
    Bodies <- MCBodies
    Invalid <- MCInvalid
    Missing = "missing"
    Default = "on"
    CutShort <- MCCutShort
    AutoUpdate <- MCAutoUpdate
    AutoDownload <- MCAutoDownload
    LogPath <- MCLogPath
    NoState = NoState
    Overlong <- MCNotOverlong
    DataFiles <- MCLists
    KindOf <- MCListsKindOf
    Order <- MCListsOrder
    Maintained <- MCLists
    StartBodies <- MCStartBodies
    MaxGen <- MCNoEdits
    MaxRelease = 2
    MaxFaults = 1
    MaxErrors = 0
    EditsAtStart = FALSE
PROPERTIES
    Refreshes
CHECK_DEADLOCK FALSE
