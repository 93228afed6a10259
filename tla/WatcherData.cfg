\* Downloads, updates and reloads interleaved, with one fault.
SPECIFICATION FairSpec
CONSTANTS
    Bodies <- MCBodies
    Invalid <- MCInvalid
    Missing = "missing"
    Default = "on"
    CutShort <- MCCutShort
    AutoUpdate <- MCAutoUpdate
    AutoDownload <- MCAutoDownload
    LogPath <- MCLogPath
    NoState = NoState
    Overlong <- MCNotOverlong
    DataFiles <- MCTwoFiles
    KindOf <- MCTwoFilesKindOf
    Order <- MCTwoFilesOrder
    Maintained <- MCTwoFiles
    StartBodies <- MCStartBodies
    MaxGen <- MCOneEdit
    MaxRelease = 2
    MaxFaults = 1
    MaxErrors = 0
    EditsAtStart = FALSE
INVARIANTS
    IInv
PROPERTIES
    NoLostUpdate
    KeepsFiles
    CatchesUp
CHECK_DEADLOCK FALSE
