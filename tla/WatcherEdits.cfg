\* Edits of two files while the watcher reloads, one fault, one watcher error.
SPECIFICATION FairSpec
CONSTANTS
    Bodies <- MCBodies
    Invalid <- MCInvalid
    Missing = "missing"
    Default = "on"
    CutShort <- MCCutShort
    AutoUpdate <- MCAutoUpdate
    AutoDownload <- MCAutoDownload
    LogPath <- MCLogPath
    NoState = NoState
    Overlong <- MCNotOverlong
    DataFiles <- MCOneFile
    KindOf <- MCOneFileKindOf
    Order <- MCOneFileOrder
    Maintained = {}
    StartBodies <- MCStartOn
    MaxGen <- MCTwoFilesEdited
    MaxRelease = 1
    MaxFaults = 1
    MaxErrors = 1
    EditsAtStart = FALSE
INVARIANTS
    TypeOK
    PublishedLoads
    LogFollowsState
    NoLostEdit
PROPERTIES
    Converges
    Quiesces
CHECK_DEADLOCK FALSE
