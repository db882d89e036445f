SPECIFICATION Spec
CONSTANTS
    d1 = d1
    d2 = d2
    s1 = s1
    s2 = s2
    s3 = s3
    f1 = f1
    f2 = f2
    f3 = f3
    f4 = f4
    Device <- Devices
    Syncer <- OneEach
    Home <- OneEachHome
    File <- OneFile
    Copied <- FirstCopied
    LastCopy = 0
    MaxVersion = 1
    KeepBothName <- NoKeepBoth
    TempName <- NoTemp
    Hidden = {}
    Torn = Torn
    Overlap = FALSE
    Fault = {"offline", "lostReply", "kill"}
    None = None
SYMMETRY SwapDevices
INVARIANTS
    BaseIsBehindSave
    PullCatchesUp
PROPERTIES
    SupersedesWhatItReplaces
