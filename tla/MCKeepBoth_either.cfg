SPECIFICATION Either
CONSTANTS
    d1 = d1
    d2 = d2
    s1 = s1
    s2 = s2
    s3 = s3
    f1 = f1
    f2 = f2
    f3 = f3
    f4 = f4
    Device <- OneDevice
    Syncer <- OneProcess
    Home <- OneProcessHome
    File <- ThreeFiles
    Copied <- TwoCopied
    LastCopy = 1
    MaxVersion = 3
    KeepBothName <- FirstAsSecond
    TempName <- ThirdForSecond
    Hidden = {}
    Torn = Torn
    Overlap = FALSE
    Fault = {}
    None = None
INVARIANTS
    PushedIsStored
    SavesAreWhole
PROPERTIES
    PullKeepsPushedSaves
