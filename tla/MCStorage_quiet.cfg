SPECIFICATION Spec
CONSTANTS
    Request = {r1, r2, r3, r4}
    p1 = p1
    p2 = p2
    p3 = p3
    Path <- TwoPaths
    ClientPath <- OnePath
    ValidIdPath <- OnePath
    Content = {c1, c2, c3}
    Device = {d1}
    Second <- TwoSeconds
    MaxBackups = 1
    KeepBothName <- NextName
    Fault = {"disconnect"}
    None = None
SYMMETRY RequestContent
INVARIANTS
    StoreConsistent
    HistoryIsRestorable
PROPERTIES
    RotationDropsOldest
    DownloadIsConsistent
    ResolutionIsFinal
    ImplementsSaveStore
