SPECIFICATION Spec
CONSTANTS
    Request = {r1, r2, r3}
    p1 = p1
    p2 = p2
    p3 = p3
    Path <- ThreePaths
    ClientPath <- TwoPaths
    ValidIdPath <- OnePath
    Content = {c1, c2}
    Device = {d1}
    Second <- TwoSeconds
    MaxBackups = 1
    KeepBothName <- NextName
    Fault = {"crash", "io", "disconnect", "mismatch"}
    None = None
SYMMETRY RequestContent
INVARIANTS
    TypeOK
    LockDiscipline
    OpenConflictHasCandidate
PROPERTIES
    AcceptedOverItsBase
    AnsweredOkIsStored
    DisplacedIsBackedUp
    ManifestIsSnapshot
