SPECIFICATION Spec
CONSTANTS
    Request = {r1, r2}
    p1 = p1
    p2 = p2
    p3 = p3
    Path <- TwoPaths
    ClientPath <- OnePath
    ValidIdPath <- OnePath
    Content = {c1, c2}
    Device = {d1}
    Second <- TwoSeconds
    MaxBackups = 1
    KeepBothName <- NextName
    Fault = {"mismatch"}
    None = None
SYMMETRY RequestContent
INVARIANTS
    StoreConsistent
