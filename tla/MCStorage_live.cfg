SPECIFICATION FairSpec
CONSTANTS
    Request = {r1, r2, r3}
    p1 = p1
    p2 = p2
    p3 = p3
    Path <- TwoPaths
    ClientPath <- OnePath
    ValidIdPath <- OnePath
    Content = {c1, c2}
    Device = {d1}
    Second <- TwoSeconds
    MaxBackups <- NegativeLimit
    KeepBothName <- NextName
    Fault = {"crash", "disconnect"}
    None = None
PROPERTIES
    EveryRequestIsAnswered
