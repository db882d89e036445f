SPECIFICATION FairSpec
CONSTANTS
    f1 = f1
    f2 = f2
    f3 = f3
    f4 = f4
    w1 = w1
    w2 = w2
    File <- FourFiles
    Worker <- TwoWorkers
    Capacity = 1
    Fault = {"vanish", "unreadable", "walk"}
    None = None
INVARIANTS
    ResultIsComplete
PROPERTIES
    ReturnedMapIsFinal
    CallReturns
