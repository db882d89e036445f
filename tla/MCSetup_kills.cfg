SPECIFICATION Both
CONSTANTS
    k1 = k1
    k2 = k2
    h1 = h1
    Command <- TwoCommands
    Server <- OneServer
    NoAddress = NoAddress
    Room = 1
    MaxAnswers = 2
    Answers <- TwoAnswers
    Quotes = 1
    Doc <- Docs
    Bundled <- BundledDoc
    MaxPut = 2
    Overlap = FALSE
    None = None
    Torn = Torn
INVARIANTS
    ConfigIsWhole
    SetupIsUsed
    AckedIsServed
    FoundIsComplete
PROPERTIES
    PulledIsUsable
    ReplacedIsInBak
    LookupEnds
