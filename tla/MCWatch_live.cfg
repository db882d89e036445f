SPECIFICATION FairSpec
CONSTANTS
    p1 = p1
    p2 = p2
    Pid <- Pids
    Emulator <- TwoEmulators
    Capacity = 3
    MaxLaunch = 2
    AutoSyncOnLaunch = TRUE
    AutoSyncOnClose = TRUE
    Stoppable = TRUE
    None = None
    Emulators <- Configured
    Args <- UpToTwo
    NoName = NoName
INVARIANTS
    NoSpuriousPush
    EventsInOrder
    EmulatorIsRight
PROPERTIES
    ExitIsNoticed
    PushIsNotStarved
    SignalEndsWatch
