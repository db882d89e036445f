SPECIFICATION Spec
CONSTANTS
    p1 = p1
    p2 = p2
    Pid <- Pids
    Emulator <- OneEmulator
    Capacity = 4
    MaxLaunch = 2
    AutoSyncOnLaunch = TRUE
    AutoSyncOnClose = TRUE
    Stoppable = FALSE
    None = None
    Emulators <- Configured
    Args <- UpToTwo
    NoName = NoName
INVARIANTS
    WorkflowsDoNotInterleave
