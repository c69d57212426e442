SPECIFICATION FairSpec
CONSTANTS
    Specs <- MC_AllSpecs
    MaxRestarts = 2
    MaxKills = 3
    SpawnMayFail = TRUE
    MaxCommands = 2
INVARIANTS
    OneChild
    StoppingHasDeadline
    StopSticks
CHECK_DEADLOCK FALSE
PROPERTIES StoppingEnds RestartIsAttempted
