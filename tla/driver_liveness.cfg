SPECIFICATION FairSpec
CONSTANTS
    Specs <- MC_Restarted
    Workers = {w1}
    MaxRestarts = 0
    SpawnMayFail = FALSE
    MaxRequests = 2
    MaxStalls = 1
    MaxTries = 1
INVARIANT
    CrashloopIsQuiet
PROPERTIES
    StoppingEnds RestartIsAttempted RecoveryIsMade
