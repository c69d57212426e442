SPECIFICATION Spec
CONSTANTS
    Specs <- MC_Recover
    Workers = {w1, w2}
    MaxRestarts = 1
    SpawnMayFail = TRUE
    MaxRequests = 2
    MaxStalls = 1
    MaxTries = 2
SYMMETRY MC_Symmetry
INVARIANTS
    OneDriver RightDriver RecoverOnce StopCancelsRecovery
CHECK_DEADLOCK FALSE
