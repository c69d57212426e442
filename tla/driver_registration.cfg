SPECIFICATION Spec
CONSTANTS
    Specs <- MC_Recover
    Workers = {w1, w2}
    MaxRestarts = 1
    SpawnMayFail = FALSE
    MaxRequests = 2
    MaxStalls = 1
    MaxTries = 1
INVARIANTS
    RegistrationSticks
