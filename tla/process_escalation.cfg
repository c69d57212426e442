SPECIFICATION FairSpec
CONSTANTS
    Specs <- MC_Router
    MaxRestarts = 1
    MaxKills = 2
    SpawnMayFail = FALSE
    MaxCommands = 2
PROPERTY
    EscalationIsTakenOver
CHECK_DEADLOCK FALSE
