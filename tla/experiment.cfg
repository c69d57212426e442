SPECIFICATION ExperimentSpec
CONSTANTS
    Programs = {"guarded", "nested", "lonely", "tuning", "plain", "strict", "broken", "hanging"}
    NoSeq = NoSeq
    Workspaces = {1}
    Configs <- MCConfigs
    Graph <- MCGraph
    Live = "k1"
    Slots = 2
    MaxSeq = 2
    MaxRings = 2
    MaxRev = 2
    QueueMax = 1
INVARIANTS
    RunSound AnalysisSound OperatorsExact
PROPERTIES
    CleanupEnds StopEndsRun
CHECK_DEADLOCK FALSE
