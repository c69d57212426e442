SPECIFICATION Spec
CONSTANTS
    c1 = c1
    c2 = c2
    m1 = m1
    p1 = p1
    Commands = {c1, c2}
    Mirrored = {m1}
    ProcessRpcs = {p1}
    Interceptors = {"interlock"}
    KeyOf <- MCKeyOf
    PatternOf <- MCPatternOf
    TargetOf <- MCTargetOf
    Scenarios <- MCScenarios
    QueueMax = 1
    InflightMax = 2
CHECK_DEADLOCK FALSE
INVARIANT CommandPathSound
