SPECIFICATION ServicesSpec
CONSTANTS
    None = None
    Managers = {1, 2}
    MaxTasks = 1
INVARIANTS
     StoreSound DispatchSound
    WatchdogSound HubSound PointsAccounted RunnerSound GatewaySound
    MachineSound RecoveryOwned  StackSound RoutingSound
CHECK_DEADLOCK FALSE
