SPECIFICATION ReconcilerSpec
CONSTANTS
    Replicas = {r1, r2}
    RouteModels = {"m1", "m2"}
    RouteSets = {"a", "c"}
    Route <- MCRoute
    Revisions = {"q1"}
    MaxPublishes = 2
    MaxLimitWrites = 1
    MaxFaults = 1
INVARIANT ReadyHasNoDeparted
CHECK_DEADLOCK FALSE
