\* One session or workload, one model, two relays, freshness 2; two replicas of
\* the reconciler and two publications.
SPECIFICATION GatewaySpec
CONSTANTS
    Sessions = {s1}
    Workloads = {w1}
    AccessModels = {m1}
    Relays = {k1, k2}
    Fresh = 2
    Life = 2
    ClaimLease = 1
    GrantTimes = {0, 3}
    MaxNow = 3
    MaxChanges = 1
    MaxHiccups = 1
    DeleteTimes = {1}
    MaxGrants = 2
    Replicas = {r1, r2}
    RouteModels = {"m1", "m2"}
    RouteSets = {"a", "c"}
    Route <- MCRoute
    Revisions = {"q1"}
    MaxPublishes = 2
    MaxLimitWrites = 1
    MaxFaults = 1
INVARIANTS
    AccessInvariant
    EnforceInvariant
    ReconcilerInvariant
    OneLeader
PROPERTIES
    GrantsMoveForward
SYMMETRY ReplicaSymmetry
CHECK_DEADLOCK FALSE
