\* Two login attempts from two sources, two events and a login, two writers of
\* grants, three audited requests, two models under probe.
SPECIFICATION AdministrationSpec
CONSTANTS
    Principals = {"alice"}
    Sources = {"home", "office"}
    Attempts = {a1, a2}
    FailureLimit = 2
    SourceLimit = 2
    Window = 1
    BackoffBase = 2
    BackoffMax = 2
    MaxTime = 3
    MaxAge = 1
    Addresses = {proxy1, proxy2, client1, client2}
    Trusted = {proxy1, proxy2}
    Garbage = garbage
    Second = 3
    Bits = 5
    MaxFailures = 6
    MaxDelay = 15
    MaxHops = 3
    Events = {e1, e2}
    EventSessions = {x1}
    Recipients = {"alice", "bob"}
    Audiences <- MCAudiences
    SupersedeKeys = {"k"}
    RoleIds = {}
    TeamIds = {"t1", "t2"}
    Writers = {w1, w2}
    MaxBirths = 2
    Writes = {q1, q2, q3}
    Kinds = {"own", "plain"}
    FailedAttempts <- MCFailedAttempts
    MaxKeys = 1
    RepeatWindow = 1
    MaxAuditTime = 2
    MaxLostRows = 1
    ProbedModels <- MCProbedModels
    Upstreams <- MCUpstreams
    Probers = {p}
    MaxRounds = 3
    MaxFlaps = 2
    MaxLostAlerts = 1
INVARIANTS
    ThrottleInvariant
    PolicyMeetsReference
    EventInvariant
    
    
    
PROPERTIES
    AdministrationSteps
SYMMETRY AttemptSymmetry
CHECK_DEADLOCK FALSE
