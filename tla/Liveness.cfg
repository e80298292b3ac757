\* What must happen: two relay workers, two login attempts that prune each other's
\* rows, two deliveries, one publisher, one route and two publications.
SPECIFICATION LivenessSpec
CONSTANTS
    Models = {"m"}
    Defs = {"a"}
    Unpublishable = {}
    Limits = {}
    Subjects = {}
    Scopes = {}
    Switches = {TRUE}
    Inclusions = {FALSE}
    Revisions = {}
    Keys = {k1}
    Workers = {w1, w2}
    MaxPublications = 1
    MaxSignals = 1
    MaxVersion = 0
    MaxAttempts = 8
    Unrepresentable = {}
    Rejected = {}
    MaxFaults = 1
    Addresses = {}
    Trusted = {}
    Garbage = garbage
    Second = 1
    Bits = 8
    Principals = {"alice"}
    Sources = {"home", "office"}
    Attempts = {a1, a2}
    FailureLimit = 1
    SourceLimit = 1
    Window = 1
    BackoffBase = 2
    BackoffMax = 2
    MaxTime = 3
    MaxAge = 0
    Deliveries = {d1, d2}
    MaxBreaks = 1
    Creds = {c}
    ApiKeys = {c}
    MaxSecretEdits = 3
    Publishers = {p}
    MaxStrangers = 1
    MaxSyncFaults = 1
    ModelRoutes = {r}
    Publications <- MCPublications
    DirectModes = {FALSE}
    Deletable = {}
    MaxRotations = 0
    MaxApplyFailures = 1
    MaxDirectEdits = 1
PROPERTIES
    EveryOperationSettles
    WithdrawalsSelected
    EveryAttemptAnswered
    SettlesUnlessPoisoned
    SecretsConverge
    OperatorConverges
CHECK_DEADLOCK FALSE
