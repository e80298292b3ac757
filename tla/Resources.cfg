\* Two requests of a delegate, two creators of agents, one asset and its
\* credential, one skill in two packages, two deliveries, two publishers, one
\* route and two publications, a pod and its successor.
SPECIFICATION ResourcesSpec
CONSTANTS
    People = {"root", "del", "usr"}
    Administrators = {"root"}
    Roles = {"owner", "lead", "spare", "new"}
    BuiltIn = {"owner"}
    Teams = {"a", "b"}
    Permissions = {"roles.write", "teams.write", "users.write", "audit.read", "deployment.write"}
    PermissionSets = {{"roles.write"}, {"deployment.write"}}
    RoleUpdates <- MCRoleUpdates
    TeamUpdates <- MCTeamUpdates
    RoleSets = {{"owner"}, {"new"}}
    TeamSets = {{"a"}}
    Requests = {q1, q2}
    MaxCommits = 2
    Departments = {"a", "b", "c"}
    ParentOf <- MCParentOf
    Humans = {"u"}
    AgentIds = {g0, g1, g2}
    FirstResidents = {g0}
    Creators = {c1, c2}
    MaxResidentAgents = 1
    RuleInputs <- MCRuleInputs
    MaxChanges = 2
    FirstRules <- MCFirstRules
    AgentInputs <- MCAgentInputs
    MoveInputs = {{"b"}}
    Creds = {c, d}
    ApiKeys = {c}
    MaxSecretEdits = 3
    Assets = {a}
    Executions = {x}
    Patches = {h1, h2}
    MaxAssetEdits = 3
    SkillIds = {s}
    Versions = {1}
    Packages = {k1, k2}
    FirstGrant = {s}
    MaxEdits = 4
    MaxTroubles = 1
    Deliveries = {d1, d2}
    MaxBreaks = 2
    Publishers = {p, q}
    MaxStrangers = 1
    MaxSyncFaults = 1
    Uses = {u1, u2}
    ModelRoutes = {r}
    Publications <- MCSwitchedOn
    DirectModes = {TRUE, FALSE}
    Deletable = {r}
    MaxRotations = 1
    MaxApplyFailures = 1
    MaxDirectEdits = 1
    Pods = {p1, p2}
    FirstPods = {p1}
    Snapshots <- MCSnapshots
    MaxSnapshotMoves = 1
INVARIANTS
    DelegationInvariant
    
    AssetInvariant
    SkillInvariant
    InboxInvariant
    CredentialInvariant
    

    
SYMMETRY RequestSymmetry
CHECK_DEADLOCK FALSE
