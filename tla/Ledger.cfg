\* Deletion, re-creation, edits, publication, replay and invalidation; claims.
SPECIFICATION PartSpec
CONSTANTS
    Models = {"m"}
    Defs = {"a", "local"}
    Unpublishable = {"local"}
    Limits = {"l"}
    Subjects = {"u"}
    Scopes = {{"u"}, {"m", "u"}}
    Switches = {TRUE, FALSE}
    Inclusions = {TRUE, FALSE}
    Revisions = {"v1"}
    Keys = {k1, k2}
    Workers = {w1, w2}
    MaxPublications = 2
    MaxSignals = 2
    MaxVersion = 2
    MaxAttempts = 1
SYMMETRY LedgerSymmetry
INVARIANTS
    SelectedRoutesCurrent
    SelectedRulesCurrent
PROPERTY
    TerminalForGood
CHECK_DEADLOCK FALSE
