\* Two workers deliver the routes of one model, or the policies of one rule.
SPECIFICATION PartSpec
CONSTANTS
    Models = {"m"}
    Defs = {"a"}
    Unpublishable = {}
    Limits = {"l"}
    Subjects = {"u"}
    Scopes = {{"u"}}
    Switches = {TRUE}
    Inclusions = {TRUE, FALSE}
    Revisions = {}
    Keys = {k1, k2}
    Workers = {w1, w2}
    MaxPublications = 2
    MaxSignals = 1
    MaxVersion = 2
    MaxAttempts = 3
    Unrepresentable = {}
    Rejected = {}
    MaxFaults = 1
SYMMETRY RelaySymmetry
INVARIANTS
    OutboxAgrees
    OneAcknowledger
    SpecFollowsMarker
    ProjectedIsLive
    RelayInvariant
PROPERTIES
    MarkersNeverRollBack
    KeepsContract
CHECK_DEADLOCK FALSE
