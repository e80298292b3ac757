\* One worker delivers a definition that the CRD schema refuses, and what follows.
SPECIFICATION PartSpec
CONSTANTS
    Models = {"m"}
    Defs = {"a", "huge"}
    Unpublishable = {}
    Limits = {}
    Subjects = {}
    Scopes = {}
    Switches = {TRUE}
    Inclusions = {FALSE}
    Revisions = {}
    Keys = {k1, k2}
    Workers = {w1}
    MaxPublications = 2
    MaxSignals = 1
    MaxVersion = 0
    MaxAttempts = 3
    Unrepresentable = {}
    Rejected = {"huge"}
    MaxFaults = 1
SYMMETRY RelaySymmetry
INVARIANT FailsForItsOwnContent
CHECK_DEADLOCK FALSE
