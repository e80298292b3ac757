SPECIFICATION SyncSpec
CONSTANTS
    SkillIds = {s}
    Versions = {1}
    Packages = {k1, k2}
    FirstGrant = {s}
    MaxEdits = 4
    MaxTroubles = 1
SYMMETRY PackageSymmetry
INVARIANT RevokedIsRemoved
CHECK_DEADLOCK FALSE
