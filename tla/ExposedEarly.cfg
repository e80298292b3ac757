SPECIFICATION OperatorSpec
CONSTANTS
    ModelRoutes = {r}
    Publications <- MCOffAndOn
    DirectModes = {FALSE}
    Deletable = {}
    MaxRotations = 0
    MaxApplyFailures = 0
    MaxDirectEdits = 0
PROPERTY ExposedWithAggregate
CHECK_DEADLOCK FALSE
