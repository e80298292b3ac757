SPECIFICATION AuditSpec
CONSTANTS
    Writes = {q1, q2}
    Kinds = {"own", "plain", "unmarked"}
    FailedAttempts <- MCFailedAttempts
    MaxKeys = 1
    RepeatWindow = 2
    MaxAuditTime = 3
    MaxLostRows = 1
INVARIANT OneRowPerSuccess
CHECK_DEADLOCK FALSE
