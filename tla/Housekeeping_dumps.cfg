SPECIFICATION Spec
CONSTANTS
    Settings = {s1, s2, s3}
    Defaults = s1
    Readers = {r1, r2, r3}
    Nothing = Nothing
    Workers = {w1, w2, w3}
    MaxAttempts = 2
    Window = 1
    Threshold = 3
    NoLockout = NoLockout
    LockoutWindow = 2
    Uploads = {u1, u2, u3}
    BACKUP_KEEP_NEWEST = 2
    MaxReceived = 5
    BACKUP_RETENTION_DAYS = 3
INVARIANTS
    DumpsExpire
CHECK_DEADLOCK FALSE
