SPECIFICATION MongoSpec
CONSTANTS
    Lease = {l1, l2}
    DefaultTtl = 3
    Request = {r1}
    Renewal = {n1}
    Boot = boot
    Stop = stop
    Timer = {t1, t2}
    None = none
    RotateBefore = 3
    RetryDelay = 1
    DrainDelay = 2
    FallbackTtl = 5
    MaxHold = 1
    OperatorRevokes = FALSE
    MayStop = TRUE
PROPERTIES
    ImplementsLifecycle
    NeverLapses
    RevokedWhenUnused
