SPECIFICATION ItemsSpec
CONSTANTS
    Lease = {l1, l2}
    DefaultTtl = 2
    Request = {r1}
    Renewal = {n1}
    Boot = boot
    Stop = stop
    Timer = {t1, t2}
    None = none
    RotateBefore = 1
    RetryDelay = 1
    DrainDelay = 1
    FallbackTtl = 1
    MaxHold = 0
    OperatorRevokes = FALSE
    MayStop = TRUE
    Secret <- MCSecret
INVARIANTS
    ItemsTypeOK
    OneAddress
PROPERTIES
    ImplementsLifecycle
    RevokedWhenUnused
    ShutdownIsQuiet
    NeverLapses
