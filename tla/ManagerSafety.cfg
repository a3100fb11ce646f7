SPECIFICATION Spec
CONSTANTS
    Lease = {l1, l2, l3}
    DefaultTtl = 2
    Request = {r1, r2}
    Renewal = {n1}
    Boot = boot
    Stop = stop
    Timer = {t1}
    None = none
    RotateBefore = 1
    RetryDelay = 1
    DrainDelay = 2
    FallbackTtl = 1
    MaxHold = 1
    OperatorRevokes = TRUE
    MayStop = TRUE
SYMMETRY Alike
INVARIANTS
    TypeOK
    OneRotation
    PoolInForceIsOpen
    HeldPoolIsNotDestroyed
PROPERTIES
    ImplementsLifecycle
    ServedPoolIsRetired
