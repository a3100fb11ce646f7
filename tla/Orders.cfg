SPECIFICATION Spec
CONSTANTS
    p1 = p1
    o1 = o1
    o2 = o2
    Order = {o1, o2}
    Product = {p1}
    Cart <- MCCart
    Stock <- MCStock
    Restocks = {3}
    MayRemove = TRUE
    NoRow = NoRow
    None = None
INVARIANTS
    TypeOK
    ReservedWithinStock
    ReservedIsGranted
    OrderIsBacked
PROPERTY
    CreateEnds
CHECK_DEADLOCK FALSE
