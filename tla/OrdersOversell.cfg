SPECIFICATION Spec
CONSTANTS
    p1 = p1
    o1 = o1
    o2 = o2
    Order = {o1, o2}
    Product = {p1}
    Cart <- MCCart
    Stock <- MCStock
    Restocks = {}
    MayRemove = FALSE
    NoRow = NoRow
    None = None
INVARIANT NoOversell
CHECK_DEADLOCK FALSE
