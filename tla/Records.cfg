SPECIFICATION Spec
CONSTANTS
    Request = {r1, r2}
    Column = {c1, c2}
    Value = {0, 1}
    Status = c1
    Default = 0
    NoRow = NoRow
SYMMETRY Alike
INVARIANTS
    TypeOK
    NothingUnaudited
    ItemsHaveTheirOrder
    OrderHasItems
PROPERTIES
    
    OverwritesOnlyConcurrent
CHECK_DEADLOCK FALSE
