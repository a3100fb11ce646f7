SPECIFICATION Spec
CONSTANTS
    Call = {c1, c2}
    Retries = 3
    Threshold = 3
    ResetAfter = 3
    ResetWhenEqual = FALSE
    MaxBackoff = 2
    Timeout = 2
    Pauses = {1, 4}
INVARIANTS
    TypeOK
    CountMatchesState
PROPERTIES
    CallsEnd
    RecoversAfterQuiet
