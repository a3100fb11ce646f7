SPECIFICATION Spec
CONSTANTS
    Call = {renewal}
    Retries = 5
    Threshold = 5
    ResetAfter = 40
    ResetWhenEqual = FALSE
    MaxBackoff = 20
    Timeout = 20
    Pauses = {0, 20}
PROPERTY RecoversInTime
