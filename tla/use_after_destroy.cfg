CONSTANTS
    Devices = {phone}
    MaxRequests = 2
    MaxUps = 0
    MayExit = TRUE
SPECIFICATION Safety
INVARIANTS NoUseAfterDestroy
CHECK_DEADLOCK FALSE
