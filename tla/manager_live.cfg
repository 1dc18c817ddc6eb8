\* Two devices, whose links only an Open brings up.
CONSTANTS
    Devices = {phone, tablet}
    MaxRequests = 2
    MaxUps = 0
    MayExit = FALSE
SPECIFICATION Spec
PROPERTIES AttemptsEnd ConnectingEnds LossIsNoticed
CHECK_DEADLOCK FALSE
