\* Two devices and the way out of the process, at any moment.
CONSTANTS
    Devices = {phone, tablet}
    MaxRequests = 2
    MaxUps = 0
    MayExit = TRUE
SYMMETRY DeviceSymmetry
SPECIFICATION Safety
INVARIANTS CleanExit
PROPERTIES ImplementsDeviceTable
CHECK_DEADLOCK FALSE
