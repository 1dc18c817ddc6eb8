\* Two devices, two clicks in each of any number of processes, and a message
\* queue short enough to be full.
CONSTANTS
    Devices = {phone, tablet}
    MaxClicks = 2
    MaxMessages = 2
SYMMETRY DeviceSymmetry
SPECIFICATION Safety
INVARIANTS TypeOK PickerCatchesUp GateLetsOneThrough ExitIsConfirmed SavedListComplete NobodyForgotten
