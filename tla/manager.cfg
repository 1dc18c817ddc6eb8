\* Two devices, links that come and go, a process that stays.
CONSTANTS
    Devices = {phone, tablet}
    MaxRequests = 2
    MaxUps = 1
    MayExit = FALSE
SYMMETRY DeviceSymmetry
SPECIFICATION Safety
INVARIANTS TypeOK Ownership EntryMatchesCoroutine ResumedOnce ReportMatchesTable LossIsKnown
PROPERTIES GenerationsOnlyGrow
CHECK_DEADLOCK FALSE
