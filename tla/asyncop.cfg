\* Three threads that may complete, and one of them more than once.
CONSTANTS
    Completers = {callback, other, late}
    MaxCalls = 4
SPECIFICATION Spec
INVARIANTS TypeOK ResumedOnce NoLostWakeup ResultIsFirst
PROPERTIES AwaitEnds ImplementsOneShot
CHECK_DEADLOCK FALSE
