\* Two posters that may also call DrainFor and Stop, against the thread.
CONSTANTS
    Clients = {main, pool}
    Drainers = {main, pool}
    MaxPosts = 3
    EarlyStart = FALSE
SPECIFICATION Spec
INVARIANTS TypeOK FifoExactlyOnce ExitDrained StopDrains DrainBarrier
PROPERTIES TasksRunUndrained StopReturns ImplementsTaskLog
CHECK_DEADLOCK FALSE
