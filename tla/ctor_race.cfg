\* The thread of h:86 may run before the members of h:87-91 exist.
CONSTANTS
    Clients = {main}
    Drainers = {}
    MaxPosts = 1
    EarlyStart = TRUE
SPECIFICATION Spec
INVARIANTS ExitDrained
CHECK_DEADLOCK FALSE
