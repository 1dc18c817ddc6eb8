\* One thread waits in DrainFor while another posts: notify_one may go to it.
CONSTANTS
    Clients = {tester, poster}
    Drainers = {tester}
    MaxPosts = 2
    EarlyStart = FALSE
SPECIFICATION Spec
PROPERTIES TasksRun
CHECK_DEADLOCK FALSE
