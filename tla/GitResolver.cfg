\* Two processes share a repository on GitHub.
SPECIFICATION Spec
CONSTANTS
    p1 = p1
    p2 = p2
    t1 = t1
    t2 = t2
    t3 = t3
    None = None
    Procs = {p1, p2}
    Tasks = {t1, t2, t3}
    ProcOf <- MCProcOf
    MaxPushes = 1
    GitHub = TRUE
INVARIANTS MarkerVouches UsedCheckoutsComplete
PROPERTY Terminates
CHECK_DEADLOCK FALSE
