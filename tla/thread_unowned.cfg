\* A thread over a shared runnable that is joined or destroyed unstarted.
SPECIFICATION Spec
CONSTANTS
    Threads = {t1, t2}
    Owned = {}
    Shared = {s1}
    Looping = {}
    Interruptible = {s1}
    Tids = {p1, p2}
    Null = Null
    Restart = FALSE
    MustStart = FALSE
    SpawnFailures = FALSE
    CancelFailures = FALSE
    Unwinds = TRUE
INVARIANTS
    SharedNeverDeleted
