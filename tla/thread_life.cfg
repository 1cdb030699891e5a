\* The code implements RunnableLife, and calls return; o2 returns only when it
\* is cancelled, and pthread_cancel may fail for a thread that has exited.
\* No symmetry: liveness is checked.
SPECIFICATION FairSpec
CONSTANTS
    Threads = {t1, t2}
    Owned = {o1, o2}
    Shared = {}
    Looping = {o2}
    Interruptible = {o2}
    Tids = {p1, p2}
    Null = Null
    Restart = FALSE
    MustStart = FALSE
    SpawnFailures = TRUE
    CancelFailures = TRUE
    Unwinds = TRUE
PROPERTIES
    LifeSpec
    CallsReturn
    StartedIsReclaimed
