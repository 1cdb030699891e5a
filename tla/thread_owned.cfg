\* Owned runnables on Linux: three objects, one runnable that loops until it
\* is cancelled, pthread_create may fail.
SPECIFICATION Spec
CONSTANTS
    Threads = {t1, t2, t3}
    Owned = {o1, o2, o3}
    Shared = {}
    Looping = {o2}
    Interruptible = {o2}
    Tids = {p1, p2, p3}
    Null = Null
    Restart = FALSE
    MustStart = FALSE
    SpawnFailures = TRUE
    CancelFailures = FALSE
    Unwinds = TRUE
SYMMETRY Symmetry
INVARIANTS
    TypeOK
    MemorySafe
    ArgOutlivesHandshake
    SoleHolder
    JoinedOnce
    StateReflectsThread
