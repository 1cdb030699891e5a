\* The clients and the platform at their worst: one runnable that is not owned
\* under several threads next to an owned one, Start called again on any idle
\* object, no unwinding on cancellation, and a pthread_cancel that may fail for
\* a thread that has exited.  Clients start every thread over the shared
\* runnable, and pthread_create does not fail.
SPECIFICATION Spec
CONSTANTS
    Threads = {t1, t2, t3}
    Owned = {o1}
    Shared = {s1}
    Looping = {}
    Interruptible = {o1, s1}
    Tids = {p1, p2, p3}
    Null = Null
    Restart = TRUE
    MustStart = TRUE
    SpawnFailures = FALSE
    CancelFailures = TRUE
    Unwinds = FALSE
SYMMETRY Symmetry
INVARIANTS
    RunnableOutlivesRun
    SharedNeverDeleted
    OnlyNullRun
    LostOnlyByCancel
