CONSTANTS
    thr1 = ssi
    thr2 = test
    thr3 = a
    thr4 = b
    thread_array <- Threads3
    NULL = NULL
    Preempt = TRUE
    Reuse = FALSE
SPECIFICATION Spec
INVARIANT NoThreadLost
CHECK_DEADLOCK FALSE
