CONSTANTS
    thr1 = ssi
    thr2 = test
    thr3 = a
    thr4 = b
    thread_array <- Threads4
    NULL = NULL
    Preempt = FALSE
    Reuse = FALSE
SPECIFICATION FairSpec
INVARIANTS LinksTypeOK NoThreadLost WellLinked KillsSubtree
PROPERTY TreeImplemented
