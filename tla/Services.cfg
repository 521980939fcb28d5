CONSTANTS
    thr1 = ssi
    thr2 = test
    thr3 = a
    thr4 = b
    msg1 = m1
    msg2 = m2
    cause = cause
    thread_array <- Threads3
    message_array <- Messages1
    Device = {}
    Word <- AllWords
    NULL = NULL
    MINUS1 = MINUS1
    TRAPCONTINUE = TRAPCONTINUE
    CAUSE = cause
    BUS_INTERVALTIMER = BUS_INTERVALTIMER
    TrapKind = {"pgmtrap"}
    Managed = {"pgmtrap"}
    MaxRequests = 2
    U32_MAX = 2
    Service = {"CREATESON","GETCPUTIME","TERMINATE","SPECPRGMGR","UNKNOWN"}
    READY = READY
    BUSY = BUSY
    CHARDONE = CHARDONE
    FAILED = FAILED
    TRANSMITTED = TRANSMITTED
    BADDEVICE = 268435540
    TICK = TICK
    CPUTIME = CPUTIME
    Chat = TRUE
    Clock = "never"
SPECIFICATION SystemSpec
INVARIANTS RequestKnown SsiOnlyCrashes NoLostWakeup
SYMMETRY MessageSymmetry
VIEW Observed
