CONSTANTS
    thr1 = ssi
    thr2 = test
    thr3 = a
    thr4 = b
    msg1 = m1
    msg2 = m2
    cause = cause
    thread_array <- Threads2
    message_array <- Messages2
    Device <- AllOfThem
    Word <- AllWords
    NULL = NULL
    MINUS1 = MINUS1
    TRAPCONTINUE = TRAPCONTINUE
    CAUSE = cause
    BUS_INTERVALTIMER = BUS_INTERVALTIMER
    TrapKind = {"pgmtrap"}
    Managed = {}
    MaxRequests = 3
    U32_MAX = 3
    Service = {"WAITFORIO","GETCPUTIME"}
    READY = READY
    BUSY = BUSY
    CHARDONE = CHARDONE
    FAILED = FAILED
    TRANSMITTED = TRANSMITTED
    BADDEVICE = 268435540
    TICK = TICK
    CPUTIME = CPUTIME
    Chat = TRUE
    Clock = "never"
SPECIFICATION SystemSpec
INVARIANT PrintSucceeds
SYMMETRY MessageSymmetry
VIEW Observed
