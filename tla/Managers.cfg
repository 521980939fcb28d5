CONSTANTS
    ssi = ssi
    test = test
    a = a
    m1 = m1
    m2 = m2
    other = other
    thread_array <- Threads3
    message_array <- Messages0
    Device = {}
    Word <- Words
    NULL = NULL
    MINUS1 = MINUS1
    TRAPCONTINUE = TRAPCONTINUE
    CAUSE = other
    BUS_INTERVALTIMER = BUS_INTERVALTIMER
    TrapKind = {"pgmtrap"}
    Managed = {"pgmtrap"}
    MaxRequests = 0
    U32_MAX = 1
SPECIFICATION Spec
INVARIANTS QueueDiscipline TreeUntilTorn OnlyManagersFault
SYMMETRY Symmetric
VIEW Kernel
