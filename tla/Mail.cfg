CONSTANTS
    ssi = ssi
    test = test
    a = a
    m1 = m1
    m2 = m2
    other = other
    thread_array <- Threads3
    message_array <- Messages2
    Device = {disk}
    Word <- FewWords
    NULL = NULL
    MINUS1 = MINUS1
    TRAPCONTINUE = TRAPCONTINUE
    CAUSE = TRAPCONTINUE
    BUS_INTERVALTIMER = BUS_INTERVALTIMER
    TrapKind = {"pgmtrap"}
    Managed = {}
    MaxRequests = 1
    U32_MAX = 1
SPECIFICATION Spec
INVARIANTS TypeOK QueueDiscipline MessageConservation NoLostWakeup
PROPERTY MailboxesImplemented
SYMMETRY Symmetric
VIEW Kernel
