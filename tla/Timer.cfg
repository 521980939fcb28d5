CONSTANTS
    thr1 = ssi
    thr2 = test
    Thread <- Threads
    NULL = NULL
    U32 = 26
    BUS_TIMESCALE = 1
    SCHED_TIME_SLICE = 3
    SCHED_PSEUDO_CLOCK = 9
    Gap = 1
    Body = {1, 2}
    Load = 2
SPECIFICATION FairSpec
INVARIANTS TimerTypeOK ClockOnTime SliceBounded
PROPERTIES ChargeExact ReadyRuns Preempted
VIEW Timing
