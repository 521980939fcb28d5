------------------------------- MODULE Timer -------------------------------
(***************************************************************************)
(* Time in the nucleus: the interval timer shared by time slices and the   *)
(* pseudo clock, and the accounting of CPU time (phase2/src/scheduler.c,   *)
(* interrupts.c, exceptions.c, include/const.h).                           *)
(*                                                                         *)
(* What handlers do to threads and messages is the module Nucleus; here a  *)
(* handler may keep the current thread, lose it, and wake another one.     *)
(* What remains is the arithmetic, which is that of a U32, and the time    *)
(* that passes: a thread runs in steps of one clock tick, handlers run for *)
(* any time in Body with interrupts disabled while the timer counts, two   *)
(* reads of the clock in successive statements differ by up to Gap, and    *)
(* LDST takes Load ticks before the first instruction of the thread.       *)
(***************************************************************************)
EXTENDS Integers, Sequences, SequencesExt

CONSTANTS
    Thread,
    NULL,
    U32,                    \* 2^32: the clock, the timer and all counters are modulo U32
    BUS_TIMESCALE,          \* clock ticks per microsecond
    SCHED_TIME_SLICE,
    SCHED_PSEUDO_CLOCK,
    Gap, Body, Load         \* durations, in clock ticks

\* The LDST of a state restores some forty registers: a timer set to 1 has
\* expired when the thread starts.  No interval measured is near 2^32.  There
\* are threads when the scheduler starts, those of boot.c.
ASSUME TimerAssumption ==
    /\ NULL \notin Thread /\ Thread # {} /\ IsFiniteSet(Thread)
    /\ BUS_TIMESCALE \in Nat \ {0}
    /\ SCHED_TIME_SLICE \in Nat \ {0} /\ SCHED_PSEUDO_CLOCK \in Nat \ {0}
    /\ Gap \in Nat /\ Load \in Nat /\ Load > 2 * BUS_TIMESCALE - 1
    /\ Body \subseteq Nat \ {0}
    /\ \A d \in Body : Gap <= d
    /\ U32 \in Nat /\ U32 > 2 * (SCHED_TIME_SLICE + SCHED_PSEUDO_CLOCK)
    /\ \A d \in Body \cup {0} :
          U32 > SCHED_TIME_SLICE + SCHED_PSEUDO_CLOCK + Load + 4 * Gap + d

VARIABLES
    pc,                     \* "thread", "wait" (interrupts enabled) or "scheduler"
    current_thread,
    ready_queue,
    blocked,                \* threads in no queue of the scheduler
    cpu_slice, cpu_time,    \* TCB fields
    current_thread_tod, pseudo_tick, start_pseudo_tick,
    tod,                    \* the TODLOW register
    it, expired,            \* the interval timer and its interrupt line
    onCpu                   \* history: time since the LDST of the thread that runs

threadVars == <<current_thread, ready_queue, blocked>>
cpuVars == <<cpu_slice, cpu_time>>
clockVars == <<pseudo_tick, start_pseudo_tick, current_thread_tod>>
hardware == <<tod, it, expired>>
vars == <<pc, threadVars, cpuVars, clockVars, hardware, onCpu>>

Counter == 0 .. U32 - 1

TimerTypeOK ==
    /\ pc \in {"thread", "wait", "scheduler"}
    /\ current_thread \in Thread \cup {NULL}
    /\ ready_queue \in Seq(Thread) /\ blocked \subseteq Thread
    /\ cpu_slice \in [Thread -> Counter] /\ cpu_time \in [Thread -> Counter]
    /\ current_thread_tod \in Counter /\ pseudo_tick \in Counter
    /\ start_pseudo_tick \in Counter
    /\ tod \in Counter /\ it \in Counter /\ expired \in BOOLEAN
    /\ onCpu \in Nat

----------------------------------------------------------------------------
(* U32 arithmetic and the two registers *)

Plus(x, y) == (x + y) % U32
\* Mutant: signed.
MinusSigned(x, y) == x - y
Minus(x, y) == (x + U32 - y) % U32
MIN(x, y) == IF x < y THEN x ELSE y

\* GET_TODLOW, g ticks from now.
GET_TODLOW(g) == Plus(tod, g) \div BUS_TIMESCALE

\* SET_IT(timer_val) of an argument without operators of its own.
SET_IT(timer_val) == (timer_val * BUS_TIMESCALE) % U32

\* The registers d ticks later: the timer raises its line when it passes 0.
Later(d) ==
    /\ tod' = Plus(tod, d)
    /\ it' = Minus(it, d)
    /\ expired' = (expired \/ d > it)

\* The same when the timer is set to v on the way, after which d ticks pass:
\* a write to the timer register withdraws its interrupt.
LaterSet(before, v, d) ==
    /\ tod' = Plus(tod, before + d)
    /\ it' = Minus(v, d)
    /\ expired' = (d > v)

----------------------------------------------------------------------------
\* A thread computes, or the machine waits; the pending interrupt of an
\* expired timer would be taken first.
Elapse ==
    /\ pc \in {"thread", "wait"} /\ ~expired
    /\ Later(1)
    /\ onCpu' = IF current_thread = NULL THEN 0 ELSE onCpu + 1
    /\ UNCHANGED <<pc, threadVars, cpuVars, clockVars>>

\* The first statements of every handler.
Charge(t, g) ==
    /\ cpu_slice' = [cpu_slice EXCEPT ![t] = Plus(@, Minus(GET_TODLOW(0), current_thread_tod))]
    /\ cpu_time' = [cpu_time EXCEPT ![t] = Plus(@, Minus(GET_TODLOW(g), current_thread_tod))]

\* One blocked thread may be made ready.
Woken == {{}} \cup {{t} : t \in blocked}

\* sysbp_handler, pgmtrap_handler, tlb_handler: the current thread goes on,
\* blocks, or is terminated.
Exception(g, d) ==
    /\ pc = "thread" /\ ~expired
    /\ Charge(current_thread, g)
    /\ \E woken \in Woken, gone \in {{}, {current_thread}} :
          /\ ready_queue' = ready_queue \o SetToSeq(woken)
          /\ blocked' = (blocked \ woken) \cup gone
          /\ current_thread' = IF gone = {} THEN current_thread ELSE NULL
    /\ Later(d)
    /\ pc' = "scheduler"
    /\ onCpu' = 0
    /\ UNCHANGED clockVars

ChargeInterrupted(g) ==
    IF current_thread = NULL THEN UNCHANGED cpuVars ELSE Charge(current_thread, g)

\* int_handler, lines 3 to 7: line 2 would be served first.
DeviceInterrupt(g, d) ==
    /\ pc \in {"thread", "wait"} /\ ~expired
    /\ ChargeInterrupted(g)
    /\ \E woken \in Woken :
          /\ ready_queue' = ready_queue \o SetToSeq(woken)
          /\ blocked' = blocked \ woken
    /\ Later(d)
    /\ pc' = "scheduler"
    /\ onCpu' = 0
    /\ UNCHANGED <<current_thread, clockVars>>

\* pseudo_tick brought up to date.
Counted == Plus(pseudo_tick, Minus(GET_TODLOW(0), start_pseudo_tick))

\* int_handler, line 2, when the pseudo clock's deadline has passed: the
\* message to the SSI takes the time up to the restart of the clock.
PseudoClock(d) ==
    /\ Counted >= SCHED_PSEUDO_CLOCK
    /\ pseudo_tick' = 0
    /\ start_pseudo_tick' = GET_TODLOW(d)

NoPseudoClock(g) ==
    /\ Counted < SCHED_PSEUDO_CLOCK
    /\ pseudo_tick' = Counted
    /\ start_pseudo_tick' = GET_TODLOW(g)

\* Mutant: the time already counted is forgotten.
SetDefaultWhole == SCHED_PSEUDO_CLOCK % U32

\* SET_IT(SCHED_PSEUDO_CLOCK - pseudo_tick): the macro does not parenthesise
\* its argument, so only pseudo_tick is multiplied.
SetDefault == (SCHED_PSEUDO_CLOCK - pseudo_tick' * BUS_TIMESCALE) % U32

SliceOver ==
    current_thread # NULL /\ cpu_slice'[current_thread] >= SCHED_TIME_SLICE

\* Mutant: the thread stays the first.
RequeuedFirst(q) == <<current_thread>> \o q
Requeued(q) == Append(q, current_thread)

TimerInterrupt(g, d) ==
    /\ pc \in {"thread", "wait"} /\ expired
    /\ ChargeInterrupted(g)
    /\ PseudoClock(d) \/ NoPseudoClock(g)
    /\ \E woken \in IF Counted < SCHED_PSEUDO_CLOCK THEN {{}} ELSE Woken :
          /\ ready_queue' = IF SliceOver THEN Requeued(ready_queue \o SetToSeq(woken))
                            ELSE ready_queue \o SetToSeq(woken)
          /\ blocked' = blocked \ woken
    /\ current_thread' = IF SliceOver THEN NULL ELSE current_thread
    /\ IF SliceOver THEN Later(d)
       ELSE IF Counted < SCHED_PSEUDO_CLOCK THEN LaterSet(g, SetDefault, d - g)
       ELSE LaterSet(d, SetDefault, 0)
    /\ pc' = "scheduler"
    /\ onCpu' = 0
    /\ UNCHANGED current_thread_tod

----------------------------------------------------------------------------
(* scheduler() *)

\* Mutant: the timer is set for the slice alone.
LoadThreadSlice(left, g, h, k) ==
    /\ pseudo_tick' = Counted
    /\ start_pseudo_tick' = GET_TODLOW(g)
    /\ current_thread_tod' = GET_TODLOW(h)
    /\ LaterSet(k, SET_IT(left), Load)
    /\ onCpu' = Load
    /\ pc' = "thread"

\* Mutant: the time of the LDST is not noted.
LoadThreadStale(left, g, h, k) ==
    /\ pseudo_tick' = Counted
    /\ start_pseudo_tick' = GET_TODLOW(g)
    /\ LaterSet(k, SET_IT(IF Counted >= SCHED_PSEUDO_CLOCK THEN 1
                          ELSE MIN(left, Minus(SCHED_PSEUDO_CLOCK, Counted))), Load)
    /\ onCpu' = Load
    /\ pc' = "thread"
    /\ UNCHANGED current_thread_tod

\* The common end of its two ways to a thread: bring the pseudo clock up to
\* date, set the timer to the nearer of the two deadlines, load the thread.
LoadThread(left, g, h, k) ==
    /\ pseudo_tick' = Counted
    /\ start_pseudo_tick' = GET_TODLOW(g)
    /\ current_thread_tod' = GET_TODLOW(h)
    /\ LaterSet(k, SET_IT(IF Counted >= SCHED_PSEUDO_CLOCK THEN 1
                          ELSE MIN(left, Minus(SCHED_PSEUDO_CLOCK, Counted))), Load)
    /\ onCpu' = Load
    /\ pc' = "thread"

Dispatch(g, h, k) ==
    /\ pc = "scheduler" /\ current_thread = NULL /\ ready_queue # <<>>
    /\ current_thread' = Head(ready_queue)
    /\ ready_queue' = Tail(ready_queue)
    /\ cpu_slice' = [cpu_slice EXCEPT ![Head(ready_queue)] = 0]
    /\ LoadThread(SCHED_TIME_SLICE, g, h, k)
    /\ UNCHANGED <<blocked, cpu_time>>

\* Mutant: every way to a thread starts a new slice.
ReloadFresh(g, h, k) ==
    /\ pc = "scheduler" /\ current_thread # NULL
    /\ cpu_slice' = [cpu_slice EXCEPT ![current_thread] = 0]
    /\ LoadThread(SCHED_TIME_SLICE, g, h, k)
    /\ UNCHANGED <<threadVars, cpu_time>>

\* SCHED_TIME_SLICE - cpu_slice wraps when the slice is already exceeded.
Reload(g, h, k) ==
    /\ pc = "scheduler" /\ current_thread # NULL
    /\ LoadThread(Minus(SCHED_TIME_SLICE, cpu_slice[current_thread]), g, h, k)
    /\ UNCHANGED <<threadVars, cpuVars>>

\* Nothing is ready: the timer goes on counting.
Wait ==
    /\ pc = "scheduler" /\ current_thread = NULL /\ ready_queue = <<>>
    /\ pc' = "wait"
    /\ UNCHANGED <<threadVars, cpuVars, clockVars, hardware, onCpu>>

----------------------------------------------------------------------------
\* After boot: every clock value is possible, the timer has any value.
Init ==
    /\ pc = "scheduler"
    /\ current_thread = NULL
    /\ ready_queue \in SetToSeqs(Thread)
    /\ blocked = {}
    /\ cpu_slice = [t \in Thread |-> 0] /\ cpu_time = [t \in Thread |-> 0]
    /\ tod \in Counter
    /\ pseudo_tick = 0 /\ start_pseudo_tick = GET_TODLOW(0) /\ current_thread_tod = 0
    /\ it = U32 - 1 /\ expired = FALSE
    /\ onCpu = 0

Gaps == 0 .. Gap

Next ==
    \/ Elapse
    \/ \E g \in Gaps, d \in Body :
          Exception(g, d) \/ DeviceInterrupt(g, d) \/ TimerInterrupt(g, d)
    \/ \E k \in Gaps : \E h \in 0 .. k : \E g \in 0 .. h : Dispatch(g, h, k) \/ Reload(g, h, k)
    \/ Wait

Spec == Init /\ [][Next]_vars
FairSpec == Spec /\ WF_vars(Next)

----------------------------------------------------------------------------
(* Properties *)

\* The pseudo clock is never late: whenever interrupts are enabled, the timer
\* has expired or does so before the time counted since the last tick reaches
\* SCHED_PSEUDO_CLOCK, whatever handlers, system calls and idle periods came
\* in between (scheduler.c and int_handler share one timer for two deadlines;
\* the slack is the time between two reads of the clock).
ClockOnTime ==
    pc \in {"thread", "wait"} =>
        \/ expired
        \/ it + Counted * BUS_TIMESCALE <= SCHED_PSEUDO_CLOCK * BUS_TIMESCALE + Gap

\* A bound on the time slice: SCHED_TIME_SLICE - cpu_slice is unsigned, and a
\* thread that overruns its slice inside a system call keeps the CPU up to the
\* next tick of the pseudo clock, but never longer.
SliceBounded ==
    pc = "thread" =>
        cpu_slice[current_thread] + onCpu <=
            SCHED_TIME_SLICE + SCHED_PSEUDO_CLOCK + Load + 2 * Gap

\* cpu_time is the time a thread had the CPU: each handler charges the thread
\* it interrupts, and no other, with the time since that thread was loaded, up
\* to the reads of the clock around it, across the wrap of the TOD register.
ChargeExact ==
    [][\A t \in Thread :
         LET charged == Minus(cpu_time'[t], cpu_time[t])
         IN  IF pc = "thread" /\ pc' = "scheduler" /\ t = current_thread
             THEN charged \in onCpu .. onCpu + 2 * Gap
             ELSE charged = 0]_vars

\* Round robin: a ready thread gets the CPU, whatever the others do and with no
\* other assumption than that the machine goes on.
ReadyRuns == \A t \in Thread : t \in ToSet(ready_queue) ~> current_thread = t

\* Preemption: a thread that holds the CPU gives it up, by blocking or at the
\* end of its slice, however it mixes computing, system calls and interrupts.
\* This is the fairness of SliceStep that the module System assumes.
Preempted == \A t \in Thread : current_thread = t ~> current_thread # t

=============================================================================
