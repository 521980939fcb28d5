---------------------------- MODULE TimerProofs ----------------------------
(***************************************************************************)
(* Theorems about time: the counters of scheduler(), int_handler and the   *)
(* exception handlers stay in their width, and on a machine whose clock    *)
(* rate is one tick per microsecond the pseudo clock is on time, slices    *)
(* are bounded and CPU time is charged exactly, for any slice, any period  *)
(* and any duration of the handlers.                                       *)
(***************************************************************************)
EXTENDS Timer, FiniteSetTheorems, SequenceTheorems, TLAPS

----------------------------------------------------------------------------
(* U32 arithmetic *)

\* A remainder is in range, whatever is divided.
LEMMA ModRange == ASSUME NEW x \in Int PROVE x % U32 \in Counter
<1>1. U32 \in Nat /\ U32 > 0 BY TimerAssumption
<1> QED BY <1>1 DEF Counter

\* Addition wraps at most once when both operands are in range.
LEMMA PlusWraps ==
    ASSUME NEW x \in Counter, NEW y \in Counter
    PROVE  /\ Plus(x, y) \in Counter
           /\ x + y < U32 => Plus(x, y) = x + y
           /\ x + y >= U32 => Plus(x, y) = x + y - U32
<1>1. U32 \in Nat /\ U32 > 0 /\ x \in Nat /\ y \in Nat /\ x < U32 /\ y < U32
  BY TimerAssumption DEF Counter
<1> DEFINE z == x + y
<1>2. z \in Nat /\ z < 2 * U32 BY <1>1
<1> HIDE DEF z
<1>3. z % U32 \in Counter BY <1>2, ModRange
<1>4. z >= U32 => z % U32 = z - U32 BY <1>1, <1>2
<1>5. z < U32 => z % U32 = z BY <1>1, <1>2
<1> QED BY <1>1, <1>3, <1>4, <1>5 DEF z, Plus

\* Subtraction is that of integers, or wraps.
LEMMA MinusWraps ==
    ASSUME NEW x \in Counter, NEW y \in Counter
    PROVE  /\ Minus(x, y) \in Counter
           /\ x >= y => Minus(x, y) = x - y
           /\ x < y => Minus(x, y) = x + U32 - y
<1>1. U32 \in Nat /\ U32 > 0 /\ x \in Nat /\ y \in Nat /\ x < U32 /\ y < U32
  BY TimerAssumption DEF Counter
<1> DEFINE z == x + U32 - y
<1>2. z \in Nat /\ z < 2 * U32 BY <1>1
<1>3. x >= y => z >= U32 BY <1>1
<1>4. x < y => z < U32 BY <1>1
<1> HIDE DEF z
<1>5. z % U32 \in Counter BY <1>2, ModRange
<1>6. z >= U32 => z % U32 = z - U32 BY <1>1, <1>2
<1>7. z < U32 => z % U32 = z BY <1>1, <1>2
<1> QED BY <1>1, <1>3, <1>4, <1>5, <1>6, <1>7 DEF z, Minus

\* The time a ticks later is a ticks further from s.
LEMMA MinusAdvances ==
    ASSUME NEW t \in Counter, NEW s \in Counter, NEW a \in Counter
    PROVE  Minus(Plus(t, a), s) = Plus(Minus(t, s), a)
<1>1. U32 \in Nat /\ U32 > 0 BY TimerAssumption
<1>2. t \in 0 .. U32 - 1 /\ s \in 0 .. U32 - 1 /\ a \in 0 .. U32 - 1 BY DEF Counter
<1> DEFINE u == Plus(t, a)
           m == Minus(t, s)
<1>3. u \in Counter /\ m \in Counter BY PlusWraps, MinusWraps
<1>4. /\ t + a < U32 => u = t + a
      /\ t + a >= U32 => u = t + a - U32
      /\ t >= s => m = t - s
      /\ t < s => m = t + U32 - s
  BY PlusWraps, MinusWraps
<1> HIDE DEF u, m
<1>5. /\ u >= s => Minus(u, s) = u - s
      /\ u < s => Minus(u, s) = u + U32 - s
      /\ m + a < U32 => Plus(m, a) = m + a
      /\ m + a >= U32 => Plus(m, a) = m + a - U32
  BY <1>3, PlusWraps, MinusWraps
<1>6. u \in 0 .. U32 - 1 /\ m \in 0 .. U32 - 1 BY <1>3 DEF Counter
<1> QED BY <1>1, <1>2, <1>4, <1>5, <1>6 DEF u, m

\* Two reads of the clock, g and a ticks from now.
LEMMA MinusSpan ==
    ASSUME NEW t \in Counter, NEW a \in Counter, NEW g \in Counter, g <= a
    PROVE  Minus(Plus(t, a), Plus(t, g)) = a - g
<1>1. U32 \in Nat /\ U32 > 0 BY TimerAssumption
<1>2. t \in 0 .. U32 - 1 /\ g \in 0 .. U32 - 1 /\ a \in 0 .. U32 - 1 BY DEF Counter
<1> DEFINE x == Plus(t, a)
           y == Plus(t, g)
<1>3. x \in Counter /\ y \in Counter BY PlusWraps
<1>4. /\ t + a < U32 => x = t + a
      /\ t + a >= U32 => x = t + a - U32
      /\ t + g < U32 => y = t + g
      /\ t + g >= U32 => y = t + g - U32
  BY PlusWraps
<1> HIDE DEF x, y
<1>5. /\ x >= y => Minus(x, y) = x - y
      /\ x < y => Minus(x, y) = x + U32 - y
  BY <1>3, MinusWraps
<1>6. x \in 0 .. U32 - 1 /\ y \in 0 .. U32 - 1 BY <1>3 DEF Counter
<1> QED BY <1>1, <1>2, <1>4, <1>5, <1>6 DEF x, y

----------------------------------------------------------------------------
(* Types *)

\* A thread has the CPU exactly when one executes, or is chosen in a handler.
CpuHeld ==
    /\ pc = "thread" => current_thread # NULL
    /\ pc = "wait" => current_thread = NULL

TypeInv == TimerTypeOK /\ CpuHeld

\* The list of the threads that a handler wakes, at most one.
LEMMA WokenSeq ==
    ASSUME blocked \subseteq Thread, NEW woken \in Woken
    PROVE  SetToSeq(woken) \in Seq(Thread) /\ woken \subseteq Thread
<1>1. CASE woken = {}
  <2> DEFINE f == [i \in 1 .. 0 |-> i]
  <2>1. Cardinality(woken) = 0 BY <1>1, FS_EmptySet
  <2>2. f \in [1 .. Cardinality(woken) -> woken] /\ IsInjective(f) BY <2>1 DEF IsInjective
  <2> HIDE DEF f
  <2>3. SetToSeq(woken) \in [1 .. Cardinality(woken) -> woken] BY <2>2 DEF SetToSeq
  <2>4. SetToSeq(woken) \in [1 .. 0 -> Thread] BY <2>1, <2>3
  <2> QED BY <1>1, <2>4, SeqDef
<1>2. ASSUME NEW t \in blocked, woken = {t} PROVE SetToSeq(woken) \in Seq(Thread)
  <2> DEFINE f == [i \in 1 .. 1 |-> t]
  <2>1. Cardinality(woken) = 1 BY <1>2, FS_Singleton
  <2>2. f \in [1 .. Cardinality(woken) -> woken] /\ IsInjective(f)
    BY <1>2, <2>1 DEF IsInjective
  <2> HIDE DEF f
  <2>3. SetToSeq(woken) \in [1 .. Cardinality(woken) -> woken] BY <2>2 DEF SetToSeq
  <2>4. SetToSeq(woken) \in [1 .. 1 -> Thread] BY <1>2, <2>1, <2>3
  <2> QED BY <2>4, SeqDef
<1> QED BY <1>1, <1>2 DEF Woken

\* The clock as the code reads it, in microseconds.
LEMMA ClockRange ==
    ASSUME tod \in Counter, NEW g \in Nat
    PROVE  GET_TODLOW(g) \in Counter
<1>1. U32 \in Nat /\ U32 > 0 /\ BUS_TIMESCALE \in Nat \ {0} /\ tod \in Nat
  BY TimerAssumption DEF Counter
<1> DEFINE x == Plus(tod, g)
<1>2. x \in Counter BY <1>1, ModRange DEF Plus
<1> HIDE DEF x
<1>3. x \in 0 .. U32 - 1 BY <1>2 DEF Counter
<1>4. x \div BUS_TIMESCALE \in 0 .. x BY <1>1, <1>3
<1> QED BY <1>1, <1>3, <1>4 DEF x, Counter, GET_TODLOW

\* The registers after any time.
LEMMA RegistersRange ==
    ASSUME tod \in Counter, it \in Counter, expired \in BOOLEAN
    PROVE  /\ \A d \in Nat : Later(d) => tod' \in Counter /\ it' \in Counter /\ expired' \in BOOLEAN
           /\ \A b, d \in Nat, v \in Int :
                LaterSet(b, v, d) => tod' \in Counter /\ it' \in Counter /\ expired' \in BOOLEAN
<1>1. U32 \in Nat /\ tod \in Nat /\ it \in Nat BY TimerAssumption DEF Counter
<1>2. ASSUME NEW d \in Nat, Later(d)
      PROVE  tod' \in Counter /\ it' \in Counter /\ expired' \in BOOLEAN
  BY <1>1, <1>2, ModRange DEF Later, Plus, Minus
<1>3. ASSUME NEW b \in Nat, NEW d \in Nat, NEW v \in Int, LaterSet(b, v, d)
      PROVE  tod' \in Counter /\ it' \in Counter /\ expired' \in BOOLEAN
  BY <1>1, <1>3, ModRange DEF LaterSet, Plus, Minus
<1> QED BY <1>2, <1>3

\* The counters that every handler charges.
LEMMA ChargeTypes ==
    ASSUME TimerTypeOK, NEW t, NEW g \in Nat, Charge(t, g)
    PROVE  cpu_slice' \in [Thread -> Counter] /\ cpu_time' \in [Thread -> Counter]
<1>1. U32 \in Nat /\ \A x \in Counter : x \in Int BY TimerAssumption DEF Counter
<1>2. \A x, y \in Counter : Plus(x, y) \in Counter /\ Minus(x, y) \in Counter
  BY PlusWraps, MinusWraps
<1>3. GET_TODLOW(0) \in Counter /\ GET_TODLOW(g) \in Counter
  BY ClockRange DEF TimerTypeOK
<1> QED BY <1>2, <1>3 DEF Charge, TimerTypeOK

\* The time of the pseudo clock.
LEMMA CountedRange ==
    ASSUME TimerTypeOK
    PROVE  Counted \in Counter
<1>1. GET_TODLOW(0) \in Counter BY ClockRange DEF TimerTypeOK
<1>2. Minus(GET_TODLOW(0), start_pseudo_tick) \in Counter BY <1>1, MinusWraps DEF TimerTypeOK
<1> QED BY <1>2, PlusWraps DEF Counted, TimerTypeOK

\* boot.c: all threads ready, all counters 0.
LEMMA InitTypes == Init => TypeInv
<1> SUFFICES ASSUME Init PROVE TypeInv OBVIOUS
<1>1. U32 \in Nat /\ U32 > 0 BY TimerAssumption
<1>2. 0 \in Counter /\ U32 - 1 \in Counter BY <1>1 DEF Counter
<1>3. ready_queue \in Seq(Thread)
  <2>1. Cardinality(Thread) \in Nat BY TimerAssumption, FS_CardinalityType
  <2>2. ready_queue \in [1 .. Cardinality(Thread) -> Thread] BY DEF Init, SetToSeqs
  <2> QED BY <2>1, <2>2, SeqDef
<1>4. GET_TODLOW(0) \in Counter BY ClockRange DEF Init
<1> QED BY <1>2, <1>3, <1>4, TimerAssumption DEF Init, TypeInv, TimerTypeOK, CpuHeld

\* A thread computes, or the machine waits.
LEMMA ElapseTypes ==
    ASSUME TypeInv, Elapse
    PROVE  TypeInv'
<1>1. tod' \in Counter /\ it' \in Counter /\ expired' \in BOOLEAN
  BY RegistersRange DEF Elapse, TypeInv, TimerTypeOK
<1> QED BY <1>1 DEF Elapse, TypeInv, TimerTypeOK, CpuHeld, threadVars, cpuVars, clockVars

\* The exception handlers.
LEMMA ExceptionTypes ==
    ASSUME TypeInv, NEW g \in Nat, NEW d \in Nat, Exception(g, d)
    PROVE  TypeInv'
<1>1. tod' \in Counter /\ it' \in Counter /\ expired' \in BOOLEAN
  BY RegistersRange DEF Exception, TypeInv, TimerTypeOK
<1>2. cpu_slice' \in [Thread -> Counter] /\ cpu_time' \in [Thread -> Counter]
  BY ChargeTypes DEF Exception, TypeInv
<1>3. PICK woken \in Woken, gone \in {{}, {current_thread}} :
         /\ ready_queue' = ready_queue \o SetToSeq(woken)
         /\ blocked' = (blocked \ woken) \cup gone
         /\ current_thread' = IF gone = {} THEN current_thread ELSE NULL
  BY DEF Exception
<1>4. current_thread \in Thread BY DEF Exception, TypeInv, TimerTypeOK, CpuHeld
<1>5. ready_queue' \in Seq(Thread)
  <2>1. SetToSeq(woken) \in Seq(Thread) BY WokenSeq DEF TypeInv, TimerTypeOK
  <2> QED BY <1>3, <2>1, ConcatProperties DEF TypeInv, TimerTypeOK
<1>6. blocked' \subseteq Thread BY <1>3, <1>4 DEF TypeInv, TimerTypeOK
<1>7. current_thread' \in Thread \cup {NULL} BY <1>3, <1>4
<1> QED BY <1>1, <1>2, <1>5, <1>6, <1>7
    DEF Exception, TypeInv, TimerTypeOK, CpuHeld, clockVars

\* The charge of an interrupted thread, if there is one.
LEMMA ChargeInterruptedTypes ==
    ASSUME TimerTypeOK, NEW g \in Nat, ChargeInterrupted(g)
    PROVE  cpu_slice' \in [Thread -> Counter] /\ cpu_time' \in [Thread -> Counter]
BY ChargeTypes DEF ChargeInterrupted, TimerTypeOK, cpuVars

\* int_handler on a device line.
LEMMA DeviceTypes ==
    ASSUME TypeInv, NEW g \in Nat, NEW d \in Nat, DeviceInterrupt(g, d)
    PROVE  TypeInv'
<1>1. tod' \in Counter /\ it' \in Counter /\ expired' \in BOOLEAN
  BY RegistersRange DEF DeviceInterrupt, TypeInv, TimerTypeOK
<1>2. cpu_slice' \in [Thread -> Counter] /\ cpu_time' \in [Thread -> Counter]
  BY ChargeInterruptedTypes DEF DeviceInterrupt, TypeInv
<1>3. PICK woken \in Woken : /\ ready_queue' = ready_queue \o SetToSeq(woken)
                             /\ blocked' = blocked \ woken
  BY DEF DeviceInterrupt
<1>4. ready_queue' \in Seq(Thread)
  <2>1. SetToSeq(woken) \in Seq(Thread) BY WokenSeq DEF TypeInv, TimerTypeOK
  <2> QED BY <1>3, <2>1, ConcatProperties DEF TypeInv, TimerTypeOK
<1> QED BY <1>1, <1>2, <1>3, <1>4
    DEF DeviceInterrupt, TypeInv, TimerTypeOK, CpuHeld, clockVars

\* int_handler on the line of the interval timer.
LEMMA TimerTypes ==
    ASSUME TypeInv, NEW g \in Nat, NEW d \in Nat, g <= d, TimerInterrupt(g, d)
    PROVE  TypeInv'
<1>0. TimerTypeOK /\ 0 \in Counter /\ d - g \in Nat
  BY TimerAssumption DEF TypeInv, Counter
<1>1. pseudo_tick' \in Counter /\ start_pseudo_tick' \in Counter
  <2>1. GET_TODLOW(d) \in Counter /\ GET_TODLOW(g) \in Counter
    BY <1>0, ClockRange DEF TimerTypeOK
  <2> QED BY <1>0, <2>1, CountedRange DEF TimerInterrupt, PseudoClock, NoPseudoClock
<1>2. tod' \in Counter /\ it' \in Counter /\ expired' \in BOOLEAN
  <2>1. SetDefault \in Int
    <3>1. SCHED_PSEUDO_CLOCK - pseudo_tick' * BUS_TIMESCALE \in Int
      BY <1>1, TimerAssumption DEF Counter
    <3>2. SetDefault \in Counter BY <3>1, ModRange DEF SetDefault
    <3> QED BY <3>2, TimerAssumption DEF Counter
  <2> QED BY <1>0, <2>1, RegistersRange DEF TimerInterrupt, TimerTypeOK
<1>3. cpu_slice' \in [Thread -> Counter] /\ cpu_time' \in [Thread -> Counter]
  BY <1>0, ChargeInterruptedTypes DEF TimerInterrupt
<1>4. PICK woken \in Woken :
         /\ ready_queue' = IF SliceOver THEN Requeued(ready_queue \o SetToSeq(woken))
                           ELSE ready_queue \o SetToSeq(woken)
         /\ blocked' = blocked \ woken
  BY DEF TimerInterrupt, Woken
<1>5. ready_queue' \in Seq(Thread)
  <2> DEFINE q == ready_queue \o SetToSeq(woken)
  <2>1. SetToSeq(woken) \in Seq(Thread) BY <1>0, WokenSeq DEF TimerTypeOK
  <2>2. q \in Seq(Thread) BY <1>0, <2>1, ConcatProperties DEF TimerTypeOK
  <2> HIDE DEF q
  <2>3. SliceOver => Requeued(q) \in Seq(Thread)
    BY <1>0, <2>2, AppendProperties DEF SliceOver, Requeued, TimerTypeOK
  <2> QED BY <1>4, <2>2, <2>3 DEF q
<1>6. /\ current_thread' \in Thread \cup {NULL} /\ pc' = "scheduler" /\ onCpu' = 0
      /\ current_thread_tod' = current_thread_tod
  BY <1>0 DEF TimerInterrupt, TimerTypeOK
<1> QED BY <1>0, <1>1, <1>2, <1>3, <1>4, <1>5, <1>6 DEF TypeInv, TimerTypeOK, CpuHeld

\* The end of scheduler().
LEMMA LoadTypes ==
    ASSUME TimerTypeOK, NEW left \in Nat, NEW g \in Nat, NEW h \in Nat, NEW k \in Nat,
           LoadThread(left, g, h, k)
    PROVE  /\ pseudo_tick' \in Counter /\ start_pseudo_tick' \in Counter
           /\ current_thread_tod' \in Counter
           /\ tod' \in Counter /\ it' \in Counter /\ expired' \in BOOLEAN
           /\ onCpu' \in Nat /\ pc' = "thread"
<1> DEFINE v == IF Counted >= SCHED_PSEUDO_CLOCK THEN 1
                ELSE MIN(left, Minus(SCHED_PSEUDO_CLOCK, Counted))
<1>1. /\ Counted \in Counter /\ GET_TODLOW(g) \in Counter /\ GET_TODLOW(h) \in Counter
  BY CountedRange, ClockRange DEF TimerTypeOK
<1>2. v \in Nat
  <2>1. SCHED_PSEUDO_CLOCK \in Counter BY TimerAssumption DEF Counter
  <2>2. Minus(SCHED_PSEUDO_CLOCK, Counted) \in Counter BY <1>1, <2>1, MinusWraps
  <2>3. Minus(SCHED_PSEUDO_CLOCK, Counted) \in Nat BY <2>2, TimerAssumption DEF Counter
  <2> QED BY <2>3 DEF MIN
<1>3. LaterSet(k, SET_IT(v), Load) /\ Load \in Nat BY TimerAssumption DEF LoadThread
<1> HIDE DEF v
<1>4. SET_IT(v) \in Int
  <2>1. v * BUS_TIMESCALE \in Int BY <1>2, TimerAssumption
  <2>2. SET_IT(v) \in Counter BY <2>1, ModRange DEF SET_IT
  <2> QED BY <2>2, TimerAssumption DEF Counter
<1>5. tod' \in Counter /\ it' \in Counter /\ expired' \in BOOLEAN
  BY <1>3, <1>4, RegistersRange DEF TimerTypeOK
<1> QED BY <1>1, <1>3, <1>5 DEF LoadThread

\* scheduler() loads the first ready thread,
LEMMA DispatchTypes ==
    ASSUME TypeInv, NEW g \in Nat, NEW h \in Nat, NEW k \in Nat, Dispatch(g, h, k)
    PROVE  TypeInv'
<1>1. TimerTypeOK /\ 0 \in Counter /\ SCHED_TIME_SLICE \in Nat
  BY TimerAssumption DEF TypeInv, Counter
<1>2. Head(ready_queue) \in Thread /\ Tail(ready_queue) \in Seq(Thread)
  BY <1>1, HeadTailProperties DEF Dispatch, TimerTypeOK
<1>3. LoadThread(SCHED_TIME_SLICE, g, h, k) BY DEF Dispatch
<1>4. /\ pseudo_tick' \in Counter /\ start_pseudo_tick' \in Counter
      /\ current_thread_tod' \in Counter
      /\ tod' \in Counter /\ it' \in Counter /\ expired' \in BOOLEAN
      /\ onCpu' \in Nat /\ pc' = "thread"
  BY <1>1, <1>3, LoadTypes
<1>5. /\ current_thread' = Head(ready_queue) /\ ready_queue' = Tail(ready_queue)
      /\ cpu_slice' = [cpu_slice EXCEPT ![Head(ready_queue)] = 0]
      /\ UNCHANGED <<blocked, cpu_time>>
  BY DEF Dispatch
<1> QED BY <1>1, <1>2, <1>4, <1>5, TimerAssumption DEF TypeInv, TimerTypeOK, CpuHeld

\* or the current one again,
LEMMA ReloadTypes ==
    ASSUME TypeInv, NEW g \in Nat, NEW h \in Nat, NEW k \in Nat, Reload(g, h, k)
    PROVE  TypeInv'
<1> DEFINE left == Minus(SCHED_TIME_SLICE, cpu_slice[current_thread])
<1>1. TimerTypeOK /\ SCHED_TIME_SLICE \in Counter /\ current_thread \in Thread
  BY TimerAssumption DEF TypeInv, TimerTypeOK, Counter, Reload
<1>2. left \in Counter BY <1>1, MinusWraps DEF TimerTypeOK
<1>3. left \in Nat BY <1>2, TimerAssumption DEF Counter
<1>4. LoadThread(left, g, h, k) BY DEF Reload
<1> HIDE DEF left
<1>5. /\ pseudo_tick' \in Counter /\ start_pseudo_tick' \in Counter
      /\ current_thread_tod' \in Counter
      /\ tod' \in Counter /\ it' \in Counter /\ expired' \in BOOLEAN
      /\ onCpu' \in Nat /\ pc' = "thread"
  BY <1>1, <1>3, <1>4, LoadTypes
<1> QED BY <1>1, <1>5, TimerAssumption
    DEF Reload, TypeInv, TimerTypeOK, CpuHeld, threadVars, cpuVars

\* or waits.
LEMMA WaitTypes == ASSUME TypeInv, Wait PROVE TypeInv'
BY DEF Wait, TypeInv, TimerTypeOK, CpuHeld, threadVars, cpuVars, clockVars, hardware

\* The durations that Next draws from.
LEMMA Durations ==
    /\ Gaps \subseteq Nat /\ Body \subseteq Nat
    /\ \A g \in Gaps, d \in Body : g <= d
    /\ \A k \in Gaps : 0 .. k \subseteq Gaps
BY TimerAssumption DEF Gaps

\* Every step keeps the types.
LEMMA NextTypes == TypeInv /\ [Next]_vars => TypeInv'
<1> SUFFICES ASSUME TypeInv, [Next]_vars PROVE TypeInv' OBVIOUS
<1>1. CASE Elapse BY <1>1, ElapseTypes
<1>2. ASSUME NEW g \in Gaps, NEW d \in Body,
             Exception(g, d) \/ DeviceInterrupt(g, d) \/ TimerInterrupt(g, d)
      PROVE  TypeInv'
  <2>1. g \in Nat /\ d \in Nat /\ g <= d BY Durations
  <2> QED BY <1>2, <2>1, ExceptionTypes, DeviceTypes, TimerTypes
<1>3. ASSUME NEW k \in Gaps, NEW h \in 0 .. k, NEW g \in 0 .. h,
             Dispatch(g, h, k) \/ Reload(g, h, k)
      PROVE  TypeInv'
  <2>1. k \in Nat /\ h \in Nat /\ g \in Nat BY Durations
  <2> QED BY <1>3, <2>1, DispatchTypes, ReloadTypes
<1>4. CASE Wait BY <1>4, WaitTypes
<1>5. CASE UNCHANGED vars
  BY <1>5
  DEF vars, TypeInv, TimerTypeOK, CpuHeld, threadVars, cpuVars, clockVars, hardware
<1> QED BY <1>1, <1>2, <1>3, <1>4, <1>5 DEF Next

\* The types hold of every behaviour.
LEMMA TypeInvariant == Spec => []TypeInv
BY InitTypes, NextTypes, PTL DEF Spec

\* For any clock rate, slice and period the unsigned counters of tcb_t, of the
\* pseudo clock and of the two registers keep their width, and the scheduler's
\* queue holds threads.
THEOREM TimerTypeCorrect == Spec => []TimerTypeOK
<1>1. TypeInv => TimerTypeOK BY DEF TypeInv
<1> QED BY <1>1, TypeInvariant, PTL

----------------------------------------------------------------------------
(* Deadlines, on a machine with one clock tick per microsecond *)

\* The next thread has been chosen by nobody yet, and will be loaded.
Starting == pc = "scheduler" /\ current_thread = NULL /\ ready_queue # <<>>

\* ClockOnTime, with the handlers that lead to it.
ClockOn == expired \/ it + Counted <= SCHED_PSEUDO_CLOCK + Gap
ClockInv == Starting \/ ClockOn

\* A thread cannot use more than its slice and the time that the pseudo clock
\* has counted: both clocks run while it does.
SliceInv ==
    /\ pc = "scheduler" /\ current_thread # NULL =>
          /\ cpu_slice[current_thread] <= SCHED_TIME_SLICE + Counted
          /\ cpu_slice[current_thread] <= SCHED_TIME_SLICE + SCHED_PSEUDO_CLOCK + Gap
    /\ pc = "thread" /\ ~expired =>
          cpu_slice[current_thread] + Minus(tod, current_thread_tod)
            <= SCHED_TIME_SLICE + Counted

\* What the next handler will charge the thread that executes.
ExactInv == pc = "thread" => Minus(tod, current_thread_tod) \in onCpu .. onCpu + Gap

TimeInv == TypeInv /\ ClockInv /\ SliceInv /\ ExactInv /\ SliceBounded

\* The counted time, of the values of its three variables.
Since(p, t, s) == Plus(p, Minus(t, s))

\* What TimerAssumption says of the durations.
LEMMA Bounds ==
    ASSUME BUS_TIMESCALE = 1
    PROVE  /\ SCHED_TIME_SLICE \in Nat \ {0} /\ SCHED_PSEUDO_CLOCK \in Nat \ {0}
           /\ Gap \in Nat /\ Load \in Nat /\ Load >= 2 /\ U32 \in Nat
           /\ SCHED_TIME_SLICE + SCHED_PSEUDO_CLOCK + Load + 4 * Gap < U32
           /\ Counter = 0 .. U32 - 1
           /\ \A d \in Body : /\ d \in Nat \ {0} /\ Gap <= d
                              /\ SCHED_TIME_SLICE + SCHED_PSEUDO_CLOCK + Load + 4 * Gap + d < U32
BY TimerAssumption DEF Counter

\* GET_TODLOW reads the register.
LEMMA ReadClock ==
    ASSUME BUS_TIMESCALE = 1, tod \in Counter
    PROVE  GET_TODLOW(0) = tod /\ \A g \in Counter : GET_TODLOW(g) = Plus(tod, g)
<1>1. U32 \in Nat /\ Counter = 0 .. U32 - 1 /\ 0 \in Counter BY Bounds
<1>2. ASSUME NEW x \in Counter PROVE x \div BUS_TIMESCALE = x BY <1>1
<1>3. ASSUME NEW g \in Counter PROVE GET_TODLOW(g) = Plus(tod, g)
  <2>1. Plus(tod, g) \in Counter BY PlusWraps
  <2> QED BY <1>2, <2>1 DEF GET_TODLOW
<1>4. Plus(tod, 0) = tod BY <1>1, PlusWraps
<1> QED BY <1>1, <1>3, <1>4

\* Counted before a step,
LEMMA CountedIs ==
    ASSUME BUS_TIMESCALE = 1, tod \in Counter
    PROVE  Counted = Since(pseudo_tick, tod, start_pseudo_tick)
BY ReadClock DEF Counted, Since

\* and after it.
LEMMA CountedBecomes ==
    ASSUME BUS_TIMESCALE = 1, tod' \in Counter
    PROVE  Counted' = Since(pseudo_tick', tod', start_pseudo_tick')
<1>1. U32 \in Nat /\ Counter = 0 .. U32 - 1 /\ 0 \in Counter BY Bounds
<1>2. Plus(tod', 0) = tod' BY <1>1, PlusWraps
<1>3. Plus(tod', 0) \div BUS_TIMESCALE = tod' BY <1>1, <1>2
<1> QED BY <1>3 DEF Counted, Since, GET_TODLOW

\* Three unsigned numbers.
LEMMA PlusAssociative ==
    ASSUME NEW x \in Counter, NEW y \in Counter, NEW z \in Counter
    PROVE  Plus(x, Plus(y, z)) = Plus(Plus(x, y), z)
<1>1. U32 \in Nat /\ U32 > 0 BY TimerAssumption
<1>2. x \in 0 .. U32 - 1 /\ y \in 0 .. U32 - 1 /\ z \in 0 .. U32 - 1 BY DEF Counter
<1> DEFINE a == Plus(x, y)
           b == Plus(y, z)
<1>3. a \in Counter /\ b \in Counter BY PlusWraps
<1>4. /\ x + y < U32 => a = x + y
      /\ x + y >= U32 => a = x + y - U32
      /\ y + z < U32 => b = y + z
      /\ y + z >= U32 => b = y + z - U32
  BY PlusWraps
<1> HIDE DEF a, b
<1>5. /\ x + b < U32 => Plus(x, b) = x + b
      /\ x + b >= U32 => Plus(x, b) = x + b - U32
      /\ a + z < U32 => Plus(a, z) = a + z
      /\ a + z >= U32 => Plus(a, z) = a + z - U32
  BY <1>3, PlusWraps
<1>6. a \in 0 .. U32 - 1 /\ b \in 0 .. U32 - 1 BY <1>3 DEF Counter
<1> QED BY <1>1, <1>2, <1>4, <1>5, <1>6 DEF a, b

\* d ticks pass in a thread, in WAIT or in a handler that sets no timer.
LEMMA LaterKeeps ==
    ASSUME BUS_TIMESCALE = 1, TimerTypeOK, ~expired,
           it + Counted <= SCHED_PSEUDO_CLOCK + Gap,
           NEW d \in Nat, SCHED_PSEUDO_CLOCK + Gap + d < U32,
           Later(d), UNCHANGED <<pseudo_tick, start_pseudo_tick>>
    PROVE  ClockOn' /\ Counted' = Counted + d /\ Counted \in Nat
<1>1. /\ U32 \in Nat /\ Counter = 0 .. U32 - 1 /\ d \in Counter
      /\ SCHED_PSEUDO_CLOCK \in Nat /\ Gap \in Nat
  BY Bounds
<1>2. /\ tod \in Counter /\ it \in Counter
      /\ pseudo_tick \in Counter /\ start_pseudo_tick \in Counter
  BY DEF TimerTypeOK
<1>3. tod' = Plus(tod, d) /\ it' = Minus(it, d) /\ expired' = (d > it)
  BY DEF Later
<1>4. Counted = Since(pseudo_tick, tod, start_pseudo_tick) /\ Counted \in Counter
  BY <1>2, CountedIs, CountedRange
<1>5. tod' \in Counter BY <1>1, <1>2, <1>3, PlusWraps
<1>6. Counted' = Plus(Counted, d)
  <2> DEFINE m == Minus(tod, start_pseudo_tick)
  <2>1. m \in Counter BY <1>2, MinusWraps
  <2>2. Minus(tod', start_pseudo_tick) = Plus(m, d) BY <1>1, <1>2, <1>3, MinusAdvances
  <2>3. Counted' = Plus(pseudo_tick, Minus(tod', start_pseudo_tick))
    BY <1>5, CountedBecomes DEF Since
  <2>4. Counted = Plus(pseudo_tick, m) BY <1>4 DEF Since
  <2> HIDE DEF m
  <2> QED BY <1>1, <1>2, <2>1, <2>2, <2>3, <2>4, PlusAssociative
<1>7. Counted' = Counted + d BY <1>1, <1>2, <1>4, <1>6, PlusWraps
<1>8. d <= it => it' = it - d BY <1>1, <1>2, <1>3, MinusWraps
<1>9. ClockOn'
  <2>1. d > it => expired' BY <1>3
  <2>2. d <= it => it' + Counted' <= SCHED_PSEUDO_CLOCK + Gap
    BY <1>1, <1>2, <1>4, <1>7, <1>8
  <2>3. d > it \/ d <= it BY <1>1, <1>2
  <2> QED BY <2>1, <2>2, <2>3 DEF ClockOn
<1> QED BY <1>1, <1>4, <1>7, <1>9

\* A thread that executes and whose timer has not expired: what it has used.
LEMMA ThreadRuns ==
    ASSUME BUS_TIMESCALE = 1, TimeInv, pc = "thread", ~expired
    PROVE  /\ current_thread \in Thread /\ cpu_slice[current_thread] \in Nat
           /\ Counted \in Nat /\ it \in Nat /\ onCpu \in Nat
           /\ Minus(tod, current_thread_tod) \in onCpu .. onCpu + Gap
           /\ cpu_slice[current_thread] + Minus(tod, current_thread_tod)
                <= SCHED_TIME_SLICE + Counted
           /\ it + Counted <= SCHED_PSEUDO_CLOCK + Gap
<1>1. TimerTypeOK /\ U32 \in Nat /\ Counter = 0 .. U32 - 1 BY Bounds DEF TimeInv, TypeInv
<1>2. current_thread \in Thread BY DEF TimeInv, TypeInv, CpuHeld, TimerTypeOK
<1>3. Counted \in Counter BY <1>1, CountedRange
<1>4. it \in Counter /\ cpu_slice[current_thread] \in Counter /\ onCpu \in Nat
  BY <1>1, <1>2 DEF TimerTypeOK
<1>5. it + Counted <= SCHED_PSEUDO_CLOCK + Gap
  BY DEF TimeInv, ClockInv, ClockOn, Starting
<1> QED BY <1>1, <1>2, <1>3, <1>4, <1>5 DEF TimeInv, SliceInv, ExactInv

\* A tick of the clock in a thread or in WAIT.
LEMMA ElapseTime ==
    ASSUME BUS_TIMESCALE = 1, TimeInv, Elapse
    PROVE  TimeInv'
<1>0. TypeInv' BY ElapseTypes DEF TimeInv
<1>1. /\ SCHED_TIME_SLICE \in Nat /\ SCHED_PSEUDO_CLOCK \in Nat /\ Gap \in Nat
      /\ Load \in Nat /\ Load >= 2 /\ U32 \in Nat
      /\ SCHED_TIME_SLICE + SCHED_PSEUDO_CLOCK + Load + 4 * Gap < U32
      /\ Counter = 0 .. U32 - 1
  BY Bounds
<1>2. /\ TimerTypeOK /\ ~expired /\ pc \in {"thread", "wait"} /\ pc' = pc
      /\ Later(1) /\ UNCHANGED <<pseudo_tick, start_pseudo_tick, current_thread_tod>>
      /\ UNCHANGED <<current_thread, cpu_slice>>
      /\ onCpu' = IF current_thread = NULL THEN 0 ELSE onCpu + 1
  BY DEF Elapse, TimeInv, TypeInv, clockVars, cpuVars, threadVars
<1>3. it + Counted <= SCHED_PSEUDO_CLOCK + Gap
  BY <1>2 DEF TimeInv, ClockInv, ClockOn, Starting
<1>4. ClockOn' /\ Counted' = Counted + 1 BY <1>1, <1>2, <1>3, LaterKeeps
<1>5. CASE pc = "wait"
  BY <1>0, <1>2, <1>4, <1>5 DEF TimeInv, ClockInv, SliceInv, ExactInv, SliceBounded
<1>6. CASE pc = "thread"
  <2> DEFINE c == cpu_slice[current_thread]
             m == Minus(tod, current_thread_tod)
  <2>1. /\ current_thread \in Thread /\ c \in Nat /\ Counted \in Nat /\ it \in Nat
        /\ onCpu \in Nat /\ m \in onCpu .. onCpu + Gap
        /\ c + m <= SCHED_TIME_SLICE + Counted
        /\ it + Counted <= SCHED_PSEUDO_CLOCK + Gap
    BY <1>2, <1>6, ThreadRuns
  <2>2. onCpu' = onCpu + 1 BY <1>2, <2>1, TimerAssumption
  <2>3. Minus(tod', current_thread_tod') = Plus(m, 1)
    BY <1>1, <1>2, MinusAdvances DEF Later, TimerTypeOK
  <2>4. c' = c BY <1>2
  <2>5. m \in Counter /\ 1 \in Counter /\ m + 1 < U32 BY <1>1, <2>1
  <2> HIDE DEF c, m
  <2>6. Minus(tod', current_thread_tod') = m + 1 BY <2>3, <2>5, PlusWraps
  <2>7. ExactInv' BY <1>1, <2>1, <2>2, <2>6 DEF ExactInv
  <2>8. c + Minus(tod', current_thread_tod') <= SCHED_TIME_SLICE + Counted'
    BY <1>1, <1>4, <2>1, <2>6
  <2>9. SliceInv' BY <1>2, <1>6, <2>4, <2>8 DEF SliceInv, c
  <2>10. c + onCpu' <= SCHED_TIME_SLICE + SCHED_PSEUDO_CLOCK + Load + 2 * Gap
    BY <1>1, <2>1, <2>2
  <2>11. SliceBounded' BY <2>4, <2>10 DEF SliceBounded, c
  <2> QED BY <1>0, <1>4, <2>7, <2>9, <2>11 DEF TimeInv, ClockInv
<1> QED BY <1>2, <1>5, <1>6

\* A handler that the timer has not caused keeps the current thread, with
\* what it is charged, or loses it.
LEMMA HandlerTime ==
    ASSUME BUS_TIMESCALE = 1, TimeInv, TypeInv', ~expired, pc \in {"thread", "wait"},
           NEW g \in Nat, NEW d \in Body, Later(d),
           UNCHANGED <<pseudo_tick, start_pseudo_tick>>, pc' = "scheduler",
           current_thread' \in {current_thread, NULL},
           current_thread # NULL => Charge(current_thread, g)
    PROVE  TimeInv'
<1>1. /\ SCHED_TIME_SLICE \in Nat /\ SCHED_PSEUDO_CLOCK \in Nat /\ Gap \in Nat
      /\ Load \in Nat /\ Load >= 2 /\ U32 \in Nat /\ d \in Nat
      /\ SCHED_TIME_SLICE + SCHED_PSEUDO_CLOCK + Load + 4 * Gap + d < U32
      /\ Counter = 0 .. U32 - 1
  BY Bounds
<1>2. TimerTypeOK BY DEF TimeInv, TypeInv
<1>3. it + Counted <= SCHED_PSEUDO_CLOCK + Gap
  BY DEF TimeInv, ClockInv, ClockOn, Starting
<1>4. ClockOn' /\ Counted' = Counted + d BY <1>1, <1>2, <1>3, LaterKeeps
<1>5. SliceInv'
  <2>1. ASSUME current_thread' # NULL
        PROVE  /\ cpu_slice'[current_thread'] <= SCHED_TIME_SLICE + Counted'
               /\ cpu_slice'[current_thread']
                    <= SCHED_TIME_SLICE + SCHED_PSEUDO_CLOCK + Gap
    <3> DEFINE c == cpu_slice[current_thread]
               m == Minus(tod, current_thread_tod)
    <3>1. current_thread' = current_thread /\ current_thread # NULL BY <2>1
    <3>2. pc = "thread" BY <3>1 DEF TimeInv, TypeInv, CpuHeld
    <3>3. /\ current_thread \in Thread /\ c \in Nat /\ Counted \in Nat /\ it \in Nat
          /\ onCpu \in Nat /\ m \in onCpu .. onCpu + Gap
          /\ c + m <= SCHED_TIME_SLICE + Counted
      BY <3>2, ThreadRuns
    <3>4. cpu_slice'[current_thread] = Plus(c, m)
      BY <1>2, <3>1, <3>3, ReadClock DEF Charge, TimerTypeOK
    <3> HIDE DEF c, m
    <3>5. c \in Counter /\ m \in Counter /\ c + m < U32 BY <1>1, <1>3, <3>3
    <3>6. cpu_slice'[current_thread] = c + m BY <3>4, <3>5, PlusWraps
    <3> QED BY <1>1, <1>3, <1>4, <3>1, <3>3, <3>6
  <2> QED BY <2>1 DEF SliceInv
<1> QED BY <1>4, <1>5 DEF TimeInv, ClockInv, ExactInv, SliceBounded

\* The timer set to v, d ticks ago.
LEMMA TimerSet ==
    ASSUME BUS_TIMESCALE = 1, tod \in Counter, NEW b \in Nat, NEW d \in Nat, b + d \in Counter,
           NEW v \in Counter, LaterSet(b, v, d)
    PROVE  /\ tod' = Plus(tod, b + d) /\ tod' \in Counter
           /\ d > v => expired'
           /\ d <= v => it' = v - d
<1>1. U32 \in Nat /\ Counter = 0 .. U32 - 1 BY Bounds
<1>2. tod' = Plus(tod, b + d) /\ it' = Minus(v, d) /\ expired' = (d > v) BY DEF LaterSet
<1>3. tod' \in Counter BY <1>2, PlusWraps
<1>4. d > v => expired' BY <1>2
<1>5. ASSUME d <= v PROVE it' = v - d
  <2>1. d \in Counter BY <1>1, <1>5
  <2> QED BY <1>1, <1>2, <1>5, <2>1, MinusWraps
<1> QED BY <1>2, <1>3, <1>4, <1>5

\* A pseudo clock at p restarted b ticks from now, d more ticks later.
LEMMA Restarted ==
    ASSUME BUS_TIMESCALE = 1, tod \in Counter, NEW b \in Nat, NEW d \in Nat, b + d \in Counter,
           tod' = Plus(tod, b + d), tod' \in Counter, start_pseudo_tick' = GET_TODLOW(b),
           NEW p \in Counter, pseudo_tick' = p
    PROVE  Counted' = Plus(p, d) /\ d \in Counter
<1>1. U32 \in Nat /\ Counter = 0 .. U32 - 1 BY Bounds
<1>2. b \in Counter /\ b <= b + d /\ d \in Counter /\ (b + d) - b = d BY <1>1
<1>3. start_pseudo_tick' = Plus(tod, b) BY <1>2, ReadClock
<1> DEFINE a == b + d
<1>4. a \in Counter /\ b <= a /\ a - b = d /\ tod' = Plus(tod, a) BY <1>2
<1> HIDE DEF a
<1>5. Minus(tod', start_pseudo_tick') = d BY <1>2, <1>3, <1>4, MinusSpan
<1> QED BY <1>2, <1>5, CountedBecomes DEF Since

\* int_handler on the line of the interval timer.
LEMMA TimerInterruptTime ==
    ASSUME BUS_TIMESCALE = 1, TimeInv, NEW g \in Gaps, NEW d \in Body, TimerInterrupt(g, d)
    PROVE  TimeInv'
<1>1. /\ SCHED_TIME_SLICE \in Nat /\ SCHED_PSEUDO_CLOCK \in Nat \ {0} /\ Gap \in Nat
      /\ Load \in Nat /\ Load >= 2 /\ U32 \in Nat /\ d \in Nat /\ g \in Nat /\ g <= d
      /\ SCHED_TIME_SLICE + SCHED_PSEUDO_CLOCK + Load + 4 * Gap + d < U32
      /\ Counter = 0 .. U32 - 1
  BY Bounds, Durations
<1>2. TimerTypeOK /\ tod \in Counter BY DEF TimeInv, TypeInv, TimerTypeOK
<1>3. TypeInv' BY <1>1, TimerTypes DEF TimeInv
<1>4. Counted \in Counter BY <1>2, CountedRange
<1>5. CASE SliceOver
  <2>1. current_thread' = NULL /\ pc' = "scheduler" /\ expired'
    BY <1>5 DEF TimerInterrupt, Later
  <2> QED BY <1>3, <2>1 DEF TimeInv, ClockInv, ClockOn, SliceInv, ExactInv, SliceBounded
<1>6. CASE ~SliceOver
  <2>1. /\ current_thread' = current_thread /\ pc' = "scheduler"
        /\ IF Counted < SCHED_PSEUDO_CLOCK THEN LaterSet(g, SetDefault, d - g)
           ELSE LaterSet(d, SetDefault, 0)
    BY <1>6 DEF TimerInterrupt
  <2>2. Counted' \in Nat /\ ClockOn'
    <3>1. CASE Counted < SCHED_PSEUDO_CLOCK
      <4> DEFINE e == d - g
                 v == SCHED_PSEUDO_CLOCK - Counted
      <4>1. pseudo_tick' = Counted /\ start_pseudo_tick' = GET_TODLOW(g)
        BY <1>1, <1>4, <3>1 DEF TimerInterrupt, PseudoClock, NoPseudoClock
      <4>2. e \in Nat /\ g + e = d /\ g + e \in Counter /\ v \in Counter /\ v + Counted = SCHED_PSEUDO_CLOCK
        BY <1>1, <1>4, <3>1
      <4>3. SetDefault = v
        <5>1. pseudo_tick' * BUS_TIMESCALE = Counted BY <1>1, <1>4, <4>1
        <5>2. SetDefault = v % U32 BY <5>1 DEF SetDefault
        <5> HIDE DEF v
        <5>3. v % U32 = v BY <1>1, <4>2
        <5> QED BY <5>2, <5>3
      <4>4. LaterSet(g, v, e) BY <2>1, <3>1, <4>3
      <4> HIDE DEF e, v
      <4>5. /\ tod' = Plus(tod, g + e) /\ tod' \in Counter
            /\ e > v => expired'
            /\ e <= v => it' = v - e
        BY <1>1, <1>2, <4>2, <4>4, TimerSet
      <4>6. Counted' = Plus(Counted, e) /\ e \in Counter
        BY <1>1, <1>2, <1>4, <4>1, <4>2, <4>5, Restarted
      <4>7. Counted' = Counted + e BY <1>1, <1>4, <3>1, <4>2, <4>6, PlusWraps
      <4>8. e <= v => it' + Counted' <= SCHED_PSEUDO_CLOCK + Gap
        BY <1>1, <1>4, <4>2, <4>5, <4>7
      <4>9. e <= v \/ e > v BY <1>1, <4>2
      <4> QED BY <1>1, <1>4, <4>2, <4>5, <4>7, <4>8, <4>9 DEF ClockOn
    <3>2. CASE Counted >= SCHED_PSEUDO_CLOCK
      <4> DEFINE z == 0
                 v == SCHED_PSEUDO_CLOCK
      <4>1. pseudo_tick' = z /\ start_pseudo_tick' = GET_TODLOW(d)
        BY <1>1, <1>4, <3>2 DEF TimerInterrupt, PseudoClock, NoPseudoClock
      <4>2. z \in Nat /\ z \in Counter /\ d + z = d /\ d + z \in Counter /\ v \in Counter BY <1>1
      <4>3. SetDefault = v
        <5>1. v - pseudo_tick' * BUS_TIMESCALE = v BY <1>1, <4>1
        <5>2. SetDefault = v % U32 BY <5>1 DEF SetDefault
        <5>3. v % U32 = v BY <1>1, <4>2
        <5> QED BY <5>2, <5>3
      <4>4. LaterSet(d, v, z) BY <1>1, <1>4, <2>1, <3>2, <4>3
      <4>5. z <= v /\ v - z = v BY <1>1
      <4>6. tod' = Plus(tod, d + z) /\ tod' \in Counter /\ it' = v - z
        <5> HIDE DEF z, v
        <5> QED BY <1>1, <1>2, <4>2, <4>4, <4>5, TimerSet
      <4>7. Counted' = Plus(z, z)
        <5> HIDE DEF z
        <5> QED BY <1>1, <1>2, <4>1, <4>2, <4>6, Restarted
      <4>8. Counted' = 0 BY <1>1, <4>2, <4>7, PlusWraps
      <4> QED BY <1>1, <4>6, <4>8 DEF ClockOn
    <3> QED BY <1>1, <1>4, <3>1, <3>2
  <2>3. ASSUME current_thread # NULL
        PROVE  cpu_slice'[current_thread] < SCHED_TIME_SLICE /\ cpu_slice'[current_thread] \in Nat
    <3>1. current_thread \in Thread BY <1>2, <2>3 DEF TimerTypeOK
    <3>2. cpu_slice'[current_thread] \in Counter BY <1>3, <3>1 DEF TypeInv, TimerTypeOK
    <3> QED BY <1>1, <1>6, <2>3, <3>2 DEF SliceOver
  <2>4. SliceInv' BY <1>1, <2>1, <2>2, <2>3 DEF SliceInv
  <2> QED BY <1>3, <2>1, <2>2, <2>4 DEF TimeInv, ClockInv, ExactInv, SliceBounded
<1> QED BY <1>5, <1>6

\* The end of scheduler(): the timer is set for the nearer of two deadlines.
LEMMA LoadTime ==
    ASSUME BUS_TIMESCALE = 1, TimerTypeOK, NEW left \in Counter,
           NEW k \in Gaps, NEW h \in 0 .. k, NEW g \in 0 .. h, LoadThread(left, g, h, k)
    PROVE  /\ Counted \in Nat /\ Minus(tod', current_thread_tod') = Load + (k - h)
           /\ ClockOn'
           /\ expired' \/ Counted' = Counted + Load + (k - g)
<1>1. /\ SCHED_TIME_SLICE \in Nat /\ SCHED_PSEUDO_CLOCK \in Nat \ {0} /\ Gap \in Nat
      /\ Load \in Nat /\ Load >= 2 /\ U32 \in Nat
      /\ SCHED_TIME_SLICE + SCHED_PSEUDO_CLOCK + Load + 4 * Gap < U32
      /\ Counter = 0 .. U32 - 1
      /\ k \in Nat /\ h \in Nat /\ g \in Nat /\ k <= Gap /\ g <= h /\ h <= k
  BY Bounds DEF Gaps
<1>2. tod \in Counter /\ Counted \in Counter BY CountedRange DEF TimerTypeOK
<1> DEFINE v == IF Counted >= SCHED_PSEUDO_CLOCK THEN 1
                ELSE MIN(left, Minus(SCHED_PSEUDO_CLOCK, Counted))
           a == k + Load
           e == a - g
<1>3. /\ pseudo_tick' = Counted /\ start_pseudo_tick' = GET_TODLOW(g)
      /\ current_thread_tod' = GET_TODLOW(h) /\ LaterSet(k, SET_IT(v), Load)
  BY DEF LoadThread
<1>4. /\ Counted >= SCHED_PSEUDO_CLOCK => v = 1
      /\ Counted < SCHED_PSEUDO_CLOCK => v <= SCHED_PSEUDO_CLOCK - Counted
      /\ v \in Counter
  <2>1. SCHED_PSEUDO_CLOCK \in Counter BY <1>1
  <2>2. ASSUME Counted < SCHED_PSEUDO_CLOCK
        PROVE  Minus(SCHED_PSEUDO_CLOCK, Counted) = SCHED_PSEUDO_CLOCK - Counted
    BY <1>1, <1>2, <2>1, <2>2, MinusWraps
  <2> QED BY <1>1, <1>2, <2>2 DEF MIN
<1> HIDE DEF v
<1>5. SET_IT(v) = v
  <2>1. v * BUS_TIMESCALE = v BY <1>1, <1>4
  <2>2. v % U32 = v BY <1>1, <1>4
  <2> QED BY <2>1, <2>2 DEF SET_IT
<1>6. /\ a \in Counter /\ h \in Counter /\ g \in Counter /\ h <= a /\ g <= a
      /\ e \in Nat /\ g + e = a /\ a - h = Load + (k - h) /\ e = Load + (k - g)
  BY <1>1
<1>7. /\ tod' = Plus(tod, a) /\ tod' \in Counter
      /\ Load > v => expired'
      /\ Load <= v => it' = v - Load
  BY <1>1, <1>2, <1>3, <1>4, <1>5, <1>6, TimerSet
<1> HIDE DEF a, e
<1>8. Minus(tod', current_thread_tod') = Load + (k - h)
  BY <1>2, <1>3, <1>6, <1>7, ReadClock, MinusSpan
<1>9. Counted' = Plus(Counted, e) /\ e \in Counter
  <2>1. g + e \in Counter /\ tod' = Plus(tod, g + e) BY <1>6, <1>7
  <2> QED BY <1>1, <1>2, <1>3, <1>6, <1>7, <2>1, Restarted
<1>10. CASE Load > v BY <1>1, <1>2, <1>7, <1>8, <1>10 DEF ClockOn
<1>11. CASE Load <= v
  <2>1. Counted < SCHED_PSEUDO_CLOCK /\ v <= SCHED_PSEUDO_CLOCK - Counted
    BY <1>1, <1>2, <1>4, <1>11
  <2>2. Counted + e < U32 BY <1>1, <1>2, <1>4, <1>6, <1>11, <2>1
  <2>3. Counted' = Counted + e BY <1>2, <1>9, <2>2, PlusWraps
  <2>4. it' + Counted' <= SCHED_PSEUDO_CLOCK + Gap
    BY <1>1, <1>2, <1>4, <1>6, <1>7, <1>11, <2>1, <2>3
  <2>5. Counted' = Counted + Load + (k - g) BY <1>1, <1>2, <1>6, <2>3
  <2> QED BY <1>1, <1>2, <1>8, <2>4, <2>5 DEF ClockOn
<1> QED BY <1>1, <1>4, <1>10, <1>11

\* A thread loaded with a slice of which c is used.
LEMMA LoadedTime ==
    ASSUME BUS_TIMESCALE = 1, TypeInv, TypeInv', NEW left \in Counter,
           NEW k \in Gaps, NEW h \in 0 .. k, NEW g \in 0 .. h, LoadThread(left, g, h, k),
           cpu_slice'[current_thread'] <= SCHED_TIME_SLICE + Counted,
           cpu_slice'[current_thread'] <= SCHED_TIME_SLICE + SCHED_PSEUDO_CLOCK + Gap
    PROVE  TimeInv'
<1> DEFINE c == cpu_slice'[current_thread']
           m == Minus(tod', current_thread_tod')
<1>1. /\ SCHED_TIME_SLICE \in Nat /\ SCHED_PSEUDO_CLOCK \in Nat /\ Gap \in Nat
      /\ Load \in Nat /\ U32 \in Nat /\ Counter = 0 .. U32 - 1
      /\ k \in Nat /\ h \in Nat /\ g \in Nat /\ k <= Gap /\ g <= h /\ h <= k
  BY Bounds DEF Gaps
<1>2. pc' = "thread" /\ onCpu' = Load BY DEF LoadThread
<1>3. c \in Nat
  <2>1. current_thread' \in Thread BY <1>2 DEF TypeInv, TimerTypeOK, CpuHeld
  <2>2. cpu_slice'[current_thread'] \in Counter BY <2>1 DEF TypeInv, TimerTypeOK
  <2> QED BY <1>1, <2>2
<1>4. /\ Counted \in Nat /\ m = Load + (k - h) /\ ClockOn'
      /\ expired' \/ Counted' = Counted + Load + (k - g)
  BY LoadTime DEF TypeInv
<1>5. c <= SCHED_TIME_SLICE + Counted /\ c <= SCHED_TIME_SLICE + SCHED_PSEUDO_CLOCK + Gap
  OBVIOUS
<1> HIDE DEF c, m
<1>6. m \in Load .. Load + Gap BY <1>1, <1>4
<1>7. ExactInv' BY <1>2, <1>6 DEF ExactInv, m
<1>8. ASSUME ~expired' PROVE c + m <= SCHED_TIME_SLICE + Counted'
  <2>1. Counted' = Counted + Load + (k - g) BY <1>4, <1>8
  <2> QED BY <1>1, <1>3, <1>4, <1>5, <2>1
<1>9. SliceInv' BY <1>2, <1>8 DEF SliceInv, c, m
<1>10. c + Load <= SCHED_TIME_SLICE + SCHED_PSEUDO_CLOCK + Load + 2 * Gap
  BY <1>1, <1>3, <1>5
<1>11. SliceBounded' BY <1>2, <1>10 DEF SliceBounded, c
<1> QED BY <1>4, <1>7, <1>9, <1>11 DEF TimeInv, ClockInv

\* A new slice.
LEMMA DispatchTime ==
    ASSUME BUS_TIMESCALE = 1, TimeInv,
           NEW k \in Gaps, NEW h \in 0 .. k, NEW g \in 0 .. h, Dispatch(g, h, k)
    PROVE  TimeInv'
<1>1. /\ SCHED_TIME_SLICE \in Nat /\ SCHED_PSEUDO_CLOCK \in Nat /\ Gap \in Nat
      /\ U32 \in Nat /\ Counter = 0 .. U32 - 1 /\ SCHED_TIME_SLICE \in Counter
      /\ k \in Nat /\ h \in Nat /\ g \in Nat
  BY Bounds DEF Gaps
<1>2. TypeInv /\ TimerTypeOK /\ Counted \in Counter BY CountedRange DEF TimeInv, TypeInv
<1>3. TypeInv' BY <1>1, <1>2, DispatchTypes
<1>4. LoadThread(SCHED_TIME_SLICE, g, h, k) BY DEF Dispatch
<1>5. cpu_slice'[current_thread'] = 0
  <2>1. Head(ready_queue) \in Thread
    BY <1>2, HeadTailProperties DEF Dispatch, TimerTypeOK
  <2> QED BY <1>2, <2>1 DEF Dispatch, TimerTypeOK
<1>6. /\ cpu_slice'[current_thread'] <= SCHED_TIME_SLICE + Counted
      /\ cpu_slice'[current_thread'] <= SCHED_TIME_SLICE + SCHED_PSEUDO_CLOCK + Gap
  BY <1>1, <1>2, <1>5
<1> QED BY <1>1, <1>2, <1>3, <1>4, <1>6, LoadedTime

\* The rest of a slice, or the wrapped difference when there is none.
LEMMA ReloadTime ==
    ASSUME BUS_TIMESCALE = 1, TimeInv,
           NEW k \in Gaps, NEW h \in 0 .. k, NEW g \in 0 .. h, Reload(g, h, k)
    PROVE  TimeInv'
<1> DEFINE left == Minus(SCHED_TIME_SLICE, cpu_slice[current_thread])
<1>1. /\ U32 \in Nat /\ Counter = 0 .. U32 - 1 /\ SCHED_TIME_SLICE \in Counter
      /\ k \in Nat /\ h \in Nat /\ g \in Nat
  BY Bounds DEF Gaps
<1>2. TypeInv /\ current_thread \in Thread /\ cpu_slice[current_thread] \in Counter
  BY DEF TimeInv, TypeInv, TimerTypeOK, Reload
<1>3. TypeInv' BY <1>1, <1>2, ReloadTypes
<1>4. left \in Counter BY <1>1, <1>2, MinusWraps
<1>5. LoadThread(left, g, h, k) BY DEF Reload
<1>6. /\ cpu_slice'[current_thread'] <= SCHED_TIME_SLICE + Counted
      /\ cpu_slice'[current_thread'] <= SCHED_TIME_SLICE + SCHED_PSEUDO_CLOCK + Gap
  BY DEF TimeInv, SliceInv, Reload, threadVars, cpuVars
<1> HIDE DEF left
<1> QED BY <1>2, <1>3, <1>4, <1>5, <1>6, LoadedTime

\* boot.c leaves threads to be dispatched.
LEMMA InitTime == Init => TimeInv
<1> SUFFICES ASSUME Init PROVE TimeInv OBVIOUS
<1>1. ready_queue # <<>>
  <2>1. Cardinality(Thread) \in Nat /\ Cardinality(Thread) # 0
    BY TimerAssumption, FS_CardinalityType, FS_EmptySet
  <2>2. ready_queue \in [1 .. Cardinality(Thread) -> Thread] BY DEF Init, SetToSeqs
  <2>3. 1 \in DOMAIN ready_queue BY <2>1, <2>2
  <2>4. ready_queue \in Seq(Thread) BY InitTypes DEF TypeInv, TimerTypeOK
  <2> QED BY <2>3, <2>4
<1> QED BY <1>1, InitTypes
    DEF Init, TimeInv, ClockInv, Starting, SliceInv, ExactInv, SliceBounded

\* Every step keeps the deadlines.
LEMMA NextTime ==
    ASSUME BUS_TIMESCALE = 1, TimeInv, [Next]_vars
    PROVE  TimeInv'
<1>0. TypeInv' BY NextTypes DEF TimeInv
<1>1. CASE Elapse BY <1>1, ElapseTime
<1>2. ASSUME NEW g \in Gaps, NEW d \in Body,
             Exception(g, d) \/ DeviceInterrupt(g, d) \/ TimerInterrupt(g, d)
      PROVE  TimeInv'
  <2>0. g \in Nat BY Durations
  <2>1. CASE Exception(g, d)
    <3>1. /\ pc = "thread" /\ ~expired /\ Charge(current_thread, g) /\ Later(d)
          /\ pc' = "scheduler" /\ UNCHANGED <<pseudo_tick, start_pseudo_tick>>
          /\ current_thread' \in {current_thread, NULL}
      BY <2>1 DEF Exception, clockVars
    <3> QED BY <1>0, <2>0, <3>1, HandlerTime
  <2>2. CASE DeviceInterrupt(g, d)
    <3>1. /\ pc \in {"thread", "wait"} /\ ~expired /\ Later(d)
          /\ current_thread # NULL => Charge(current_thread, g)
          /\ pc' = "scheduler" /\ UNCHANGED <<pseudo_tick, start_pseudo_tick>>
          /\ current_thread' \in {current_thread, NULL}
      BY <2>2 DEF DeviceInterrupt, ChargeInterrupted, clockVars
    <3> QED BY <1>0, <2>0, <3>1, HandlerTime
  <2>3. CASE TimerInterrupt(g, d) BY <2>3, TimerInterruptTime
  <2> QED BY <1>2, <2>1, <2>2, <2>3
<1>3. ASSUME NEW k \in Gaps, NEW h \in 0 .. k, NEW g \in 0 .. h,
             Dispatch(g, h, k) \/ Reload(g, h, k)
      PROVE  TimeInv'
  BY <1>3, DispatchTime, ReloadTime
<1>4. CASE Wait
  <2>1. /\ pc' = "wait" /\ ~Starting
        /\ UNCHANGED <<pseudo_tick, start_pseudo_tick, tod, it, expired>>
    BY <1>4 DEF Wait, Starting, clockVars, hardware
  <2>2. Counted' = Counted BY <2>1 DEF Counted, GET_TODLOW
  <2> QED BY <1>0, <2>1, <2>2 DEF TimeInv, ClockInv, ClockOn, SliceInv, ExactInv, SliceBounded
<1>5. CASE UNCHANGED vars
  <2>1. UNCHANGED <<pc, current_thread, ready_queue, cpu_slice, pseudo_tick, start_pseudo_tick,
                    current_thread_tod, tod, it, expired, onCpu>>
    BY <1>5 DEF vars, threadVars, cpuVars, clockVars, hardware
  <2>2. Counted' = Counted BY <2>1 DEF Counted, GET_TODLOW
  <2> QED BY <1>0, <2>1, <2>2
      DEF TimeInv, ClockInv, ClockOn, Starting, SliceInv, ExactInv, SliceBounded
<1> QED BY <1>1, <1>2, <1>3, <1>4, <1>5 DEF Next

\* So do the deadlines.
LEMMA TimeInvariant == ASSUME BUS_TIMESCALE = 1 PROVE Spec => []TimeInv
<1>1. TimeInv /\ [Next]_vars => TimeInv' BY NextTime
<1> QED BY <1>1, InitTime, PTL DEF Spec

\* One interval timer serves the time slice and the pseudo clock: whatever
\* handlers scheduler() and int_handler come back from, it expires before the
\* time that pseudo_tick has counted reaches the period.
THEOREM ClockAlwaysOnTime == ASSUME BUS_TIMESCALE = 1 PROVE Spec => []ClockOnTime
<1>1. TimeInv => ClockOnTime
  <2> SUFFICES ASSUME TimeInv, pc \in {"thread", "wait"}, ~expired
               PROVE  it + Counted * BUS_TIMESCALE <= SCHED_PSEUDO_CLOCK * BUS_TIMESCALE + Gap
    BY DEF ClockOnTime
  <2>1. it + Counted <= SCHED_PSEUDO_CLOCK + Gap
    BY DEF TimeInv, ClockInv, ClockOn, Starting
  <2>2. Counted \in Counter BY CountedRange DEF TimeInv, TypeInv
  <2>3. Counted * BUS_TIMESCALE = Counted BY <2>2, Bounds
  <2>4. SCHED_PSEUDO_CLOCK * BUS_TIMESCALE = SCHED_PSEUDO_CLOCK BY Bounds
  <2> QED BY <2>1, <2>3, <2>4
<1> QED BY <1>1, TimeInvariant, PTL

\* The unsigned SCHED_TIME_SLICE - cpu_slice of scheduler() wraps when a slice
\* is overrun, but the thread loses the CPU at the next tick of the pseudo clock.
THEOREM SliceAlwaysBounded == ASSUME BUS_TIMESCALE = 1 PROVE Spec => []SliceBounded
<1>1. TimeInv => SliceBounded BY DEF TimeInv
<1> QED BY <1>1, TimeInvariant, PTL

\* The charge of cpu_time, across the wrap of the clock and of the counter.
LEMMA ChargeIs ==
    ASSUME BUS_TIMESCALE = 1, TimeInv, pc = "thread", NEW g \in Gaps, Charge(current_thread, g)
    PROVE  /\ Minus(cpu_time'[current_thread], cpu_time[current_thread])
                \in onCpu .. onCpu + 2 * Gap
           /\ \A t \in Thread \ {current_thread} : cpu_time'[t] = cpu_time[t]
<1>1. /\ SCHED_TIME_SLICE \in Nat /\ SCHED_PSEUDO_CLOCK \in Nat /\ Gap \in Nat
      /\ Load \in Nat /\ U32 \in Nat /\ g \in Nat /\ g <= Gap
      /\ SCHED_TIME_SLICE + SCHED_PSEUDO_CLOCK + Load + 4 * Gap < U32
      /\ Counter = 0 .. U32 - 1
  BY Bounds DEF Gaps
<1>2. /\ TimerTypeOK /\ current_thread \in Thread /\ tod \in Counter /\ onCpu \in Nat
      /\ current_thread_tod \in Counter /\ cpu_time[current_thread] \in Counter
      /\ cpu_slice[current_thread] \in Counter
  BY DEF TimeInv, TypeInv, TimerTypeOK, CpuHeld
<1> DEFINE m == Minus(tod, current_thread_tod)
           x == cpu_time[current_thread]
           y == Plus(m, g)
<1>3. m \in onCpu .. onCpu + Gap BY DEF TimeInv, ExactInv
<1>4. onCpu <= SCHED_TIME_SLICE + SCHED_PSEUDO_CLOCK + Load + 2 * Gap
  BY <1>1, <1>2 DEF TimeInv, SliceBounded
<1>5. g \in Counter /\ m \in Counter /\ m + g < U32
  <2> HIDE DEF m
  <2>1. m \in Nat /\ m <= onCpu + Gap BY <1>1, <1>2, <1>3
  <2>2. m + g < U32 BY <1>1, <1>2, <1>4, <2>1
  <2> QED BY <1>1, <2>1, <2>2
<1>6. GET_TODLOW(g) = Plus(tod, g) BY <1>2, <1>5, ReadClock
<1>7. Minus(GET_TODLOW(g), current_thread_tod) = y BY <1>2, <1>5, <1>6, MinusAdvances
<1>8. cpu_time' = [cpu_time EXCEPT ![current_thread] = Plus(x, y)]
  BY <1>7 DEF Charge
<1>9. /\ cpu_time'[current_thread] = Plus(x, y)
      /\ \A t \in Thread \ {current_thread} : cpu_time'[t] = cpu_time[t]
  BY <1>2, <1>8 DEF TimerTypeOK
<1> HIDE DEF m
<1>10. y = m + g BY <1>5, PlusWraps
<1>11. x \in Counter /\ y \in Counter BY <1>1, <1>2, <1>5, <1>10
<1> HIDE DEF x, y
<1>12. Minus(Plus(x, y), x) = y
  <2> DEFINE z == Plus(x, y)
  <2>1. /\ z \in Counter
        /\ x + y < U32 => z = x + y
        /\ x + y >= U32 => z = x + y - U32
    BY <1>11, PlusWraps
  <2> HIDE DEF z
  <2>2. /\ z >= x => Minus(z, x) = z - x
        /\ z < x => Minus(z, x) = z + U32 - x
    BY <1>11, <2>1, MinusWraps
  <2> QED BY <1>1, <1>11, <2>1, <2>2 DEF z
<1>13. y \in onCpu .. onCpu + 2 * Gap BY <1>1, <1>2, <1>3, <1>10
<1> QED BY <1>9, <1>12, <1>13 DEF x

\* Each handler charges the thread it interrupts with the time since scheduler()
\* loaded it, up to the reads of the clock around that, and charges no other.
THEOREM ChargeAlwaysExact == ASSUME BUS_TIMESCALE = 1 PROVE Spec => ChargeExact
<1> DEFINE Step == \A t \in Thread :
              LET charged == Minus(cpu_time'[t], cpu_time[t])
              IN  IF pc = "thread" /\ pc' = "scheduler" /\ t = current_thread
                  THEN charged \in onCpu .. onCpu + 2 * Gap
                  ELSE charged = 0
<1>1. TimeInv /\ [Next]_vars => [Step]_vars
  <2> SUFFICES ASSUME TimeInv, Next PROVE Step OBVIOUS
  <2>1. \A t \in Thread : cpu_time[t] \in Counter BY DEF TimeInv, TypeInv, TimerTypeOK
  <2>2. \A x \in Counter : Minus(x, x) = 0
    <3>1. U32 \in Nat /\ Counter = 0 .. U32 - 1 BY Bounds
    <3> QED BY <3>1, MinusWraps
  <2>3. ASSUME UNCHANGED cpu_time, ~(pc = "thread" /\ pc' = "scheduler") PROVE Step
    BY <2>1, <2>2, <2>3
  <2>4. ASSUME NEW g \in Gaps, pc = "thread", pc' = "scheduler", Charge(current_thread, g)
        PROVE  Step
    <3>1. /\ Minus(cpu_time'[current_thread], cpu_time[current_thread])
                \in onCpu .. onCpu + 2 * Gap
          /\ \A t \in Thread \ {current_thread} : cpu_time'[t] = cpu_time[t]
      BY <2>4, ChargeIs
    <3>2. \A t \in Thread \ {current_thread} : Minus(cpu_time'[t], cpu_time[t]) = 0
      BY <2>1, <2>2, <3>1
    <3> QED BY <2>4, <3>1, <3>2
  <2>5. CASE Elapse \/ Wait
    BY <2>3, <2>5 DEF Elapse, Wait, cpuVars
  <2>6. ASSUME NEW g \in Gaps, NEW d \in Body,
               Exception(g, d) \/ DeviceInterrupt(g, d) \/ TimerInterrupt(g, d)
        PROVE  Step
    <3>1. CASE pc = "thread"
      <4>1. current_thread # NULL BY <3>1 DEF TimeInv, TypeInv, CpuHeld
      <4>2. pc' = "scheduler" /\ Charge(current_thread, g)
        BY <2>6, <4>1 DEF Exception, DeviceInterrupt, TimerInterrupt, ChargeInterrupted
      <4> QED BY <2>4, <3>1, <4>2
    <3>2. CASE pc # "thread"
      <4>1. pc = "wait"
        BY <2>6, <3>2 DEF Exception, DeviceInterrupt, TimerInterrupt
      <4>2. current_thread = NULL BY <4>1 DEF TimeInv, TypeInv, CpuHeld
      <4>3. UNCHANGED cpu_time
        BY <2>6, <3>2, <4>2
        DEF Exception, DeviceInterrupt, TimerInterrupt, ChargeInterrupted, cpuVars
      <4> QED BY <2>3, <3>2, <4>3
    <3> QED BY <3>1, <3>2
  <2>7. ASSUME NEW k \in Gaps, NEW h \in 0 .. k, NEW g \in 0 .. h,
               Dispatch(g, h, k) \/ Reload(g, h, k)
        PROVE  Step
    <3>1. UNCHANGED cpu_time /\ pc = "scheduler"
      BY <2>7 DEF Dispatch, Reload, cpuVars
    <3> QED BY <2>3, <3>1
  <2> QED BY <2>5, <2>6, <2>7 DEF Next
<1>2. [][Step]_vars => ChargeExact BY DEF ChargeExact
<1> QED BY <1>1, <1>2, TimeInvariant, PTL DEF Spec

=============================================================================
