--------------------------- MODULE NucleusProofs ---------------------------
(***************************************************************************)
(* Proofs about the nucleus, for every number of TCBs, messages, devices   *)
(* and payloads.                                                           *)
(***************************************************************************)
EXTENDS Nucleus, QueueProofs

\* outThread removes the thread from a list that has it, and nothing else.
LEMMA OutLemma ==
    ASSUME NEW S, NEW q \in Seq(S), NEW x
    PROVE  /\ outThread(q, x) \in Seq(S)
           /\ x \notin ToSet(q) => outThread(q, x) = q
           /\ x \in ToSet(q) => /\ Len(outThread(q, x)) = Len(q) - 1
                                /\ ToSet(q) = ToSet(outThread(q, x)) \cup {x}
                                /\ Len(q) \in Nat \ {0}
           /\ Distinct(q) => /\ Distinct(outThread(q, x))
                             /\ x \notin ToSet(outThread(q, x))
<1>0. Len(q) \in Nat /\ DOMAIN q = 1 .. Len(q) BY LenProperties
<1>1. CASE x \notin ToSet(q)
  <2>1. ~(\E i \in 1 .. Len(q) : q[i] = x) BY <1>0, <1>1 DEF ToSet
  <2> QED BY <2>1, <1>1 DEF outThread, RemoveFirst
<1>2. CASE x \in ToSet(q)
  <2> DEFINE I == {j \in 1 .. Len(q) : q[j] = x}
  <2>1. I # {} BY <1>0, <1>2 DEF ToSet
  <2>2. PICK i \in I : TRUE BY <2>1
  <2>3. \E j \in I : \A k \in I : j <= k
    <3>1. I \in SUBSET Nat /\ I # {} BY <2>1, <1>0
    <3> QED BY <3>1, LeastElement
  <2>4. Min(I) \in 1 .. Len(q) /\ q[Min(I)] = x BY <2>3 DEF Min
  <2>5. outThread(q, x) = RemoveAt(q, Min(I))
    BY <2>1 DEF outThread, RemoveFirst, SelectInSeq
  <2> DEFINE n == Min(I)
  <2> HIDE DEF n, I
  <2>6. /\ RemoveAt(q, n) \in Seq(S)
        /\ Len(RemoveAt(q, n)) = Len(q) - 1
        /\ ToSet(q) = ToSet(RemoveAt(q, n)) \cup {q[n]}
        /\ Distinct(q) => Distinct(RemoveAt(q, n)) /\ q[n] \notin ToSet(RemoveAt(q, n))
    BY <2>4, RemoveAtLemma DEF n
  <2>7. Len(q) # 0 BY <2>4, <1>0 DEF n
  <2> QED BY <2>4, <2>5, <2>6, <2>7, <1>0, <1>2 DEF n
<1> QED BY <1>1, <1>2

----------------------------------------------------------------------------
(* The queue discipline, as a relation between the values of the queues.   *)

Partition(free, ready, wait, cur, n) ==
    /\ free \in Seq(Tcb) /\ ready \in Seq(Tcb) /\ wait \in Seq(Tcb)
    /\ cur \in Tcb \cup {NULL} /\ n \in Nat
    /\ Distinct(free) /\ Distinct(ready) /\ Distinct(wait)
    /\ ToSet(free) \cup ToSet(ready) \cup ToSet(wait) \cup ({cur} \ {NULL}) = Tcb
    /\ ToSet(free) \cap (ToSet(ready) \cup ToSet(wait)) = {}
    /\ ToSet(ready) \cap ToSet(wait) = {}
    /\ cur \notin ToSet(free) \cup ToSet(ready) \cup ToSet(wait)
    /\ n = Len(ready) + Len(wait) + (IF cur = NULL THEN 0 ELSE 1)
    /\ n + Len(free) = MAXTHREADS

\* NULL and MINUS1 are no TCBs, and the two threads that boot creates are.
LEMMA NullNotTcb == NULL \notin Tcb /\ MINUS1 \notin Tcb /\ SSI_tcb \in Tcb /\ TEST_tcb \in Tcb
                    /\ SSI_tcb # TEST_tcb /\ MAXTHREADS \in Nat
<1>1. /\ Len(thread_array) \in Nat /\ DOMAIN thread_array = 1 .. Len(thread_array)
      /\ Len(thread_array) > 1
  BY ThreadArrayAssumption, LenProperties DEF MAXTHREADS
<1>2. SSI_tcb \in Tcb /\ TEST_tcb \in Tcb BY <1>1 DEF SSI_tcb, TEST_tcb, Tcb, ToSet
<1>3. SSI_tcb # TEST_tcb
  BY <1>1, ThreadArrayAssumption DEF SSI_tcb, TEST_tcb, Distinct
<1> QED BY <1>1, <1>2, <1>3, WordAssumption DEF MAXTHREADS

\* A waiting thread is moved to the ready queue.
LEMMA WakeLemma ==
    ASSUME NEW f, NEW r, NEW w, NEW c, NEW n, NEW t \in ToSet(w),
           Partition(f, r, w, c, n)
    PROVE  Partition(f, insertThread(r, t), outThread(w, t), c, n)
<1>1. t \in Tcb /\ t \notin ToSet(f) /\ t \notin ToSet(r) /\ t # c BY DEF Partition
<1>2. /\ outThread(w, t) \in Seq(Tcb) /\ Len(outThread(w, t)) = Len(w) - 1
      /\ ToSet(w) = ToSet(outThread(w, t)) \cup {t} /\ Distinct(outThread(w, t))
      /\ t \notin ToSet(outThread(w, t)) /\ Len(w) \in Nat
  BY OutLemma DEF Partition
<1>3. /\ insertThread(r, t) \in Seq(Tcb) /\ Len(insertThread(r, t)) = Len(r) + 1
      /\ ToSet(insertThread(r, t)) = ToSet(r) \cup {t} /\ Distinct(insertThread(r, t))
  BY <1>1, AppendLemma DEF Partition, insertThread
<1>4. Len(r) \in Nat BY LenProperties DEF Partition
<1> QED BY <1>1, <1>2, <1>3, <1>4 DEF Partition

\* The current thread is moved to the wait queue.
LEMMA BlockLemma ==
    ASSUME NEW f, NEW r, NEW w, NEW c, NEW n, c # NULL,
           Partition(f, r, w, c, n)
    PROVE  Partition(f, r, insertThread(w, c), NULL, n)
<1>1. c \in Tcb /\ c \notin ToSet(w) /\ NULL \notin Tcb BY NullNotTcb DEF Partition
<1>2. /\ insertThread(w, c) \in Seq(Tcb) /\ Len(insertThread(w, c)) = Len(w) + 1
      /\ ToSet(insertThread(w, c)) = ToSet(w) \cup {c} /\ Distinct(insertThread(w, c))
  BY <1>1, AppendLemma DEF Partition, insertThread
<1>3. Len(r) \in Nat /\ Len(w) \in Nat BY LenProperties DEF Partition
<1> QED BY <1>1, <1>2, <1>3 DEF Partition

\* The current thread is moved to the ready queue.
LEMMA RequeueLemma ==
    ASSUME NEW f, NEW r, NEW w, NEW c, NEW n, c # NULL,
           Partition(f, r, w, c, n)
    PROVE  Partition(f, insertThread(r, c), w, NULL, n)
<1>1. c \in Tcb /\ c \notin ToSet(r) /\ NULL \notin Tcb BY NullNotTcb DEF Partition
<1>2. /\ insertThread(r, c) \in Seq(Tcb) /\ Len(insertThread(r, c)) = Len(r) + 1
      /\ ToSet(insertThread(r, c)) = ToSet(r) \cup {c} /\ Distinct(insertThread(r, c))
  BY <1>1, AppendLemma DEF Partition, insertThread
<1>3. Len(r) \in Nat /\ Len(w) \in Nat BY LenProperties DEF Partition
<1> QED BY <1>1, <1>2, <1>3 DEF Partition

\* The first ready thread becomes the current one.
LEMMA DispatchLemma ==
    ASSUME NEW f, NEW r, NEW w, NEW n, r # <<>>,
           Partition(f, r, w, NULL, n)
    PROVE  Partition(f, Tail(r), w, Head(r), n) /\ Head(r) \in Tcb
<1>1. /\ Tail(r) \in Seq(Tcb) /\ Head(r) \in Tcb /\ Len(Tail(r)) = Len(r) - 1
      /\ Len(r) \in Nat \ {0} /\ ToSet(r) = ToSet(Tail(r)) \cup {Head(r)}
      /\ Distinct(Tail(r)) /\ Head(r) \notin ToSet(Tail(r))
  BY TailLemma DEF Partition
<1>2. NULL \notin Tcb /\ Len(w) \in Nat BY NullNotTcb, LenProperties DEF Partition
<1> QED BY <1>1, <1>2 DEF Partition

\* A thread is freed.
LEMMA FreeLemma ==
    ASSUME NEW f, NEW r, NEW w, NEW c, NEW n, NEW t \in Tcb, t \notin ToSet(f),
           Partition(f, r, w, c, n)
    PROVE  Partition(Append(f, t), outThread(r, t),
                     IF t \in ToSet(r) \/ c = t THEN w ELSE outThread(w, t),
                     IF c = t THEN NULL ELSE c, n - 1)
<1>0. /\ Len(r) \in Nat /\ Len(w) \in Nat /\ Len(f) \in Nat /\ NULL \notin Tcb /\ t # NULL
  BY NullNotTcb, LenProperties DEF Partition
<1>1. /\ Append(f, t) \in Seq(Tcb) /\ Len(Append(f, t)) = Len(f) + 1
      /\ ToSet(Append(f, t)) = ToSet(f) \cup {t} /\ Distinct(Append(f, t))
  BY AppendLemma DEF Partition
<1>2. CASE t \in ToSet(r)
  <2>1. /\ outThread(r, t) \in Seq(Tcb) /\ Len(outThread(r, t)) = Len(r) - 1
        /\ Len(r) \in Nat \ {0} /\ ToSet(r) = ToSet(outThread(r, t)) \cup {t}
        /\ Distinct(outThread(r, t)) /\ t \notin ToSet(outThread(r, t))
    BY <1>2, OutLemma DEF Partition
  <2>2. t # c /\ t \notin ToSet(w) BY <1>2 DEF Partition
  <2>3. /\ n - 1 \in Nat
        /\ n - 1 = Len(outThread(r, t)) + Len(w) + (IF c = NULL THEN 0 ELSE 1)
        /\ (n - 1) + Len(Append(f, t)) = MAXTHREADS
    <3>1. n \in Nat /\ n = Len(r) + Len(w) + (IF c = NULL THEN 0 ELSE 1)
          /\ n + Len(f) = MAXTHREADS
      BY DEF Partition
    <3> QED BY <3>1, <2>1, <1>0, <1>1
  <2> QED BY <2>1, <2>2, <2>3, <1>1, <1>2 DEF Partition
<1>3. CASE c = t
  <2>1. outThread(r, t) = r /\ t \notin ToSet(r) /\ t \notin ToSet(w)
    BY <1>3, OutLemma DEF Partition
  <2> QED BY <2>1, <1>0, <1>1, <1>3 DEF Partition
<1>4. CASE t \notin ToSet(r) /\ c # t
  <2>1. t \in ToSet(w) /\ outThread(r, t) = r BY <1>4, <1>0, OutLemma DEF Partition
  <2>2. /\ outThread(w, t) \in Seq(Tcb) /\ Len(outThread(w, t)) = Len(w) - 1
        /\ Len(w) \in Nat \ {0} /\ ToSet(w) = ToSet(outThread(w, t)) \cup {t}
        /\ Distinct(outThread(w, t)) /\ t \notin ToSet(outThread(w, t))
    BY <2>1, OutLemma DEF Partition
  <2>3. /\ n - 1 \in Nat
        /\ n - 1 = Len(r) + Len(outThread(w, t)) + (IF c = NULL THEN 0 ELSE 1)
        /\ (n - 1) + Len(Append(f, t)) = MAXTHREADS
    <3>1. n \in Nat /\ n = Len(r) + Len(w) + (IF c = NULL THEN 0 ELSE 1)
          /\ n + Len(f) = MAXTHREADS
      BY DEF Partition
    <3> QED BY <3>1, <2>2, <1>0, <1>1
  <2> QED BY <2>1, <2>2, <2>3, <1>1, <1>4 DEF Partition
<1> QED BY <1>2, <1>3, <1>4

\* The first free TCB becomes a ready thread.
LEMMA AllocLemma ==
    ASSUME NEW f, NEW r, NEW w, NEW c, NEW n, f # <<>>,
           Partition(f, r, w, c, n)
    PROVE  Partition(Tail(f), insertThread(r, Head(f)), w, c, n + 1) /\ Head(f) \in Tcb
<1>1. /\ Tail(f) \in Seq(Tcb) /\ Head(f) \in Tcb /\ Len(Tail(f)) = Len(f) - 1
      /\ Len(f) \in Nat \ {0} /\ ToSet(f) = ToSet(Tail(f)) \cup {Head(f)}
      /\ Distinct(Tail(f)) /\ Head(f) \notin ToSet(Tail(f))
  BY TailLemma DEF Partition
<1>2. Head(f) \notin ToSet(r) \cup ToSet(w) /\ Head(f) # c BY <1>1 DEF Partition
<1>3. /\ insertThread(r, Head(f)) \in Seq(Tcb) /\ Len(insertThread(r, Head(f))) = Len(r) + 1
      /\ ToSet(insertThread(r, Head(f))) = ToSet(r) \cup {Head(f)}
      /\ Distinct(insertThread(r, Head(f)))
  BY <1>1, <1>2, AppendLemma DEF Partition, insertThread
<1>4. /\ n + 1 \in Nat
      /\ n + 1 = Len(insertThread(r, Head(f))) + Len(w) + (IF c = NULL THEN 0 ELSE 1)
      /\ (n + 1) + Len(Tail(f)) = MAXTHREADS
  <2>1. n \in Nat /\ n = Len(r) + Len(w) + (IF c = NULL THEN 0 ELSE 1)
        /\ n + Len(f) = MAXTHREADS
    BY DEF Partition
  <2>2. Len(r) \in Nat /\ Len(w) \in Nat BY LenProperties DEF Partition
  <2> QED BY <2>1, <2>2, <1>1, <1>3
<1> QED BY <1>1, <1>2, <1>3, <1>4 DEF Partition

----------------------------------------------------------------------------
(* The core of the inductive invariant: types, the queue discipline, and   *)
(* who holds the CPU in each state of the kernel.                          *)

QueuesOK == Partition(tcbfree, ready_queue, wait_queue, current_thread, thread_count)

TypeTcb ==
    /\ waiting_for \in [Tcb -> Tcb \cup {ANYMESSAGE, MAGIC_SSI}]
    /\ reply \in [Tcb -> BOOLEAN] /\ received \in [Tcb -> Word]
    /\ v0 \in [Tcb -> Source \cup {NULL, MINUS1}]

TypeMail ==
    /\ msgfree \in Seq(Msg) /\ inbox \in [Tcb -> Seq(Msg)]
    /\ m_sender \in [Msg -> Source \cup {NULL}] /\ m_message \in [Msg -> Word]

TypeRest ==
    /\ soft_block_count \in 0 .. U32_MAX
    /\ manager_thread \in [TrapKind -> [Tcb -> Tcb \cup {NULL}]]
    /\ trap_managers \in [Slot -> Tcb \cup {NULL}]
    /\ t_parent \in [Tcb -> Tcb \cup {NULL}] /\ t_child \in [Tcb -> Seq(Tcb)]
    /\ ring_prev \in [Tcb -> Tcb]
    /\ kpc \in Kpc /\ victims \in Seq(Tcb)
    /\ nested \subseteq Tcb /\ frozen \subseteq Tcb

CpuOwned ==
    /\ kpc \in {"thread", "fault"} => current_thread # NULL
    /\ kpc = "terminate" => victims # <<>>

CoreInv == QueuesOK /\ TypeTcb /\ TypeMail /\ TypeRest /\ CpuOwned

\* What the inductive invariant is for: types and queue discipline.
LEMMA CoreImplies == CoreInv => TypeOK /\ QueueDiscipline
BY DEF CoreInv, QueuesOK, Partition, TypeTcb, TypeMail, TypeRest, TypeOK, QueueDiscipline

\* main() of boot.c establishes the invariant: the two threads it allocates are
\* ready and the rest of thread_array is free.
LEMMA InitCore == Init => CoreInv
<1> SUFFICES ASSUME Init PROVE CoreInv OBVIOUS
<1>0. /\ Len(thread_array) \in Nat /\ DOMAIN thread_array = 1 .. Len(thread_array)
      /\ Len(thread_array) > 1 /\ thread_array \in Seq(Tcb) /\ Distinct(thread_array)
  BY ThreadArrayAssumption, LenProperties DEF MAXTHREADS
<1>1. QueuesOK
  <2> DEFINE f == SubSeq(thread_array, 3, Len(thread_array))
             r == <<SSI_tcb, TEST_tcb>>
             N == Len(thread_array)
  <2>1. \A i \in 3 .. N : i \in 1 .. N /\ thread_array[i] \in Tcb
    BY <1>0, ElementOfSeq
  <2>2. /\ f \in Seq(Tcb)
        /\ Len(f) = IF 3 <= N THEN N - 3 + 1 ELSE 0
        /\ \A i \in 1 .. N - 3 + 1 : f[i] = thread_array[3 + i - 1]
    BY <1>0, <2>1, SubSeqProperties
  <2>3. Len(f) = N - 2 /\ \A i \in 1 .. N - 2 : f[i] = thread_array[i + 2]
    <3>1. N - 3 + 1 = N - 2 BY <1>0
    <3>2. 3 <= N \/ N - 2 = 0 BY <1>0
    <3>3. \A i \in 1 .. N - 2 : 3 + i - 1 = i + 2 BY <1>0
    <3> HIDE DEF f
    <3> QED BY <2>2, <3>1, <3>2, <3>3
  <2> HIDE DEF f
  <2>4. DOMAIN f = 1 .. N - 2 BY <2>2, <2>3, LenProperties
  <2>5. Distinct(f)
    <3> SUFFICES ASSUME NEW i \in 1 .. N - 2, NEW j \in 1 .. N - 2, f[i] = f[j] PROVE i = j
      BY <2>3 DEF Distinct
    <3>1. i + 2 \in 1 .. N /\ j + 2 \in 1 .. N BY <1>0
    <3>2. i + 2 = j + 2 BY <3>1, <2>3, <1>0 DEF Distinct
    <3> QED BY <3>2, <1>0
  <2>6. /\ r \in Seq(Tcb) /\ Len(r) = 2 /\ r[1] = SSI_tcb /\ r[2] = TEST_tcb
        /\ SSI_tcb # TEST_tcb /\ SSI_tcb \in Tcb /\ TEST_tcb \in Tcb /\ NULL \notin Tcb
    BY NullNotTcb
  <2> HIDE DEF r
  <2>7. DOMAIN r = 1 .. 2 BY <2>6, LenProperties
  <2>8. ToSet(r) = {SSI_tcb, TEST_tcb} /\ Distinct(r)
    <3>1. ToSet(r) = {r[1], r[2]} BY <2>7 DEF ToSet
    <3> QED BY <3>1, <2>6 DEF Distinct
  <2>9. ToSet(f) \cup {SSI_tcb, TEST_tcb} = Tcb
    <3>1. ASSUME NEW i \in 1 .. N
          PROVE  thread_array[i] \in ToSet(f) \cup {SSI_tcb, TEST_tcb}
      <4>1. CASE i = 1 BY <4>1 DEF SSI_tcb
      <4>2. CASE i = 2 BY <4>2 DEF TEST_tcb
      <4>3. CASE i > 2
        <5>1. i - 2 \in 1 .. N - 2 /\ (i - 2) + 2 = i BY <4>3, <1>0
        <5>2. f[i - 2] = thread_array[i] BY <5>1, <2>3
        <5> QED BY <5>1, <5>2, <2>4 DEF ToSet
      <4> QED BY <4>1, <4>2, <4>3, <1>0
    <3>2. \A x \in ToSet(f) : x \in Tcb BY <2>2, <2>4, <2>3, ElementOfSeq DEF ToSet
    <3>3. \A x \in Tcb : x \in ToSet(f) \cup {SSI_tcb, TEST_tcb}
      BY <3>1, <1>0 DEF Tcb, ToSet
    <3> QED BY <3>2, <3>3, <2>6
  <2>10. ToSet(f) \cap {SSI_tcb, TEST_tcb} = {}
    <3> SUFFICES ASSUME NEW i \in 1 .. N - 2
                 PROVE  f[i] # thread_array[1] /\ f[i] # thread_array[2]
      BY <2>4 DEF ToSet, SSI_tcb, TEST_tcb
    <3>1. i + 2 \in 1 .. N /\ 1 \in 1 .. N /\ 2 \in 1 .. N /\ i + 2 # 1 /\ i + 2 # 2 BY <1>0
    <3> QED BY <3>1, <2>3, <1>0 DEF Distinct
  <2>11. /\ wait_queue \in Seq(Tcb) /\ Len(wait_queue) = 0 /\ ToSet(wait_queue) = {}
         /\ Distinct(wait_queue)
    BY EmptyLemma DEF Init
  <2>12. /\ tcbfree = f /\ ready_queue = r /\ current_thread = NULL /\ thread_count = 2
         /\ MAXTHREADS = N
    BY DEF Init, MAXTHREADS, f, r
  <2> HIDE DEF N
  <2>13. 2 + Len(f) = MAXTHREADS /\ 2 = Len(r) + 0 + 0 /\ 2 \in Nat
    BY <2>3, <2>6, <2>12, <1>0 DEF N
  <2> QED BY <2>2, <2>5, <2>6, <2>8, <2>9, <2>10, <2>11, <2>12, <2>13 DEF QueuesOK, Partition
<1>2. TypeTcb
  BY NullNotTcb, WordAssumption DEF Init, TypeTcb, ANYMESSAGE, MAGIC_SSI
<1>3. TypeMail
  BY MessageArrayAssumption, WordAssumption DEF Init, TypeMail
<1>4. TypeRest
  BY BoundAssumption DEF Init, TypeRest, Kpc
<1>5. CpuOwned BY DEF Init, CpuOwned
<1> QED BY <1>1, <1>2, <1>3, <1>4, <1>5 DEF CoreInv

----------------------------------------------------------------------------
(* What the parts of an action do to the core invariant *)

Sending(s) == s \in Tcb \cup Device \cup {BUS_INTERVALTIMER}

\* The sender that send() writes in a message is a thread other than the SSI,
\* MAGIC_SSI, a device or the interval timer.
LEMMA SenderIsSource ==
    ASSUME NEW s, Sending(s)
    PROVE  Sender(s) \in Source /\ Sender(s) # SSI_tcb /\ Sender(s) # NULL
BY NullNotTcb, WordAssumption DEF Sending, Sender, Source, User, MAGIC_SSI

\* The recipient that sysbp_handler takes from register a1 is a TCB.
LEMMA ReceiverIsTcb ==
    ASSUME NEW a1, MaySend(a1)
    PROVE  Receiver(a1) \in Tcb
BY NullNotTcb DEF MaySend, Receiver, User

\* The queues after send() keep the partition: a woken thread moves from the
\* wait queue to the ready queue, otherwise nothing moves.
LEMMA SendQueues ==
    ASSUME QueuesOK, NEW s, NEW t \in Tcb
    PROVE  Partition(tcbfree, readyAfterSend(s, t), waitAfterSend(s, t), current_thread,
                     thread_count)
<1>1. CASE Wakes(s, t)
  <2>1. t \in ToSet(wait_queue) BY <1>1 DEF Wakes, thereIsThread
  <2>2. Partition(tcbfree, insertThread(ready_queue, t), outThread(wait_queue, t),
                  current_thread, thread_count)
    BY <2>1, WakeLemma DEF QueuesOK
  <2> QED BY <1>1, <2>2 DEF readyAfterSend, waitAfterSend
<1>2. CASE ~Wakes(s, t)
  BY <1>2 DEF readyAfterSend, waitAfterSend, QueuesOK
<1> QED BY <1>1, <1>2

\* The fields waiting_for and v0 keep their types through send().
LEMMA SendFields ==
    ASSUME TypeTcb, NEW s, NEW t \in Tcb, Sending(s)
    PROVE  /\ waitingAfterSend(s, t) \in [Tcb -> Tcb \cup {ANYMESSAGE, MAGIC_SSI}]
           /\ v0AfterSend(s, t) \in [Tcb -> Source \cup {NULL, MINUS1}]
<1>1. MINUS1 \in Tcb \cup {ANYMESSAGE, MAGIC_SSI} BY DEF MAGIC_SSI
<1>2. Sender(s) \in Source \cup {NULL, MINUS1} BY SenderIsSource
<1> QED BY <1>1, <1>2 DEF TypeTcb, waitingAfterSend, v0AfterSend

\* Messages, reply addresses and delivered words keep their types through send().
LEMMA DeliverTypes ==
    ASSUME TypeTcb, TypeMail, NEW s, NEW t \in Tcb, NEW w \in Word, Sending(s),
           ~SendPanics(s, t), Deliver(s, t, w)
    PROVE  /\ reply' \in [Tcb -> BOOLEAN] /\ received' \in [Tcb -> Word]
           /\ TypeMail'
<1>1. reply' \in [Tcb -> BOOLEAN] /\ received' \in [Tcb -> Word]
  BY DEF Deliver, TypeTcb
<1>2. CASE ~Posts(s, t)
  BY <1>1, <1>2 DEF Deliver, TypeMail, mailVars
<1>3. CASE Posts(s, t)
  <2> DEFINE m == Head(msgfree)
             b == IF s = BUS_INTERVALTIMER THEN <<m>> \o inbox[t] ELSE Append(inbox[t], m)
  <2>1. msgfree # <<>> BY <1>3 DEF SendPanics
  <2>2. m \in Msg /\ Tail(msgfree) \in Seq(Msg) BY <2>1, TailLemma DEF TypeMail
  <2> HIDE DEF m
  <2>3. inbox[t] \in Seq(Msg) BY DEF TypeMail
  <2>4. <<m>> \o inbox[t] \in Seq(Msg) BY <2>2, <2>3, OneLemma, ConcatLemma
  <2>5. Append(inbox[t], m) \in Seq(Msg) BY <2>2, <2>3, AppendLemma
  <2>6. /\ msgfree' = Tail(msgfree) /\ inbox' = [inbox EXCEPT ![t] = b]
        /\ m_sender' = [m_sender EXCEPT ![m] = Sender(s)]
        /\ m_message' = [m_message EXCEPT ![m] = w]
    BY <1>3 DEF Deliver, m
  <2>7. b \in Seq(Msg) BY <2>4, <2>5
  <2>8. Sender(s) \in Source BY SenderIsSource
  <2> HIDE DEF b
  <2> QED BY <1>1, <2>2, <2>6, <2>7, <2>8 DEF TypeMail
<1> QED BY <1>1, <1>2, <1>3

\* soft_block_count wraps around within its U32.
LEMMA CounterTypes ==
    ASSUME NEW n \in 0 .. U32_MAX
    PROVE  inc(n) \in 0 .. U32_MAX /\ dec(n) \in 0 .. U32_MAX
BY BoundAssumption DEF inc, dec

\* The call terminate(t) starts one frame and keeps the types of the thread tree.
LEMMA TerminateTypes ==
    ASSUME TypeRest, NEW t \in Tcb, Terminate(t)
    PROVE  /\ t_parent' \in [Tcb -> Tcb \cup {NULL}] /\ t_child' \in [Tcb -> Seq(Tcb)]
           /\ victims' \in Seq(Tcb) /\ victims' # <<>> /\ kpc' = "terminate"
<1>1. \A p \in Tcb : RemoveFirst(t_child[p], t) \in Seq(Tcb)
  BY OutLemma DEF TypeRest, outThread
<1>2. <<t>> \in Seq(Tcb) /\ <<t>> # <<>> BY OneLemma, EmptySeq
<1>3. t_child' \in [Tcb -> Seq(Tcb)]
  BY <1>1 DEF Terminate, TypeRest
<1> QED BY <1>2, <1>3 DEF Terminate, TypeRest

\* Messages returned by freeMsg keep the types of the pool.
LEMMA FreeMsgTypes ==
    ASSUME TypeMail, NEW ms \in Seq(Msg), freeMsg(ms)
    PROVE  /\ msgfree' \in Seq(Msg)
           /\ m_sender' \in [Msg -> Source \cup {NULL}] /\ m_message' \in [Msg -> Word]
<1>1. msgfree' \in Seq(Msg) BY ConcatLemma DEF TypeMail, freeMsg
<1> QED BY <1>1, WordAssumption DEF TypeMail, freeMsg

----------------------------------------------------------------------------
(* Every action keeps the core invariant *)

\* A MsgSend that ends in send() keeps the invariant.
LEMMA CoreSend ==
    ASSUME CoreInv, NEW a1, NEW w \in Word, Send(a1, w)
    PROVE  CoreInv'
<1> DEFINE s == current_thread
           t == Receiver(a1)
<1>1. s \in Tcb /\ s # NULL /\ Sending(s)
  BY DEF Send, InThread, CoreInv, CpuOwned, QueuesOK, Partition, Sending
<1>2. t \in Tcb BY ReceiverIsTcb DEF Send
<1>3. /\ ~SendPanics(s, t) /\ Deliver(s, t, w)
      /\ ready_queue' = readyAfterSend(s, t) /\ wait_queue' = waitAfterSend(s, t)
      /\ waiting_for' = waitingAfterSend(s, t)
      /\ v0' = [v0AfterSend(s, t) EXCEPT ![s] = SendResult(s, t)]
      /\ soft_block_count' = softAfterSend(s, t, softRequested(a1))
      /\ frozen' = frozenAfterSend(s, t) /\ kpc' = "scheduler"
      /\ UNCHANGED <<tcbfree, current_thread, thread_count, managerVars, treeVars, victims,
                     nested>>
  BY DEF Send
<1> HIDE DEF s, t
<1>4. QueuesOK'
  BY <1>2, <1>3, SendQueues DEF CoreInv, QueuesOK
<1>5. reply' \in [Tcb -> BOOLEAN] /\ received' \in [Tcb -> Word] /\ TypeMail'
  BY <1>1, <1>2, <1>3, DeliverTypes DEF CoreInv
<1>6. TypeTcb'
  BY <1>1, <1>2, <1>3, <1>5, SendFields DEF CoreInv, TypeTcb, SendResult, MSGGOOD, MSGNOGOOD
<1>7. TypeRest'
  <2>1. soft_block_count' \in 0 .. U32_MAX
    BY <1>3, CounterTypes DEF softAfterSend, softRequested, CoreInv, TypeRest
  <2> QED BY <1>3, <2>1 DEF CoreInv, TypeRest, managerVars, treeVars, frozenAfterSend, Kpc
<1>8. CpuOwned' BY <1>3 DEF CpuOwned
<1> QED BY <1>4, <1>5, <1>6, <1>7, <1>8 DEF CoreInv

\* The steps of a handler that leave queues, fields and messages alone.
LEMMA CoreStop ==
    ASSUME CoreInv, soft_block_count' \in 0 .. U32_MAX, kpc' \in Kpc,
           kpc' = "thread" \/ kpc' = "fault" => current_thread # NULL,
           kpc' # "terminate", nested' \subseteq Tcb,
           UNCHANGED <<tcbVars, mailVars, queueVars, managerVars, treeVars, victims, frozen>>
    PROVE  CoreInv'
BY DEF CoreInv, QueuesOK, Partition, TypeTcb, TypeMail, TypeRest, CpuOwned, tcbVars,
       mailVars, queueVars, managerVars, treeVars

\* The call of terminate() by a handler or by the SSI keeps the invariant.
LEMMA CoreTerminate ==
    ASSUME CoreInv, NEW t \in Tcb, Terminate(t), soft_block_count' \in 0 .. U32_MAX,
           nested' \subseteq Tcb
    PROVE  CoreInv'
<1>1. /\ t_parent' \in [Tcb -> Tcb \cup {NULL}] /\ t_child' \in [Tcb -> Seq(Tcb)]
      /\ victims' \in Seq(Tcb) /\ victims' # <<>> /\ kpc' = "terminate"
  BY TerminateTypes DEF CoreInv
<1>2. UNCHANGED <<tcbVars, mailVars, queueVars, managerVars, ring_prev, frozen>>
  BY DEF Terminate
<1>3. QueuesOK' /\ TypeTcb' /\ TypeMail'
  BY <1>2 DEF CoreInv, QueuesOK, Partition, TypeTcb, TypeMail, tcbVars, mailVars, queueVars
<1>4. TypeRest' /\ CpuOwned'
  BY <1>1, <1>2 DEF CoreInv, TypeRest, CpuOwned, managerVars, Kpc
<1> QED BY <1>3, <1>4 DEF CoreInv

\* MsgSend in all its cases: the two decisions of a trap manager, the send and
\* the send that does not return.
LEMMA CoreMsgSend ==
    ASSUME CoreInv, NEW a1, NEW w \in Word, MsgSend(a1, w)
    PROVE  CoreInv'
<1>0. soft_block_count \in 0 .. U32_MAX /\ softRequested(a1) \in 0 .. U32_MAX
  BY CounterTypes DEF softRequested, CoreInv, TypeRest
<1>1. CASE TrapTerminate(a1)
  <2>1. Receiver(a1) \in Tcb BY <1>1, ReceiverIsTcb DEF TrapTerminate
  <2> QED BY <1>0, <1>1, <2>1, CoreTerminate DEF TrapTerminate, CoreInv, TypeRest
<1>2. CASE TrapContinue(a1)
  <2> DEFINE t == Receiver(a1)
  <2>1. /\ UNCHANGED <<tcbVars, mailVars, tcbfree, current_thread, thread_count, managerVars,
                       treeVars, victims, nested>>
        /\ soft_block_count' \in 0 .. U32_MAX
    BY <1>0, <1>2 DEF TrapContinue
  <2>2. TypeTcb' /\ TypeMail' BY <2>1 DEF CoreInv, TypeTcb, TypeMail, tcbVars, mailVars
  <2>3. CASE thereIsThread(wait_queue, t)
    <3>1. /\ wait_queue' = outThread(wait_queue, t) /\ ready_queue' = insertThread(ready_queue, t)
          /\ frozen' = frozen \ {t} /\ kpc' = "scheduler"
      BY <1>2, <2>3 DEF TrapContinue
    <3>2. t \in ToSet(wait_queue) BY <2>3 DEF thereIsThread
    <3> HIDE DEF t
    <3>3. QueuesOK' BY <2>1, <3>1, <3>2, WakeLemma DEF CoreInv, QueuesOK
    <3>4. TypeRest' /\ CpuOwned'
      BY <2>1, <3>1 DEF CoreInv, TypeRest, CpuOwned, managerVars, treeVars, Kpc
    <3> QED BY <2>2, <3>3, <3>4 DEF CoreInv
  <2>4. CASE ~thereIsThread(wait_queue, t)
    <3>1. kpc' = "corrupt" /\ UNCHANGED <<wait_queue, ready_queue, frozen>>
      BY <1>2, <2>4 DEF TrapContinue
    <3>2. UNCHANGED queueVars BY <2>1, <3>1 DEF queueVars
    <3> QED BY <2>1, <3>1, <3>2, CoreStop DEF Kpc, Stopped, CoreInv, TypeRest
  <2> QED BY <2>3, <2>4
<1>3. CASE Send(a1, w) BY <1>3, CoreSend
<1>4. CASE SendFails(a1, w)
  <2>1. current_thread # NULL BY <1>4 DEF SendFails, InThread, CoreInv, CpuOwned
  <2>2. kpc' \in {"fault", "PANIC"} BY <1>4 DEF SendFails
  <2>3. /\ soft_block_count' = softRequested(a1)
        /\ UNCHANGED <<tcbVars, mailVars, queueVars, managerVars, treeVars, victims,
                       nested, frozen>>
    BY <1>4 DEF SendFails
  <2> QED BY <1>0, <2>1, <2>2, <2>3, CoreStop DEF Kpc, Stopped, CoreInv, TypeRest
<1> QED BY <1>1, <1>2, <1>3, <1>4 DEF MsgSend

\* MsgRecv, blocking and not.
LEMMA CoreMsgRecv ==
    ASSUME CoreInv, NEW a1, MsgRecv(a1)
    PROVE  CoreInv'
<1> DEFINE c == current_thread
<1>0. c \in Tcb /\ c # NULL
  BY DEF MsgRecv, RecvReturns, RecvBlocks, InThread, CoreInv, CpuOwned, QueuesOK, Partition
<1>1. CASE RecvReturns(a1)
  <2>1. PICK i \in 1 .. Len(inbox[c]) :
           /\ received' = [received EXCEPT ![c] = m_message[inbox[c][i]]]
           /\ v0' = [v0 EXCEPT ![c] = m_sender[inbox[c][i]]]
           /\ freeMsg(<<inbox[c][i]>>)
           /\ inbox' = [inbox EXCEPT ![c] = RemoveAt(inbox[c], i)]
    BY <1>1 DEF RecvReturns
  <2>2. /\ soft_block_count' = IF a1 = MAGIC_SSI THEN dec(soft_block_count)
                               ELSE soft_block_count
        /\ kpc' = "scheduler"
        /\ UNCHANGED <<waiting_for, reply, queueVars, managerVars, treeVars, victims, nested,
                       frozen>>
    BY <1>1 DEF RecvReturns
  <2> HIDE DEF c
  <2>3. inbox[c] \in Seq(Msg) BY <1>0 DEF CoreInv, TypeMail
  <2>4. inbox[c][i] \in Msg /\ RemoveAt(inbox[c], i) \in Seq(Msg)
    BY <2>3, RemoveAtLemma, ElementOfSeq
  <2>5. <<inbox[c][i]>> \in Seq(Msg) BY <2>4, OneLemma
  <2>6. TypeMail'
    BY <2>1, <2>4, <2>5, FreeMsgTypes DEF CoreInv, TypeMail
  <2>7. TypeTcb'
    BY <1>0, <2>1, <2>2, <2>4 DEF CoreInv, TypeTcb, TypeMail
  <2>8. QueuesOK' BY <2>2 DEF CoreInv, QueuesOK, Partition, queueVars
  <2>9. TypeRest' /\ CpuOwned'
    BY <2>2, CounterTypes DEF CoreInv, TypeRest, CpuOwned, managerVars, treeVars, Kpc
  <2> QED BY <2>6, <2>7, <2>8, <2>9 DEF CoreInv
<1>2. CASE RecvBlocks(a1)
  <2>1. /\ waiting_for' = [waiting_for EXCEPT ![c] = a1]
        /\ reply' = [reply EXCEPT ![c] = TRUE] /\ v0' = [v0 EXCEPT ![c] = NULL]
        /\ wait_queue' = insertThread(wait_queue, c) /\ current_thread' = NULL
        /\ kpc' = "scheduler"
        /\ UNCHANGED <<received, mailVars, tcbfree, ready_queue, thread_count, managerVars,
                       treeVars, victims, nested, frozen, soft_block_count>>
    BY <1>2 DEF RecvBlocks
  <2>2. a1 \in Tcb \cup {ANYMESSAGE, MAGIC_SSI}
    BY <1>2 DEF RecvBlocks, MayRecv, User
  <2>3. QueuesOK'
    <3>1. Partition(tcbfree, ready_queue, insertThread(wait_queue, c), NULL, thread_count)
      BY <1>0, BlockLemma DEF CoreInv, QueuesOK
    <3> QED BY <2>1, <3>1 DEF QueuesOK
  <2> HIDE DEF c
  <2>4. TypeTcb' /\ TypeMail'
    BY <2>1, <2>2, <1>0 DEF CoreInv, TypeTcb, TypeMail, mailVars
  <2>5. TypeRest' /\ CpuOwned'
    BY <2>1 DEF CoreInv, TypeRest, CpuOwned, managerVars, treeVars, Kpc
  <2> QED BY <2>3, <2>4, <2>5 DEF CoreInv
<1> QED BY <1>1, <1>2 DEF MsgRecv

\* The end of the three trap handlers: the thread dies or freezes.
LEMMA CorePassUpOrDie ==
    ASSUME CoreInv, NEW k \in TrapKind, kpc \in {"thread", "fault"}, PassUpOrDie(k),
           nested' \subseteq Tcb
    PROVE  CoreInv'
<1> DEFINE s == current_thread
           manager == manager_thread[k][s]
<1>0. s \in Tcb /\ s # NULL /\ Sending(s) /\ manager \in Tcb \cup {NULL}
  BY DEF CoreInv, CpuOwned, QueuesOK, Partition, Sending, TypeRest
<1>1. CASE manager = NULL
  <2>1. Terminate(s) /\ soft_block_count' = soft_block_count
    BY <1>1 DEF PassUpOrDie
  <2> QED BY <1>0, <2>1, CoreTerminate DEF CoreInv, TypeRest
<1>2. CASE /\ manager # NULL
           /\ ~SendFaults(s, manager) /\ ~SendPanics(s, manager)
  <2>1. /\ Deliver(s, manager, CAUSE)
        /\ ready_queue' = readyAfterSend(s, manager)
        /\ wait_queue' = insertThread(waitAfterSend(s, manager), s)
        /\ waiting_for' = [waitingAfterSend(s, manager) EXCEPT ![s] = manager]
        /\ v0' = v0AfterSend(s, manager)
        /\ soft_block_count' = softAfterSend(s, manager, soft_block_count)
        /\ frozen' = frozenAfterSend(s, manager) \cup {s}
        /\ current_thread' = NULL /\ kpc' = "scheduler"
        /\ UNCHANGED <<tcbfree, thread_count, managerVars, treeVars, victims>>
    BY <1>2 DEF PassUpOrDie
  <2>2. manager \in Tcb BY <1>0, <1>2
  <2>3. CAUSE \in Word BY WordAssumption
  <2>4. Partition(tcbfree, readyAfterSend(s, manager),
                  insertThread(waitAfterSend(s, manager), s), NULL, thread_count)
    <3>1. Partition(tcbfree, readyAfterSend(s, manager), waitAfterSend(s, manager), s,
                    thread_count)
      BY <2>2, SendQueues DEF CoreInv
    <3> QED BY <1>0, <3>1, BlockLemma
  <2>5. QueuesOK' BY <2>1, <2>4 DEF QueuesOK
  <2> HIDE DEF s, manager
  <2>6. reply' \in [Tcb -> BOOLEAN] /\ received' \in [Tcb -> Word] /\ TypeMail'
    BY <1>0, <1>2, <2>1, <2>2, <2>3, DeliverTypes DEF CoreInv
  <2>7. TypeTcb'
    BY <1>0, <2>1, <2>2, <2>6, SendFields DEF CoreInv, TypeTcb
  <2>8. soft_block_count' \in 0 .. U32_MAX
    BY <2>1, CounterTypes DEF softAfterSend, CoreInv, TypeRest
  <2>9. TypeRest' /\ CpuOwned'
    BY <1>0, <2>1, <2>8 DEF CoreInv, TypeRest, CpuOwned, managerVars, treeVars,
                           frozenAfterSend, Kpc
  <2> QED BY <2>5, <2>6, <2>7, <2>9 DEF CoreInv
<1>3. CASE /\ manager # NULL
           /\ SendFaults(s, manager) \/ SendPanics(s, manager)
  <2>1. /\ kpc' \in {"fault", "PANIC"}
        /\ UNCHANGED <<tcbVars, mailVars, queueVars, managerVars, treeVars, victims, frozen,
                       soft_block_count>>
    BY <1>3 DEF PassUpOrDie
  <2> QED BY <1>0, <2>1, CoreStop DEF Kpc, Stopped, CoreInv, TypeRest
<1> QED BY <1>1, <1>2, <1>3

\* The message of int_handler to the SSI, with or without the end of the time
\* slice of the current thread.
LEMMA CoreInterruptMessage ==
    ASSUME CoreInv, NEW s \in Device \cup {BUS_INTERVALTIMER}, NEW w \in Word,
           NEW requeue \in BOOLEAN, requeue => current_thread # NULL,
           InterruptMessage(s, w, requeue)
    PROVE  CoreInv'
<1>0. SSI_tcb \in Tcb /\ Sending(s) BY NullNotTcb DEF Sending
<1>1. /\ ~SendPanics(s, SSI_tcb) /\ Deliver(s, SSI_tcb, w)
      /\ ready_queue' = IF requeue
                        THEN insertThread(readyAfterSend(s, SSI_tcb), current_thread)
                        ELSE readyAfterSend(s, SSI_tcb)
      /\ wait_queue' = waitAfterSend(s, SSI_tcb)
      /\ waiting_for' = waitingAfterSend(s, SSI_tcb)
      /\ v0' = v0AfterSend(s, SSI_tcb)
      /\ frozen' = frozenAfterSend(s, SSI_tcb)
      /\ current_thread' = IF requeue THEN NULL ELSE current_thread
      /\ soft_block_count' = softAfterSend(s, SSI_tcb, soft_block_count)
      /\ kpc' = "scheduler"
      /\ UNCHANGED <<tcbfree, thread_count, managerVars, treeVars, victims, nested>>
  BY DEF InterruptMessage, InterruptPanics
<1>2. Partition(tcbfree, readyAfterSend(s, SSI_tcb), waitAfterSend(s, SSI_tcb),
                current_thread, thread_count)
  BY <1>0, SendQueues DEF CoreInv
<1>3. QueuesOK'
  <2>1. CASE requeue
    <3>1. Partition(tcbfree, insertThread(readyAfterSend(s, SSI_tcb), current_thread),
                    waitAfterSend(s, SSI_tcb), NULL, thread_count)
      BY <1>2, <2>1, RequeueLemma
    <3> QED BY <1>1, <2>1, <3>1 DEF QueuesOK
  <2>2. CASE ~requeue BY <1>1, <1>2, <2>2 DEF QueuesOK
  <2> QED BY <2>1, <2>2
<1>4. reply' \in [Tcb -> BOOLEAN] /\ received' \in [Tcb -> Word] /\ TypeMail'
  BY <1>0, <1>1, DeliverTypes DEF CoreInv
<1>5. TypeTcb' BY <1>0, <1>1, <1>4, SendFields DEF CoreInv, TypeTcb
<1>6. soft_block_count' \in 0 .. U32_MAX
  BY <1>1, CounterTypes DEF softAfterSend, CoreInv, TypeRest
<1>7. TypeRest' /\ CpuOwned'
  BY <1>1, <1>6 DEF CoreInv, TypeRest, CpuOwned, managerVars, treeVars, frozenAfterSend, Kpc
<1> QED BY <1>3, <1>4, <1>5, <1>7 DEF CoreInv

\* Every case of int_handler.
LEMMA CoreInterrupt ==
    ASSUME CoreInv, Interrupt
    PROVE  CoreInv'
<1>1. ASSUME NEW w \in Word, NEW expired \in BOOLEAN, PseudoClockTick(w, expired)
      PROVE  CoreInv'
  BY <1>1, CoreInterruptMessage DEF PseudoClockTick
<1>2. ASSUME NEW d \in Device, NEW w \in Word, DeviceInterrupt(d, w)
      PROVE  CoreInv'
  BY <1>2, CoreInterruptMessage DEF DeviceInterrupt
<1>3. CASE SliceExpired
  <2>1. /\ current_thread # NULL
        /\ ready_queue' = insertThread(ready_queue, current_thread)
        /\ current_thread' = NULL /\ kpc' = "scheduler"
        /\ UNCHANGED <<tcbVars, mailVars, tcbfree, wait_queue, thread_count, managerVars,
                       treeVars, victims, nested, frozen, soft_block_count>>
    BY <1>3 DEF SliceExpired
  <2>2. Partition(tcbfree, insertThread(ready_queue, current_thread), wait_queue, NULL,
                  thread_count)
    BY <2>1, RequeueLemma DEF CoreInv, QueuesOK
  <2>3. QueuesOK' BY <2>1, <2>2 DEF QueuesOK
  <2> QED BY <2>1, <2>3 DEF CoreInv, TypeTcb, TypeMail, TypeRest, CpuOwned, tcbVars, mailVars,
                          managerVars, treeVars, Kpc
<1>4. CASE InterruptPanic
  BY <1>4, CoreStop DEF InterruptPanic, Panic, Kpc, Stopped, CoreInv, TypeRest
<1>5. CASE InterruptIgnored
  BY <1>5, CoreStop DEF InterruptIgnored, Kpc, CoreInv, TypeRest
<1> QED BY <1>1, <1>2, <1>3, <1>4, <1>5 DEF Interrupt

\* Every case of scheduler().
LEMMA CoreScheduler ==
    ASSUME CoreInv, scheduler
    PROVE  CoreInv'
<1>1. CASE Dispatch
  <2>1. /\ current_thread = NULL /\ ready_queue # <<>>
        /\ current_thread' = Head(ready_queue) /\ ready_queue' = Tail(ready_queue)
        /\ kpc' \in {"fault", "thread"}
        /\ UNCHANGED <<tcbVars, mailVars, tcbfree, wait_queue, thread_count, managerVars,
                       treeVars, victims, nested, frozen, soft_block_count>>
    BY <1>1 DEF Dispatch, Resume
  <2>2. /\ Partition(tcbfree, Tail(ready_queue), wait_queue, Head(ready_queue), thread_count)
        /\ Head(ready_queue) \in Tcb
    BY <2>1, DispatchLemma DEF CoreInv, QueuesOK
  <2>3. QueuesOK' BY <2>1, <2>2 DEF QueuesOK
  <2>4. current_thread' # NULL BY <2>1, <2>2, NullNotTcb
  <2> QED BY <2>1, <2>3, <2>4 DEF CoreInv, TypeTcb, TypeMail, TypeRest, CpuOwned, tcbVars,
                                mailVars, managerVars, treeVars, Kpc
<1>2. CASE Reload
  BY <1>2, CoreStop DEF Reload, Resume, Kpc, Stopped, CoreInv, TypeRest
<1>3. CASE Idle
  BY <1>3, CoreStop DEF Idle, Kpc, Stopped, CoreInv, TypeRest
<1> QED BY <1>1, <1>2, <1>3 DEF scheduler

\* The recursive call of terminate() on a child.
LEMMA CoreTerminateChild ==
    ASSUME CoreInv, TerminateChild
    PROVE  CoreInv'
<1> DEFINE t == Head(victims)
           c == Head(t_child[t])
<1>1. /\ kpc = "terminate" /\ t_child[t] # <<>> /\ victims' = <<c>> \o victims
      /\ t_child' = [t_child EXCEPT ![t] = Tail(t_child[t])]
      /\ t_parent' = [t_parent EXCEPT ![c] = NULL]
      /\ UNCHANGED <<tcbVars, mailVars, queueVars, managerVars, ring_prev, kpc, nested,
                     frozen, soft_block_count>>
  BY DEF TerminateChild
<1>2. t \in Tcb BY <1>1, TailLemma DEF CoreInv, CpuOwned, TypeRest
<1>3. c \in Tcb /\ Tail(t_child[t]) \in Seq(Tcb)
  BY <1>1, <1>2, TailLemma DEF CoreInv, TypeRest
<1>4. victims' \in Seq(Tcb) /\ Len(victims') = 1 + Len(victims) /\ Len(victims) \in Nat
  BY <1>1, <1>3, OneLemma, ConcatLemma, LenProperties DEF CoreInv, TypeRest
<1>5. victims' # <<>> BY <1>4, EmptySeq
<1> HIDE DEF t, c
<1>6. QueuesOK' /\ TypeTcb' /\ TypeMail'
  BY <1>1 DEF CoreInv, QueuesOK, Partition, TypeTcb, TypeMail, tcbVars, mailVars, queueVars
<1>7. TypeRest' /\ CpuOwned'
  BY <1>1, <1>2, <1>3, <1>4, <1>5 DEF CoreInv, TypeRest, CpuOwned, managerVars
<1> QED BY <1>6, <1>7 DEF CoreInv

\* add_manager and delete_manager keep the type of the table.
LEMMA ManagerTypes ==
    ASSUME TypeRest, NEW m \in Tcb
    PROVE  /\ add_manager(m) \in [Slot -> Tcb \cup {NULL}]
           /\ delete_manager(m) \in [Slot -> Tcb \cup {NULL}]
BY DEF TypeRest, add_manager, delete_manager

\* The base case of terminate(): the thread leaves its queue for the free list.
LEMMA CoreTerminateLeaf ==
    ASSUME CoreInv, TerminateLeaf
    PROVE  CoreInv'
<1> DEFINE t == Head(victims)
<1>1. /\ kpc = "terminate"
      /\ Running(t) \/ thereIsThread(wait_queue, t)
      /\ ready_queue' = outThread(ready_queue, t)
      /\ wait_queue' = IF Running(t) THEN wait_queue ELSE outThread(wait_queue, t)
      /\ soft_block_count' = IF ~Running(t) /\ waiting_for[t] = SSI_tcb
                             THEN dec(soft_block_count) ELSE soft_block_count
      /\ current_thread' = IF current_thread = t THEN NULL ELSE current_thread
      /\ freeMsg(inbox[t]) /\ inbox' = [inbox EXCEPT ![t] = <<>>]
      /\ trap_managers' = delete_manager(t)
      /\ tcbfree' = Append(tcbfree, t) /\ thread_count' = thread_count - 1
      /\ frozen' = frozen \ {t}
      /\ victims' = Tail(victims)
      /\ kpc' = IF Tail(victims) # <<>> THEN "terminate"
                ELSE IF current_thread' = SSI_tcb THEN "thread" ELSE "scheduler"
      /\ UNCHANGED <<tcbVars, manager_thread, treeVars, nested>>
  BY DEF TerminateLeaf
<1>2. t \in Tcb /\ Tail(victims) \in Seq(Tcb)
  BY <1>1, TailLemma DEF CoreInv, CpuOwned, TypeRest
<1> HIDE DEF t
<1>3. Running(t) <=> t \in ToSet(ready_queue) \/ current_thread = t
  BY DEF Running, thereIsThread
<1>4. t \notin ToSet(tcbfree)
  BY <1>1, <1>2, <1>3 DEF CoreInv, QueuesOK, Partition, thereIsThread
<1>5. QueuesOK'
  <2>1. Partition(Append(tcbfree, t), outThread(ready_queue, t),
                  IF t \in ToSet(ready_queue) \/ current_thread = t THEN wait_queue
                  ELSE outThread(wait_queue, t),
                  IF current_thread = t THEN NULL ELSE current_thread, thread_count - 1)
    BY <1>2, <1>4, FreeLemma DEF CoreInv, QueuesOK
  <2>2. Partition(tcbfree', ready_queue', wait_queue', current_thread', thread_count')
    BY <1>1, <1>3, <2>1
  <2> QED BY <2>2 DEF QueuesOK
<1>6. TypeMail'
  <2>1. inbox[t] \in Seq(Msg) /\ <<>> \in Seq(Msg) BY <1>2, EmptyLemma DEF CoreInv, TypeMail
  <2> QED BY <1>1, <1>2, <2>1, FreeMsgTypes DEF CoreInv, TypeMail
<1>7. TypeTcb' BY <1>1 DEF CoreInv, TypeTcb, tcbVars
<1>8. CpuOwned'
  <2>1. kpc' = "thread" => current_thread' = SSI_tcb BY <1>1
  <2>2. kpc' # "fault" BY <1>1
  <2> QED BY <1>1, <2>1, <2>2, NullNotTcb DEF CpuOwned
<1>9. TypeRest'
  <2>1. soft_block_count' \in 0 .. U32_MAX
    BY <1>1, CounterTypes DEF CoreInv, TypeRest
  <2>2. trap_managers' \in [Slot -> Tcb \cup {NULL}]
    BY <1>1, <1>2, ManagerTypes DEF CoreInv
  <2>3. kpc' \in Kpc BY <1>1 DEF Kpc
  <2> QED BY <1>1, <1>2, <2>1, <2>2, <2>3 DEF CoreInv, TypeRest, treeVars
<1> QED BY <1>5, <1>6, <1>7, <1>8, <1>9 DEF CoreInv

\* CREATESON and CREATEBROTHER, from allocTcb to insertThread.
LEMMA CoreCreateThread ==
    ASSUME CoreInv, NEW parent \in Tcb \cup {NULL},
           NEW managers \in [TrapKind -> Tcb \cup {NULL}], NEW sibling \in Tcb,
           CreateThread(parent, managers, sibling)
    PROVE  CoreInv'
<1> DEFINE t == Head(tcbfree)
           last == ring_prev[sibling]
           torn == parent = NULL /\ t_parent[last] # NULL
           list == IF torn THEN t_parent[last] ELSE parent
<1>1. /\ InSSI /\ tcbfree # <<>> /\ allocTcb(t, managers)
      /\ t_parent' = [t_parent EXCEPT ![t] = parent]
      /\ t_child' = [p \in Tcb |-> IF p = t THEN <<>>
                                   ELSE IF p = list THEN Append(t_child[p], t)
                                   ELSE t_child[p]]
      /\ ring_prev' = IF parent = NULL
                      THEN [ring_prev EXCEPT ![t] = last, ![sibling] = t]
                      ELSE [ring_prev EXCEPT ![t] = t]
      /\ kpc' = IF torn THEN "torn" ELSE kpc
      /\ thread_count' = thread_count + 1
      /\ ready_queue' = insertThread(ready_queue, t)
      /\ UNCHANGED <<msgfree, m_sender, m_message, wait_queue, current_thread,
                     trap_managers, victims, frozen, soft_block_count>>
  BY DEF CreateThread
<1>2. /\ Partition(Tail(tcbfree), insertThread(ready_queue, t), wait_queue, current_thread,
                   thread_count + 1)
      /\ t \in Tcb
  BY <1>1, AllocLemma DEF CoreInv, QueuesOK
<1>3. /\ tcbfree' = Tail(tcbfree)
      /\ inbox' = [inbox EXCEPT ![t] = <<>>]
      /\ waiting_for' = [waiting_for EXCEPT ![t] = MINUS1]
      /\ reply' = [reply EXCEPT ![t] = FALSE]
      /\ v0' = [v0 EXCEPT ![t] = NULL]
      /\ received' = [received EXCEPT ![t] = NULL]
      /\ nested' = nested \ {t}
      /\ manager_thread' = [k \in TrapKind |-> [manager_thread[k] EXCEPT ![t] = managers[k]]]
  BY <1>1 DEF allocTcb
<1>4. QueuesOK' BY <1>1, <1>2, <1>3 DEF QueuesOK
<1> HIDE DEF t, list, torn, last
<1>5. TypeTcb'
  BY <1>2, <1>3, WordAssumption DEF CoreInv, TypeTcb, MAGIC_SSI
<1>6. <<>> \in Seq(Msg) /\ <<>> \in Seq(Tcb) BY EmptyLemma
<1>7. TypeMail' BY <1>1, <1>3, <1>6 DEF CoreInv, TypeMail
<1>8. TypeRest'
  <2>1. \A p \in Tcb : Append(t_child[p], t) \in Seq(Tcb)
    BY <1>2, AppendLemma DEF CoreInv, TypeRest
  <2>2. t_child' \in [Tcb -> Seq(Tcb)] BY <1>1, <1>6, <2>1 DEF CoreInv, TypeRest
  <2>3. manager_thread' \in [TrapKind -> [Tcb -> Tcb \cup {NULL}]]
    BY <1>3 DEF CoreInv, TypeRest
  <2>4. ring_prev' \in [Tcb -> Tcb]
    <3>1. last \in Tcb BY DEF last, CoreInv, TypeRest
    <3> QED BY <1>1, <1>2, <3>1 DEF CoreInv, TypeRest
  <2>5. kpc' \in Kpc BY <1>1 DEF CoreInv, TypeRest, Kpc, Stopped
  <2> QED BY <1>1, <1>2, <1>3, <2>2, <2>3, <2>4, <2>5 DEF CoreInv, TypeRest
<1>9. CpuOwned' BY <1>1 DEF CoreInv, CpuOwned
<1> QED BY <1>4, <1>5, <1>7, <1>8, <1>9 DEF CoreInv

\* Every service of the SSI that touches the kernel's structures.
LEMMA CoreService ==
    ASSUME CoreInv, ServiceStep
    PROVE  CoreInv'
<1>0. User \subseteq Tcb BY DEF User
<1>1. ASSUME NEW req \in User, CreateSon(req) PROVE CoreInv'
  <2>1. [k \in TrapKind |-> manager_thread[k][req]] \in [TrapKind -> Tcb \cup {NULL}]
    BY <1>0 DEF CoreInv, TypeRest
  <2> QED BY <1>0, <1>1, <2>1, CoreCreateThread DEF CreateSon
<1>2. ASSUME NEW req \in User, CreateBrother(req) PROVE CoreInv'
  <2>1. /\ t_parent[req] \in Tcb \cup {NULL}
        /\ [k \in TrapKind |-> NULL] \in [TrapKind -> Tcb \cup {NULL}]
    BY <1>0 DEF CoreInv, TypeRest
  <2> QED BY <1>0, <1>2, <2>1, CoreCreateThread DEF CreateBrother
<1>3. ASSUME NEW req \in User, KillThread(req) PROVE CoreInv'
  BY <1>0, <1>3, CoreTerminate DEF KillThread, CoreInv, TypeRest
<1>4. ASSUME NEW req \in User, NEW k \in Managed, NEW m \in User, SpecManager(req, k, m)
      PROVE  CoreInv'
  <2>1. /\ trap_managers' = add_manager(m)
        /\ manager_thread' = [manager_thread EXCEPT ![k][req] = m]
        /\ UNCHANGED <<tcbVars, mailVars, queueVars, treeVars, controlVars, soft_block_count>>
    BY <1>4 DEF SpecManager
  <2>2. add_manager(m) \in [Slot -> Tcb \cup {NULL}] BY <1>0, ManagerTypes DEF CoreInv
  <2>3. manager_thread' \in [TrapKind -> [Tcb -> Tcb \cup {NULL}]]
    BY <1>0, <2>1, TrapKindAssumption DEF CoreInv, TypeRest
  <2>4. QueuesOK' /\ TypeTcb' /\ TypeMail'
    BY <2>1 DEF CoreInv, QueuesOK, Partition, TypeTcb, TypeMail, tcbVars, mailVars, queueVars
  <2> QED BY <2>1, <2>2, <2>3, <2>4 DEF CoreInv, TypeRest, CpuOwned, treeVars, controlVars,
                                      queueVars
<1>5. CASE ServicePanic
  BY <1>5, CoreStop DEF ServicePanic, Panic, Kpc, Stopped, CoreInv, TypeRest
<1> QED BY <1>1, <1>2, <1>3, <1>4, <1>5 DEF ServiceStep

\* The invariant is inductive.
LEMMA CoreNext == CoreInv /\ [Next]_vars => CoreInv'
<1> SUFFICES ASSUME CoreInv, [Next]_vars PROVE CoreInv' OBVIOUS
<1>1. CASE ThreadStep
  <2>1. ASSUME NEW k \in TrapKind, Trap(k) PROVE CoreInv'
    BY <2>1, CorePassUpOrDie DEF Trap, InThread, CoreInv, TypeRest
  <2> QED BY <1>1, <2>1, CoreMsgSend, CoreMsgRecv DEF ThreadStep
<1>2. CASE ServiceStep BY <1>2, CoreService
<1>3. CASE Interrupt BY <1>3, CoreInterrupt
<1>4. CASE KernelStep
  <2>1. CASE NestedTrap
    <3>1. current_thread \in Tcb
      BY <2>1 DEF NestedTrap, CoreInv, CpuOwned, QueuesOK, Partition
    <3>2. nested' \subseteq Tcb BY <2>1, <3>1 DEF NestedTrap, CoreInv, TypeRest
    <3> QED BY <2>1, <3>2, CorePassUpOrDie, TrapKindAssumption DEF NestedTrap
  <2>2. CASE TerminatePanic
    BY <2>2, CoreStop DEF TerminatePanic, Panic, Kpc, Stopped, CoreInv, TypeRest
  <2> QED BY <1>4, <2>1, <2>2, CoreScheduler, CoreTerminateChild, CoreTerminateLeaf
          DEF KernelStep
<1>5. CASE Halted \/ UNCHANGED vars
  <2>1. UNCHANGED vars BY <1>5 DEF Halted
  <2> QED BY <2>1 DEF vars, tcbVars, mailVars, queueVars, managerVars, treeVars, controlVars,
                     CoreInv, QueuesOK, Partition, TypeTcb, TypeMail, TypeRest, CpuOwned
<1> QED BY <1>1, <1>2, <1>3, <1>4, <1>5 DEF Next

\* Every variable keeps its type, whatever the threads, the SSI and the
\* devices do.
THEOREM TypeCorrect == Spec => []TypeOK
<1>1. Spec => []CoreInv BY InitCore, CoreNext, PTL DEF Spec
<1> QED BY <1>1, CoreImplies, PTL

\* Every handler, terminate() and thread creation keep each TCB in exactly
\* one of the four places, and thread_count exact.
THEOREM QueueDisciplineHolds == Spec => []QueueDiscipline
<1>1. Spec => []CoreInv BY InitCore, CoreNext, PTL DEF Spec
<1> QED BY <1>1, CoreImplies, PTL

=============================================================================
