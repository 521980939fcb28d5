------------------------------ MODULE Nucleus ------------------------------
(***************************************************************************)
(* The AmiKaya11 nucleus: the thread and message pools (phase1/src/tcb.c,  *)
(* msg.c), the exception and interrupt handlers (phase2/src/exceptions.c,  *)
(* interrupts.c), the scheduler (scheduler.c) and the trap manager table   *)
(* (manager.c), driven by threads that execute any sequence of system      *)
(* calls and raise any trap.                                               *)
(*                                                                         *)
(* A handler runs with interrupts disabled, so it is one atomic action     *)
(* that ends in kpc = "scheduler"; the call of scheduler() that closes it  *)
(* is the only step enabled then.  terminate() recurses, so it is a run of *)
(* steps (kpc = "terminate") during which nothing else is enabled.         *)
(*                                                                         *)
(* The System Service Interface is here the most general client of the     *)
(* kernel: it may answer any thread and apply any of its services to any   *)
(* existing thread, at any time it holds the CPU.                          *)
(***************************************************************************)
EXTENDS Naturals, Sequences, FiniteSets, SequencesExt, Queues

CONSTANTS
    thread_array,       \* the TCBs, in array order (tcb.c)
    message_array,      \* the messages, in array order (msg.c)
    Device,             \* device register addresses, senders of interrupts
    Word,               \* the payloads that threads and handlers send
    NULL,               \* 0
    MINUS1,             \* 0xFFFFFFFF
    TRAPCONTINUE,       \* 1
    CAUSE,              \* the cause register, payload of a trap message
    BUS_INTERVALTIMER,  \* sender of the pseudo clock tick
    TrapKind,           \* the exceptions that can have a manager: sysbp, pgmtrap, tlbtrap
    Managed,            \* bound: the kinds for which threads specify a manager
    MaxRequests,        \* bound: soft_block_count above which no request is sent
    U32_MAX             \* largest value of a U32 counter

Tcb == ToSet(thread_array)
Msg == ToSet(message_array)
MAXTHREADS == Len(thread_array)
Slot == 1 .. MAXTHREADS
SSI_tcb == thread_array[1]
TEST_tcb == thread_array[2]
User == Tcb \ {SSI_tcb}

\* The names that the code gives to the words 0 and 0xFFFFFFFF.
ANYMESSAGE == NULL
TRAPTERMINATE == NULL
MSGGOOD == NULL
MAGIC_SSI == MINUS1
MSGNOGOOD == MINUS1

ASSUME ThreadArrayAssumption ==
    /\ thread_array \in Seq(Tcb)
    /\ Distinct(thread_array)
    /\ MAXTHREADS > 1

ASSUME MessageArrayAssumption ==
    /\ message_array \in Seq(Msg)
    /\ Distinct(message_array)

ASSUME WordAssumption ==
    /\ NULL # MINUS1
    /\ {NULL, MINUS1, BUS_INTERVALTIMER} \cap Tcb = {}
    /\ {NULL, MINUS1, BUS_INTERVALTIMER} \cap Device = {}
    /\ BUS_INTERVALTIMER \notin {NULL, MINUS1}
    /\ Device \cap Tcb = {}
    /\ TRAPCONTINUE # NULL
    /\ {NULL, TRAPCONTINUE, CAUSE} \subseteq Word

ASSUME TrapKindAssumption ==
    /\ "pgmtrap" \in TrapKind
    /\ TrapKind \subseteq {"sysbp", "pgmtrap", "tlbtrap"}
    /\ Managed \subseteq TrapKind

ASSUME BoundAssumption ==
    /\ U32_MAX \in Nat
    /\ MaxRequests \in Nat
    /\ MaxRequests <= U32_MAX

VARIABLES
    tcbfree,            \* free TCBs, a FIFO
    ready_queue,
    wait_queue,
    current_thread,
    thread_count,
    soft_block_count,
    msgfree,            \* free messages, a FIFO
    inbox,              \* t_inbox of each TCB
    m_sender,
    m_message,
    waiting_for,        \* TCB field; keeps its value after the thread dies
    reply,              \* TCB field: TRUE when it is an address, FALSE when -1
    received,           \* the word that the reply address of each thread points to
    v0,                 \* register v0 of each thread
    manager_thread,     \* the three manager fields of each TCB
    trap_managers,
    t_parent,
    t_child,
    ring_prev,          \* t_sib.prev of a TCB without parent: brothers ring without a sentinel
    kpc,                \* what the CPU executes
    victims,            \* the frames of terminate(), innermost first
    nested,             \* threads whose saved state is inside send(), at the store that faulted
    frozen              \* history: threads put in wait_queue by a trap, not by recv()

tcbVars == <<waiting_for, reply, received, v0>>
mailVars == <<msgfree, inbox, m_sender, m_message>>
queueVars == <<tcbfree, ready_queue, wait_queue, current_thread, thread_count>>
managerVars == <<manager_thread, trap_managers>>
treeVars == <<t_parent, t_child, ring_prev>>
controlVars == <<kpc, victims, nested, frozen>>
vars == <<tcbVars, mailVars, queueVars, managerVars, treeVars, controlVars,
          soft_block_count>>

\* PANIC and HALT stop the machine.  The model stops as well where the kernel
\* has spoilt a list: "corrupt" is the ready queue into which it has linked a
\* NULL thread, "torn" a t_child list into which it has linked a brother.
Stopped == {"HALT", "PANIC", "corrupt", "torn"}
Kpc == {"thread", "scheduler", "terminate", "fault", "wait"} \cup Stopped
Source == User \cup Device \cup {MAGIC_SSI, BUS_INTERVALTIMER}

TypeOK ==
    /\ tcbfree \in Seq(Tcb) /\ ready_queue \in Seq(Tcb) /\ wait_queue \in Seq(Tcb)
    /\ current_thread \in Tcb \cup {NULL}
    /\ thread_count \in Nat /\ soft_block_count \in 0 .. U32_MAX
    /\ msgfree \in Seq(Msg) /\ inbox \in [Tcb -> Seq(Msg)]
    /\ m_sender \in [Msg -> Source \cup {NULL}] /\ m_message \in [Msg -> Word]
    /\ waiting_for \in [Tcb -> Tcb \cup {ANYMESSAGE, MAGIC_SSI}]
    /\ reply \in [Tcb -> BOOLEAN] /\ received \in [Tcb -> Word]
    /\ v0 \in [Tcb -> Source \cup {NULL, MINUS1}]
    /\ manager_thread \in [TrapKind -> [Tcb -> Tcb \cup {NULL}]]
    /\ trap_managers \in [Slot -> Tcb \cup {NULL}]
    /\ t_parent \in [Tcb -> Tcb \cup {NULL}] /\ t_child \in [Tcb -> Seq(Tcb)]
    /\ ring_prev \in [Tcb -> Tcb]
    /\ kpc \in Kpc /\ victims \in Seq(Tcb)
    /\ nested \subseteq Tcb /\ frozen \subseteq Tcb

----------------------------------------------------------------------------
(* Counters and message queues *)

Exists(t) == thereIsThread(ready_queue, t) \/ thereIsThread(wait_queue, t)

inc(n) == IF n = U32_MAX THEN 0 ELSE n + 1
\* Mutant: a counter that does not wrap.
DecSigned(n) == n - 1
dec(n) == IF n = 0 THEN U32_MAX ELSE n - 1

\* A message of the inbox q is taken by a receive from s.
Matches(m, s) == s = ANYMESSAGE \/ m_sender[m] = s

\* Mutant: the inbox is searched from its end.
PopMessageLast(t, s, i) ==
    /\ i \in 1 .. Len(inbox[t])
    /\ Matches(inbox[t][i], s)
    /\ \A j \in i + 1 .. Len(inbox[t]) : ~Matches(inbox[t][j], s)

\* popMessage takes the i-th message of t's inbox for a receive from s.
popMessage(t, s, i) ==
    /\ i \in 1 .. Len(inbox[t])
    /\ Matches(inbox[t][i], s)
    /\ \A j \in 1 .. i - 1 : ~Matches(inbox[t][j], s)

\* Mutant: only the first message of an inbox is returned.
FreeMsgHead(ms) ==
    /\ msgfree' = IF ms = <<>> THEN msgfree ELSE Append(msgfree, Head(ms))
    /\ UNCHANGED <<m_sender, m_message>>

\* Nothing reads a message in the free list, so its fields are reset when it
\* enters the list rather than when allocMsg takes it out.
freeMsg(ms) ==
    /\ msgfree' = msgfree \o ms
    /\ m_sender' = [m \in Msg |-> IF m \in ToSet(ms) THEN NULL ELSE m_sender[m]]
    /\ m_message' = [m \in Msg |-> IF m \in ToSet(ms) THEN NULL ELSE m_message[m]]

----------------------------------------------------------------------------
(* Trap managers *)

add_manager(m) ==
    LET stop == {i \in Slot : trap_managers[i] \in {m, NULL}}
    IN  IF stop = {} THEN trap_managers
        ELSE [trap_managers EXCEPT ![Min(stop)] = m]

delete_manager(m) ==
    LET found == {i \in Slot : trap_managers[i] = m}
    IN  IF found = {} THEN trap_managers
        ELSE [trap_managers EXCEPT ![Min(found)] = NULL]

thereIs_manager(m) == \E i \in Slot : trap_managers[i] = m

----------------------------------------------------------------------------
(* send(): the SSI's address is replaced by MAGIC_SSI; a recipient that    *)
(* waits for this sender is woken, any other existing one gets a message.  *)

Sender(s) == IF s = SSI_tcb THEN MAGIC_SSI ELSE s

Running(t) == thereIsThread(ready_queue, t) \/ current_thread = t

\* Mutant: ANYMESSAGE is forgotten.
WakesExact(s, t) ==
    ~Running(t) /\ thereIsThread(wait_queue, t) /\ waiting_for[t] = Sender(s)

Wakes(s, t) ==
    /\ ~Running(t)
    /\ thereIsThread(wait_queue, t)
    /\ waiting_for[t] \in {Sender(s), ANYMESSAGE}

Posts(s, t) == (Running(t) \/ thereIsThread(wait_queue, t)) /\ ~Wakes(s, t)

\* allocMsg returns NULL.
SendPanics(s, t) == Posts(s, t) /\ msgfree = <<>>

\* The store through t's reply address faults: a frozen thread has none.
SendFaults(s, t) == Wakes(s, t) /\ ~reply[t]

SendResult(s, t) == IF Wakes(s, t) \/ Posts(s, t) THEN MSGGOOD ELSE MSGNOGOOD

readyAfterSend(s, t) == IF Wakes(s, t) THEN insertThread(ready_queue, t) ELSE ready_queue
\* Mutant: the woken thread stays in the wait queue.
WaitKeepsWoken(s, t) == wait_queue
waitAfterSend(s, t) == IF Wakes(s, t) THEN outThread(wait_queue, t) ELSE wait_queue
frozenAfterSend(s, t) == IF Wakes(s, t) THEN frozen \ {t} ELSE frozen
waitingAfterSend(s, t) ==
    IF Wakes(s, t) THEN [waiting_for EXCEPT ![t] = MINUS1] ELSE waiting_for
v0AfterSend(s, t) == IF Wakes(s, t) THEN [v0 EXCEPT ![t] = Sender(s)] ELSE v0
\* The sender compared with SSI_tcb is already replaced by MAGIC_SSI.
softAfterSend(s, t, n) == IF Wakes(s, t) /\ Sender(s) = SSI_tcb THEN dec(n) ELSE n

\* What send() does to messages and to the recipient's reply address.
Deliver(s, t, w) ==
    /\ reply' = IF Wakes(s, t) THEN [reply EXCEPT ![t] = FALSE] ELSE reply
    /\ received' = IF Wakes(s, t) THEN [received EXCEPT ![t] = w] ELSE received
    /\ IF Posts(s, t)
       THEN LET m == Head(msgfree)
            IN  /\ msgfree' = Tail(msgfree)
                /\ inbox' = [inbox EXCEPT ![t] = IF s = BUS_INTERVALTIMER
                                                 THEN <<m>> \o inbox[t]
                                                 ELSE Append(inbox[t], m)]
                /\ m_sender' = [m_sender EXCEPT ![m] = Sender(s)]
                /\ m_message' = [m_message EXCEPT ![m] = w]
       ELSE UNCHANGED mailVars

\* PANIC() leaves everything as it is and never returns.
Panic ==
    /\ kpc' = "PANIC"
    /\ UNCHANGED <<tcbVars, mailVars, queueVars, managerVars, treeVars, victims,
                   nested, frozen, soft_block_count>>

----------------------------------------------------------------------------
(* terminate() *)

\* Mutant: outChild is forgotten.
TerminateLinked(t) ==
    /\ kpc' = "terminate"
    /\ victims' = <<t>>
    /\ UNCHANGED <<tcbVars, mailVars, queueVars, managerVars, treeVars, frozen>>

\* The call terminate(t): outChild(t) and an empty frame.
Terminate(t) ==
    /\ kpc' = "terminate"
    /\ victims' = <<t>>
    /\ t_child' = [p \in Tcb |-> IF p = t_parent[t] THEN RemoveFirst(t_child[p], t)
                                 ELSE t_child[p]]
    /\ t_parent' = [t_parent EXCEPT ![t] = NULL]
    /\ UNCHANGED <<tcbVars, mailVars, queueVars, managerVars, ring_prev, frozen>>

\* removeChild finds a child: terminate it first.
TerminateChild ==
    /\ kpc = "terminate"
    /\ LET t == Head(victims)
           c == Head(t_child[t])
       IN  /\ t_child[t] # <<>>
           /\ victims' = <<c>> \o victims
           /\ t_child' = [t_child EXCEPT ![t] = Tail(t_child[t])]
           /\ t_parent' = [t_parent EXCEPT ![c] = NULL]
    /\ UNCHANGED <<tcbVars, mailVars, queueVars, managerVars, ring_prev, kpc, nested,
                   frozen, soft_block_count>>

\* The base case.  The outermost frame returns to the SSI when the SSI made
\* the call, and into scheduler() when a handler did.
TerminateLeaf ==
    /\ kpc = "terminate"
    /\ LET t == Head(victims)
       IN  /\ t_child[t] = <<>>
           /\ Running(t) \/ thereIsThread(wait_queue, t)
           /\ ready_queue' = outThread(ready_queue, t)
           /\ wait_queue' = IF Running(t) THEN wait_queue ELSE outThread(wait_queue, t)
           /\ soft_block_count' = IF ~Running(t) /\ waiting_for[t] = SSI_tcb
                                  THEN dec(soft_block_count) ELSE soft_block_count
           /\ current_thread' = IF current_thread = t THEN NULL ELSE current_thread
           /\ freeMsg(inbox[t])
           /\ inbox' = [inbox EXCEPT ![t] = <<>>]
           /\ trap_managers' = delete_manager(t)
           /\ tcbfree' = Append(tcbfree, t)
           /\ thread_count' = thread_count - 1
           /\ frozen' = frozen \ {t}
    /\ victims' = Tail(victims)
    /\ kpc' = IF Tail(victims) # <<>> THEN "terminate"
              ELSE IF current_thread' = SSI_tcb THEN "thread" ELSE "scheduler"
    /\ UNCHANGED <<tcbVars, manager_thread, treeVars, nested>>

\* The target is in no queue.
TerminatePanic ==
    /\ kpc = "terminate"
    /\ t_child[Head(victims)] = <<>>
    /\ ~Running(Head(victims))
    /\ ~thereIsThread(wait_queue, Head(victims))
    /\ Panic

----------------------------------------------------------------------------
(* sysbp_handler: MsgSend *)

\* A thread names the SSI by MAGIC_SSI.
Receiver(a1) == IF a1 = MAGIC_SSI THEN SSI_tcb ELSE a1

\* A message from a trap manager to a thread that waits for it.
Decision(t) == thereIs_manager(current_thread) /\ waiting_for[t] = current_thread

InThread == kpc = "thread"

\* The SSI sends to threads; every other thread sends to threads and to MAGIC_SSI.
MaySend(a1) ==
    /\ a1 \in User \/ (a1 = MAGIC_SSI /\ current_thread # SSI_tcb)
    /\ a1 = MAGIC_SSI => soft_block_count < MaxRequests

softRequested(a1) == IF a1 = MAGIC_SSI THEN inc(soft_block_count) ELSE soft_block_count

TrapTerminate(a1) ==
    /\ InThread /\ MaySend(a1)
    /\ Decision(Receiver(a1))
    /\ Terminate(Receiver(a1))
    /\ soft_block_count' = softRequested(a1)
    /\ UNCHANGED nested

TrapContinue(a1) ==
    /\ InThread /\ MaySend(a1)
    /\ Decision(Receiver(a1))
    /\ LET t == Receiver(a1)
       IN  IF thereIsThread(wait_queue, t)
           THEN /\ wait_queue' = outThread(wait_queue, t)
                /\ ready_queue' = insertThread(ready_queue, t)
                /\ frozen' = frozen \ {t}
                /\ kpc' = "scheduler"
           ELSE \* insertThread(&ready_queue, NULL)
                /\ kpc' = "corrupt"
                /\ UNCHANGED <<wait_queue, ready_queue, frozen>>
    /\ soft_block_count' = softRequested(a1)
    /\ UNCHANGED <<tcbVars, mailVars, tcbfree, current_thread, thread_count, managerVars,
                   treeVars, victims, nested>>

\* send(), its result in the sender's v0.
Send(a1, w) ==
    LET s == current_thread
        t == Receiver(a1)
    IN  /\ InThread /\ MaySend(a1)
        /\ ~(Decision(t) /\ w \in {TRAPTERMINATE, TRAPCONTINUE})
        /\ ~SendFaults(s, t) /\ ~SendPanics(s, t)
        /\ Deliver(s, t, w)
        /\ ready_queue' = readyAfterSend(s, t)
        /\ wait_queue' = waitAfterSend(s, t)
        /\ waiting_for' = waitingAfterSend(s, t)
        /\ v0' = [v0AfterSend(s, t) EXCEPT ![s] = SendResult(s, t)]
        /\ soft_block_count' = softAfterSend(s, t, softRequested(a1))
        /\ frozen' = frozenAfterSend(s, t)
        /\ kpc' = "scheduler"
        /\ UNCHANGED <<tcbfree, current_thread, thread_count, managerVars, treeVars,
                       victims, nested>>

\* send() does not return: no message is free, or its store faults.
SendFails(a1, w) ==
    LET t == Receiver(a1)
    IN  /\ InThread /\ MaySend(a1)
        /\ ~(Decision(t) /\ w \in {TRAPTERMINATE, TRAPCONTINUE})
        /\ SendFaults(current_thread, t) \/ SendPanics(current_thread, t)
        /\ kpc' = IF SendFaults(current_thread, t) THEN "fault" ELSE "PANIC"
        /\ soft_block_count' = softRequested(a1)
        /\ UNCHANGED <<tcbVars, mailVars, queueVars, managerVars, treeVars, victims,
                       nested, frozen>>

MsgSend(a1, w) ==
    \/ w = TRAPTERMINATE /\ TrapTerminate(a1)
    \/ w = TRAPCONTINUE /\ TrapContinue(a1)
    \/ Send(a1, w)
    \/ SendFails(a1, w)

----------------------------------------------------------------------------
(* sysbp_handler: MsgRecv *)

\* The SSI receives from anyone.
MayRecv(a1) ==
    IF current_thread = SSI_tcb THEN a1 = ANYMESSAGE
    ELSE a1 \in User \cup {ANYMESSAGE, MAGIC_SSI}

\* A message is in the inbox.
RecvReturns(a1) ==
    /\ InThread /\ MayRecv(a1)
    /\ \E i \in 1 .. Len(inbox[current_thread]) :
         /\ popMessage(current_thread, a1, i)
         /\ LET m == inbox[current_thread][i]
            IN  /\ received' = [received EXCEPT ![current_thread] = m_message[m]]
                /\ v0' = [v0 EXCEPT ![current_thread] = m_sender[m]]
                /\ freeMsg(<<m>>)
         /\ inbox' = [inbox EXCEPT ![current_thread] = RemoveAt(inbox[current_thread], i)]
    /\ soft_block_count' = IF a1 = MAGIC_SSI THEN dec(soft_block_count) ELSE soft_block_count
    /\ kpc' = "scheduler"
    /\ UNCHANGED <<waiting_for, reply, queueVars, managerVars, treeVars, victims, nested,
                   frozen>>

\* Mutant: the reply address is not stored.
RecvBlocksNoReply(a1) ==
    /\ InThread /\ MayRecv(a1)
    /\ \A i \in 1 .. Len(inbox[current_thread]) : ~Matches(inbox[current_thread][i], a1)
    /\ waiting_for' = [waiting_for EXCEPT ![current_thread] = a1]
    /\ v0' = [v0 EXCEPT ![current_thread] = NULL]
    /\ wait_queue' = insertThread(wait_queue, current_thread)
    /\ current_thread' = NULL
    /\ kpc' = "scheduler"
    /\ UNCHANGED <<reply, received, mailVars, tcbfree, ready_queue, thread_count,
                   managerVars, treeVars, victims, nested, frozen, soft_block_count>>

\* No message: v0 of the blocked thread becomes NULL until it is woken.
RecvBlocks(a1) ==
    /\ InThread /\ MayRecv(a1)
    /\ \A i \in 1 .. Len(inbox[current_thread]) : ~Matches(inbox[current_thread][i], a1)
    /\ waiting_for' = [waiting_for EXCEPT ![current_thread] = a1]
    /\ reply' = [reply EXCEPT ![current_thread] = TRUE]
    /\ v0' = [v0 EXCEPT ![current_thread] = NULL]
    /\ wait_queue' = insertThread(wait_queue, current_thread)
    /\ current_thread' = NULL
    /\ kpc' = "scheduler"
    /\ UNCHANGED <<received, mailVars, tcbfree, ready_queue, thread_count, managerVars,
                   treeVars, victims, nested, frozen, soft_block_count>>

MsgRecv(a1) == RecvReturns(a1) \/ RecvBlocks(a1)

----------------------------------------------------------------------------
(* sysbp_handler (all other cases), pgmtrap_handler, tlb_handler *)

PassUpOrDie(k) ==
    LET s == current_thread
        manager == manager_thread[k][s]
    IN  \/ /\ manager = NULL
           /\ Terminate(s)
           /\ UNCHANGED soft_block_count
        \/ /\ manager # NULL
           /\ ~SendFaults(s, manager) /\ ~SendPanics(s, manager)
           /\ Deliver(s, manager, CAUSE)
           /\ ready_queue' = readyAfterSend(s, manager)
           /\ wait_queue' = insertThread(waitAfterSend(s, manager), s)
           /\ waiting_for' = [waitingAfterSend(s, manager) EXCEPT ![s] = manager]
           /\ v0' = v0AfterSend(s, manager)
           /\ soft_block_count' = softAfterSend(s, manager, soft_block_count)
           /\ frozen' = frozenAfterSend(s, manager) \cup {s}
           /\ current_thread' = NULL
           /\ kpc' = "scheduler"
           /\ UNCHANGED <<tcbfree, thread_count, managerVars, treeVars, victims>>
        \/ /\ manager # NULL
           /\ SendFaults(s, manager) \/ SendPanics(s, manager)
           /\ kpc' = IF SendFaults(s, manager) THEN "fault" ELSE "PANIC"
           /\ UNCHANGED <<tcbVars, mailVars, queueVars, managerVars, treeVars, victims,
                          frozen, soft_block_count>>

\* A thread traps.  The SSI runs kernel code without virtual memory: it can
\* raise only a program trap, on a request it cannot dereference.
Trap(k) ==
    /\ InThread
    /\ current_thread = SSI_tcb => k = "pgmtrap"
    /\ PassUpOrDie(k)
    /\ UNCHANGED nested

\* The store of send() faulted inside a handler: the program trap is raised
\* with current_thread unchanged, and the state saved in its TCB is that store.
NestedTrap ==
    /\ kpc = "fault"
    /\ PassUpOrDie("pgmtrap")
    /\ nested' = nested \cup {current_thread}

----------------------------------------------------------------------------
(* int_handler *)

Interruptible == kpc \in {"thread", "wait"}

\* int_handler panics when the SSI is gone, send() when no message is free.
InterruptPanics(s) == SendResult(s, SSI_tcb) = MSGNOGOOD \/ SendPanics(s, SSI_tcb)

\* The message to the SSI, then whatever remains to be done to the queues:
\* requeue moves the current thread behind the others.
InterruptMessage(s, w, requeue) ==
    /\ ~InterruptPanics(s)
    /\ Deliver(s, SSI_tcb, w)
    /\ ready_queue' = IF requeue THEN insertThread(readyAfterSend(s, SSI_tcb), current_thread)
                      ELSE readyAfterSend(s, SSI_tcb)
    /\ wait_queue' = waitAfterSend(s, SSI_tcb)
    /\ waiting_for' = waitingAfterSend(s, SSI_tcb)
    /\ v0' = v0AfterSend(s, SSI_tcb)
    /\ frozen' = frozenAfterSend(s, SSI_tcb)
    /\ current_thread' = IF requeue THEN NULL ELSE current_thread
    /\ soft_block_count' = softAfterSend(s, SSI_tcb, soft_block_count)
    /\ kpc' = "scheduler"
    /\ UNCHANGED <<tcbfree, thread_count, managerVars, treeVars, victims, nested>>

\* Line 2 when the pseudo clock has elapsed; expired: so has the time slice.
PseudoClockTick(w, expired) ==
    /\ Interruptible
    /\ expired => current_thread # NULL
    /\ InterruptMessage(BUS_INTERVALTIMER, w, expired)

\* Line 2 when only the time slice has elapsed.
SliceExpired ==
    /\ Interruptible
    /\ current_thread # NULL
    /\ ready_queue' = insertThread(ready_queue, current_thread)
    /\ current_thread' = NULL
    /\ kpc' = "scheduler"
    /\ UNCHANGED <<tcbVars, mailVars, tcbfree, wait_queue, thread_count, managerVars,
                   treeVars, victims, nested, frozen, soft_block_count>>

\* Lines 3 to 7.
DeviceInterrupt(d, w) ==
    /\ Interruptible
    /\ InterruptMessage(d, w, FALSE)

\* Line 2 when neither deadline has passed, and line 7 when the terminal's
\* status is neither a sent nor a received character: the handler only
\* returns to scheduler(), in the second case without an ACK.
InterruptIgnored ==
    /\ Interruptible
    /\ kpc' = "scheduler"
    /\ UNCHANGED <<tcbVars, mailVars, queueVars, managerVars, treeVars, victims, nested,
                   frozen, soft_block_count>>

\* Any of them when the message cannot be sent.
InterruptPanic ==
    /\ Interruptible
    /\ \E s \in Device \cup {BUS_INTERVALTIMER} : InterruptPanics(s)
    /\ Panic

----------------------------------------------------------------------------
(* scheduler() *)

\* LDST of a thread whose saved state is the faulting store executes it again.
Resume(t) == IF t \in nested THEN "fault" ELSE "thread"

Dispatch ==
    /\ kpc = "scheduler" /\ current_thread = NULL /\ ready_queue # <<>>
    /\ current_thread' = Head(ready_queue)
    /\ ready_queue' = Tail(ready_queue)
    /\ kpc' = Resume(Head(ready_queue))
    /\ UNCHANGED <<tcbVars, mailVars, tcbfree, wait_queue, thread_count, managerVars,
                   treeVars, victims, nested, frozen, soft_block_count>>

Reload ==
    /\ kpc = "scheduler" /\ current_thread # NULL
    /\ kpc' = Resume(current_thread)
    /\ UNCHANGED <<tcbVars, mailVars, queueVars, managerVars, treeVars, victims, nested,
                   frozen, soft_block_count>>

\* Nothing is ready: shutdown, deadlock, or wait for an interrupt.
Idle ==
    /\ kpc = "scheduler" /\ current_thread = NULL /\ ready_queue = <<>>
    /\ kpc' = IF thread_count = 1 THEN "HALT"
              ELSE IF thread_count > 0 /\ soft_block_count > 0 THEN "wait" ELSE "PANIC"
    /\ UNCHANGED <<tcbVars, mailVars, queueVars, managerVars, treeVars, victims, nested,
                   frozen, soft_block_count>>

scheduler == Dispatch \/ Reload \/ Idle

----------------------------------------------------------------------------
(* The services of the SSI that touch the kernel's structures *)

InSSI == InThread /\ current_thread = SSI_tcb

\* allocTcb: the fields of a fresh TCB.
allocTcb(t, managers) ==
    /\ tcbfree' = Tail(tcbfree)
    /\ inbox' = [inbox EXCEPT ![t] = <<>>]
    /\ waiting_for' = [waiting_for EXCEPT ![t] = MINUS1]
    /\ reply' = [reply EXCEPT ![t] = FALSE]
    /\ v0' = [v0 EXCEPT ![t] = NULL]
    /\ received' = [received EXCEPT ![t] = NULL]
    /\ nested' = nested \ {t}
    /\ manager_thread' = [k \in TrapKind |-> [manager_thread[k] EXCEPT ![t] = managers[k]]]

\* insertChild, or insertSibling when the requester has no parent: the fresh
\* TCB enters the ring between the requester and last.  A ring still links the
\* TCBs of brothers that died; where last has since become somebody's child,
\* the store last->next = new leads that somebody's t_child list to t, and the
\* model stops (Links has what that list meets beyond t).
CreateThread(parent, managers, sibling) ==
    LET t == Head(tcbfree)
        last == ring_prev[sibling]
        torn == parent = NULL /\ t_parent[last] # NULL
        list == IF torn THEN t_parent[last] ELSE parent
    IN  /\ InSSI
        /\ tcbfree # <<>>
        /\ allocTcb(t, managers)
        /\ t_parent' = [t_parent EXCEPT ![t] = parent]
        /\ t_child' = [p \in Tcb |-> IF p = t THEN <<>>
                                     ELSE IF p = list THEN Append(t_child[p], t)
                                     ELSE t_child[p]]
        /\ ring_prev' = IF parent = NULL
                        THEN [ring_prev EXCEPT ![t] = last, ![sibling] = t]
                        ELSE [ring_prev EXCEPT ![t] = t]
        /\ kpc' = IF torn THEN "torn" ELSE kpc
        /\ thread_count' = thread_count + 1
        /\ ready_queue' = insertThread(ready_queue, t)
        /\ UNCHANGED <<msgfree, m_sender, m_message, wait_queue, current_thread,
                       trap_managers, victims, frozen, soft_block_count>>

CreateSon(req) ==
    /\ Exists(req)
    /\ CreateThread(req, [k \in TrapKind |-> manager_thread[k][req]], req)

CreateBrother(req) ==
    /\ Exists(req)
    /\ CreateThread(t_parent[req], [k \in TrapKind |-> NULL], req)

\* TERMINATE, and the services that punish a wrong request.
KillThread(req) ==
    /\ InSSI
    /\ Exists(req)
    /\ Terminate(req)
    /\ UNCHANGED <<nested, soft_block_count>>

\* Mutant: a thread may change the manager that it has specified.
SpecManagerTwice(req, k, m) ==
    /\ InSSI
    /\ Exists(req) /\ Exists(m)
    /\ trap_managers' = add_manager(m)
    /\ manager_thread' = [manager_thread EXCEPT ![k][req] = m]
    /\ UNCHANGED <<tcbVars, mailVars, queueVars, treeVars, controlVars, soft_block_count>>

\* SPECPRGMGR, SPECTLBMGR, SPECSYSMGR up to the answer.
SpecManager(req, k, m) ==
    /\ InSSI
    /\ Exists(req) /\ Exists(m)
    /\ manager_thread[k][req] = NULL
    /\ trap_managers' = add_manager(m)
    /\ manager_thread' = [manager_thread EXCEPT ![k][req] = m]
    /\ UNCHANGED <<tcbVars, mailVars, queueVars, treeVars, controlVars, soft_block_count>>

\* A request for no known service.
ServicePanic ==
    /\ InSSI
    /\ Panic

----------------------------------------------------------------------------
\* After boot: the SSI and the test thread are ready and scheduler() is called.
Init ==
    /\ tcbfree = SubSeq(thread_array, 3, MAXTHREADS)
    /\ ready_queue = <<SSI_tcb, TEST_tcb>>
    /\ wait_queue = <<>>
    /\ current_thread = NULL
    /\ thread_count = 2
    /\ soft_block_count = 0
    /\ msgfree = message_array
    /\ inbox = [t \in Tcb |-> <<>>]
    /\ m_sender = [m \in Msg |-> NULL]
    /\ m_message = [m \in Msg |-> NULL]
    /\ waiting_for = [t \in Tcb |-> IF t \in {SSI_tcb, TEST_tcb} THEN MINUS1 ELSE NULL]
    /\ reply = [t \in Tcb |-> FALSE]
    /\ received = [t \in Tcb |-> NULL]
    /\ v0 = [t \in Tcb |-> NULL]
    /\ manager_thread = [k \in TrapKind |-> [t \in Tcb |-> NULL]]
    /\ trap_managers = [i \in Slot |-> NULL]
    /\ t_parent = [t \in Tcb |-> NULL]
    /\ t_child = [t \in Tcb |-> <<>>]
    /\ ring_prev = [t \in Tcb |-> t]
    /\ kpc = "scheduler"
    /\ victims = <<>>
    /\ nested = {}
    /\ frozen = {}

\* The system calls and traps of threads.
ThreadStep ==
    \/ \E a1 \in User \cup {MAGIC_SSI}, w \in Word : MsgSend(a1, w)
    \/ \E a1 \in User \cup {ANYMESSAGE, MAGIC_SSI} : MsgRecv(a1)
    \/ \E k \in TrapKind : Trap(k)

ServiceStep ==
    \/ \E req \in User :
          \/ CreateSon(req)
          \/ CreateBrother(req)
          \/ KillThread(req)
          \/ \E k \in Managed, m \in User : SpecManager(req, k, m)
    \/ ServicePanic

Interrupt ==
    \/ \E w \in Word, expired \in BOOLEAN : PseudoClockTick(w, expired)
    \/ \E d \in Device, w \in Word : DeviceInterrupt(d, w)
    \/ SliceExpired
    \/ InterruptIgnored
    \/ InterruptPanic

KernelStep ==
    \/ scheduler
    \/ TerminateChild
    \/ TerminateLeaf
    \/ TerminatePanic
    \/ NestedTrap

Halted == kpc \in Stopped /\ UNCHANGED vars

Next == ThreadStep \/ ServiceStep \/ Interrupt \/ KernelStep \/ Halted

Spec == Init /\ [][Next]_vars

----------------------------------------------------------------------------
(* Properties *)

\* A TCB is in exactly one of the free list, the ready queue, the wait queue
\* and current_thread, once; thread_count counts the TCBs in the last three,
\* and with the free ones they make MAXTHREADS (the global structures of
\* boot.c, kept by every handler, by terminate and by thread creation).
QueueDiscipline ==
    /\ Distinct(tcbfree) /\ Distinct(ready_queue) /\ Distinct(wait_queue)
    /\ ToSet(tcbfree) \cup ToSet(ready_queue) \cup ToSet(wait_queue)
          \cup ({current_thread} \ {NULL}) = Tcb
    /\ ToSet(tcbfree) \cap (ToSet(ready_queue) \cup ToSet(wait_queue)) = {}
    /\ ToSet(ready_queue) \cap ToSet(wait_queue) = {}
    /\ current_thread \notin ToSet(tcbfree) \cup ToSet(ready_queue) \cup ToSet(wait_queue)
    /\ thread_count = Len(ready_queue) + Len(wait_queue)
                        + (IF current_thread = NULL THEN 0 ELSE 1)
    /\ thread_count + Len(tcbfree) = MAXTHREADS

\* No message is lost or in two lists: each is in the free list or in the
\* inbox of one existing thread, once (allocMsg, freeMsg and popMessage as
\* send(), recv() and terminate() use them).
MessageConservation ==
    /\ Distinct(msgfree) /\ \A t \in Tcb : Distinct(inbox[t])
    /\ \A m \in Msg : m \in ToSet(msgfree) \/ \E t \in Tcb : m \in ToSet(inbox[t])
    /\ \A t \in Tcb :
         /\ ToSet(msgfree) \cap ToSet(inbox[t]) = {}
         /\ \A u \in Tcb \ {t} : ToSet(inbox[t]) \cap ToSet(inbox[u]) = {}
    /\ \A t \in ToSet(tcbfree) : inbox[t] = <<>>

\* No lost wakeup: a thread blocked by recv() has a reply address, and no
\* message that its receive would take is in its inbox, whatever was sent
\* while it was running, preempted or blocked on somebody else.
NoLostWakeup ==
    \A t \in ToSet(wait_queue) \ frozen :
        /\ reply[t]
        /\ \A m \in ToSet(inbox[t]) : ~Matches(m, waiting_for[t])

\* The thread tree is a tree of existing threads: t_parent and the t_child
\* lists agree, a freed TCB has neither parent nor children, and the frames
\* of terminate() are unlinked threads that the recursion has yet to free.
TreeConsistent ==
    /\ \A p \in Tcb : Distinct(t_child[p])
    /\ \A p, c \in Tcb : c \in ToSet(t_child[p]) <=> t_parent[c] = p
    /\ \A t \in ToSet(tcbfree) : t_parent[t] = NULL /\ t_child[t] = <<>>
    /\ Distinct(victims)
    /\ \A t \in ToSet(victims) : t_parent[t] = NULL
    /\ \A i \in 1 .. Len(victims) - 1 : victims[i] \notin ToSet(tcbfree)

\* Thread creation and terminate() keep the tree, whatever TCBs they reuse,
\* until insertSibling links a brother through the TCB of a dead one that
\* has become a child; there the tree is broken (tcb.c, insertSibling).
TreeUntilTorn == TreeConsistent <=> kpc # "torn"

\* A store of send() through an invalid reply address (a fault inside the
\* handler) is the manager's doing: it sends to a thread of which it decides a
\* trap.  No other thread, not the SSI and no interrupt handler causes one, and
\* none is caused at the SSI, whatever was frozen, continued, woken or reused.
OnlyManagersFault ==
    \A s \in Tcb \cup Device \cup {BUS_INTERVALTIMER}, t \in Tcb :
        SendFaults(s, t) => /\ s \in User /\ t \in User
                            /\ \E k \in TrapKind : manager_thread[k][t] = s

\* The nucleus as the mailboxes of its threads: a message is its sender and
\* its payload, and a thread of the wait queue that no trap has frozen takes
\* the message that recv() has put into waiting_for.
Letters(t) ==
    [i \in 1 .. Len(inbox[t]) |-> <<m_sender[inbox[t][i]], m_message[inbox[t][i]]>>]

Takes(t) ==
    IF t \notin ToSet(wait_queue) \/ t \in frozen THEN {}
    ELSE IF waiting_for[t] = ANYMESSAGE THEN Source ELSE {waiting_for[t]}

Alive == Tcb \ ToSet(tcbfree)
AllLetters == [t \in Tcb |-> Letters(t)]
AllTakes == [t \in Tcb |-> Takes(t)]

Mailboxes == INSTANCE Mailbox WITH
    Thread <- Tcb,
    Booted <- {SSI_tcb, TEST_tcb},
    NameOf <- [t \in Tcb |-> Sender(t)],
    ClockSource <- BUS_INTERVALTIMER,
    Payload <- Word,
    Nothing <- NULL,
    Good <- MSGGOOD,
    NoGood <- MSGNOGOOD,
    alive <- Alive,
    mailbox <- AllLetters,
    takes <- AllTakes,
    payload <- received,
    result <- v0

\* Without trap managers send(), recv(), terminate() and the interrupt
\* handler implement mailboxes: whatever the pool, the queues and the reply
\* addresses do, each message is received once, by the first receive that
\* takes it, in the order it came in, and none by a later owner of the TCB.
MailboxesImplemented == Mailboxes!MailboxSpec

=============================================================================
