# AmiKaya11 in TLA+

AmiKaya11 is a small message-passing kernel for the uMPS2 machine. This
directory holds TLA+ models of it, the TLC configurations that check them on
small instances and TLAPS proofs of their central invariants. `PROJECT.json`
lists the runs, the mutants, the source lines behind each definition, the
findings, the hazards and the theorems.

## 1. The system

| Component | State | Operations | Where |
|---|---|---|---|
| threads | `tcbfree`, the TCB fields, the tree links | alloc, free, queue and tree operations | `phase1/src/tcb.c` |
| messages | `msgfree`, the inboxes | alloc, free, insert, push, pop by sender | `phase1/src/msg.c` |
| boot | the globals | `main` | `phase2/src/boot.c` |
| scheduler | `ready_queue`, `current_thread`, the interval timer | `scheduler` | `phase2/src/scheduler.c` |
| exceptions | `wait_queue`, `soft_block_count`, `thread_count` | `sysbp_handler` (MsgSend, MsgRecv), `pgmtrap_handler`, `tlb_handler`, `terminate` | `phase2/src/exceptions.c` |
| interrupts | `interrupt_msg_array`, `pseudo_tick`, the device registers | `int_handler`, `which_device` | `phase2/src/interrupts.c` |
| SSI | `clockTcb_array`, `devTcb_array`, `devStatus_array` | `SSI_thread`, `SSIRequest`, `rest_index` | `phase2/src/ssi.c` |
| trap managers | `trap_managers` | add, delete, look up | `phase2/src/manager.c` |

Threads know two system calls, MsgSend and MsgRecv. Everything else is a
message to the SSI, a kernel-mode thread that works on the same globals as the
handlers. Handlers run with interrupts disabled (`area_populate`) and all end in
`scheduler()`. The interrupt handler talks to the SSI by messages as well, with
the device register as sender.

What is hard: a TCB is linked through one `t_next`, so every handler must move
it and never copy it; `waiting_for` serves both a receive and a thread frozen by
a trap; a thread may die in any state, together with its subtree, while its
address is in an inbox, in an array of the SSI, in the manager table or in the
manager fields of other threads; TCBs and messages are reused; interrupts come
before, between and after the requests they answer; the SSI can be preempted, in
the middle of an operation on a list; one interval timer serves the time slice
and the pseudo clock, in unsigned arithmetic.
What makes the components correct:

* queues and pools: every TCB and every message in exactly one list;
* message passing: no lost wakeup; `send()` stores through an invalid address at
  most for the manager of a frozen thread;
* tree: parent and child links agree throughout the recursion of `terminate`,
  which kills a subtree, no more and no less (the code keeps this up to a reuse
  of a brother's TCB, see section 3);
* time: the pseudo clock is never late, CPU time is charged to its user;
* devices: each completion reaches its waiter once;
* scheduler: ready threads run, deadlock and shutdown are recognised;
* SSI: no request forgotten, services end, answers go to those who asked;
* managers: the table names living threads, a decision meets a frozen thread (the
  code keeps neither, see section 3).

`PROJECT.json` lists the hazards line by line.

## 2. The modules

```
Lists           sequences as lists of the kernel
  Queues        the thread lists of tcb.c, as sequences
    Nucleus     kernel with an arbitrary SSI and arbitrary threads   ==> Mailbox
      Devices   the device registers and int_handler's use of them
        System  kernel, devices, the program of the SSI, SSIRequest  ==> Nucleus
  Links         the thread lists and the tree, as pointers           ==> ThreadTree
Timer           the interval timer and the accounting of CPU time
Mailbox         abstract: message passing as its users see it
ThreadTree      abstract: creation and termination of threads
QueueProofs     lemmas on lists
NucleusProofs   types and queues of Nucleus
  MailProofs    messages, wakeups and faults
    MailboxProofs     Nucleus implements Mailbox
  TreeProofs    the thread tree
SystemProofs    the closed system and the device addresses
TimerProofs     widths, deadlines and accounting of Timer
LinksProofs     the operations of listx.h on rings
MCNucleus, MCSystem, MCTimer, MCLinks      instances for TLC
```

`==>` is a refinement: a run checks each, and the first two are proved.

### Nucleus

One variable per global and per TCB or message field of the code, under its
name. `kpc` is what the CPU executes: thread code, `scheduler()`, `terminate()`,
a store of `send()` that faulted, WAIT, or a stopped machine. A handler is one
action up to its call of `scheduler()`, as nothing can interrupt it;
`terminate()` is a sequence of steps over a stack of frames (`victims`), as it
recurses.

| Code | Actions |
|---|---|
| `sysbp_handler`, SEND | `MsgSend`: `TrapTerminate`, `TrapContinue`, `Send`, `SendFails` |
| `sysbp_handler`, RECV | `MsgRecv`: `RecvReturns`, `RecvBlocks` |
| rest of the three trap handlers | `Trap` (`PassUpOrDie`), `NestedTrap` |
| `terminate` | `Terminate` (its call), `TerminateChild`, `TerminateLeaf`, `TerminatePanic` |
| `int_handler` | `PseudoClockTick`, `SliceExpired`, `DeviceInterrupt`, `InterruptIgnored`, `InterruptPanic` |
| `scheduler` | `Dispatch`, `Reload`, `Idle` |
| services of the SSI | `CreateSon`, `CreateBrother`, `KillThread`, `SpecManager`, `ServicePanic` |
| `main` | `Init` |

`send()` is split into what it decides (`Wakes`, `Posts`, `SendPanics`,
`SendFaults`) and its effect on each variable (`readyAfterSend`,
`waitAfterSend`, ..., `Deliver`), because its four callers do different things
with the same queues afterwards.

The SSI is here the most general client: whenever it has the CPU it may send to
any thread, receive, and apply any service to any thread that exists. Threads
make any system call with any word, and trap at any time.

One history variable: `frozen`, the threads that a trap has put in the wait
queue.

`insertSibling` links the brothers of a parentless thread in a ring without a
head, from which `outChild` takes nobody. Of that ring the model keeps
`ring_prev`, the field through which the next brother is linked. `allocTcb` takes
TCBs of the ring like any others. When one of them has become somebody's child
and the next brother is linked through it, the store leads the `t_child` list of
that somebody to the new thread. There the model stops, `kpc = "torn"`, with a tree
that no longer agrees with `t_parent` (`TreeUntilTorn`); Links goes on and shows
what `terminate()` does to such a list (finding `brother`).

A send to a thread that a trap froze, from a sender that matches its stale
`waiting_for`, stores through the address -1. The store traps inside the
handler with `current_thread` unchanged, and the handler saves the kernel's own
state over the thread's. `kpc = "fault"`, `NestedTrap` and `nested` model this: a
thread in `nested` executes the store again when it is next loaded.

### Mailbox

What a user of MsgSend and MsgRecv may rely on, without pool, queues or reply
addresses: each thread has a mailbox, a message goes to a receive that takes it
or to the end of the mailbox (the clock's to its front), a receive takes the
oldest message that matches, a send says whether its receiver exists. Nucleus
implements it with `mailbox` read off the inboxes and `takes` off `waiting_for`
(`Mailboxes`). It does so without trap managers only: with them a payload 0 or 1
can be taken for a decision and never arrive.

### Devices

The status fields of the registers, by address, and the pending interrupts.
`Subdevice` is the search of `int_handler`: first line, first bit of the bitmap,
for a terminal the transmitter and then the receiver. `StatusRead` reflects the
order of the statements: disks, tapes, network and printers are acknowledged
before their status is read, which then is READY whatever happened; terminals
after it, and only if a character was sent or received (`DeviceServed`,
`DeviceIgnored`). `rest_index` is written as arithmetic on the address; the 48
comparisons of the code are the same function. `Start`, `Complete` and
`Acknowledge` are the device of uMPS2 as the handler and the test program use it.

### System

Adds the program of the SSI: where `SSI_thread` is (`ssi`), its three arrays,
which threads are inside `SSIRequest` (`sent`), and which devices a thread has
started without having waited for them (`driving`). Each action of the SSI
conjoins an action of Nucleus with the step of the program that makes it, so
System is closed where Nucleus is open. Threads use devices as `termprint` of
the test program does: command, then WAITFORIO, once for each command; unlike
it, they may start several devices before they wait.

### Timer

The statements of `scheduler()`, `int_handler` and the exception handlers that read
the clock or set the interval timer. Clock, timer and counters are unsigned
modulo `U32`. What a handler does to threads is reduced to: keep the current
thread or lose it, wake one or none. Time passes by ticks in threads and in WAIT,
by a duration of `Body` in a handler, by up to `Gap` between two reads of the
clock in successive statements, by `Load` in LDST. `SetDefault` keeps the missing
parentheses of `SET_IT`.

### Links, ThreadTree

`next` and `prev` of every `list_head` in the TCBs and of the three queue heads;
the operations of `listx.h` and `tcb.c` on them, as the handlers, `terminate()`
and the SSI call them. A handler's operation is one step. The SSI's creation of
a thread is taken apart: allocation, linking, load and store of `thread_count`,
read of the tail of the ready queue and the four stores of `__list_add`. With
`Preempt` interrupts can come between these steps, with `Reuse` a TCB that a
ring of parentless brothers still links is allocated again. Without both, Links
implements ThreadTree, where terminating a thread dooms its subtree, which is then
freed thread by thread. The subtree is the least set that holds its root and is
closed under children, in both modules.

### Abstractions

* Register contents other than `v0` are left out. A reply address is valid or -1;
  what it points to is `received`.
* Time is left out of Nucleus and System: each deadline may have passed whenever
  an interrupt arrives. Timer has time and leaves out the rest.
* A message to the SSI carries its structure by value, in the code its address
  (on the stack of the blocked requester, or a slot of `interrupt_msg_array`).
* Threads send to TCB addresses or to `MAGIC_SSI`, never to other addresses, and
  pass the SSI pointers it can dereference.
* In System the SSI is preempted between its system calls, not between two stores.
* `insertThread(&ready_queue, NULL)`, which the TRAPCONTINUE branch can call,
  ends in `kpc = "corrupt"`, where the model stops.
* Nucleus and System stop where a brother is linked through the TCB of somebody's
  child (`kpc = "torn"`): the tree of Nucleus is made of sequences and has no lists
  that run into each other. Theorems on the two modules say nothing of what the
  code does after such a step.
* The fields of a message are cleared when it is freed, in the code when it is
  allocated; nobody reads them in between.
* In Links a `terminate()` that finds its target in no queue, where the code
  panics, has no next step.

## 3. The runs

Passing runs:

| Run | Instance | Shows |
|---|---|---|
| `mail` | Nucleus, 3 threads, 2 messages, 1 device, no managers | types, queue discipline, message conservation, no lost wakeup; Nucleus implements Mailbox |
| `managers` | Nucleus, 3 threads, no messages, program trap managers | queues and tree consistent at each step, with freezing, decisions and nested traps; `send()` faults only for a manager and the thread it decides of |
| `services` | System, 3 threads, 1 message, program trap managers: CREATESON, GETCPUTIME, TERMINATE, SPECPRGMGR, an unknown service, messages between threads | no request forgotten; the SSI dies only of a failed allocation; no lost wakeup when freezes, decisions and faulting sends move threads between the queues |
| `io` | System, 2 threads, 2 messages, a disk and a terminal, fairness | statuses and waiters meet, each completion once, I/O ends; System implements Nucleus |
| `sleep` | System, 3 threads, 1 message: CREATEBROTHER, WAITFORCLOCK, fairness | no request forgotten between inbox and `clockTcb_array`, ticks and new registrations in any order; services end |
| `timer` | Timer, 2 threads, slice 3, pseudo clock 9, clock modulo 26, fairness | pseudo clock on time, slices bounded, exact charging, round robin, preemption |
| `links` | Links, 4 TCBs, neither `Preempt` nor `Reuse`, fairness | no thread lost, links agree, subtrees killed; Links implements ThreadTree |

Runs that find a violation, each a disagreement between the code and what the
repository says of it (`findings` in `PROJECT.json`):

| Run | Shows |
|---|---|
| `deadlock` | `soft_block_count` is not decremented when the SSI's answer wakes a thread, and a later circular wait goes undetected |
| `reuse` | the SSI serves a dead thread's request for the thread that has its TCB now |
| `brother` | a parentless brother dies, its TCB is reused as a son, a later brother is linked through the stale ring into a child list: `terminate()` kills a thread outside the subtree |
| `preempt` | the SSI is preempted between two stores of its insertion in the ready queue and is lost itself |
| `print` | a terminal faster than the WAITFORIO: the answer is the unmasked status, which the test program takes for an error |

Other weaknesses that the models contain and no property forbids:

* CREATESON or CREATEBROTHER without a free TCB kills the SSI (`CreateCrash`;
  `SsiOnlyCrashes` says that nothing else does), after which the machine may HALT
  as if all were well;
* the payload 0 or 1 of a manager to a thread in an ordinary receive, or with a
  stale `waiting_for`, counts as a decision (`exceptions.c:375`): 0 kills the thread,
  1 resumes it without a message, or inserts NULL in the ready queue. `README.md:101`
  of the repository speaks of a thread "previously blocked waiting for a decision";
* the manager table can hold a thread twice, and one entry then survives its death;
* a thread that overruns its slice inside a system call gets the wrapped
  difference `SCHED_TIME_SLICE - cpu_slice` and keeps the CPU up to the next tick of
  the pseudo clock (`SliceBounded` is the bound that remains), though `README.md:53`
  of the repository says it resumes "for its remaining time slice";
* with `BUS_TIMESCALE` above 1 the unparenthesised `SET_IT` breaks `ClockOnTime`
  (the machine configuration `AlainDC` has a clock rate of 1);
* a terminal error is never acknowledged, and its waiter never answered (the
  exception in `IoEnds`); errors of other devices are never reported.

Bounds. The SSI and two further threads are enough for a sender, a receiver and
a bystander, for a manager and a trapped thread, and for a chain of children;
Links has a third for a fan of children. One or two messages reach the order of
an inbox, a receive by sender that skips the first message, and an empty pool.
`MaxRequests` bounds the requests in flight, since `soft_block_count` only grows
(run `deadlock`), and `U32_MAX` is its width, small so that it wraps. `Managed` and
`Service` select the services of a run, `Chat` whether threads of System talk to
each other, `Clock` when the pseudo clock ticks.

In `managers` threads send the SSI nothing (`MaxRequests = 0`); it serves them all
the same, as it may do anything there. The pool is empty, so a send wakes its
receiver, is a decision, faults or ends in PANIC: these are the sends that freeze,
resume, kill and fault, and without inboxes every order of them fits in a run.
Managers with inboxes are the matter of `services`, which therefore has
`NoLostWakeup`, vacuous without messages.

A brother linked through the TCB of a child takes four TCBs: the requester, the
dead brother's and its new parent, and the new brother. No run of Nucleus or System
has that many, so there `TreeUntilTorn` amounts to `TreeConsistent` (the mutant is a
`terminate()` that leaves a child linked). The step itself is in run `brother`, at the
level of pointers, and in the theorem `TreeKeptUntilTorn`.

`io` has one thread besides the SSI: the repository's test program has one
printing thread for a terminal, and two threads that share a device lose
completions by the construction of `devTcb_array` (hazards, and `Forgets` in section 4).
One thread drives two devices, so that both orders of interrupt and WAITFORIO,
and interrupts of one device during the service of the other, occur. The device
indices are covered for all 48 registers by the proof of `IndicesDistinct`.

In Timer a slice of 3 and a pseudo clock of 9 keep several slices per tick
and both orders of the deadlines; handlers of 1 or 2 ticks can cross either
deadline, or both; the clock starts at every value of its range, so it wraps at
every point. `Load` is 2: LDST restores some forty registers, so a timer set to 1
has expired before the thread's first instruction.

The MCNucleus runs use a VIEW (`Kernel`) that hides payloads, `received` and `v0`: no
guard of Nucleus reads a stored payload, only that of the message being sent. For
`MailboxesImplemented` this means that each step is checked with one of the payload
assignments; payloads are only copied. It also hides what is left in the fields of
a free TCB and is reset by `allocTcb`, and `waiting_for` of a thread that does not
wait, unless it names a possible trap manager, the only sender that reads it
(`exceptions.c:375`). In MCSystem the view (`Observed`) hides the same, and what
threads other than the SSI have received; runs with fairness use no view, except in
MCTimer, where it hides counters that later steps do not read. Messages are
symmetric: the order of the free list decides only which one is used. So are, in
MCNucleus, the threads other than the SSI, which only the initial state tells apart.

Deadlock checking is on in all passing runs; a stopped machine stutters
(`Halted`). `brother` and `preempt` turn it off, as corrupted lists can leave no
step.

Fairness. Kernel code is straight-line code that nothing interrupts: weak
fairness of `KernelStep` in System, and of `Termination` in Links. A thread cannot
keep the CPU by making system calls: strong fairness of the end of the slice in
System. That is the property `Preempted` of Timer, which is checked there from no
other assumption than that the machine goes on. Also in System: strong fairness
of the clock tick (`pseudo_tick` accumulates across handlers, `ClockOnTime`) and of
the SSI's own step (its stretch between two system calls is short against a
slice). `io` adds that a device finishes its command and that a pending interrupt
is taken: interrupts are enabled in every thread and in WAIT. `sleep` uses
`Clock = "long"`: a period of 100 ms is taken to be long enough for the SSI to get
to a message other than the tick between two ticks. Without that assumption
ticks, which go to the head of the inbox, can starve the requests behind them
for ever. Threads are not fair: they may loop without a system call.

## 4. The proofs

All theorems on the kernel hold for any `thread_array` of at least two TCBs and any
number of messages, devices and words. Their assumptions are the named ASSUMEs of the
modules, which TLC evaluates in every run: arrays without repetition; 0, -1,
devices and TCBs different addresses; the bounds naturals; for System that threads
request services and not the messages of the interrupt handler
(`ServiceAssumption`).

| Module | Theorem | States |
|---|---|---|
| NucleusProofs | `TypeCorrect` | `Spec => []TypeOK` |
| | `QueueDisciplineHolds` | `Spec => []QueueDiscipline` |
| MailProofs | `MessagesConserved` | `Spec => []MessageConservation` |
| | `NoWakeupLost` | `Spec => []NoLostWakeup` |
| | `OnlyManagersCauseFaults` | `Spec => []OnlyManagersFault` |
| TreeProofs | `TreeKeptUntilTorn` | `Spec => []TreeUntilTorn`: the tree is consistent exactly as long as no brother is linked through the TCB of a child |
| MailboxProofs | `NucleusIsMailboxes` | `Managed = {}` implies `Spec => MailboxesImplemented` |
| SystemProofs | `SystemRefinesNucleus` | `SystemSpec => NucleusSpec` |
| | `SystemTypeCorrect` | `SystemSpec => []SystemTypeOK` |
| | `StatusAlwaysMeetsWaiter` | `SystemSpec => []StatusMeetsWaiter` |
| | `SsiDiesOnlyOfCrash` | `SystemSpec => []SsiOnlyCrashes` |
| | `ForgottenOnlyWithoutRoom` | `SystemSpec /\ [][~Forgets]_sysVars => []RequestKnown` |
| | `NoRequestForgotten` | without WAITFORCLOCK and WAITFORIO in `Service`, `SystemSpec => []RequestKnown` |
| | `IndicesDistinct` | the 48 status fields have 48 different indices in the SSI's arrays |
| | `HandlerFindsDevice` | `int_handler` computes an installed register, one with a pending interrupt on lines 3 to 6 |
| TimerProofs | `TimerTypeCorrect` | `Spec => []TimerTypeOK` |
| | `ClockAlwaysOnTime` | `BUS_TIMESCALE = 1` implies `Spec => []ClockOnTime` |
| | `SliceAlwaysBounded` | `BUS_TIMESCALE = 1` implies `Spec => []SliceBounded` |
| | `ChargeAlwaysExact` | `BUS_TIMESCALE = 1` implies `Spec => ChargeExact` |
| LinksProofs | `LoopMeetsEntries` | `list_for_each_entry` meets the entries of a ring and no others |
| | `AddTailAppends`, `DelRemoves` | the stores of `list_add_tail` and `list_del` append to and remove from the sequence of a ring, and keep every other ring |
| | `LinksTypeCorrect` | `~Preempt`, `~Reuse` imply `Spec => []LinksTypeOK` |
| | `NoThreadIsLost` | `~Preempt`, `~Reuse` imply `Spec => []NoThreadLost` |
| | `ListsWellLinked` | `~Preempt`, `~Reuse` imply `Spec => []WellLinked` |
| | `TerminateKillsSubtree` | `~Preempt`, `~Reuse` imply `Spec => []KillsSubtree` |
| | `ListsImplementTree` | `~Preempt`, `~Reuse` imply `Spec => Tree!TreeSafety`, the abstract tree without its fairness |

Queues. Neither `TypeOK` nor `QueueDiscipline` is inductive. `CoreInv` adds that the
CPU is owned as `kpc` says (`CpuOwned`): there is a current thread while one
executes or while `send()` faults, and a frame while `terminate()` runs. Without it
`RecvBlocks` could insert NULL in the wait queue. The queue part is a predicate on
five values (`Partition`), and each movement of a TCB (wake, block, requeue,
dispatch, free, allocate) is one lemma about it. Then there is one lemma for
each action, and `CoreNext` puts them together. The other proofs have the same
form: a predicate on values, a lemma for each movement, a lemma for each action.

Messages. `MailInv` is `MessageConservation` with `NoLostWakeup`, given `CoreInv`:
that a message is posted to an existing thread's inbox is what keeps the inboxes
of free TCBs empty, and that a new thread starts with an empty inbox is what the
second half needs when its TCB is reused. `OnlyManagersFault` needs three facts:
only a frozen thread waits without a reply address (`NoLostWakeup`); a frozen thread
waits for the manager of one of its traps (`FrozenWaits`), which stays true because
SPECPRGMGR kills a thread that names a second manager for a trap and a reused TCB
is in no queue; and the SSI is never frozen, because no service gives it a manager
(`SsiUnmanaged`).

Tree. `TreeInv` adds to `TreeUntilTorn` that there are no frames outside
`terminate()` (`NoFrames`); a creation while a frame is left over could make a
victim somebody's child. A new thread is a fresh TCB without children, and
`insertChild`, or `insertSibling` in a ring of parentless TCBs, links it to the list of
its parent or to none. A brother linked through a child's TCB is in the list of a
thread that is not its parent: that is the one step which breaks `TreeConsistent`,
and it sets `kpc = "torn"`; no step follows it.

Mailboxes. `Managed = {}` is the hypothesis under which the statement is true (see
section 2). `Unmanaged` says what it means for the state: no manager fields, an
empty table, nobody frozen. `Signed` (messages in inboxes have senders) keeps the
letters of an inbox in the type of Mailbox. `MailboxStep` maps each action to
`Post`, `Take`, `Block`, `Notify`, `Die`, `Start` or nothing.

System. The refinement rests on what the SSI may assume of the nucleus, which
`NucleusInv` adds: the SSI is nobody's child or manager (`SsiApart`), a frozen
thread waits for its manager (`FrozenWaits`, from MailProofs), the SSI waits for
anybody and never executes a faulting store (`SsiSound`). On the program's side `ProgramInv` says that
each message the SSI holds, in its inbox or in its hands, carries what its
sender sends (`Carries`, `SsiMail`, `Held`): a request from a thread, a status from a
device. Without it the SSI could be shown to index its arrays with anything.
`SsiDiesOnlyOfCrash` then needs that a victim is a trapped thread, the requester of
TERMINATE, one that waits for its manager, or a child: never the SSI unless
its own program has trapped. Through `SystemRefinesNucleus` every theorem on
Nucleus holds of System.

Requests. A thread is owed an answer (`Owed`) from the MsgSend of SSIRequest to the
end of its MsgRecv, and all along it has a `Claim` to it: its message is in the inbox
of the SSI, or the SSI serves it, or has registered it for an event, or the
answer is in its own inbox. `RequestKnown` speaks only of the threads that are
blocked; it is not inductive, since the SSI may answer before the MsgRecv. `KnownInv`
adds that case, that a thread between the two calls neither waits nor executes a
faulting store again (`SentApart`), and that an SSI that waits has nothing in
its hands (`SsiWaits`), so that waking it overwrites nothing. A blocked thread cannot
have its answer in the inbox by `NoLostWakeup`. The proof fails at exactly two
steps, which `Forgets` names: WAITFORCLOCK when `clockTcb_array` has
MAXTHREADS - 1 entries (threads that died waiting keep theirs), where `ssi.c:266`
drops the request; and WAITFORIO for a device another thread is registered for,
whose place `ssi.c:419` overwrites. The second happens when two threads drive
one device and the second starts it before the interrupt of the first is taken.
`ForgottenOnlyWithoutRoom` says that as long as neither step is taken every request is
known, for any number of threads, messages and devices and all services, whatever
the threads send each other and die of; `NoRequestForgotten` is the case in which
neither step exists, the one of the run `services`. The run `sleep` has
WAITFORCLOCK, with room in `clockTcb_array` for its two threads, none of which can
be killed while it is registered.

Time. The theorems hold for any slice, period, width of the counters and duration
of handlers, as long as none of the intervals measured comes near the width
(`TimerAssumption`; 2^32 microseconds are 71 minutes). All but the first are about a
clock rate of 1, that of the configuration `AlainDC`; with another one `ClockOnTime`
is false (section 3). `Plus` and `Minus` are reduced to sums that wrap at most
once, and the time counted by the pseudo clock to a sum of three values.
`TimeInv` strengthens the properties in three ways. `ClockInv` has the deadline in
the handlers as well, except when a thread will be dispatched, which sets the
timer anew: WAIT does not. `SliceInv` relates the two clocks: a thread has never
used more than its slice and what the pseudo clock has counted, since whatever
the first clock charges the second counts; so when the timer expires for the
tick, an overrun slice is bounded. `ExactInv` says what the next charge will be.

Lists. Nucleus takes the lists of `tcb.c` as sequences. A `Ring` is a head and a
sequence of entries that the pointers link both ways; the first three theorems of
LinksProofs say that insertion, removal and traversal of a ring of any length
are `Append`, `RemoveAt` and the set of the sequence. Their hypotheses (an entry
that is inserted is not linked, one that is removed is) are not assumed of the
program: the other theorems establish them, for any number of TCBs.

Pointers. The properties of Links speak of what a traversal meets, which no action
keeps by itself. `LinksInv(Q, rank)` says what the memory represents: `Q` gives for each
queue the set of its threads and `rank` a number for each thread, and
`LinksInductive` is that there are such a `Q` and `rank`. Its parts:

* `ListInv`: each queue is a ring of the threads of `Q`, disjoint from the others, and
  the child list of each thread a ring of those whose `t_parent` names it. Within the
  four stores of an insertion this is said of `Mem`, the memory with the first of them
  undone: the last store is the one that makes the new thread reachable, so up
  to it a traversal meets the old queue, and the other stores are remembered by
  `CreateInv`.
* `PlaceInv`: a thread in no queue is the current one or the one being created.
* `SibInv`: `insertSibling` of a parentless thread writes through its `t_sib.prev`;
  that must be the `t_sib` of a parentless thread, or the child list of somebody
  else is overwritten. This is the part that fails when rings are reused.
* `FreeInv`, `CountInv`: free TCBs have neither parent nor children, and
  `thread_count` is late by the thread that is being created.
* `DoomInv`: what is condemned is closed under children and hangs below the frames of
  `terminate()`.
* `RankInv`: a parent has a smaller rank than its children, so `t_parent` has no cycle.
  With `DoomInv` it follows that nothing condemned is left when the last frame is
  gone: otherwise the thread of least rank would have a condemned parent.

There is one lemma for each movement of a thread between the sets (`QueueAdd`,
`QueueDel`, `ChildAdd`, `ChildDel`, `AllocMemory`), one for each action, and `InitInv` for
the initial state, where the loop of `initTcbs` is followed to its end with a
least counterexample. The hypotheses `Preempt = FALSE` and `Reuse = FALSE` are the
ones of the run `links`; without the first `NoThreadLost` is false, without the second
`KillsSubtree` (runs `preempt` and `brother`). For `ListsImplementTree` each action is a
`Create` (its last store), a `Terminate`, a `Reap` or nothing.

Only model-checked:

* liveness (`ServiceEnds`, `IoEnds`, `ReadyRuns`, `Preempted`, and the fairness of
  `TreeImplemented`), which the prover does not do;
* `OneCompletion`, and `RequestKnown` with WAITFORIO without the hypothesis on
  `Forgets` (run `io`): they hold of the instance and not of every value of the
  constants, since two threads that drive one device lose a completion.

## 5. Not modelled

* Register save and restore: copies that no property tells apart.
* The slots of `interrupt_msg_array`: at most 20 messages are under way, but the
  index also advances on interrupts without a message, so 48 interrupts during
  one wait in the inbox reuse a slot.
* `terminate()` called by the SSI at the grain of stores. It is as unprotected as
  the insertion that `preempt` takes apart.
* The second charge of CPU time when a trap occurs inside a handler.
* The test program, apart from its way to drive a terminal: its calls are among
  those the threads of the models make.

## 6. Plan

Done: all modules above, their runs and the theorems of section 4.

Left: `terminate()` called by the SSI at the grain of stores, in Links; and the
slots of `interrupt_msg_array` (section 5).
