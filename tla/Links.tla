------------------------------- MODULE Links -------------------------------
(***************************************************************************)
(* The thread queues and the thread tree as they are in memory: doubly     *)
(* linked rings of list_head fields (include/listx.h) used by              *)
(* phase1/src/tcb.c, under the operations that the handlers, terminate()   *)
(* and the SSI's creation of threads perform on them.  The module Nucleus  *)
(* takes these lists as sequences; here every pointer is state, so that an *)
(* operation on a thread that is linked elsewhere shows.                   *)
(*                                                                         *)
(* Handlers run with interrupts disabled and their operations are single   *)
(* steps.  The SSI is a thread: its creation of a thread is a step per     *)
(* operation, and one per store in the insertion into the ready queue.     *)
(***************************************************************************)
EXTENDS FiniteSets, Lists

CONSTANTS
    thread_array,   \* the TCBs, in array order
    NULL,
    Preempt,        \* TRUE when interrupts can come between the steps of a creation
    Reuse           \* TRUE when a TCB that was in a ring of parentless brothers is allocated again

Tcb == ToSet(thread_array)
SSI_tcb == thread_array[1]
TEST_tcb == thread_array[2]
User == Tcb \ {SSI_tcb}

ASSUME LinksAssumption ==
    /\ Preempt \in BOOLEAN /\ Reuse \in BOOLEAN
    /\ Len(thread_array) > 1 /\ NULL \notin Tcb
    /\ thread_array \in Seq(Tcb) /\ Distinct(thread_array)

\* The struct list_head objects, by the TCB or queue that contains them.
t_next(t) == <<"t_next", t>>
t_sib(t) == <<"t_sib", t>>
t_child(t) == <<"t_child", t>>
ready_queue == <<"head", "ready_queue">>
wait_queue == <<"head", "wait_queue">>
tcbfree_sentinel == <<"head", "tcbfree_sentinel">>
Queue == {ready_queue, wait_queue, tcbfree_sentinel}
Node == {t_next(t) : t \in Tcb} \cup {t_sib(t) : t \in Tcb} \cup {t_child(t) : t \in Tcb} \cup Queue

\* container_of for the three fields of a TCB.
Container(n) == n[2]

VARIABLES
    next, prev,         \* the fields of every list_head
    t_parent,
    current_thread,
    thread_count,
    ssi,                \* the creation in progress: its step, requester, thread and loaded value
    victims,            \* the frames of terminate(), innermost first
    rings,              \* history: TCBs that insertSibling has linked without a sentinel
    doomed              \* history: the subtree, by t_parent, of the thread that is terminated

links == <<next, prev>>
vars == <<links, t_parent, current_thread, thread_count, ssi, victims, rings, doomed>>

IdleSsi == [pc |-> "idle", req |-> NULL, new |-> NULL, load |-> NULL]

LinksTypeOK ==
    /\ next \in [Node -> Node] /\ prev \in [Node -> Node]
    /\ t_parent \in [Tcb -> Tcb \cup {NULL}]
    /\ current_thread \in Tcb \cup {NULL}
    /\ thread_count \in 0 .. Len(thread_array)
    /\ ssi.pc \in {"idle", "link", "count", "store", "tail", "add1", "add2", "add3", "add4"}
    /\ victims \in Seq(Tcb) /\ rings \subseteq Tcb /\ doomed \subseteq Tcb

----------------------------------------------------------------------------
(* listx.h, on a pair of functions l.next and l.prev *)

Memory == [next |-> next, prev |-> prev]
Store(l) == next' = l.next /\ prev' = l.prev

INIT_LIST_HEAD(l, n) == [l EXCEPT !.next[n] = n, !.prev[n] = n]

\* __list_add(new, head->prev, head): four stores, in this order.
list_add_tail(l, new, head) ==
    LET last == l.prev[head]
    IN  [l EXCEPT !.prev[head] = new, !.next[new] = head, !.prev[new] = last, !.next[last] = new]

\* Mutant: the successor is not told.
ListDelForward(l, entry) == [l EXCEPT !.next[l.prev[entry]] = l.next[entry]]

\* The pointers of the entry itself stay.
list_del(l, entry) ==
    [l EXCEPT !.prev[l.next[entry]] = l.prev[entry], !.next[l.prev[entry]] = l.next[entry]]

list_empty(head) == next[head] = head

\* The entries that list_for_each_entry meets: from head->next up to head.  A
\* corrupted list may never come back to it; no list is longer than the bound.
Entries(head) ==
    LET at[i \in 0 .. 2 * Len(thread_array)] ==
          IF i = 0 THEN next[head]
          ELSE LET pos == at[i - 1] IN IF pos = head THEN head ELSE next[pos]
    IN  {at[i] : i \in DOMAIN at} \ {head}

thereIsThread(head, t) == t_next(t) \in Entries(head)

insertThread(l, head, t) == list_add_tail(l, t_next(t), head)

\* Mutant: a thread is left in the list it was found in.
OutThreadFinds(l, head, t) == l
outThread(l, head, t) == IF thereIsThread(head, t) THEN list_del(l, t_next(t)) ELSE l

\* allocTcb, for the first TCB t of the free list.
allocTcb(l, t) ==
    INIT_LIST_HEAD(INIT_LIST_HEAD(list_del(l, t_next(t)), t_child(t)), t_sib(t))

Exists(t) == thereIsThread(ready_queue, t) \/ thereIsThread(wait_queue, t)

----------------------------------------------------------------------------
(* Handlers and scheduler() *)

InKernel == victims # <<>> \/ current_thread = NULL
InCreation == ssi.pc # "idle"

\* The current thread makes a system call or traps.
Runs == ~InKernel /\ ~(current_thread = SSI_tcb /\ InCreation)

\* An interrupt is taken.
Interruptible ==
    \/ ~InKernel /\ (current_thread = SSI_tcb /\ InCreation => Preempt)
    \/ victims = <<>> /\ current_thread = NULL /\ list_empty(ready_queue)

Dispatch ==
    /\ victims = <<>> /\ current_thread = NULL /\ ~list_empty(ready_queue)
    /\ current_thread' = Container(next[ready_queue])
    /\ Store(list_del(Memory, next[ready_queue]))
    /\ UNCHANGED <<t_parent, thread_count, ssi, victims, rings, doomed>>

SliceExpired ==
    /\ Interruptible /\ current_thread # NULL
    /\ Store(insertThread(Memory, ready_queue, current_thread))
    /\ current_thread' = NULL
    /\ UNCHANGED <<t_parent, thread_count, ssi, victims, rings, doomed>>

\* recv() without a message.
Block ==
    /\ Runs
    /\ Store(insertThread(Memory, wait_queue, current_thread))
    /\ current_thread' = NULL
    /\ UNCHANGED <<t_parent, thread_count, ssi, victims, rings, doomed>>

\* send() by a thread, or to the SSI by the interrupt handler.
Wake(t) ==
    /\ Runs \/ (t = SSI_tcb /\ Interruptible)
    /\ thereIsThread(wait_queue, t)
    /\ Store(insertThread(outThread(Memory, wait_queue, t), ready_queue, t))
    /\ UNCHANGED <<t_parent, current_thread, thread_count, ssi, victims, rings, doomed>>

----------------------------------------------------------------------------
(* terminate() *)

\* t and its descendants: the least set that holds t and the children of its members.
Subtree(t) ==
    {u \in Tcb : \A S \in SUBSET Tcb :
        t \in S /\ (\A c \in Tcb : t_parent[c] \in S => c \in S) => u \in S}

\* Mutant: a child is freed without being unlinked.
OutChildForgets(t) ==
    /\ t_parent' = [t_parent EXCEPT ![t] = NULL]
    /\ UNCHANGED links

\* outChild: a thread without a parent is left in whatever list it is in.
outChild(t) ==
    IF t_parent[t] = NULL THEN UNCHANGED <<links, t_parent>>
    ELSE /\ Store(list_del(Memory, t_sib(t)))
         /\ t_parent' = [t_parent EXCEPT ![t] = NULL]

Terminate(t) ==
    /\ outChild(t)
    /\ victims' = <<t>>
    /\ doomed' = Subtree(t)
    /\ UNCHANGED <<current_thread, thread_count, ssi, rings>>

\* A trap without a manager.
Trap ==
    /\ Runs /\ current_thread # SSI_tcb
    /\ Terminate(current_thread)

\* TERMINATE, by the SSI.
KillThread(req) ==
    /\ Runs /\ current_thread = SSI_tcb
    /\ Exists(req)
    /\ Terminate(req)

\* removeChild finds one: terminate(child), whose outChild does nothing.
TerminateChild ==
    /\ victims # <<>> /\ ~list_empty(t_child(Head(victims)))
    /\ LET entry == next[t_child(Head(victims))]
       IN  /\ Store(list_del(Memory, entry))
           /\ t_parent' = [t_parent EXCEPT ![Container(entry)] = NULL]
           /\ victims' = <<Container(entry)>> \o victims
    /\ UNCHANGED <<current_thread, thread_count, ssi, rings, doomed>>

\* Mutant: the children are left to themselves.
TerminateLeafFirst ==
    /\ victims # <<>>
    /\ LET t == Head(victims)
           out == IF thereIsThread(ready_queue, t) THEN outThread(Memory, ready_queue, t)
                  ELSE IF current_thread = t THEN Memory ELSE outThread(Memory, wait_queue, t)
       IN  /\ Store(insertThread(out, tcbfree_sentinel, t))
           /\ current_thread' = IF current_thread = t THEN NULL ELSE current_thread
           /\ doomed' = doomed \ {t}
    /\ thread_count' = thread_count - 1
    /\ victims' = Tail(victims)
    /\ UNCHANGED <<t_parent, ssi, rings>>

\* The base case, for a thread in a queue or on the CPU.  For any other the
\* code calls PANIC(): this model has no step then and stops.
TerminateLeaf ==
    /\ victims # <<>> /\ list_empty(t_child(Head(victims)))
    /\ LET t == Head(victims)
           out == IF thereIsThread(ready_queue, t) THEN outThread(Memory, ready_queue, t)
                  ELSE IF current_thread = t THEN Memory ELSE outThread(Memory, wait_queue, t)
       IN  /\ Exists(t) \/ current_thread = t
           /\ Store(insertThread(out, tcbfree_sentinel, t))
           /\ current_thread' = IF current_thread = t THEN NULL ELSE current_thread
           /\ doomed' = doomed \ {t}
    /\ thread_count' = thread_count - 1
    /\ victims' = Tail(victims)
    /\ UNCHANGED <<t_parent, ssi, rings>>

----------------------------------------------------------------------------
(* CREATESON and CREATEBROTHER *)

At(pc) == ~InKernel /\ current_thread = SSI_tcb /\ ssi.pc = pc
GoTo(pc) == ssi' = [ssi EXCEPT !.pc = pc]

\* A request of kind "son", or of kind "brother", gets its TCB.
Allocate(req, kind) ==
    /\ At("idle") /\ Exists(req) /\ ~list_empty(tcbfree_sentinel)
    /\ LET new == Container(next[tcbfree_sentinel])
       IN  /\ Reuse \/ new \notin rings
           /\ Store(allocTcb(Memory, new))
           /\ t_parent' = [t_parent EXCEPT ![new] = NULL]
           /\ ssi' = [pc |-> "link", req |-> req, new |-> new, load |-> kind]
    /\ UNCHANGED <<current_thread, thread_count, victims, rings, doomed>>

\* insertChild, or insertSibling when the requester has no parent.
Link ==
    /\ At("link")
    /\ LET parent == IF ssi.load = "son" THEN ssi.req ELSE t_parent[ssi.req]
       IN  /\ t_parent' = [t_parent EXCEPT ![ssi.new] = parent]
           /\ Store(list_add_tail(Memory, t_sib(ssi.new),
                                  IF parent = NULL THEN t_sib(ssi.req) ELSE t_child(parent)))
           /\ rings' = IF parent = NULL THEN rings \cup {ssi.req, ssi.new} ELSE rings
    /\ GoTo("count")
    /\ UNCHANGED <<current_thread, thread_count, victims, doomed>>

\* thread_count++ is a load and a store.
CountLoad ==
    /\ At("count")
    /\ ssi' = [ssi EXCEPT !.pc = "store", !.load = thread_count]
    /\ UNCHANGED <<links, t_parent, current_thread, thread_count, victims, rings, doomed>>

\* Mutant: the thread is counted twice.
CountStoreTwice ==
    /\ At("store")
    /\ thread_count' = ssi.load + 2
    /\ GoTo("tail")
    /\ UNCHANGED <<links, t_parent, current_thread, victims, rings, doomed>>

CountStore ==
    /\ At("store")
    /\ thread_count' = ssi.load + 1
    /\ GoTo("tail")
    /\ UNCHANGED <<links, t_parent, current_thread, victims, rings, doomed>>

\* insertThread(&ready_queue, new_thread): the tail is read, then four stores.
ReadTail ==
    /\ At("tail")
    /\ ssi' = [ssi EXCEPT !.pc = "add1", !.load = prev[ready_queue]]
    /\ UNCHANGED <<links, t_parent, current_thread, thread_count, victims, rings, doomed>>

AddStores ==
    LET new == t_next(ssi.new)
    IN  \/ /\ At("add1") /\ GoTo("add2")
           /\ prev' = [prev EXCEPT ![ready_queue] = new] /\ UNCHANGED next
        \/ /\ At("add2") /\ GoTo("add3")
           /\ next' = [next EXCEPT ![new] = ready_queue] /\ UNCHANGED prev
        \/ /\ At("add3") /\ GoTo("add4")
           /\ prev' = [prev EXCEPT ![new] = ssi.load] /\ UNCHANGED next
        \/ /\ At("add4") /\ ssi' = IdleSsi
           /\ next' = [next EXCEPT ![ssi.load] = new] /\ UNCHANGED prev

InsertStore ==
    /\ AddStores
    /\ UNCHANGED <<t_parent, current_thread, thread_count, victims, rings, doomed>>

----------------------------------------------------------------------------
\* The fields that initTcbs and allocTcb have not yet set are never read; they
\* are taken as empty lists.  Then every TCB goes into the free list.
EmptyMemory == [next |-> [n \in Node |-> n], prev |-> [n \in Node |-> n]]
initTcbs ==
    LET filled[i \in 0 .. Len(thread_array)] ==
          IF i = 0 THEN EmptyMemory
          ELSE insertThread(filled[i - 1], tcbfree_sentinel, thread_array[i])
    IN  filled[Len(thread_array)]

\* A thread of boot.c.
BootThread(l, t) == insertThread(allocTcb(l, t), ready_queue, t)

\* main() of boot.c, up to the scheduler.
Init ==
    LET boot == BootThread(BootThread(initTcbs, SSI_tcb), TEST_tcb)
    IN  /\ next = boot.next /\ prev = boot.prev
        /\ t_parent = [t \in Tcb |-> NULL]
        /\ current_thread = NULL
        /\ thread_count = 2
        /\ ssi = IdleSsi
        /\ victims = <<>>
        /\ rings = {}
        /\ doomed = {}

Creation == Link \/ CountLoad \/ CountStore \/ ReadTail \/ InsertStore
Termination == TerminateChild \/ TerminateLeaf

Next ==
    \/ Dispatch \/ SliceExpired \/ Block \/ Trap
    \/ \E t \in Tcb : Wake(t)
    \/ \E req \in User : KillThread(req) \/ \E kind \in {"son", "brother"} : Allocate(req, kind)
    \/ Creation \/ Termination

Spec == Init /\ [][Next]_vars
FairSpec == Spec /\ WF_vars(Termination)

----------------------------------------------------------------------------
(* Properties *)

Alive ==
    LET linked == Entries(ready_queue) \cup Entries(wait_queue)
    IN  {t \in Tcb : t_next(t) \in linked \/ t = current_thread}

\* No thread is lost: every TCB can be reached from the head of exactly one of
\* the three queues, or is the current thread, or the one being created
\* (README.md, BOOT.C: the "Ready queue, which will contain processes ready
\* to be executed").
NoThreadLost ==
    \A t \in Tcb :
        Cardinality({q \in Queue : t_next(t) \in Entries(q)})
          = IF t = current_thread \/ (InCreation /\ t = ssi.new) THEN 0 ELSE 1

\* The children that the lists hold are those that t_parent names, both ways
\* around every list the links agree, and thread_count is right: whatever the
\* order of creations and terminations, between them.
WellLinked ==
    victims = <<>> /\ ~InCreation =>
        /\ \A p, c \in Tcb : t_sib(c) \in Entries(t_child(p)) <=> t_parent[c] = p
        /\ \A h \in Queue \cup {t_child(p) : p \in Tcb} :
              \A n \in Entries(h) \cup {h} : prev[next[n]] = n
        /\ thread_count = Cardinality(Alive)

\* terminate() kills only descendants of its target (exceptions.c: "Killing
\* root and all children recursively"), and when it returns all of them.
KillsSubtree ==
    /\ ToSet(victims) \subseteq doomed
    /\ victims = <<>> => doomed = {}

\* The parent of a thread that is linked and not yet condemned.
Parent ==
    LET linked == Alive \ doomed
    IN  [t \in Tcb |-> IF t \in linked THEN t_parent[t] ELSE NULL]

Tree == INSTANCE ThreadTree WITH
    Thread <- Tcb,
    Founder <- {SSI_tcb, TEST_tcb},
    alive <- Alive,
    parent <- Parent

\* The lists of tcb.c implement the abstract tree: terminate() frees exactly
\* the subtree of its target, and its recursion comes to an end.
TreeImplemented == Tree!TreeSpec

=============================================================================
