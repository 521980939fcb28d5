---------------------------- MODULE MailboxProofs ----------------------------
(***************************************************************************)
(* The nucleus without trap managers implements mailboxes: every step of   *)
(* the kernel is one operation on mailboxes or leaves them as they are.    *)
(***************************************************************************)
EXTENDS MailProofs

----------------------------------------------------------------------------
(* What the inboxes hold, as letters *)

\* The letters of the messages q whose fields m_sender and m_message are f
\* and g.
LettersOf(q, f, g) == [i \in 1 .. Len(q) |-> <<f[q[i]], g[q[i]]>>]

\* Letters are as many as the messages.
LEMMA LettersLen ==
    ASSUME NEW q \in Seq(Msg), NEW f, NEW g
    PROVE  /\ Len(LettersOf(q, f, g)) = Len(q) /\ Len(q) \in Nat
           /\ DOMAIN LettersOf(q, f, g) = 1 .. Len(q)
           /\ \A i \in 1 .. Len(q) : LettersOf(q, f, g)[i] = <<f[q[i]], g[q[i]]>>
<1>1. Len(q) \in Nat BY LenProperties
<1>2. DOMAIN LettersOf(q, f, g) = 1 .. Len(q) BY DEF LettersOf
<1>3. Len(LettersOf(q, f, g)) = Len(q) BY <1>1, <1>2
<1>4. \A i \in 1 .. Len(q) : LettersOf(q, f, g)[i] = <<f[q[i]], g[q[i]]>> BY DEF LettersOf
<1> QED BY <1>1, <1>2, <1>3, <1>4

\* The fields of other messages do not show in the letters.
LEMMA LettersAgree ==
    ASSUME NEW q \in Seq(Msg), NEW f, NEW g, NEW ff, NEW gg,
           \A m \in ToSet(q) : ff[m] = f[m] /\ gg[m] = g[m]
    PROVE  LettersOf(q, ff, gg) = LettersOf(q, f, g)
<1>1. \A i \in 1 .. Len(q) : q[i] \in ToSet(q) BY LenProperties DEF ToSet
<1> QED BY <1>1 DEF LettersOf

\* Letters are a sequence.
LEMMA LettersSeq ==
    ASSUME NEW q \in Seq(Msg), NEW f, NEW g, NEW S, \A m \in Msg : <<f[m], g[m]>> \in S
    PROVE  LettersOf(q, f, g) \in Seq(S)
<1>1. Len(q) \in Nat /\ \A i \in 1 .. Len(q) : q[i] \in Msg BY LenProperties, ElementOfSeq
<1>2. \A i \in 1 .. Len(q) : <<f[q[i]], g[q[i]]>> \in S BY <1>1
<1> QED BY <1>1, <1>2, IsASeq DEF LettersOf

\* A message that send() appends, with its sender x and its payload w.
LEMMA LettersAppend ==
    ASSUME NEW q \in Seq(Msg), NEW m \in Msg, m \notin ToSet(q), NEW f, NEW g, NEW ff, NEW gg,
           NEW x, NEW w, ff[m] = x, gg[m] = w,
           \A n \in Msg \ {m} : ff[n] = f[n] /\ gg[n] = g[n]
    PROVE  LettersOf(Append(q, m), ff, gg) = Append(LettersOf(q, f, g), <<x, w>>)
<1> DEFINE S == {<<f[n], g[n]>> : n \in Msg} \cup {<<x, w>>}
           L == LettersOf(q, f, g)
           e == <<x, w>>
           r == Append(q, m)
           R == LettersOf(r, ff, gg)
<1>1. L \in Seq(S) BY LettersSeq
<1>2. /\ r \in Seq(Msg) /\ Len(r) = Len(q) + 1 /\ Len(q) \in Nat
      /\ \A i \in 1 .. Len(q) : r[i] = q[i] /\ q[i] \in Msg \ {m}
      /\ r[Len(q) + 1] = m
  <2>1. \A i \in 1 .. Len(q) : q[i] \in Msg \ {m}
    BY LenProperties, ElementOfSeq DEF ToSet
  <2>2. Len(q) \in Nat BY LenProperties
  <2> HIDE DEF S
  <2>3. /\ r \in Seq(Msg) /\ Len(r) = Len(q) + 1
        /\ \A i \in 1 .. Len(q) : r[i] = q[i]
        /\ r[Len(q) + 1] = m
    BY AppendProperties
  <2> HIDE DEF r
  <2> QED BY <2>1, <2>2, <2>3
<1>n. Len(q) \in Nat BY <1>2
<1>3. /\ Len(R) = Len(q) + 1
      /\ \A i \in 1 .. Len(q) + 1 : R[i] = <<ff[r[i]], gg[r[i]]>>
  <2> HIDE DEF r
  <2> QED BY <1>2, LettersLen
<1>4. Len(L) = Len(q) /\ \A i \in 1 .. Len(q) : L[i] = <<f[q[i]], g[q[i]]>>
  BY LettersLen
<1>5. R \in Seq(S)
  <2>1. \A n \in Msg : <<ff[n], gg[n]>> \in S OBVIOUS
  <2> HIDE DEF S, r
  <2> QED BY <1>2, <2>1, LettersSeq
<1> DEFINE A == Append(L, e)
<1> HIDE DEF S, L, R, r
<1>6. /\ A \in Seq(S) /\ Len(A) = Len(q) + 1
      /\ \A i \in 1 .. Len(q) : A[i] = L[i]
      /\ A[Len(q) + 1] = e
  <2>1. e \in S BY DEF S
  <2> HIDE DEF e
  <2> QED BY <1>1, <1>4, <2>1, AppendProperties
<1> HIDE DEF A
<1>7. \A i \in 1 .. Len(q) + 1 : R[i] = A[i]
  <2> SUFFICES ASSUME NEW i \in 1 .. Len(q) + 1 PROVE R[i] = A[i] OBVIOUS
  <2>1. CASE i = Len(q) + 1 BY <2>1, <1>2, <1>3, <1>6
  <2>2. CASE i \in 1 .. Len(q)
    <3>1. r[i] = q[i] /\ q[i] \in Msg \ {m} BY <2>2, <1>2
    <3>2. R[i] = <<f[q[i]], g[q[i]]>> BY <3>1, <1>3
    <3> QED BY <3>2, <2>2, <1>4, <1>6
  <2> QED BY <2>1, <2>2, <1>n
<1>8. R = A BY <1>3, <1>5, <1>6, <1>7, SeqEqual
<1> QED BY <1>8 DEF R, L, r, A

\* A list with one more element at its head.
Push(e, q) == <<e>> \o q

\* A message that send() pushes at the head, with its sender x and payload w.
LEMMA LettersPush ==
    ASSUME NEW q \in Seq(Msg), NEW m \in Msg, m \notin ToSet(q), NEW f, NEW g, NEW ff, NEW gg,
           NEW x, NEW w, ff[m] = x, gg[m] = w,
           \A n \in Msg \ {m} : ff[n] = f[n] /\ gg[n] = g[n]
    PROVE  LettersOf(Push(m, q), ff, gg) = Push(<<x, w>>, LettersOf(q, f, g))
<1> DEFINE S == {<<f[n], g[n]>> : n \in Msg} \cup {<<x, w>>}
           L == LettersOf(q, f, g)
           e == <<x, w>>
           one == <<m>>
           first == <<e>>
           r == one \o q
           R == LettersOf(r, ff, gg)
           A == first \o L
<1>1. L \in Seq(S) BY LettersSeq
<1>2. first \in Seq(S) /\ Len(first) = 1 /\ first[1] = e
  <2>1. e \in S OBVIOUS
  <2> HIDE DEF S, e
  <2> QED BY <2>1
<1>3. one \in Seq(Msg) /\ Len(one) = 1 /\ one[1] = m OBVIOUS
<1>n. Len(q) \in Nat /\ \A i \in 1 .. Len(q) : q[i] \in Msg \ {m}
  BY LenProperties, ElementOfSeq DEF ToSet
<1>4. Len(L) = Len(q) /\ \A i \in 1 .. Len(q) : L[i] = <<f[q[i]], g[q[i]]>>
  BY LettersLen
<1>s. \A n \in Msg : <<ff[n], gg[n]>> \in S OBVIOUS
<1> HIDE DEF S, L, e, one, first
<1>5. /\ r \in Seq(Msg) /\ Len(r) = Len(q) + 1
      /\ \A i \in 1 .. Len(q) + 1 : r[i] = IF i <= 1 THEN one[i] ELSE q[i - 1]
  <2>1. /\ r \in Seq(Msg) /\ Len(r) = Len(one) + Len(q)
        /\ \A i \in 1 .. Len(one) + Len(q) :
              r[i] = IF i <= Len(one) THEN one[i] ELSE q[i - Len(one)]
    BY <1>3, ConcatProperties
  <2>2. Len(one) + Len(q) = Len(q) + 1 BY <1>3, <1>n
  <2> HIDE DEF r
  <2> QED BY <2>1, <2>2, <1>3
<1>6. /\ A \in Seq(S) /\ Len(A) = Len(q) + 1
      /\ \A i \in 1 .. Len(q) + 1 : A[i] = IF i <= 1 THEN first[i] ELSE L[i - 1]
  <2>1. /\ A \in Seq(S) /\ Len(A) = Len(first) + Len(L)
        /\ \A i \in 1 .. Len(first) + Len(L) :
              A[i] = IF i <= Len(first) THEN first[i] ELSE L[i - Len(first)]
    BY <1>1, <1>2, ConcatProperties
  <2>2. Len(first) + Len(L) = Len(q) + 1 BY <1>2, <1>4, <1>n
  <2> HIDE DEF A
  <2> QED BY <2>1, <2>2, <1>2
<1> HIDE DEF r, A
<1>7. /\ R \in Seq(S) /\ Len(R) = Len(q) + 1
      /\ \A i \in 1 .. Len(q) + 1 : R[i] = <<ff[r[i]], gg[r[i]]>>
  <2>1. R \in Seq(S) BY <1>5, <1>s, LettersSeq
  <2> QED BY <2>1, <1>5, LettersLen
<1> HIDE DEF R
<1>8. \A i \in 1 .. Len(q) + 1 : R[i] = A[i]
  <2> SUFFICES ASSUME NEW i \in 1 .. Len(q) + 1 PROVE R[i] = A[i] OBVIOUS
  <2>1. CASE i = 1
    <3>1. r[i] = m /\ A[i] = e BY <2>1, <1>n, <1>2, <1>3, <1>5, <1>6
    <3> QED BY <3>1, <1>7 DEF e
  <2>2. CASE i # 1
    <3>1. i - 1 \in 1 .. Len(q) /\ ~(i <= 1) BY <2>2, <1>n
    <3>2. r[i] = q[i - 1] /\ A[i] = L[i - 1] BY <3>1, <1>5, <1>6
    <3>3. q[i - 1] \in Msg \ {m} /\ L[i - 1] = <<f[q[i - 1]], g[q[i - 1]]>>
      BY <3>1, <1>n, <1>4
    <3>4. ff[q[i - 1]] = f[q[i - 1]] /\ gg[q[i - 1]] = g[q[i - 1]] BY <3>3
    <3> QED BY <3>2, <3>3, <3>4, <1>7
  <2> QED BY <2>1, <2>2
<1>9. R = A BY <1>6, <1>7, <1>8, SeqEqual
<1> QED BY <1>9 DEF R, A, r, L, one, first, e, Push

\* The message that popMessage takes out, and the letters that stay.
LEMMA LettersRemove ==
    ASSUME NEW q \in Seq(Msg), NEW k \in 1 .. Len(q), NEW f, NEW g
    PROVE  LettersOf(RemoveAt(q, k), f, g) = RemoveAt(LettersOf(q, f, g), k)
<1> DEFINE S == {<<f[n], g[n]>> : n \in Msg}
           L == LettersOf(q, f, g)
           r == RemoveAt(q, k)
           R == LettersOf(r, f, g)
           A == RemoveAt(L, k)
<1>s. \A n \in Msg : <<f[n], g[n]>> \in S OBVIOUS
<1> HIDE DEF S
<1>1. L \in Seq(S) BY <1>s, LettersSeq
<1>n. Len(q) \in Nat BY LenProperties
<1>2. Len(L) = Len(q) /\ \A i \in 1 .. Len(q) : L[i] = <<f[q[i]], g[q[i]]>>
  BY LettersLen
<1> HIDE DEF L
<1>3. /\ r \in Seq(Msg) /\ Len(r) = Len(q) - 1
      /\ \A j \in 1 .. Len(q) - 1 : r[j] = IF j < k THEN q[j] ELSE q[j + 1]
  BY RemoveAtIndex
<1>4. /\ A \in Seq(S) /\ Len(A) = Len(q) - 1
      /\ \A j \in 1 .. Len(q) - 1 : A[j] = IF j < k THEN L[j] ELSE L[j + 1]
  <2>1. k \in 1 .. Len(L) BY <1>2
  <2>2. /\ A \in Seq(S) /\ Len(A) = Len(L) - 1
        /\ \A j \in 1 .. Len(L) - 1 : A[j] = IF j < k THEN L[j] ELSE L[j + 1]
    BY <1>1, <2>1, RemoveAtIndex
  <2> HIDE DEF A
  <2> QED BY <2>2, <1>2
<1> HIDE DEF r, A
<1>5. /\ R \in Seq(S) /\ Len(R) = Len(q) - 1
      /\ \A i \in 1 .. Len(q) - 1 : R[i] = <<f[r[i]], g[r[i]]>>
  <2>1. R \in Seq(S) BY <1>3, <1>s, LettersSeq
  <2>2. Len(R) = Len(r) /\ \A i \in 1 .. Len(r) : R[i] = <<f[r[i]], g[r[i]]>>
    BY <1>3, LettersLen
  <2> HIDE DEF R
  <2> QED BY <2>1, <2>2, <1>3
<1> HIDE DEF R
<1>6. \A j \in 1 .. Len(q) - 1 : R[j] = A[j]
  <2> SUFFICES ASSUME NEW j \in 1 .. Len(q) - 1 PROVE R[j] = A[j] OBVIOUS
  <2>1. j \in 1 .. Len(q) /\ j + 1 \in 1 .. Len(q) BY <1>n
  <2>2. L[j] = <<f[q[j]], g[q[j]]>> /\ L[j + 1] = <<f[q[j + 1]], g[q[j + 1]]>>
    BY <2>1, <1>2
  <2>3. CASE j < k BY <2>2, <2>3, <1>3, <1>4, <1>5
  <2>4. CASE ~(j < k) BY <2>2, <2>4, <1>3, <1>4, <1>5
  <2> QED BY <2>3, <2>4
<1>7. R = A BY <1>4, <1>5, <1>6, SeqEqual
<1> QED BY <1>7 DEF R, A, r, L

\* No messages, no letters.
LEMMA LettersEmpty ==
    ASSUME NEW f, NEW g
    PROVE  LettersOf(<<>>, f, g) = <<>>
BY DEF LettersOf

----------------------------------------------------------------------------
(* The invariant of the nucleus without trap managers *)

\* No thread has a trap manager and the table of manager.c is empty, so that
\* no trap freezes a thread and no message is the decision of a manager.
Unmanaged ==
    /\ \A k \in TrapKind : \A t \in Tcb : manager_thread[k][t] = NULL
    /\ \A i \in Slot : trap_managers[i] = NULL
    /\ frozen = {}

\* A message in an inbox has a sender.
Signed == \A t \in Tcb : \A m \in ToSet(inbox[t]) : m_sender[m] # NULL

\* boot.c leaves all managers and inboxes empty.
LEMMA InitUnmanaged == Init => Unmanaged /\ Signed
<1> SUFFICES ASSUME Init PROVE Unmanaged /\ Signed OBVIOUS
<1>1. Unmanaged BY DEF Init, Unmanaged
<1>2. \A t \in Tcb : inbox[t] = <<>> BY DEF Init
<1>3. ToSet(<<>>) = {} BY EmptyLemma
<1> QED BY <1>1, <1>2, <1>3 DEF Signed

\* The messages of a manager are letters like all others.
LEMMA NoDecision ==
    ASSUME CoreInv, Unmanaged, InThread, NEW t
    PROVE  ~Decision(t)
<1>1. current_thread \in Tcb BY DEF InThread, CoreInv, CpuOwned, QueuesOK, Partition
<1> QED BY <1>1, NullNotTcb DEF Unmanaged, Decision, thereIs_manager

\* Without a manager every trap is fatal.
LEMMA TrapKills ==
    ASSUME CoreInv, Unmanaged, NEW k \in TrapKind, kpc \in {"thread", "fault"}, PassUpOrDie(k)
    PROVE  Terminate(current_thread)
<1>1. current_thread \in Tcb BY DEF CoreInv, CpuOwned, QueuesOK, Partition
<1>2. manager_thread[k][current_thread] = NULL BY <1>1 DEF Unmanaged
<1> QED BY <1>2 DEF PassUpOrDie

\* Nothing that a step of the nucleus does gives a thread a manager when no
\* service of the SSI specifies one.
LEMMA UnmanagedNext == Managed = {} /\ CoreInv /\ Unmanaged /\ [Next]_vars => Unmanaged'
<1> SUFFICES ASSUME Managed = {}, CoreInv, Unmanaged, [Next]_vars PROVE Unmanaged' OBVIOUS
<1>f. ASSUME UNCHANGED managerVars, frozen' \subseteq frozen PROVE Unmanaged'
  BY <1>f DEF Unmanaged, managerVars
<1>t. ASSUME NEW t, Terminate(t) PROVE Unmanaged'
  BY <1>f, <1>t DEF Terminate
<1>1. CASE ThreadStep
  <2>1. ASSUME NEW a1, NEW w, MsgSend(a1, w) PROVE Unmanaged'
    <3>1. ~TrapTerminate(a1) /\ ~TrapContinue(a1)
      BY NoDecision DEF TrapTerminate, TrapContinue
    <3>2. CASE Send(a1, w) BY <1>f, <3>2, SendFreezesNobody DEF Send
    <3>3. CASE SendFails(a1, w) BY <1>f, <3>3 DEF SendFails
    <3> QED BY <2>1, <3>1, <3>2, <3>3 DEF MsgSend
  <2>2. ASSUME NEW a1, MsgRecv(a1) PROVE Unmanaged'
    BY <1>f, <2>2 DEF MsgRecv, RecvReturns, RecvBlocks
  <2>3. ASSUME NEW k \in TrapKind, Trap(k) PROVE Unmanaged'
    BY <1>t, <2>3, TrapKills DEF Trap, InThread
  <2> QED BY <1>1, <2>1, <2>2, <2>3 DEF ThreadStep
<1>2. CASE ServiceStep
  <2>1. ASSUME NEW parent, NEW managers, NEW sibling, CreateThread(parent, managers, sibling),
               \A k \in TrapKind : managers[k] = NULL
        PROVE  Unmanaged'
    <3> DEFINE t == Head(tcbfree)
    <3>1. /\ frozen' = frozen /\ trap_managers' = trap_managers
          /\ manager_thread' = [k \in TrapKind |->
                                  [manager_thread[k] EXCEPT ![t] = managers[k]]]
      BY <2>1 DEF CreateThread, allocTcb
    <3> HIDE DEF t
    <3>2. \A k \in TrapKind : \A u \in Tcb : manager_thread'[k][u] = NULL
      BY <3>1, <2>1 DEF Unmanaged, CoreInv, TypeRest
    <3> QED BY <3>1, <3>2 DEF Unmanaged
  <2>2. ASSUME NEW req \in User, CreateSon(req) PROVE Unmanaged'
    <3> DEFINE ms == [k \in TrapKind |-> manager_thread[k][req]]
    <3>1. \A k \in TrapKind : ms[k] = NULL BY DEF Unmanaged, User
    <3>2. CreateThread(req, ms, req) BY <2>2 DEF CreateSon
    <3> QED BY <3>1, <3>2, <2>1
  <2>3. ASSUME NEW req \in User, CreateBrother(req) PROVE Unmanaged'
    <3> DEFINE ms == [k \in TrapKind |-> NULL]
    <3>1. \A k \in TrapKind : ms[k] = NULL OBVIOUS
    <3>2. CreateThread(t_parent[req], ms, req) BY <2>3 DEF CreateBrother
    <3> QED BY <3>1, <3>2, <2>1
  <2>4. ASSUME NEW req, KillThread(req) PROVE Unmanaged'
    BY <1>t, <2>4 DEF KillThread
  <2>5. CASE ServicePanic BY <1>f, <2>5 DEF ServicePanic, Panic
  <2> QED BY <1>2, <2>2, <2>3, <2>4, <2>5 DEF ServiceStep
<1>3. CASE Interrupt
  <2>1. ASSUME NEW s, NEW w, NEW requeue, InterruptMessage(s, w, requeue) PROVE Unmanaged'
    BY <1>f, <2>1, SendFreezesNobody DEF InterruptMessage
  <2>2. CASE SliceExpired \/ InterruptIgnored \/ InterruptPanic
    BY <1>f, <2>2 DEF SliceExpired, InterruptIgnored, InterruptPanic, Panic
  <2> QED BY <1>3, <2>1, <2>2 DEF Interrupt, PseudoClockTick, DeviceInterrupt
<1>4. CASE KernelStep
  <2>1. CASE scheduler
    BY <1>f, <2>1 DEF scheduler, Dispatch, Reload, Idle
  <2>2. CASE TerminateChild \/ TerminatePanic
    BY <1>f, <2>2 DEF TerminateChild, TerminatePanic, Panic
  <2>3. CASE TerminateLeaf
    <3> DEFINE t == Head(victims)
    <3>1. t \in Tcb BY <2>3, TailLemma DEF TerminateLeaf, CoreInv, CpuOwned, TypeRest
    <3>2. /\ trap_managers' = delete_manager(t) /\ frozen' = frozen \ {t}
          /\ manager_thread' = manager_thread
      BY <2>3 DEF TerminateLeaf
    <3> HIDE DEF t
    <3>3. {i \in Slot : trap_managers[i] = t} = {} BY <3>1, NullNotTcb DEF Unmanaged
    <3>4. delete_manager(t) = trap_managers BY <3>3 DEF delete_manager
    <3> QED BY <1>f, <3>2, <3>4 DEF managerVars
  <2>4. CASE NestedTrap
    BY <1>t, <2>4, TrapKills, TrapKindAssumption DEF NestedTrap
  <2> QED BY <1>4, <2>1, <2>2, <2>3, <2>4 DEF KernelStep
<1>5. CASE Halted \/ UNCHANGED vars
  BY <1>f, <1>5 DEF Halted, vars, controlVars
<1> QED BY <1>1, <1>2, <1>3, <1>4, <1>5 DEF Next

\* send() puts the message m into the inbox of t, which becomes b.
Posted(s, t, w, m, b) ==
    /\ m \in Msg /\ b \in Seq(Msg)
    /\ b = IF s = BUS_INTERVALTIMER THEN <<m>> \o inbox[t] ELSE Append(inbox[t], m)
    /\ ToSet(b) = ToSet(inbox[t]) \cup {m}
    /\ \A u \in Tcb : m \notin ToSet(inbox[u])
    /\ inbox' = [inbox EXCEPT ![t] = b]
    /\ m_sender' = [m_sender EXCEPT ![m] = Sender(s)]
    /\ m_message' = [m_message EXCEPT ![m] = w]

\* The message that send() puts into an inbox is one that nobody holds.
LEMMA PostedMessage ==
    ASSUME CoreInv, MailInv, NEW s, NEW t \in Tcb, NEW w, ~SendPanics(s, t), Posts(s, t),
           Deliver(s, t, w)
    PROVE  \E m, b : Posted(s, t, w, m, b)
<1> DEFINE m == Head(msgfree)
           b == IF s = BUS_INTERVALTIMER THEN <<m>> \o inbox[t] ELSE Append(inbox[t], m)
<1>1. /\ inbox' = [inbox EXCEPT ![t] = b]
      /\ m_sender' = [m_sender EXCEPT ![m] = Sender(s)]
      /\ m_message' = [m_message EXCEPT ![m] = w]
  BY DEF Deliver
<1>2. msgfree # <<>> BY DEF SendPanics
<1>3. t \notin ToSet(tcbfree)
  BY DEF Posts, Running, thereIsThread, CoreInv, QueuesOK, Partition
<1>4. b \in {<<m>> \o inbox[t], Append(inbox[t], m)} OBVIOUS
<1>5. /\ msgfree \in Seq(Msg) /\ inbox \in [Tcb -> Seq(Msg)] BY DEF CoreInv, TypeMail
<1>6. Mail(msgfree, inbox, tcbfree) BY MailIsConservation DEF MailInv
<1>7. /\ ToSet(b) = ToSet(inbox[t]) \cup {m} /\ m \in Msg
      /\ \A u \in Tcb : m \notin ToSet(inbox[u])
  <2> HIDE DEF b
  <2> QED BY <1>2, <1>3, <1>4, <1>5, <1>6, PostMail
<1>8. b \in Seq(Msg)
  <2>1. inbox[t] \in Seq(Msg) BY <1>5
  <2>2. <<m>> \in Seq(Msg) BY <1>7, OneLemma
  <2>3. <<m>> \o inbox[t] \in Seq(Msg)
    <3> DEFINE one == <<m>>
    <3> HIDE DEF one
    <3>1. one \in Seq(Msg) BY <2>2 DEF one
    <3>2. one \o inbox[t] \in Seq(Msg) BY <2>1, <3>1, ConcatLemma
    <3> QED BY <3>2 DEF one
  <2>4. Append(inbox[t], m) \in Seq(Msg) BY <2>1, <1>7, AppendLemma
  <2> QED BY <2>3, <2>4
<1>9. Posted(s, t, w, m, b) BY <1>1, <1>7, <1>8 DEF Posted
<1> HIDE DEF m, b
<1> QED BY <1>9

\* send() signs the message that it puts into an inbox.
LEMMA SignedSend ==
    ASSUME CoreInv, MailInv, Signed, NEW s, NEW t \in Tcb, NEW w, Sending(s),
           ~SendPanics(s, t), Deliver(s, t, w)
    PROVE  Signed'
<1>0. inbox \in [Tcb -> Seq(Msg)] /\ m_sender \in [Msg -> Source \cup {NULL}]
  BY DEF CoreInv, TypeMail
<1>1. CASE Posts(s, t)
  <2>0. PICK m, b : Posted(s, t, w, m, b) BY <1>1, PostedMessage
  <2>1. /\ m \in Msg /\ ToSet(b) = ToSet(inbox[t]) \cup {m}
        /\ \A u \in Tcb : m \notin ToSet(inbox[u])
        /\ inbox' = [inbox EXCEPT ![t] = b]
        /\ m_sender' = [m_sender EXCEPT ![m] = Sender(s)]
    BY <2>0 DEF Posted
  <2> SUFFICES ASSUME NEW u \in Tcb, NEW n \in ToSet(inbox'[u]) PROVE m_sender'[n] # NULL
    BY DEF Signed
  <2>2. Sender(s) # NULL BY SenderIsSource
  <2>3. CASE n = m BY <2>1, <2>2, <2>3, <1>0
  <2>4. CASE n # m
    <3>1. n \in ToSet(inbox[u]) BY <2>1, <2>4, <1>0
    <3>2. inbox[u] \in Seq(Msg) BY <1>0
    <3>3. n \in Msg BY <3>1, <3>2, SeqElements
    <3>4. m_sender'[n] = m_sender[n] BY <2>1, <2>4, <3>3, <1>0
    <3> QED BY <3>1, <3>4 DEF Signed
  <2> QED BY <2>3, <2>4
<1>2. CASE ~Posts(s, t)
  BY <1>2 DEF Deliver, mailVars, Signed
<1> QED BY <1>1, <1>2

\* freeMsg resets the fields of messages that no inbox holds any more.
LEMMA SignedFree ==
    ASSUME CoreInv, Signed, NEW ms, NEW t \in Tcb, NEW b, freeMsg(ms),
           inbox' = [inbox EXCEPT ![t] = b], ToSet(b) \subseteq ToSet(inbox[t]),
           ToSet(b) \cap ToSet(ms) = {},
           \A u \in Tcb \ {t} : ToSet(inbox[u]) \cap ToSet(ms) = {}
    PROVE  Signed'
<1> SUFFICES ASSUME NEW u \in Tcb, NEW n \in ToSet(inbox'[u]) PROVE m_sender'[n] # NULL
  BY DEF Signed
<1>0. inbox \in [Tcb -> Seq(Msg)] BY DEF CoreInv, TypeMail
<1>1. n \in ToSet(inbox[u]) /\ n \notin ToSet(ms)
  <2>1. CASE u = t BY <2>1, <1>0
  <2>2. CASE u # t BY <2>2, <1>0
  <2> QED BY <2>1, <2>2
<1>2. inbox[u] \in Seq(Msg) BY <1>0
<1>3. n \in Msg BY <1>1, <1>2, SeqElements
<1>4. m_sender'[n] = m_sender[n] BY <1>1, <1>3 DEF freeMsg
<1> QED BY <1>1, <1>4 DEF Signed

\* All letters, with the fields of the messages as arguments.
LEMMA AllLettersOf == AllLetters = [t \in Tcb |-> LettersOf(inbox[t], m_sender, m_message)]
BY DEF AllLetters, Letters, LettersOf

\* Nor do the letters of other messages change.
LEMMA LettersFree ==
    ASSUME CoreInv, NEW ms, NEW t \in Tcb, NEW b \in Seq(Msg), freeMsg(ms),
           inbox' = [inbox EXCEPT ![t] = b], ToSet(b) \cap ToSet(ms) = {},
           \A u \in Tcb \ {t} : ToSet(inbox[u]) \cap ToSet(ms) = {}
    PROVE  AllLetters' = [AllLetters EXCEPT ![t] = LettersOf(b, m_sender, m_message)]
<1>0. inbox \in [Tcb -> Seq(Msg)] BY DEF CoreInv, TypeMail
<1>1. \A n \in Msg : n \notin ToSet(ms) => m_sender'[n] = m_sender[n]
                                           /\ m_message'[n] = m_message[n]
  BY DEF freeMsg
<1>2. ASSUME NEW q \in Seq(Msg), ToSet(q) \cap ToSet(ms) = {}
      PROVE  LettersOf(q, m_sender', m_message') = LettersOf(q, m_sender, m_message)
  <2>1. ToSet(q) \subseteq Msg BY SeqElements
  <2>2. \A n \in ToSet(q) : m_sender'[n] = m_sender[n] /\ m_message'[n] = m_message[n]
    BY <2>1, <1>1, <1>2
  <2> QED BY <2>2, LettersAgree
<1>3. \A u \in Tcb : inbox'[u] = IF u = t THEN b ELSE inbox[u] BY <1>0
<1>4. ASSUME NEW u \in Tcb
      PROVE  LettersOf(inbox'[u], m_sender', m_message')
                = IF u = t THEN LettersOf(b, m_sender, m_message)
                  ELSE LettersOf(inbox[u], m_sender, m_message)
  <2>1. CASE u = t BY <2>1, <1>2, <1>3
  <2>2. CASE u # t
    <3>1. inbox[u] \in Seq(Msg) BY <1>0
    <3> QED BY <2>2, <3>1, <1>2, <1>3
  <2> QED BY <2>1, <2>2
<1>5. AllLetters' = [u \in Tcb |-> LettersOf(inbox'[u], m_sender', m_message')]
  BY AllLettersOf DEF AllLetters, Letters, LettersOf
<1> QED BY <1>4, <1>5, AllLettersOf

\* recv() takes the i-th message m of the inbox of c, and leaves b.
Taken(a1, c, i, m, b) ==
    /\ i \in 1 .. Len(inbox[c]) /\ m = inbox[c][i] /\ m \in Msg
    /\ b \in Seq(Msg) /\ b = RemoveAt(inbox[c], i)
    /\ popMessage(c, a1, i)
    /\ m \in ToSet(inbox[c])
    /\ ToSet(b) \subseteq ToSet(inbox[c]) /\ ToSet(b) \cap ToSet(<<m>>) = {}
    /\ \A u \in Tcb \ {c} : ToSet(inbox[u]) \cap ToSet(<<m>>) = {}
    /\ received' = [received EXCEPT ![c] = m_message[m]]
    /\ v0' = [v0 EXCEPT ![c] = m_sender[m]]
    /\ freeMsg(<<m>>)
    /\ inbox' = [inbox EXCEPT ![c] = b]

\* The message that recv() takes out of the caller's inbox is in no other.
LEMMA TakenMessage ==
    ASSUME CoreInv, MailInv, NEW a1, RecvReturns(a1)
    PROVE  current_thread \in Tcb /\ \E i, m, b : Taken(a1, current_thread, i, m, b)
<1> DEFINE c == current_thread
<1>0. c \in Tcb
  BY DEF RecvReturns, InThread, CoreInv, CpuOwned, QueuesOK, Partition
<1>1. PICK i \in 1 .. Len(inbox[c]) :
         /\ popMessage(c, a1, i)
         /\ received' = [received EXCEPT ![c] = m_message[inbox[c][i]]]
         /\ v0' = [v0 EXCEPT ![c] = m_sender[inbox[c][i]]]
         /\ freeMsg(<<inbox[c][i]>>)
         /\ inbox' = [inbox EXCEPT ![c] = RemoveAt(inbox[c], i)]
  BY DEF RecvReturns
<1> DEFINE b == RemoveAt(inbox[c], i)
           m == inbox[c][i]
<1>2. inbox[c] \in Seq(Msg) BY <1>0 DEF CoreInv, TypeMail
<1>3. Distinct(inbox[c]) BY <1>0 DEF MailInv, MessageConservation
<1>4. /\ b \in Seq(Msg) /\ ToSet(inbox[c]) = ToSet(b) \cup {m} /\ m \notin ToSet(b)
  BY <1>2, <1>3, RemoveAtLemma
<1>5. m \in Msg BY <1>2, ElementOfSeq
<1>6. ToSet(<<m>>) = {m} BY <1>5, OneLemma
<1>7. \A u \in Tcb \ {c} : ToSet(inbox[c]) \cap ToSet(inbox[u]) = {}
  BY <1>0 DEF MailInv, MessageConservation
<1> HIDE DEF c
<1>8. \A u \in Tcb \ {c} : ToSet(inbox[u]) \cap ToSet(<<m>>) = {} BY <1>4, <1>6, <1>7
<1>9. Taken(a1, c, i, m, b) BY <1>1, <1>4, <1>5, <1>6, <1>8 DEF Taken
<1> HIDE DEF b, m
<1> QED BY <1>0, <1>9 DEF c

\* terminate() frees the TCB t and its messages.
Freed(t) ==
    /\ t \in Tcb /\ t \notin ToSet(tcbfree)
    /\ ToSet(tcbfree') = ToSet(tcbfree) \cup {t}
    /\ ToSet(wait_queue') = ToSet(wait_queue) \ {t}
    /\ freeMsg(inbox[t]) /\ inbox' = [inbox EXCEPT ![t] = <<>>]
    /\ \A u \in Tcb \ {t} : ToSet(inbox[u]) \cap ToSet(inbox[t]) = {}
    /\ UNCHANGED <<waiting_for, received, v0>>

\* The base case of terminate(), for whichever queue the thread is in.
LEMMA FreedThread ==
    ASSUME CoreInv, MailInv, TerminateLeaf
    PROVE  Freed(Head(victims))
<1> DEFINE t == Head(victims)
<1>1. /\ wait_queue' = IF Running(t) THEN wait_queue ELSE outThread(wait_queue, t)
      /\ freeMsg(inbox[t]) /\ inbox' = [inbox EXCEPT ![t] = <<>>]
      /\ tcbfree' = Append(tcbfree, t)
      /\ Running(t) \/ thereIsThread(wait_queue, t)
      /\ UNCHANGED <<waiting_for, received, v0>>
  BY DEF TerminateLeaf, tcbVars
<1>2. t \in Tcb
  BY TailLemma DEF TerminateLeaf, CoreInv, CpuOwned, TypeRest
<1> HIDE DEF t
<1>3. tcbfree \in Seq(Tcb) /\ wait_queue \in Seq(Tcb) /\ Distinct(wait_queue)
  BY DEF CoreInv, QueuesOK, Partition
<1>4. t \notin ToSet(tcbfree) /\ (Running(t) <=> t \notin ToSet(wait_queue))
  BY <1>1, <1>2 DEF Running, thereIsThread, CoreInv, QueuesOK, Partition
<1>5. ToSet(tcbfree') = ToSet(tcbfree) \cup {t} BY <1>1, <1>2, <1>3, AppendLemma
<1>6. ToSet(wait_queue') = ToSet(wait_queue) \ {t}
  <2>1. CASE Running(t) BY <2>1, <1>1, <1>4
  <2>2. CASE ~Running(t)
    <3>1. /\ ToSet(wait_queue) = ToSet(outThread(wait_queue, t)) \cup {t}
          /\ t \notin ToSet(outThread(wait_queue, t))
      BY <2>2, <1>3, <1>4, OutLemma
    <3> QED BY <2>2, <3>1, <1>1
  <2> QED BY <2>1, <2>2
<1>7. \A u \in Tcb \ {t} : ToSet(inbox[u]) \cap ToSet(inbox[t]) = {}
  BY <1>2 DEF MailInv, MessageConservation
<1>8. Freed(t) BY <1>1, <1>2, <1>4, <1>5, <1>6, <1>7 DEF Freed
<1> QED BY <1>8 DEF t

\* Every message stays signed while it is in an inbox.
LEMMA SignedNext == CoreInv /\ MailInv /\ Signed /\ [Next]_vars => Signed'
<1> SUFFICES ASSUME CoreInv, MailInv, Signed, [Next]_vars PROVE Signed' OBVIOUS
<1>f. ASSUME UNCHANGED <<inbox, m_sender>> PROVE Signed'
  BY <1>f DEF Signed
<1>t. ASSUME NEW t, Terminate(t) PROVE Signed'
  BY <1>f, <1>t DEF Terminate, mailVars
<1>p. ASSUME NEW k \in TrapKind, kpc \in {"thread", "fault"}, PassUpOrDie(k) PROVE Signed'
  <2> DEFINE s == current_thread
             manager == manager_thread[k][s]
  <2>1. s \in Tcb BY <1>p DEF CoreInv, CpuOwned, QueuesOK, Partition
  <2>2. manager \in Tcb \cup {NULL} BY <2>1 DEF CoreInv, TypeRest
  <2> HIDE DEF s, manager
  <2>3. CASE Terminate(s) BY <1>t, <2>3
  <2>4. CASE manager # NULL /\ ~SendPanics(s, manager) /\ Deliver(s, manager, CAUSE)
    BY <2>1, <2>2, <2>4, SignedSend DEF Sending
  <2>5. CASE UNCHANGED mailVars BY <1>f, <2>5 DEF mailVars
  <2> QED BY <1>p, <2>3, <2>4, <2>5 DEF PassUpOrDie, s, manager
<1>1. CASE ThreadStep
  <2>1. ASSUME NEW a1, NEW w, MsgSend(a1, w) PROVE Signed'
    <3>1. CASE TrapTerminate(a1) BY <1>t, <3>1 DEF TrapTerminate
    <3>2. CASE TrapContinue(a1) BY <1>f, <3>2 DEF TrapContinue, mailVars
    <3>3. CASE Send(a1, w)
      <4>1. current_thread \in Tcb
        BY <3>3 DEF Send, InThread, CoreInv, CpuOwned, QueuesOK, Partition
      <4>2. Receiver(a1) \in Tcb BY <3>3, ReceiverIsTcb DEF Send
      <4> QED BY <3>3, <4>1, <4>2, SignedSend DEF Send, Sending
    <3>4. CASE SendFails(a1, w) BY <1>f, <3>4 DEF SendFails, mailVars
    <3> QED BY <2>1, <3>1, <3>2, <3>3, <3>4 DEF MsgSend
  <2>2. ASSUME NEW a1, RecvReturns(a1) PROVE Signed'
    <3>1. PICK i, m, b : Taken(a1, current_thread, i, m, b) /\ current_thread \in Tcb
      BY <2>2, TakenMessage
    <3> DEFINE ms == <<m>>
    <3>2. /\ freeMsg(ms) /\ inbox' = [inbox EXCEPT ![current_thread] = b]
          /\ ToSet(b) \subseteq ToSet(inbox[current_thread]) /\ ToSet(b) \cap ToSet(ms) = {}
          /\ \A u \in Tcb \ {current_thread} : ToSet(inbox[u]) \cap ToSet(ms) = {}
      BY <3>1 DEF Taken
    <3> HIDE DEF ms
    <3> QED BY <3>1, <3>2, SignedFree
  <2>3. ASSUME NEW a1, RecvBlocks(a1) PROVE Signed'
    BY <1>f, <2>3 DEF RecvBlocks, mailVars
  <2>4. ASSUME NEW k \in TrapKind, Trap(k) PROVE Signed'
    BY <1>p, <2>4 DEF Trap, InThread
  <2> QED BY <1>1, <2>1, <2>2, <2>3, <2>4 DEF ThreadStep, MsgRecv
<1>2. CASE ServiceStep
  <2>1. ASSUME NEW parent, NEW managers, NEW sibling, CreateThread(parent, managers, sibling)
        PROVE  Signed'
    <3>1. /\ inbox' = [inbox EXCEPT ![Head(tcbfree)] = <<>>] /\ m_sender' = m_sender
          /\ tcbfree # <<>>
      BY <2>1 DEF CreateThread, allocTcb
    <3>2. Mail(msgfree, inbox, tcbfree) BY MailIsConservation DEF MailInv
    <3>3. inbox' = inbox
      BY <3>1, <3>2, AllocMail DEF CoreInv, TypeMail, QueuesOK, Partition
    <3> QED BY <1>f, <3>1, <3>3
  <2>2. ASSUME NEW req, KillThread(req) PROVE Signed'
    BY <1>t, <2>2 DEF KillThread
  <2>3. ASSUME NEW req, NEW k, NEW m, SpecManager(req, k, m) PROVE Signed'
    BY <1>f, <2>3 DEF SpecManager, mailVars
  <2>4. CASE ServicePanic BY <1>f, <2>4 DEF ServicePanic, Panic, mailVars
  <2> QED BY <1>2, <2>1, <2>2, <2>3, <2>4 DEF ServiceStep, CreateSon, CreateBrother
<1>3. CASE Interrupt
  <2>1. ASSUME NEW s \in Device \cup {BUS_INTERVALTIMER}, NEW w, NEW requeue,
               InterruptMessage(s, w, requeue)
        PROVE  Signed'
    BY <2>1, NullNotTcb, SignedSend DEF InterruptMessage, InterruptPanics, Sending
  <2>2. CASE SliceExpired \/ InterruptIgnored \/ InterruptPanic
    BY <1>f, <2>2 DEF SliceExpired, InterruptIgnored, InterruptPanic, Panic, mailVars
  <2> QED BY <1>3, <2>1, <2>2 DEF Interrupt, PseudoClockTick, DeviceInterrupt
<1>4. CASE KernelStep
  <2>1. CASE scheduler
    BY <1>f, <2>1 DEF scheduler, Dispatch, Reload, Idle, mailVars
  <2>2. CASE TerminateChild \/ TerminatePanic
    BY <1>f, <2>2 DEF TerminateChild, TerminatePanic, Panic, mailVars
  <2>3. CASE TerminateLeaf
    <3> DEFINE t == Head(victims)
               ms == inbox[t]
               b == <<>>
    <3>1. Freed(t) BY <2>3, FreedThread
    <3> HIDE DEF t
    <3>2. ToSet(b) = {} BY EmptyLemma
    <3> HIDE DEF b
    <3>3. /\ t \in Tcb /\ freeMsg(ms) /\ inbox' = [inbox EXCEPT ![t] = b]
          /\ \A u \in Tcb \ {t} : ToSet(inbox[u]) \cap ToSet(ms) = {}
      BY <3>1 DEF Freed, b
    <3> HIDE DEF ms
    <3> QED BY <3>2, <3>3, SignedFree
  <2>4. CASE NestedTrap
    BY <1>p, <2>4, TrapKindAssumption DEF NestedTrap
  <2> QED BY <1>4, <2>1, <2>2, <2>3, <2>4 DEF KernelStep
<1>5. CASE Halted \/ UNCHANGED vars
  BY <1>f, <1>5 DEF Halted, vars, mailVars
<1> QED BY <1>1, <1>2, <1>3, <1>4, <1>5 DEF Next

----------------------------------------------------------------------------
(* Every step is one operation on mailboxes, or none *)

\* What a thread that is not in wait_queue takes: nothing.
LEMMA TakesValue ==
    ASSUME Unmanaged, NEW t \in Tcb
    PROVE  AllTakes[t] = IF t \notin ToSet(wait_queue) THEN {}
                         ELSE IF waiting_for[t] = ANYMESSAGE THEN Source ELSE {waiting_for[t]}
BY DEF AllTakes, Takes, Unmanaged

\* The same after a step.
LEMMA TakesValueNext ==
    ASSUME Unmanaged', NEW t \in Tcb
    PROVE  AllTakes'[t] = IF t \notin ToSet(wait_queue') THEN {}
                          ELSE IF waiting_for'[t] = ANYMESSAGE THEN Source
                          ELSE {waiting_for'[t]}
BY DEF AllTakes, Takes, Unmanaged

\* The domain of the mapped takes.
LEMMA TakesDomain ==
    /\ AllTakes = [t \in Tcb |-> AllTakes[t]]
    /\ AllTakes' = [t \in Tcb |-> AllTakes'[t]]
BY DEF AllTakes

\* A step that touches neither mail nor the wait queue is none of a mailbox.
LEMMA Unseen ==
    ASSUME UNCHANGED <<tcbfree, inbox, m_sender, m_message, wait_queue, frozen, waiting_for,
                       received, v0>>
    PROVE  UNCHANGED Mailboxes!mailboxVars
<1>1. UNCHANGED <<Alive, AllLetters, AllTakes>>
  BY DEF Alive, AllLetters, Letters, AllTakes, Takes
<1> QED BY <1>1 DEF Mailboxes!mailboxVars

\* The call terminate(t) is not seen before it frees a TCB.
LEMMA TerminateUnseen ==
    ASSUME NEW t, Terminate(t)
    PROVE  UNCHANGED Mailboxes!mailboxVars
BY Unseen DEF Terminate, tcbVars, mailVars, queueVars

\* send() wakes a thread if and only if that thread takes the message.
LEMMA WakesTaker ==
    ASSUME CoreInv, Unmanaged, NEW s, Sending(s), NEW t \in Tcb
    PROVE  Sender(s) \in AllTakes[t] <=> Wakes(s, t)
<1>1. t \in ToSet(wait_queue) => ~Running(t)
  BY DEF Running, thereIsThread, CoreInv, QueuesOK, Partition
<1>2. Sender(s) \in Source BY SenderIsSource
<1> QED BY <1>1, <1>2, TakesValue DEF Wakes, thereIsThread

\* The threads that are not free are those that send() finds.
LEMMA AliveFound ==
    ASSUME CoreInv, NEW s, NEW t \in Tcb
    PROVE  t \in Alive <=> Wakes(s, t) \/ Posts(s, t)
BY NullNotTcb DEF Alive, Wakes, Posts, Running, thereIsThread, CoreInv, QueuesOK, Partition

\* send() to an existing thread, whoever calls it, is the arrival of a letter.
LEMMA SendArrives ==
    ASSUME CoreInv, MailInv, Unmanaged, Unmanaged', NEW s, NEW t \in Tcb, NEW w, Sending(s),
           ~SendPanics(s, t), Deliver(s, t, w), t \in Alive, tcbfree' = tcbfree,
           wait_queue' = waitAfterSend(s, t), waiting_for' = waitingAfterSend(s, t)
    PROVE  Mailboxes!Arrive(Sender(s), t, w) /\ UNCHANGED Alive
<1>0. /\ inbox \in [Tcb -> Seq(Msg)] /\ wait_queue \in Seq(Tcb) /\ Distinct(wait_queue)
      /\ waiting_for \in [Tcb -> Tcb \cup {ANYMESSAGE, MAGIC_SSI}]
      /\ m_sender \in [Msg -> Source \cup {NULL}] /\ m_message \in [Msg -> Word]
  BY DEF CoreInv, TypeMail, TypeTcb, QueuesOK, Partition
<1>a. UNCHANGED Alive BY DEF Alive
<1>1. CASE Wakes(s, t)
  <2>1. Sender(s) \in AllTakes[t] BY <1>1, WakesTaker
  <2>2. /\ received' = [received EXCEPT ![t] = w]
        /\ UNCHANGED <<inbox, m_sender, m_message>>
    BY <1>1 DEF Deliver, Posts, mailVars
  <2>3. UNCHANGED AllLetters BY <2>2 DEF AllLetters, Letters
  <2>4. /\ wait_queue' = outThread(wait_queue, t)
        /\ waiting_for' = [waiting_for EXCEPT ![t] = MINUS1]
        /\ t \in ToSet(wait_queue)
    BY <1>1 DEF waitAfterSend, waitingAfterSend, Wakes, thereIsThread
  <2>5. ToSet(wait_queue') = ToSet(wait_queue) \ {t}
    <3>1. /\ ToSet(wait_queue) = ToSet(outThread(wait_queue, t)) \cup {t}
          /\ t \notin ToSet(outThread(wait_queue, t))
      BY <2>4, <1>0, OutLemma
    <3> QED BY <2>4, <3>1
  <2>6. ASSUME NEW u \in Tcb PROVE AllTakes'[u] = IF u = t THEN {} ELSE AllTakes[u]
    <3>1. CASE u = t BY <3>1, <2>5, TakesValueNext
    <3>2. CASE u # t
      <4>1. waiting_for'[u] = waiting_for[u] /\ (u \in ToSet(wait_queue') <=> u \in ToSet(wait_queue))
        BY <3>2, <2>4, <2>5, <1>0
      <4> QED BY <3>2, <4>1, TakesValue, TakesValueNext
    <3> QED BY <3>1, <3>2
  <2>7. AllTakes' = [AllTakes EXCEPT ![t] = {}] BY <2>6, TakesDomain
  <2> QED BY <1>a, <2>1, <2>2, <2>3, <2>7 DEF Mailboxes!Arrive
<1>2. CASE Posts(s, t)
  <2>0. ~Wakes(s, t) BY <1>2 DEF Posts
  <2>1. Sender(s) \notin AllTakes[t] BY <2>0, WakesTaker
  <2>2. /\ received' = received /\ wait_queue' = wait_queue /\ waiting_for' = waiting_for
    BY <2>0 DEF Deliver, waitAfterSend, waitingAfterSend
  <2>3. UNCHANGED AllTakes
    <3>1. \A u \in Tcb : AllTakes'[u] = AllTakes[u] BY <2>2, TakesValue, TakesValueNext
    <3> QED BY <3>1, TakesDomain
  <2>4. PICK m, b : Posted(s, t, w, m, b) BY <1>2, PostedMessage
  <2>5. /\ m \in Msg /\ b \in Seq(Msg) /\ inbox' = [inbox EXCEPT ![t] = b]
        /\ m_sender' = [m_sender EXCEPT ![m] = Sender(s)]
        /\ m_message' = [m_message EXCEPT ![m] = w]
        /\ \A u \in Tcb : m \notin ToSet(inbox[u])
    BY <2>4 DEF Posted
  <2>6. /\ m_sender'[m] = Sender(s) /\ m_message'[m] = w
        /\ \A n \in Msg \ {m} : m_sender'[n] = m_sender[n] /\ m_message'[n] = m_message[n]
    BY <2>5, <1>0
  <2>7. LettersOf(b, m_sender', m_message')
           = IF Sender(s) = BUS_INTERVALTIMER
             THEN <<<<Sender(s), w>>>> \o LettersOf(inbox[t], m_sender, m_message)
             ELSE Append(LettersOf(inbox[t], m_sender, m_message), <<Sender(s), w>>)
    <3>0. inbox[t] \in Seq(Msg) /\ m \notin ToSet(inbox[t]) BY <1>0, <2>5
    <3>1. Sender(s) = BUS_INTERVALTIMER <=> s = BUS_INTERVALTIMER
      BY WordAssumption, NullNotTcb DEF Sender, MAGIC_SSI
    <3>2. CASE s = BUS_INTERVALTIMER
      <4>1. b = <<m>> \o inbox[t] BY <3>2, <2>4 DEF Posted
      <4>2. LettersOf(<<m>> \o inbox[t], m_sender', m_message')
              = <<<<Sender(s), w>>>> \o LettersOf(inbox[t], m_sender, m_message)
        <5> DEFINE f == m_sender  g == m_message  ff == m_sender'  gg == m_message'
                   x == Sender(s)  q == inbox[t]
        <5>1. /\ q \in Seq(Msg) /\ m \in Msg /\ m \notin ToSet(q) /\ ff[m] = x /\ gg[m] = w
              /\ \A n \in Msg \ {m} : ff[n] = f[n] /\ gg[n] = g[n]
          BY <3>0, <2>5, <2>6
        <5> HIDE DEF f, g, ff, gg, x, q
        <5>2. LettersOf(Push(m, q), ff, gg) = Push(<<x, w>>, LettersOf(q, f, g))
          BY <5>1, LettersPush
        <5> QED BY <5>2 DEF f, g, ff, gg, x, q, Push
      <4> QED BY <3>1, <3>2, <4>1, <4>2
    <3>3. CASE s # BUS_INTERVALTIMER
      <4>1. b = Append(inbox[t], m) BY <3>3, <2>4 DEF Posted
      <4>2. LettersOf(Append(inbox[t], m), m_sender', m_message')
              = Append(LettersOf(inbox[t], m_sender, m_message), <<Sender(s), w>>)
        <5> DEFINE f == m_sender  g == m_message  ff == m_sender'  gg == m_message'
                   x == Sender(s)  q == inbox[t]
        <5>1. /\ q \in Seq(Msg) /\ m \in Msg /\ m \notin ToSet(q) /\ ff[m] = x /\ gg[m] = w
              /\ \A n \in Msg \ {m} : ff[n] = f[n] /\ gg[n] = g[n]
          BY <3>0, <2>5, <2>6
        <5> HIDE DEF f, g, ff, gg, x, q
        <5>2. LettersOf(Append(q, m), ff, gg) = Append(LettersOf(q, f, g), <<x, w>>)
          BY <5>1, LettersAppend
        <5> QED BY <5>2 DEF f, g, ff, gg, x, q
      <4> QED BY <3>1, <3>3, <4>1, <4>2
    <3> QED BY <3>2, <3>3
  <2>8. ASSUME NEW u \in Tcb \ {t}
        PROVE  LettersOf(inbox'[u], m_sender', m_message')
                 = LettersOf(inbox[u], m_sender, m_message)
    <3>1. inbox'[u] = inbox[u] /\ inbox[u] \in Seq(Msg) BY <2>5, <1>0
    <3>2. ToSet(inbox[u]) \subseteq Msg \ {m} BY <3>1, <2>5, SeqElements
    <3>3. LettersOf(inbox[u], m_sender', m_message')
            = LettersOf(inbox[u], m_sender, m_message)
      BY <3>1, <3>2, <2>6, LettersAgree
    <3> QED BY <3>1, <3>3
  <2>9. AllLetters' = [u \in Tcb |-> LettersOf(inbox'[u], m_sender', m_message')]
    BY DEF AllLetters, Letters, LettersOf
  <2>10. AllLetters[t] = LettersOf(inbox[t], m_sender, m_message) BY AllLettersOf
  <2>11. inbox'[t] = b BY <2>5, <1>0
  <2>12. AllLetters' = [AllLetters EXCEPT ![t] = LettersOf(b, m_sender', m_message')]
    BY <2>8, <2>9, <2>11, AllLettersOf
  <2>13. AllLetters' = [AllLetters EXCEPT ![t] =
                          IF Sender(s) = BUS_INTERVALTIMER
                          THEN <<<<Sender(s), w>>>> \o AllLetters[t]
                          ELSE Append(AllLetters[t], <<Sender(s), w>>)]
    BY <2>7, <2>10, <2>12
  <2> QED BY <1>a, <2>1, <2>2, <2>3, <2>13 DEF Mailboxes!Arrive
<1> QED BY <1>1, <1>2, AliveFound

\* MsgSend is Post: the sender learns whether the receiver exists.
LEMMA SendPosts ==
    ASSUME CoreInv, MailInv, Unmanaged, Unmanaged', NEW a1, NEW w \in Word, Send(a1, w)
    PROVE  Mailboxes!MailboxNext
<1> DEFINE c == current_thread
           t == Receiver(a1)
<1>0. c \in Tcb BY DEF Send, InThread, CoreInv, CpuOwned, QueuesOK, Partition
<1>1. t \in Tcb BY ReceiverIsTcb DEF Send
<1>2. /\ ~SendPanics(c, t) /\ Deliver(c, t, w) /\ tcbfree' = tcbfree
      /\ wait_queue' = waitAfterSend(c, t) /\ waiting_for' = waitingAfterSend(c, t)
      /\ v0' = [v0AfterSend(c, t) EXCEPT ![c] = SendResult(c, t)]
  BY DEF Send
<1> HIDE DEF c, t
<1>3. c \in Alive /\ AllTakes[c] = {}
  <2>1. c \notin ToSet(tcbfree) /\ c \notin ToSet(wait_queue)
    BY DEF c, CoreInv, QueuesOK, Partition
  <2> QED BY <1>0, <2>1, TakesValue DEF Alive
<1>4. Sending(c) BY <1>0 DEF Sending
<1>5. UNCHANGED Alive BY <1>2 DEF Alive
<1>6. CASE t \in Alive
  <2>1. Mailboxes!Arrive(Sender(c), t, w) BY <1>1, <1>2, <1>4, <1>6, SendArrives
  <2>2. SendResult(c, t) = MSGGOOD BY <1>1, <1>6, AliveFound DEF SendResult
  <2>3. v0AfterSend(c, t) = IF Sender(c) \in AllTakes[t]
                            THEN [v0 EXCEPT ![t] = Sender(c)] ELSE v0
    BY <1>1, <1>4, WakesTaker DEF v0AfterSend
  <2>4. v0' = [Mailboxes!Returned(Sender(c), t) EXCEPT ![c] = MSGGOOD]
    BY <1>2, <2>2, <2>3 DEF Mailboxes!Returned
  <2>5. [u \in Tcb |-> Sender(u)][c] = Sender(c) BY <1>0
  <2>6. Mailboxes!Post(c, t, w)
    BY <1>3, <1>5, <1>6, <2>1, <2>4, <2>5 DEF Mailboxes!Post, Mailboxes!Blocked
  <2> QED BY <1>0, <1>1, <2>6 DEF Mailboxes!MailboxNext
<1>7. CASE t \notin Alive
  <2>1. ~Wakes(c, t) /\ ~Posts(c, t) BY <1>1, <1>7, AliveFound
  <2>2. v0' = [v0 EXCEPT ![c] = MSGNOGOOD]
    BY <1>2, <2>1 DEF v0AfterSend, SendResult
  <2>3. UNCHANGED <<inbox, m_sender, m_message, received, wait_queue, waiting_for>>
    BY <1>2, <2>1 DEF Deliver, mailVars, waitAfterSend, waitingAfterSend
  <2>4. UNCHANGED AllLetters BY <2>3 DEF AllLetters, Letters
  <2>5. UNCHANGED AllTakes
    <3>1. \A u \in Tcb : AllTakes'[u] = AllTakes[u] BY <2>3, TakesValue, TakesValueNext
    <3> QED BY <3>1, TakesDomain
  <2>6. Mailboxes!Post(c, t, w)
    BY <1>3, <1>5, <1>7, <2>2, <2>3, <2>4, <2>5 DEF Mailboxes!Post, Mailboxes!Blocked
  <2> QED BY <1>0, <1>1, <2>6 DEF Mailboxes!MailboxNext
<1> QED BY <1>6, <1>7

\* An interrupt's message to the SSI is Notify.
LEMMA InterruptNotifies ==
    ASSUME CoreInv, MailInv, Unmanaged, Unmanaged', NEW s \in Device \cup {BUS_INTERVALTIMER},
           NEW w \in Word, NEW requeue, InterruptMessage(s, w, requeue)
    PROVE  Mailboxes!MailboxNext
<1> DEFINE t == SSI_tcb
<1>1. t \in Tcb /\ Sending(s) BY NullNotTcb DEF Sending
<1>2. Sender(s) = s /\ s \in Source
  BY <1>1, WordAssumption DEF Sender, Source
<1>3. /\ ~SendPanics(s, t) /\ SendResult(s, t) # MSGNOGOOD /\ Deliver(s, t, w)
      /\ tcbfree' = tcbfree /\ wait_queue' = waitAfterSend(s, t)
      /\ waiting_for' = waitingAfterSend(s, t) /\ v0' = v0AfterSend(s, t)
  BY DEF InterruptMessage, InterruptPanics
<1> HIDE DEF t
<1>4. t \in Alive BY <1>1, <1>3, AliveFound DEF SendResult
<1>5. Mailboxes!Arrive(Sender(s), t, w) /\ UNCHANGED Alive
  BY <1>1, <1>3, <1>4, SendArrives
<1>6. v0' = IF Sender(s) \in AllTakes[t] THEN [v0 EXCEPT ![t] = Sender(s)] ELSE v0
  BY <1>1, <1>3, WakesTaker DEF v0AfterSend
<1>7. Mailboxes!Notify(s, t, w)
  BY <1>2, <1>4, <1>5, <1>6 DEF Mailboxes!Notify, Mailboxes!Returned
<1> QED BY <1>1, <1>2, <1>7 DEF Mailboxes!MailboxNext

\* What a receive from a1 takes.
Accepts(a1) == IF a1 = ANYMESSAGE THEN Source ELSE {a1}

\* A receive names a sender or takes all of them.
LEMMA AcceptsReceivable ==
    ASSUME NEW a1, MayRecv(a1)
    PROVE  Accepts(a1) \in Mailboxes!Receivable /\ a1 \in Tcb \cup {ANYMESSAGE, MAGIC_SSI}
BY DEF MayRecv, Accepts, Mailboxes!Receivable, Source, User

\* The inbox's search for a message is that of the mailbox.
LEMMA AcceptsMatches ==
    ASSUME CoreInv, Signed, NEW t \in Tcb, NEW i \in 1 .. Len(inbox[t]), NEW a1
    PROVE  /\ AllLetters[t][i] = <<m_sender[inbox[t][i]], m_message[inbox[t][i]]>>
           /\ AllLetters[t][i][1] \in Accepts(a1) <=> Matches(inbox[t][i], a1)
<1>1. inbox[t] \in Seq(Msg) /\ m_sender \in [Msg -> Source \cup {NULL}]
  BY DEF CoreInv, TypeMail
<1>2. AllLetters[t][i] = <<m_sender[inbox[t][i]], m_message[inbox[t][i]]>>
  BY DEF AllLetters, Letters
<1>3. inbox[t][i] \in Msg BY <1>1, ElementOfSeq
<1>4. inbox[t][i] \in ToSet(inbox[t]) BY <1>1, LenProperties DEF ToSet
<1>5. m_sender[inbox[t][i]] \in Source BY <1>1, <1>3, <1>4 DEF Signed
<1>6. AllLetters[t][i][1] = m_sender[inbox[t][i]] BY <1>2
<1> QED BY <1>2, <1>5, <1>6 DEF Accepts, Matches

\* A mailbox has as many letters as the inbox has messages.
LEMMA AllLettersLen ==
    ASSUME CoreInv, NEW t \in Tcb
    PROVE  Len(AllLetters[t]) = Len(inbox[t])
<1>1. inbox[t] \in Seq(Msg) BY DEF CoreInv, TypeMail
<1>2. AllLetters[t] = LettersOf(inbox[t], m_sender, m_message) BY AllLettersOf
<1> QED BY <1>1, <1>2, LettersLen

\* MsgRecv that finds a message is Take.
LEMMA RecvTakes ==
    ASSUME CoreInv, MailInv, Unmanaged, Unmanaged', Signed, NEW a1, RecvReturns(a1)
    PROVE  Mailboxes!MailboxNext
<1> DEFINE c == current_thread
           S == Accepts(a1)
<1>1. PICK i, m, b : c \in Tcb /\ Taken(a1, c, i, m, b) BY TakenMessage
<1>2. S \in Mailboxes!Receivable BY AcceptsReceivable DEF RecvReturns
<1>3. UNCHANGED <<tcbfree, wait_queue, waiting_for>> BY DEF RecvReturns, queueVars
<1>4. c \in Alive /\ AllTakes[c] = {}
  <2>1. c \notin ToSet(tcbfree) /\ c \notin ToSet(wait_queue)
    BY DEF CoreInv, QueuesOK, Partition
  <2> QED BY <1>1, <2>1, TakesValue DEF Alive
<1> HIDE DEF c, S
<1>5. i \in 1 .. Len(inbox[c]) /\ m = inbox[c][i] /\ popMessage(c, a1, i)
  BY <1>1 DEF Taken
<1>6. /\ i \in 1 .. Len(AllLetters[c]) /\ AllLetters[c][i] = <<m_sender[m], m_message[m]>>
      /\ AllLetters[c][i][1] \in S /\ \A j \in 1 .. i - 1 : AllLetters[c][j][1] \notin S
  <2>1. Len(inbox[c]) \in Nat BY <1>1, LenProperties DEF CoreInv, TypeMail
  <2>2. ASSUME NEW j \in 1 .. i - 1 PROVE AllLetters[c][j][1] \notin S
    <3>1. j \in 1 .. Len(inbox[c]) BY <2>1, <1>5
    <3>2. ~Matches(inbox[c][j], a1) BY <1>5 DEF popMessage
    <3> QED BY <3>1, <3>2, <1>1, AcceptsMatches DEF S
  <2>3. Matches(inbox[c][i], a1) BY <1>5 DEF popMessage
  <2>4. /\ AllLetters[c][i] = <<m_sender[m], m_message[m]>>
        /\ AllLetters[c][i][1] \in S
    BY <2>3, <1>1, <1>5, AcceptsMatches DEF S
  <2>5. i \in 1 .. Len(AllLetters[c]) BY <1>1, <1>5, AllLettersLen
  <2> QED BY <2>2, <2>4, <2>5
<1>7. /\ received' = [received EXCEPT ![c] = AllLetters[c][i][2]]
      /\ v0' = [v0 EXCEPT ![c] = AllLetters[c][i][1]]
  <2>1. AllLetters[c][i][1] = m_sender[m] /\ AllLetters[c][i][2] = m_message[m] BY <1>6
  <2> QED BY <2>1, <1>1 DEF Taken
<1>8. AllLetters' = [AllLetters EXCEPT ![c] = RemoveAt(AllLetters[c], i)]
  <2> DEFINE ms == <<m>>
  <2>1. /\ freeMsg(ms) /\ inbox' = [inbox EXCEPT ![c] = b] /\ b \in Seq(Msg)
        /\ ToSet(b) \cap ToSet(ms) = {}
        /\ \A u \in Tcb \ {c} : ToSet(inbox[u]) \cap ToSet(ms) = {}
    BY <1>1 DEF Taken
  <2> HIDE DEF ms
  <2>2. AllLetters' = [AllLetters EXCEPT ![c] = LettersOf(b, m_sender, m_message)]
    BY <1>1, <2>1, LettersFree
  <2>3. inbox[c] \in Seq(Msg) BY <1>1 DEF CoreInv, TypeMail
  <2>4. LettersOf(RemoveAt(inbox[c], i), m_sender, m_message)
          = RemoveAt(LettersOf(inbox[c], m_sender, m_message), i)
    BY <2>3, <1>5, LettersRemove
  <2>5. b = RemoveAt(inbox[c], i) BY <1>1 DEF Taken
  <2>6. AllLetters[c] = LettersOf(inbox[c], m_sender, m_message) BY <1>1, AllLettersOf
  <2> QED BY <2>2, <2>4, <2>5, <2>6
<1>9. UNCHANGED <<Alive, AllTakes>>
  <2>1. \A u \in Tcb : AllTakes'[u] = AllTakes[u] BY <1>3, TakesValue, TakesValueNext
  <2>2. UNCHANGED Alive BY <1>3 DEF Alive
  <2> QED BY <2>1, <2>2, TakesDomain
<1>10. Mailboxes!Take(c, S)
  <2>r. Mailboxes!RemoveAt(AllLetters[c], i) = RemoveAt(AllLetters[c], i)
    BY Zenon DEF RemoveAt, Mailboxes!RemoveAt
  <2>1. \E k \in 1 .. Len(AllLetters[c]) :
           /\ AllLetters[c][k][1] \in S
           /\ \A j \in 1 .. k - 1 : AllLetters[c][j][1] \notin S
           /\ v0' = [v0 EXCEPT ![c] = AllLetters[c][k][1]]
           /\ received' = [received EXCEPT ![c] = AllLetters[c][k][2]]
           /\ AllLetters' = [AllLetters EXCEPT ![c] = Mailboxes!RemoveAt(AllLetters[c], k)]
    BY <1>6, <1>7, <1>8, <2>r, Zenon
  <2> QED BY <1>4, <1>9, <2>1, Zenon DEF Mailboxes!Take, Mailboxes!Blocked
<1> QED BY <1>1, <1>2, <1>10 DEF Mailboxes!MailboxNext

\* MsgRecv that finds none is Block.
LEMMA RecvWaits ==
    ASSUME CoreInv, Unmanaged, Unmanaged', Signed, NEW a1, RecvBlocks(a1)
    PROVE  Mailboxes!MailboxNext
<1> DEFINE c == current_thread
           S == Accepts(a1)
<1>0. c \in Tcb /\ c \notin ToSet(tcbfree) /\ c \notin ToSet(wait_queue)
  BY DEF RecvBlocks, InThread, CoreInv, CpuOwned, QueuesOK, Partition
<1>1. S \in Mailboxes!Receivable BY AcceptsReceivable DEF RecvBlocks
<1>2. /\ \A i \in 1 .. Len(inbox[c]) : ~Matches(inbox[c][i], a1)
      /\ waiting_for' = [waiting_for EXCEPT ![c] = a1] /\ v0' = [v0 EXCEPT ![c] = NULL]
      /\ wait_queue' = insertThread(wait_queue, c)
      /\ UNCHANGED <<received, inbox, m_sender, m_message, tcbfree>>
  BY DEF RecvBlocks, mailVars
<1> HIDE DEF c, S
<1>3. c \in Alive /\ AllTakes[c] = {} BY <1>0, TakesValue DEF Alive
<1>4. \A i \in 1 .. Len(AllLetters[c]) : AllLetters[c][i][1] \notin S
  BY <1>0, <1>2, AllLettersLen, AcceptsMatches DEF S
<1>5. ToSet(wait_queue') = ToSet(wait_queue) \cup {c}
  BY <1>0, <1>2, AppendLemma DEF insertThread, CoreInv, QueuesOK, Partition
<1>6. ASSUME NEW u \in Tcb PROVE AllTakes'[u] = IF u = c THEN S ELSE AllTakes[u]
  <2>0. waiting_for \in [Tcb -> Tcb \cup {ANYMESSAGE, MAGIC_SSI}] BY DEF CoreInv, TypeTcb
  <2>1. CASE u = c
    <3>1. u \in ToSet(wait_queue') /\ waiting_for'[u] = a1 BY <2>0, <2>1, <1>2, <1>5
    <3> QED BY <2>1, <3>1, TakesValueNext DEF S, Accepts
  <2>2. CASE u # c
    <3>1. /\ u \in ToSet(wait_queue') <=> u \in ToSet(wait_queue)
          /\ waiting_for'[u] = waiting_for[u]
      BY <2>0, <2>2, <1>2, <1>5
    <3> QED BY <2>2, <3>1, TakesValue, TakesValueNext
  <2> QED BY <2>1, <2>2
<1>7. AllTakes' = [AllTakes EXCEPT ![c] = S] BY <1>6, TakesDomain
<1>8. UNCHANGED <<Alive, AllLetters>> BY <1>2 DEF Alive, AllLetters, Letters
<1>9. Mailboxes!Block(c, S)
  BY <1>2, <1>3, <1>4, <1>7, <1>8 DEF Mailboxes!Block, Mailboxes!Blocked
<1> QED BY <1>0, <1>1, <1>9 DEF Mailboxes!MailboxNext

\* The base case of terminate() is Die.
LEMMA LeafDies ==
    ASSUME CoreInv, MailInv, Unmanaged, Unmanaged', TerminateLeaf
    PROVE  Mailboxes!MailboxNext
<1> DEFINE t == Head(victims)
           ms == inbox[t]
           b == <<>>
<1>1. Freed(t) BY FreedThread
<1> HIDE DEF t
<1>2. /\ t \in Tcb /\ t \in Alive /\ Alive' = Alive \ {t}
      /\ UNCHANGED <<waiting_for, received, v0>>
      /\ ToSet(wait_queue') = ToSet(wait_queue) \ {t}
  BY <1>1 DEF Freed, Alive
<1>3. AllLetters' = [AllLetters EXCEPT ![t] = <<>>]
  <2>1. ToSet(b) = {} /\ b \in Seq(Msg) BY EmptyLemma
  <2>2. LettersOf(b, m_sender, m_message) = <<>> BY LettersEmpty
  <2> HIDE DEF b
  <2>3. /\ freeMsg(ms) /\ inbox' = [inbox EXCEPT ![t] = b]
        /\ \A u \in Tcb \ {t} : ToSet(inbox[u]) \cap ToSet(ms) = {}
    BY <1>1 DEF Freed, b
  <2> HIDE DEF ms
  <2>4. AllLetters' = [AllLetters EXCEPT ![t] = LettersOf(b, m_sender, m_message)]
    BY <1>2, <2>1, <2>3, LettersFree
  <2> QED BY <2>2, <2>4
<1>4. ASSUME NEW u \in Tcb PROVE AllTakes'[u] = IF u = t THEN {} ELSE AllTakes[u]
  BY <1>2, TakesValue, TakesValueNext
<1>5. AllTakes' = [AllTakes EXCEPT ![t] = {}] BY <1>4, TakesDomain
<1>6. Mailboxes!Die(t) BY <1>2, <1>3, <1>5 DEF Mailboxes!Die
<1> QED BY <1>2, <1>6 DEF Mailboxes!MailboxNext

\* CREATESON and CREATEBROTHER are Start, whatever the TCB was before.
LEMMA CreateStarts ==
    ASSUME CoreInv, MailInv, Unmanaged, Unmanaged', NEW parent, NEW managers, NEW sibling,
           CreateThread(parent, managers, sibling)
    PROVE  Mailboxes!MailboxNext
<1> DEFINE t == Head(tcbfree)
<1>1. /\ tcbfree # <<>> /\ tcbfree' = Tail(tcbfree)
      /\ inbox' = [inbox EXCEPT ![t] = <<>>]
      /\ waiting_for' = [waiting_for EXCEPT ![t] = MINUS1]
      /\ v0' = [v0 EXCEPT ![t] = NULL] /\ received' = [received EXCEPT ![t] = NULL]
      /\ UNCHANGED <<m_sender, m_message, wait_queue>>
  BY DEF CreateThread, allocTcb
<1>2. tcbfree \in Seq(Tcb) /\ inbox \in [Tcb -> Seq(Msg)] /\ Distinct(tcbfree)
  BY DEF CoreInv, TypeMail, QueuesOK, Partition
<1>3. /\ t \in Tcb /\ t \in ToSet(tcbfree) /\ t \notin ToSet(tcbfree')
      /\ ToSet(tcbfree) = ToSet(tcbfree') \cup {t}
  BY <1>1, <1>2, TailLemma
<1>4. inbox' = inbox
  <2>1. Mail(msgfree, inbox, tcbfree) BY MailIsConservation DEF MailInv
  <2> QED BY <1>1, <1>2, <2>1, AllocMail
<1> HIDE DEF t
<1>5. t \notin Alive /\ Alive' = Alive \cup {t} BY <1>3 DEF Alive
<1>6. UNCHANGED AllLetters BY <1>1, <1>4 DEF AllLetters, Letters
<1>7. UNCHANGED AllTakes
  <2>1. t \notin ToSet(wait_queue) BY <1>3 DEF CoreInv, QueuesOK, Partition
  <2>2. \A u \in Tcb \ {t} : waiting_for'[u] = waiting_for[u]
    BY <1>1 DEF CoreInv, TypeTcb
  <2>3. \A u \in Tcb : AllTakes'[u] = AllTakes[u]
    BY <1>1, <2>1, <2>2, TakesValue, TakesValueNext
  <2> QED BY <2>3, TakesDomain
<1>8. Mailboxes!Start(t) BY <1>1, <1>5, <1>6, <1>7 DEF Mailboxes!Start
<1> QED BY <1>3, <1>8 DEF Mailboxes!MailboxNext

\* boot.c starts the SSI and the test thread with empty mailboxes.
LEMMA InitMailboxes == Init => Mailboxes!MailboxInit
<1> SUFFICES ASSUME Init PROVE Mailboxes!MailboxInit OBVIOUS
<1>1. Alive = {SSI_tcb, TEST_tcb}
  <2>1. ready_queue = <<SSI_tcb, TEST_tcb>> /\ wait_queue = <<>> /\ current_thread = NULL
    BY DEF Init
  <2>2. ToSet(wait_queue) = {} BY <2>1, EmptyLemma
  <2>3. ToSet(ready_queue) = {SSI_tcb, TEST_tcb} BY <2>1 DEF ToSet
  <2>4. /\ ToSet(tcbfree) \cup ToSet(ready_queue) = Tcb
        /\ ToSet(tcbfree) \cap ToSet(ready_queue) = {}
    BY <2>1, <2>2, InitCore DEF CoreInv, QueuesOK, Partition
  <2> QED BY <2>3, <2>4 DEF Alive
<1>2. AllLetters = [t \in Tcb |-> <<>>]
  <2>1. \A t \in Tcb : inbox[t] = <<>> BY DEF Init
  <2> QED BY <2>1, AllLettersOf, LettersEmpty
<1>3. AllTakes = [t \in Tcb |-> {}]
  <2>1. wait_queue = <<>> BY DEF Init
  <2>2. ToSet(wait_queue) = {} BY <2>1, EmptyLemma
  <2> QED BY <2>2 DEF AllTakes, Takes
<1> QED BY <1>1, <1>2, <1>3 DEF Init, Mailboxes!MailboxInit

\* Every step of the nucleus is a step of the mailboxes or does not touch them.
LEMMA MailboxStep ==
    ASSUME CoreInv, MailInv, Unmanaged, Unmanaged', Signed, [Next]_vars, Managed = {}
    PROVE  [Mailboxes!MailboxNext]_Mailboxes!mailboxVars
<1>1. CASE ThreadStep
  <2>1. ASSUME NEW a1, NEW w \in Word, MsgSend(a1, w)
        PROVE  [Mailboxes!MailboxNext]_Mailboxes!mailboxVars
    <3>1. ~TrapTerminate(a1) /\ ~TrapContinue(a1)
      BY NoDecision DEF TrapTerminate, TrapContinue
    <3>2. CASE Send(a1, w) BY <3>2, SendPosts
    <3>3. CASE SendFails(a1, w)
      BY <3>3, Unseen DEF SendFails, tcbVars, mailVars, queueVars
    <3> QED BY <2>1, <3>1, <3>2, <3>3 DEF MsgSend
  <2>2. ASSUME NEW a1, MsgRecv(a1) PROVE Mailboxes!MailboxNext
    BY <2>2, RecvTakes, RecvWaits DEF MsgRecv
  <2>3. ASSUME NEW k \in TrapKind, Trap(k) PROVE UNCHANGED Mailboxes!mailboxVars
    BY <2>3, TrapKills, TerminateUnseen DEF Trap, InThread
  <2> QED BY <1>1, <2>1, <2>2, <2>3 DEF ThreadStep
<1>2. CASE ServiceStep
  <2>1. ASSUME NEW req, CreateSon(req) \/ CreateBrother(req) PROVE Mailboxes!MailboxNext
    BY <2>1, CreateStarts DEF CreateSon, CreateBrother
  <2>2. ASSUME NEW req, KillThread(req) PROVE UNCHANGED Mailboxes!mailboxVars
    BY <2>2, TerminateUnseen DEF KillThread
  <2>3. ASSUME ServicePanic PROVE UNCHANGED Mailboxes!mailboxVars
    BY <2>3, Unseen DEF ServicePanic, Panic, tcbVars, mailVars, queueVars
  <2> QED BY <1>2, <2>1, <2>2, <2>3 DEF ServiceStep
<1>3. CASE Interrupt
  <2>1. ASSUME SliceExpired \/ InterruptIgnored \/ InterruptPanic
        PROVE  UNCHANGED Mailboxes!mailboxVars
    BY <2>1, Unseen DEF SliceExpired, InterruptIgnored, InterruptPanic, Panic, tcbVars,
                        mailVars, queueVars
  <2> QED BY <1>3, <2>1, InterruptNotifies DEF Interrupt, PseudoClockTick, DeviceInterrupt
<1>4. CASE KernelStep
  <2>1. ASSUME scheduler \/ TerminateChild \/ TerminatePanic
        PROVE  UNCHANGED Mailboxes!mailboxVars
    BY <2>1, Unseen DEF scheduler, Dispatch, Reload, Idle, TerminateChild, TerminatePanic,
                        Panic, tcbVars, mailVars, queueVars
  <2>2. ASSUME NestedTrap PROVE UNCHANGED Mailboxes!mailboxVars
    BY <2>2, TrapKills, TerminateUnseen, TrapKindAssumption DEF NestedTrap
  <2> QED BY <1>4, <2>1, <2>2, LeafDies DEF KernelStep
<1>5. CASE Halted \/ UNCHANGED vars
  BY <1>5, Unseen DEF Halted, vars, tcbVars, mailVars, queueVars, controlVars
<1> QED BY <1>1, <1>2, <1>3, <1>4, <1>5 DEF Next

\* As long as no service specifies a trap manager, the nucleus implements
\* mailboxes: send() of exceptions.c is Post, recv() is Take or Block, the
\* message of int_handler is Notify, terminate() is Die and allocTcb is
\* Start, for any number of threads and messages; message pool, inbox links,
\* reply addresses and the scheduler do not show.
THEOREM NucleusIsMailboxes ==
    ASSUME Managed = {}
    PROVE  Spec => MailboxesImplemented
<1> DEFINE Inv == CoreInv /\ MailInv /\ Unmanaged /\ Signed
<1>1. Init => Inv BY InitCore, InitMail, InitUnmanaged
<1>2. Inv /\ [Next]_vars => Inv'
  BY CoreNext, MailNext, UnmanagedNext, SignedNext
<1>3. Inv /\ Inv' /\ [Next]_vars => [Mailboxes!MailboxNext]_Mailboxes!mailboxVars
  BY MailboxStep
<1>4. Init => Mailboxes!MailboxInit BY InitMailboxes
<1> QED BY <1>1, <1>2, <1>3, <1>4, PTL DEF Spec, MailboxesImplemented, Mailboxes!MailboxSpec

=============================================================================
