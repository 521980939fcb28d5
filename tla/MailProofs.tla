---------------------------- MODULE MailProofs ----------------------------
(***************************************************************************)
(* Proofs about message passing in the nucleus: no message is lost or in   *)
(* two lists, no wakeup is lost, and the interrupt handler's own send()    *)
(* always finds a reply address.                                           *)
(***************************************************************************)
EXTENDS NucleusProofs

----------------------------------------------------------------------------
(* The message pool and the inboxes, as a relation between their values:   *)
(* free is the free list, box the inboxes, gone the free TCBs.             *)

Mail(free, box, gone) ==
    /\ Distinct(free) /\ \A t \in Tcb : Distinct(box[t])
    /\ \A m \in Msg : m \in ToSet(free) \/ \E t \in Tcb : m \in ToSet(box[t])
    /\ \A t \in Tcb :
         /\ ToSet(free) \cap ToSet(box[t]) = {}
         /\ \A u \in Tcb \ {t} : ToSet(box[t]) \cap ToSet(box[u]) = {}
    /\ \A t \in ToSet(gone) : box[t] = <<>>

\* send() moves the first free message into the inbox of an existing thread,
\* at its head or at its tail.
LEMMA PostMail ==
    ASSUME NEW free \in Seq(Msg), NEW box \in [Tcb -> Seq(Msg)], NEW gone, NEW t \in Tcb,
           t \notin ToSet(gone), free # <<>>, Mail(free, box, gone),
           NEW b \in {<<Head(free)>> \o box[t], Append(box[t], Head(free))}
    PROVE  /\ Mail(Tail(free), [box EXCEPT ![t] = b], gone)
           /\ ToSet(b) = ToSet(box[t]) \cup {Head(free)}
           /\ Head(free) \in Msg
           /\ \A u \in Tcb : Head(free) \notin ToSet(box[u])
<1> DEFINE m == Head(free)
           rest == Tail(free)
<1>1. /\ m \in Msg /\ rest \in Seq(Msg) /\ ToSet(free) = ToSet(rest) \cup {m}
      /\ Distinct(rest) /\ m \notin ToSet(rest)
  BY TailLemma DEF Mail
<1>2. \A u \in Tcb : m \notin ToSet(box[u]) BY <1>1 DEF Mail
<1>3. box[t] \in Seq(Msg) /\ Distinct(box[t]) BY DEF Mail
<1> HIDE DEF m, rest
<1>4. ToSet(b) = ToSet(box[t]) \cup {m} /\ Distinct(b)
  <2>1. CASE b = <<m>> \o box[t]
    <3> DEFINE one == <<m>>
    <3>1. one \in Seq(Msg) /\ ToSet(one) = {m} /\ Distinct(one) BY <1>1, OneLemma
    <3>2. b = one \o box[t] BY <2>1
    <3> HIDE DEF one
    <3>3. ToSet(one) \cap ToSet(box[t]) = {} BY <3>1, <1>2
    <3> QED BY <3>1, <3>2, <3>3, <1>3, ConcatLemma
  <2>2. CASE b = Append(box[t], m)
    BY <2>2, <1>1, <1>2, <1>3, AppendLemma
  <2> QED BY <2>1, <2>2 DEF m
<1> DEFINE new == [box EXCEPT ![t] = b]
<1>5. new[t] = b /\ \A u \in Tcb \ {t} : new[u] = box[u] OBVIOUS
<1>6. Mail(rest, new, gone)
  <2> HIDE DEF new
  <2>1. \A u \in Tcb : Distinct(new[u]) BY <1>4, <1>5 DEF Mail
  <2>2. \A x \in Msg : x \in ToSet(rest) \/ \E u \in Tcb : x \in ToSet(new[u])
    <3> SUFFICES ASSUME NEW x \in Msg, x \notin ToSet(rest)
                 PROVE  \E u \in Tcb : x \in ToSet(new[u])
      OBVIOUS
    <3>1. CASE x = m BY <3>1, <1>4, <1>5
    <3>2. CASE x # m
      <4>1. PICK u \in Tcb : x \in ToSet(box[u]) BY <3>2, <1>1 DEF Mail
      <4> QED BY <4>1, <1>4, <1>5
    <3> QED BY <3>1, <3>2
  <2>3. \A u \in Tcb : ToSet(rest) \cap ToSet(new[u]) = {} BY <1>1, <1>4, <1>5 DEF Mail
  <2>4. \A u \in Tcb : \A v \in Tcb \ {u} : ToSet(new[u]) \cap ToSet(new[v]) = {}
    BY <1>2, <1>4, <1>5 DEF Mail
  <2>5. \A u \in ToSet(gone) : new[u] = <<>>
    <3>1. ASSUME NEW u \in ToSet(gone) PROVE new[u] = box[u]
      BY DEF new
    <3> QED BY <3>1 DEF Mail
  <2> QED BY <1>1, <2>1, <2>2, <2>3, <2>4, <2>5 DEF Mail
<1> QED BY <1>1, <1>2, <1>4, <1>6 DEF m, rest

\* recv() moves one message of an inbox to the end of the free list.
LEMMA TakeMail ==
    ASSUME NEW free \in Seq(Msg), NEW box \in [Tcb -> Seq(Msg)], NEW gone, NEW t \in Tcb,
           NEW i \in 1 .. Len(box[t]), t \notin ToSet(gone), Mail(free, box, gone)
    PROVE  /\ Mail(free \o <<box[t][i]>>, [box EXCEPT ![t] = RemoveAt(box[t], i)], gone)
           /\ box[t][i] \in ToSet(box[t])
<1> DEFINE m == box[t][i]
           b == RemoveAt(box[t], i)
           new == [box EXCEPT ![t] = b]
<1>1. box[t] \in Seq(Msg) /\ Distinct(box[t]) BY DEF Mail
<1>2. /\ b \in Seq(Msg) /\ ToSet(box[t]) = ToSet(b) \cup {m} /\ Distinct(b)
      /\ m \notin ToSet(b)
  BY <1>1, RemoveAtLemma
<1>3. m \in Msg BY <1>1, ElementOfSeq
<1>4. new[t] = b /\ \A u \in Tcb \ {t} : new[u] = box[u] OBVIOUS
<1> DEFINE one == <<m>>
           all == free \o one
<1>a. one \in Seq(Msg) /\ ToSet(one) = {m} /\ Distinct(one) BY <1>3, OneLemma
<1>5. ToSet(all) = ToSet(free) \cup {m} /\ Distinct(all)
  <2>1. m \notin ToSet(free) /\ Distinct(free) BY <1>2 DEF Mail
  <2> HIDE DEF m, one
  <2>2. ToSet(free) \cap ToSet(one) = {} BY <1>a, <2>1
  <2> QED BY <2>1, <2>2, <1>a, ConcatLemma
<1>6. \A u \in ToSet(gone) : new[u] = box[u] OBVIOUS
<1>7. Mail(all, new, gone)
  <2> HIDE DEF m, b, new, all
  <2>1. \A u \in Tcb : Distinct(new[u]) BY <1>2, <1>4 DEF Mail
  <2>2. \A x \in Msg : x \in ToSet(all) \/ \E u \in Tcb : x \in ToSet(new[u])
    <3> SUFFICES ASSUME NEW x \in Msg, x \notin ToSet(all)
                 PROVE  \E u \in Tcb : x \in ToSet(new[u])
      OBVIOUS
    <3>1. PICK u \in Tcb : x \in ToSet(box[u]) BY <1>5 DEF Mail
    <3> QED BY <3>1, <1>2, <1>4, <1>5
  <2>3. \A u \in Tcb : ToSet(all) \cap ToSet(new[u]) = {}
    BY <1>2, <1>4, <1>5 DEF Mail
  <2>4. \A u \in Tcb : \A v \in Tcb \ {u} : ToSet(new[u]) \cap ToSet(new[v]) = {}
    BY <1>2, <1>4 DEF Mail
  <2>5. \A u \in ToSet(gone) : new[u] = <<>> BY <1>6 DEF Mail
  <2> QED BY <1>5, <2>1, <2>2, <2>3, <2>4, <2>5 DEF Mail
<1> QED BY <1>2, <1>7

\* terminate() moves a whole inbox to the end of the free list, with its TCB.
LEMMA DropMail ==
    ASSUME NEW free \in Seq(Msg), NEW box \in [Tcb -> Seq(Msg)], NEW gone \in Seq(Tcb),
           NEW t \in Tcb, Mail(free, box, gone)
    PROVE  Mail(free \o box[t], [box EXCEPT ![t] = <<>>], Append(gone, t))
<1> DEFINE all == free \o box[t]
           new == [box EXCEPT ![t] = <<>>]
<1>1. box[t] \in Seq(Msg) /\ Distinct(box[t]) /\ Distinct(free) BY DEF Mail
<1>2. ToSet(free) \cap ToSet(box[t]) = {} BY DEF Mail
<1>3. ToSet(all) = ToSet(free) \cup ToSet(box[t]) /\ Distinct(all)
  BY <1>1, <1>2, ConcatLemma
<1>4. new[t] = <<>> /\ \A u \in Tcb \ {t} : new[u] = box[u] OBVIOUS
<1>5. ToSet(<<>>) = {} /\ Distinct(<<>>) BY EmptyLemma
<1>6. ToSet(Append(gone, t)) = ToSet(gone) \cup {t} BY AppendLemma
<1>7. \A u \in ToSet(gone) : u # t => new[u] = box[u] OBVIOUS
<1>8. Mail(all, new, Append(gone, t))
  <2> HIDE DEF all, new
  <2>1. \A u \in Tcb : Distinct(new[u]) BY <1>4, <1>5 DEF Mail
  <2>2. \A x \in Msg : x \in ToSet(all) \/ \E u \in Tcb : x \in ToSet(new[u])
    <3> SUFFICES ASSUME NEW x \in Msg, x \notin ToSet(all)
                 PROVE  \E u \in Tcb : x \in ToSet(new[u])
      OBVIOUS
    <3>1. PICK u \in Tcb : x \in ToSet(box[u]) BY <1>3 DEF Mail
    <3> QED BY <3>1, <1>3, <1>4
  <2>3. \A u \in Tcb : ToSet(all) \cap ToSet(new[u]) = {}
    BY <1>3, <1>4, <1>5 DEF Mail
  <2>4. \A u \in Tcb : \A v \in Tcb \ {u} : ToSet(new[u]) \cap ToSet(new[v]) = {}
    BY <1>4, <1>5 DEF Mail
  <2>5. \A u \in ToSet(Append(gone, t)) : new[u] = <<>> BY <1>4, <1>6, <1>7 DEF Mail
  <2> QED BY <1>3, <2>1, <2>2, <2>3, <2>4, <2>5 DEF Mail
<1> QED BY <1>8

\* allocTcb leaves the mail alone: the inbox of a free TCB is already empty.
LEMMA AllocMail ==
    ASSUME NEW free, NEW box \in [Tcb -> Seq(Msg)], NEW gone \in Seq(Tcb), gone # <<>>,
           Mail(free, box, gone)
    PROVE  /\ [box EXCEPT ![Head(gone)] = <<>>] = box
           /\ Mail(free, box, Tail(gone))
<1>1. /\ Head(gone) \in Tcb /\ Head(gone) \in ToSet(gone)
      /\ ToSet(gone) = ToSet(Tail(gone)) \cup {Head(gone)}
  BY TailLemma
<1>2. box[Head(gone)] = <<>> BY <1>1 DEF Mail
<1>3. [box EXCEPT ![Head(gone)] = <<>>] = box BY <1>1, <1>2
<1>4. Mail(free, box, Tail(gone)) BY <1>1 DEF Mail
<1> QED BY <1>3, <1>4

----------------------------------------------------------------------------
(* The invariant of message passing.  Neither half of MailInv is inductive *)
(* alone: that a message has one owner is what keeps the m_sender written  *)
(* by send() and by freeMsg out of the inbox of a third thread.            *)

MailInv == MessageConservation /\ NoLostWakeup

\* Message conservation is the relation Mail of the current values.
LEMMA MailIsConservation == MessageConservation <=> Mail(msgfree, inbox, tcbfree)
BY DEF MessageConservation, Mail

\* main() of boot.c puts all messages into the free list and blocks nobody.
LEMMA InitMail == Init => MailInv
<1> SUFFICES ASSUME Init PROVE MailInv OBVIOUS
<1>1. ToSet(<<>>) = {} /\ Distinct(<<>>) BY EmptyLemma
<1>2. /\ msgfree = message_array /\ wait_queue = <<>>
      /\ \A t \in Tcb : inbox[t] = <<>>
  BY DEF Init
<1>3. ToSet(tcbfree) \subseteq Tcb
  BY InitCore DEF CoreInv, QueuesOK, Partition
<1>4. Distinct(msgfree) /\ ToSet(msgfree) = Msg BY <1>2, MessageArrayAssumption DEF Msg
<1>5. MessageConservation BY <1>1, <1>2, <1>3, <1>4 DEF MessageConservation
<1>6. NoLostWakeup BY <1>1, <1>2 DEF NoLostWakeup
<1> QED BY <1>5, <1>6 DEF MailInv

\* Steps that touch neither messages nor the fields that a receiver waits
\* with, and after which no other thread waits in recv().
LEMMA MailFrame ==
    ASSUME MailInv, UNCHANGED <<msgfree, inbox, m_sender, tcbfree, reply, waiting_for>>,
           ToSet(wait_queue') \ frozen' \subseteq ToSet(wait_queue) \ frozen
    PROVE  MailInv'
<1>1. MessageConservation' BY DEF MailInv, MessageConservation
<1>2. NoLostWakeup' BY DEF MailInv, NoLostWakeup, Matches
<1> QED BY <1>1, <1>2 DEF MailInv

\* What send() does to mail, reply addresses and waiting_for, whatever the
\* handler around it does next: messages are conserved, and the threads
\* still blocked in recv() have no message they would take.
LEMMA DeliverMail ==
    ASSUME CoreInv, MailInv, NEW s, NEW t \in Tcb, NEW w, Sending(s), ~SendPanics(s, t),
           Deliver(s, t, w)
    PROVE  /\ Mail(msgfree', inbox', tcbfree)
           /\ \A u \in ToSet(waitAfterSend(s, t)) \ frozenAfterSend(s, t) :
                 /\ reply'[u]
                 /\ \A m \in ToSet(inbox'[u]) :
                       ~(waitingAfterSend(s, t)[u] = ANYMESSAGE
                           \/ m_sender'[m] = waitingAfterSend(s, t)[u])
<1>0. /\ reply \in [Tcb -> BOOLEAN] /\ waiting_for \in [Tcb -> Tcb \cup {ANYMESSAGE, MAGIC_SSI}]
      /\ msgfree \in Seq(Msg) /\ inbox \in [Tcb -> Seq(Msg)] /\ wait_queue \in Seq(Tcb)
      /\ m_sender \in [Msg -> Source \cup {NULL}] /\ Distinct(wait_queue)
      /\ ToSet(wait_queue) \subseteq Tcb
  BY DEF CoreInv, TypeTcb, TypeMail, QueuesOK, Partition
<1>m. Mail(msgfree, inbox, tcbfree) BY MailIsConservation DEF MailInv
<1>w. \A u \in ToSet(wait_queue) \ frozen :
         /\ reply[u]
         /\ \A m \in ToSet(inbox[u]) :
               ~(waiting_for[u] = ANYMESSAGE \/ m_sender[m] = waiting_for[u])
  BY DEF MailInv, NoLostWakeup, Matches
<1>1. CASE Wakes(s, t)
  <2>1. /\ reply' = [reply EXCEPT ![t] = FALSE]
        /\ UNCHANGED <<msgfree, inbox, m_sender>>
    BY <1>1 DEF Deliver, Posts, mailVars
  <2>2. /\ waitAfterSend(s, t) = outThread(wait_queue, t)
        /\ frozenAfterSend(s, t) = frozen \ {t}
        /\ waitingAfterSend(s, t) = [waiting_for EXCEPT ![t] = MINUS1]
    BY <1>1 DEF waitAfterSend, frozenAfterSend, waitingAfterSend
  <2>3. t \in ToSet(wait_queue) BY <1>1 DEF Wakes, thereIsThread
  <2>4. /\ ToSet(wait_queue) = ToSet(outThread(wait_queue, t)) \cup {t}
        /\ t \notin ToSet(outThread(wait_queue, t))
    BY <2>3, <1>0, OutLemma
  <2>5. Mail(msgfree', inbox', tcbfree) BY <2>1, <1>m
  <2> SUFFICES ASSUME NEW u \in ToSet(waitAfterSend(s, t)) \ frozenAfterSend(s, t)
               PROVE  /\ reply'[u]
                      /\ \A m \in ToSet(inbox'[u]) :
                            ~(waitingAfterSend(s, t)[u] = ANYMESSAGE
                                \/ m_sender'[m] = waitingAfterSend(s, t)[u])
    BY <2>5
  <2>6. u \in ToSet(wait_queue) \ frozen /\ u # t /\ u \in Tcb BY <2>2, <2>4, <1>0
  <2>7. reply'[u] = reply[u] /\ waitingAfterSend(s, t)[u] = waiting_for[u]
    BY <2>1, <2>2, <2>6, <1>0
  <2> QED BY <2>1, <2>6, <2>7, <1>w
<1>2. CASE Posts(s, t)
  <2> DEFINE m0 == Head(msgfree)
             b == IF s = BUS_INTERVALTIMER THEN <<m0>> \o inbox[t] ELSE Append(inbox[t], m0)
  <2>0. ~Wakes(s, t) BY <1>2 DEF Posts
  <2>1. /\ msgfree' = Tail(msgfree) /\ inbox' = [inbox EXCEPT ![t] = b]
        /\ m_sender' = [m_sender EXCEPT ![m0] = Sender(s)] /\ reply' = reply
    BY <1>2, <2>0 DEF Deliver
  <2>2. /\ waitAfterSend(s, t) = wait_queue /\ frozenAfterSend(s, t) = frozen
        /\ waitingAfterSend(s, t) = waiting_for
    BY <2>0 DEF waitAfterSend, frozenAfterSend, waitingAfterSend
  <2>3. msgfree # <<>> BY <1>2 DEF SendPanics
  <2>4. t \notin ToSet(tcbfree)
    BY <1>2 DEF Posts, Running, thereIsThread, CoreInv, QueuesOK, Partition
  <2>5. b \in {<<m0>> \o inbox[t], Append(inbox[t], m0)} OBVIOUS
  <2>6. /\ Mail(Tail(msgfree), [inbox EXCEPT ![t] = b], tcbfree)
        /\ ToSet(b) = ToSet(inbox[t]) \cup {m0} /\ m0 \in Msg
        /\ \A u \in Tcb : m0 \notin ToSet(inbox[u])
    <3> HIDE DEF b
    <3> QED BY <1>0, <1>m, <2>3, <2>4, <2>5, PostMail
  <2> HIDE DEF m0, b
  <2>7. Mail(msgfree', inbox', tcbfree) BY <2>1, <2>6
  <2> SUFFICES ASSUME NEW u \in ToSet(wait_queue) \ frozen
               PROVE  /\ reply'[u]
                      /\ \A m \in ToSet(inbox'[u]) :
                            ~(waiting_for[u] = ANYMESSAGE \/ m_sender'[m] = waiting_for[u])
    BY <2>2, <2>7
  <2>8. u \in Tcb BY <1>0
  <2>9. reply'[u] BY <2>1, <1>w
  <2>10. ASSUME NEW m \in ToSet(inbox'[u])
         PROVE  waiting_for[u] # ANYMESSAGE /\ m_sender'[m] # waiting_for[u]
    <3>1. CASE m = m0
      <4>1. u = t /\ m_sender'[m] = Sender(s) BY <3>1, <2>1, <2>6, <2>8, <1>0
      <4>2. thereIsThread(wait_queue, t) /\ ~Running(t)
        BY <4>1 DEF thereIsThread, Running, CoreInv, QueuesOK, Partition
      <4>3. waiting_for[t] \notin {Sender(s), ANYMESSAGE} BY <2>0, <4>2 DEF Wakes
      <4> QED BY <4>1, <4>3
    <3>2. CASE m # m0
      <4>1. m \in ToSet(inbox[u]) BY <3>2, <2>1, <2>6, <2>8, <1>0
      <4>2. m_sender'[m] = m_sender[m] BY <3>2, <2>1, <1>0, <4>1, <2>8
      <4> QED BY <4>1, <4>2, <1>w
    <3> QED BY <3>1, <3>2
  <2> QED BY <2>9, <2>10
<1>3. CASE ~Wakes(s, t) /\ ~Posts(s, t)
  <2>1. UNCHANGED <<msgfree, inbox, m_sender, reply>> BY <1>3 DEF Deliver, mailVars
  <2>2. /\ waitAfterSend(s, t) = wait_queue /\ frozenAfterSend(s, t) = frozen
        /\ waitingAfterSend(s, t) = waiting_for
    BY <1>3 DEF waitAfterSend, frozenAfterSend, waitingAfterSend
  <2> QED BY <2>1, <2>2, <1>m, <1>w
<1> QED BY <1>1, <1>2, <1>3

\* A handler that ends in send() and then leaves the wait queue as send() does.
LEMMA MailAfterSend ==
    ASSUME CoreInv, MailInv, NEW s, NEW t \in Tcb, NEW w, Sending(s), ~SendPanics(s, t),
           Deliver(s, t, w), tcbfree' = tcbfree,
           wait_queue' = waitAfterSend(s, t), waiting_for' = waitingAfterSend(s, t),
           frozen' = frozenAfterSend(s, t)
    PROVE  MailInv'
<1>1. Mail(msgfree', inbox', tcbfree') BY DeliverMail
<1>2. MessageConservation' BY <1>1 DEF MessageConservation, Mail
<1>3. NoLostWakeup' BY DeliverMail DEF NoLostWakeup, Matches
<1> QED BY <1>2, <1>3 DEF MailInv

\* The call terminate(t) unlinks the thread from the tree and touches no mail.
LEMMA MailTerminate ==
    ASSUME MailInv, NEW t, Terminate(t)
    PROVE  MailInv'
BY MailFrame DEF Terminate, tcbVars, mailVars, queueVars

\* MsgSend in all its cases.
LEMMA MailMsgSend ==
    ASSUME CoreInv, MailInv, NEW a1, NEW w, MsgSend(a1, w)
    PROVE  MailInv'
<1>1. CASE TrapTerminate(a1) BY <1>1, MailTerminate DEF TrapTerminate
<1>2. CASE TrapContinue(a1)
  <2> DEFINE t == Receiver(a1)
  <2>1. UNCHANGED <<msgfree, inbox, m_sender, tcbfree, reply, waiting_for>>
    BY <1>2 DEF TrapContinue, tcbVars, mailVars
  <2>2. ToSet(wait_queue') \ frozen' \subseteq ToSet(wait_queue) \ frozen
    <3>1. CASE thereIsThread(wait_queue, t)
      <4>1. wait_queue' = outThread(wait_queue, t) /\ frozen' = frozen \ {t}
        BY <1>2, <3>1 DEF TrapContinue
      <4>2. /\ ToSet(wait_queue) = ToSet(outThread(wait_queue, t)) \cup {t}
            /\ t \notin ToSet(outThread(wait_queue, t))
        BY <3>1, OutLemma DEF thereIsThread, CoreInv, QueuesOK, Partition
      <4> QED BY <4>1, <4>2
    <3>2. CASE ~thereIsThread(wait_queue, t)
      BY <1>2, <3>2 DEF TrapContinue
    <3> QED BY <3>1, <3>2
  <2> QED BY <2>1, <2>2, MailFrame
<1>3. CASE Send(a1, w)
  <2>1. current_thread \in Tcb
    BY <1>3 DEF Send, InThread, CoreInv, CpuOwned, QueuesOK, Partition
  <2>2. Receiver(a1) \in Tcb BY <1>3, ReceiverIsTcb DEF Send
  <2> QED BY <1>3, <2>1, <2>2, MailAfterSend DEF Send, Sending
<1>4. CASE SendFails(a1, w)
  BY <1>4, MailFrame DEF SendFails, tcbVars, mailVars, queueVars
<1> QED BY <1>1, <1>2, <1>3, <1>4 DEF MsgSend

\* MsgRecv: the message taken is the caller's own, and a caller that blocks
\* has none that it would take.
LEMMA MailMsgRecv ==
    ASSUME CoreInv, MailInv, NEW a1, MsgRecv(a1)
    PROVE  MailInv'
<1> DEFINE c == current_thread
<1>0. /\ c \in Tcb /\ c # NULL /\ c \notin ToSet(wait_queue) /\ c \notin ToSet(tcbfree)
      /\ ToSet(wait_queue) \subseteq Tcb
  BY DEF MsgRecv, RecvReturns, RecvBlocks, InThread, CoreInv, CpuOwned, QueuesOK, Partition
<1>t. /\ msgfree \in Seq(Msg) /\ inbox \in [Tcb -> Seq(Msg)]
      /\ m_sender \in [Msg -> Source \cup {NULL}] /\ reply \in [Tcb -> BOOLEAN]
      /\ waiting_for \in [Tcb -> Tcb \cup {ANYMESSAGE, MAGIC_SSI}]
  BY DEF CoreInv, TypeMail, TypeTcb
<1>m. Mail(msgfree, inbox, tcbfree) BY MailIsConservation DEF MailInv
<1>1. CASE RecvReturns(a1)
  <2>1. PICK i \in 1 .. Len(inbox[c]) :
           /\ freeMsg(<<inbox[c][i]>>)
           /\ inbox' = [inbox EXCEPT ![c] = RemoveAt(inbox[c], i)]
    BY <1>1 DEF RecvReturns
  <2>2. UNCHANGED <<waiting_for, reply, wait_queue, tcbfree, frozen>>
    BY <1>1 DEF RecvReturns, queueVars
  <2> DEFINE m0 == inbox[c][i]
  <2>3. /\ Mail(msgfree \o <<m0>>, [inbox EXCEPT ![c] = RemoveAt(inbox[c], i)], tcbfree)
        /\ m0 \in ToSet(inbox[c])
    <3> HIDE DEF c
    <3> QED BY <1>0, <1>t, <1>m, TakeMail
  <2>4. /\ msgfree' = msgfree \o <<m0>>
        /\ m_sender' = [m \in Msg |-> IF m \in ToSet(<<m0>>) THEN NULL ELSE m_sender[m]]
    BY <2>1 DEF freeMsg
  <2>5. MessageConservation'
    <3>1. Mail(msgfree', inbox', tcbfree') BY <2>1, <2>2, <2>3, <2>4
    <3> QED BY <3>1 DEF Mail, MessageConservation
  <2>6. NoLostWakeup'
    <3> SUFFICES ASSUME NEW u \in ToSet(wait_queue) \ frozen,
                        NEW m \in ToSet(inbox'[u])
                 PROVE  waiting_for[u] # ANYMESSAGE /\ m_sender'[m] # waiting_for[u]
      BY <2>2 DEF MailInv, NoLostWakeup, Matches
    <3>1. u \in Tcb /\ u # c BY <1>0
    <3>2. inbox'[u] = inbox[u] BY <2>1, <3>1, <1>t
    <3>3. m \in Msg
      <4>1. inbox[u] \in Seq(Msg) BY <3>1, <1>t
      <4> QED BY <3>2, <4>1, SeqElements
    <3>4. m # m0 BY <3>1, <3>2, <2>3, <1>0, <1>m DEF Mail
    <3>5. m \notin ToSet(<<m0>>)
      <4> HIDE DEF m0
      <4>1. m0 \in {m0} /\ ToSet(<<m0>>) = {m0} BY OneLemma
      <4> QED BY <3>4, <4>1
    <3>6. m_sender'[m] = m_sender[m] BY <2>4, <3>3, <3>5
    <3> QED BY <3>2, <3>6 DEF MailInv, NoLostWakeup, Matches
  <2> QED BY <2>5, <2>6 DEF MailInv
<1>2. CASE RecvBlocks(a1)
  <2>1. /\ \A i \in 1 .. Len(inbox[c]) : ~Matches(inbox[c][i], a1)
        /\ waiting_for' = [waiting_for EXCEPT ![c] = a1]
        /\ reply' = [reply EXCEPT ![c] = TRUE]
        /\ wait_queue' = insertThread(wait_queue, c)
        /\ UNCHANGED <<msgfree, inbox, m_sender, tcbfree, frozen>>
    BY <1>2 DEF RecvBlocks, mailVars
  <2>2. ToSet(wait_queue') = ToSet(wait_queue) \cup {c}
    BY <1>0, <2>1, AppendLemma DEF insertThread, CoreInv, QueuesOK, Partition
  <2>3. MessageConservation' BY <2>1 DEF MailInv, MessageConservation
  <2>4. \A m \in ToSet(inbox[c]) : ~Matches(m, a1)
    BY <1>0, <1>t, <2>1, LenProperties DEF ToSet
  <2>5. reply'[c] /\ waiting_for'[c] = a1 BY <1>0, <1>t, <2>1
  <2>6. \A u \in ToSet(wait_queue) : reply'[u] = reply[u] /\ waiting_for'[u] = waiting_for[u]
    BY <1>0, <1>t, <2>1
  <2> HIDE DEF c
  <2>7. NoLostWakeup'
    BY <2>1, <2>2, <2>4, <2>5, <2>6 DEF MailInv, NoLostWakeup, Matches
  <2> QED BY <2>3, <2>7 DEF MailInv
<1> QED BY <1>1, <1>2 DEF MsgRecv

\* The end of the trap handlers: the thread that freezes is in frozen, so
\* nothing is promised about its inbox until it runs again.
LEMMA MailPassUpOrDie ==
    ASSUME CoreInv, MailInv, NEW k \in TrapKind, kpc \in {"thread", "fault"}, PassUpOrDie(k)
    PROVE  MailInv'
<1> DEFINE s == current_thread
           manager == manager_thread[k][s]
<1>0. s \in Tcb /\ Sending(s) /\ manager \in Tcb \cup {NULL}
  BY DEF CoreInv, CpuOwned, QueuesOK, Partition, Sending, TypeRest
<1>1. CASE manager = NULL
  BY <1>1, MailTerminate DEF PassUpOrDie
<1>2. CASE /\ manager # NULL
           /\ ~SendFaults(s, manager) /\ ~SendPanics(s, manager)
  <2>1. /\ Deliver(s, manager, CAUSE)
        /\ wait_queue' = insertThread(waitAfterSend(s, manager), s)
        /\ waiting_for' = [waitingAfterSend(s, manager) EXCEPT ![s] = manager]
        /\ frozen' = frozenAfterSend(s, manager) \cup {s}
        /\ tcbfree' = tcbfree
    BY <1>2 DEF PassUpOrDie
  <2>2. manager \in Tcb BY <1>0, <1>2
  <2>3. waitAfterSend(s, manager) \in Seq(Tcb)
    BY <2>2, SendQueues DEF CoreInv, Partition
  <2> HIDE DEF manager
  <2>4. /\ Mail(msgfree', inbox', tcbfree)
        /\ \A u \in ToSet(waitAfterSend(s, manager)) \ frozenAfterSend(s, manager) :
              /\ reply'[u]
              /\ \A m \in ToSet(inbox'[u]) :
                    ~(waitingAfterSend(s, manager)[u] = ANYMESSAGE
                        \/ m_sender'[m] = waitingAfterSend(s, manager)[u])
    BY <1>0, <1>2, <2>1, <2>2, DeliverMail
  <2>5. MessageConservation' BY <2>1, <2>4 DEF Mail, MessageConservation
  <2>6. NoLostWakeup'
    <3> SUFFICES ASSUME NEW u \in ToSet(wait_queue') \ frozen'
                 PROVE  /\ reply'[u]
                        /\ \A m \in ToSet(inbox'[u]) :
                              ~(waiting_for'[u] = ANYMESSAGE \/ m_sender'[m] = waiting_for'[u])
      BY DEF NoLostWakeup, Matches
    <3>1. u # s /\ u \notin frozenAfterSend(s, manager) BY <2>1
    <3>2. u \in ToSet(waitAfterSend(s, manager))
      BY <1>0, <2>1, <2>3, <3>1, AppendLemma DEF insertThread
    <3>3. waiting_for'[u] = waitingAfterSend(s, manager)[u] BY <2>1, <3>1
    <3> QED BY <2>4, <3>1, <3>2, <3>3
  <2> QED BY <2>5, <2>6 DEF MailInv
<1>3. CASE /\ manager # NULL
           /\ SendFaults(s, manager) \/ SendPanics(s, manager)
  BY <1>3, MailFrame DEF PassUpOrDie, tcbVars, mailVars, queueVars
<1> QED BY <1>1, <1>2, <1>3

\* Every case of int_handler.
LEMMA MailInterrupt ==
    ASSUME CoreInv, MailInv, Interrupt
    PROVE  MailInv'
<1>1. ASSUME NEW s \in Device \cup {BUS_INTERVALTIMER}, NEW w, NEW requeue,
             InterruptMessage(s, w, requeue)
      PROVE  MailInv'
  BY <1>1, NullNotTcb, MailAfterSend DEF InterruptMessage, InterruptPanics, Sending
<1>2. CASE SliceExpired
  BY <1>2, MailFrame DEF SliceExpired, tcbVars, mailVars
<1>3. CASE InterruptPanic \/ InterruptIgnored
  BY <1>3, MailFrame DEF InterruptPanic, InterruptIgnored, Panic, tcbVars, mailVars, queueVars
<1> QED BY <1>1, <1>2, <1>3 DEF Interrupt, PseudoClockTick, DeviceInterrupt

\* The base case of terminate(): the dead thread's messages go to the free
\* list, and no other inbox holds one of them.
LEMMA MailTerminateLeaf ==
    ASSUME CoreInv, MailInv, TerminateLeaf
    PROVE  MailInv'
<1> DEFINE t == Head(victims)
<1>1. /\ wait_queue' = IF Running(t) THEN wait_queue ELSE outThread(wait_queue, t)
      /\ freeMsg(inbox[t]) /\ inbox' = [inbox EXCEPT ![t] = <<>>]
      /\ tcbfree' = Append(tcbfree, t) /\ frozen' = frozen \ {t}
      /\ UNCHANGED <<reply, waiting_for>>
  BY DEF TerminateLeaf, tcbVars
<1>2. t \in Tcb
  BY TailLemma DEF TerminateLeaf, CoreInv, CpuOwned, TypeRest
<1> HIDE DEF t
<1>3. /\ msgfree \in Seq(Msg) /\ inbox \in [Tcb -> Seq(Msg)] /\ tcbfree \in Seq(Tcb)
      /\ ToSet(wait_queue) \subseteq Tcb /\ wait_queue \in Seq(Tcb) /\ Distinct(wait_queue)
  BY DEF CoreInv, TypeMail, QueuesOK, Partition
<1>4. ToSet(wait_queue') \subseteq ToSet(wait_queue) \ {t}
  <2>1. CASE Running(t)
    BY <2>1, <1>1 DEF Running, thereIsThread, CoreInv, QueuesOK, Partition
  <2>2. CASE ~Running(t)
    <3>1. /\ t \notin ToSet(outThread(wait_queue, t))
          /\ ToSet(outThread(wait_queue, t)) \subseteq ToSet(wait_queue)
      BY <1>3, OutLemma
    <3> QED BY <2>2, <3>1, <1>1
  <2> QED BY <2>1, <2>2
<1>m. Mail(msgfree, inbox, tcbfree) BY MailIsConservation DEF MailInv
<1>5. /\ msgfree' = msgfree \o inbox[t]
      /\ m_sender' = [m \in Msg |-> IF m \in ToSet(inbox[t]) THEN NULL ELSE m_sender[m]]
  BY <1>1 DEF freeMsg
<1>6. MessageConservation'
  <2>1. Mail(msgfree', inbox', tcbfree') BY <1>1, <1>2, <1>3, <1>m, <1>5, DropMail
  <2> QED BY <2>1 DEF Mail, MessageConservation
<1>7. NoLostWakeup'
  <2> SUFFICES ASSUME NEW u \in ToSet(wait_queue) \ frozen, u # t,
                      NEW m \in ToSet(inbox'[u])
               PROVE  waiting_for[u] # ANYMESSAGE /\ m_sender'[m] # waiting_for[u]
    BY <1>1, <1>4 DEF MailInv, NoLostWakeup, Matches
  <2>1. u \in Tcb /\ inbox'[u] = inbox[u] BY <1>1, <1>3
  <2>2. m \in Msg
    <3>1. inbox[u] \in Seq(Msg) BY <2>1, <1>3
    <3> QED BY <2>1, <3>1, SeqElements
  <2>3. m \notin ToSet(inbox[t]) BY <2>1, <1>2, <1>m DEF Mail
  <2>4. m_sender'[m] = m_sender[m] BY <1>5, <2>2, <2>3
  <2> QED BY <2>1, <2>4 DEF MailInv, NoLostWakeup, Matches
<1> QED BY <1>6, <1>7 DEF MailInv

\* The services of the SSI: a TCB that is reused has an empty inbox and waits
\* for nobody.
LEMMA MailService ==
    ASSUME CoreInv, MailInv, ServiceStep
    PROVE  MailInv'
<1>1. ASSUME NEW parent, NEW managers, NEW sibling, CreateThread(parent, managers, sibling)
      PROVE  MailInv'
  <2> DEFINE t == Head(tcbfree)
  <2>1. /\ tcbfree # <<>> /\ tcbfree' = Tail(tcbfree)
        /\ inbox' = [inbox EXCEPT ![t] = <<>>]
        /\ waiting_for' = [waiting_for EXCEPT ![t] = MINUS1]
        /\ reply' = [reply EXCEPT ![t] = FALSE]
        /\ UNCHANGED <<msgfree, m_sender, wait_queue, frozen>>
    BY <1>1 DEF CreateThread, allocTcb
  <2>2. /\ inbox \in [Tcb -> Seq(Msg)] /\ tcbfree \in Seq(Tcb)
        /\ waiting_for \in [Tcb -> Tcb \cup {ANYMESSAGE, MAGIC_SSI}]
        /\ reply \in [Tcb -> BOOLEAN] /\ ToSet(wait_queue) \subseteq Tcb
    BY DEF CoreInv, TypeMail, TypeTcb, QueuesOK, Partition
  <2>3. t \notin ToSet(wait_queue)
    BY <2>1, <2>2, TailLemma DEF CoreInv, QueuesOK, Partition
  <2>m. Mail(msgfree, inbox, tcbfree) BY MailIsConservation DEF MailInv
  <2>4. inbox' = inbox /\ Mail(msgfree, inbox, Tail(tcbfree))
    BY <2>1, <2>2, <2>m, AllocMail
  <2>5. MessageConservation' BY <2>1, <2>4 DEF Mail, MessageConservation
  <2> HIDE DEF t
  <2>6. NoLostWakeup'
    BY <2>1, <2>2, <2>3, <2>4 DEF MailInv, NoLostWakeup, Matches
  <2> QED BY <2>5, <2>6 DEF MailInv
<1>2. ASSUME NEW req, KillThread(req) PROVE MailInv'
  BY <1>2, MailTerminate DEF KillThread
<1>3. ASSUME NEW req, NEW k, NEW m, SpecManager(req, k, m) PROVE MailInv'
  BY <1>3, MailFrame DEF SpecManager, tcbVars, mailVars, queueVars, controlVars
<1>4. CASE ServicePanic
  BY <1>4, MailFrame DEF ServicePanic, Panic, tcbVars, mailVars, queueVars
<1> QED BY <1>1, <1>2, <1>3, <1>4 DEF ServiceStep, CreateSon, CreateBrother

\* The invariant is inductive, relative to the queue discipline.
LEMMA MailNext == CoreInv /\ MailInv /\ [Next]_vars => MailInv'
<1> SUFFICES ASSUME CoreInv, MailInv, [Next]_vars PROVE MailInv' OBVIOUS
<1>1. CASE ThreadStep
  <2>1. ASSUME NEW k \in TrapKind, Trap(k) PROVE MailInv'
    BY <2>1, MailPassUpOrDie DEF Trap, InThread
  <2> QED BY <1>1, <2>1, MailMsgSend, MailMsgRecv DEF ThreadStep
<1>2. CASE ServiceStep BY <1>2, MailService
<1>3. CASE Interrupt BY <1>3, MailInterrupt
<1>4. CASE KernelStep
  <2>1. CASE scheduler
    BY <2>1, MailFrame DEF scheduler, Dispatch, Reload, Idle, tcbVars, mailVars, queueVars
  <2>2. CASE TerminateChild
    BY <2>2, MailFrame DEF TerminateChild, tcbVars, mailVars, queueVars
  <2>3. CASE TerminateLeaf BY <2>3, MailTerminateLeaf
  <2>4. CASE TerminatePanic
    BY <2>4, MailFrame DEF TerminatePanic, Panic, tcbVars, mailVars, queueVars
  <2>5. CASE NestedTrap
    BY <2>5, MailPassUpOrDie, TrapKindAssumption DEF NestedTrap
  <2> QED BY <1>4, <2>1, <2>2, <2>3, <2>4, <2>5 DEF KernelStep
<1>5. CASE Halted \/ UNCHANGED vars
  BY <1>5, MailFrame DEF Halted, vars, tcbVars, mailVars, queueVars, controlVars
<1> QED BY <1>1, <1>2, <1>3, <1>4, <1>5 DEF Next

----------------------------------------------------------------------------
(* The SSI is never frozen by a trap: nobody specifies a manager for it.   *)

SsiUnmanaged ==
    /\ \A k \in TrapKind : manager_thread[k][SSI_tcb] = NULL
    /\ SSI_tcb \notin frozen

\* A send() of a handler freezes nobody.
LEMMA SendFreezesNobody ==
    ASSUME NEW s, NEW t
    PROVE  frozenAfterSend(s, t) \subseteq frozen
BY DEF frozenAfterSend

\* A trap of the SSI terminates it; a trap of another thread freezes that one.
LEMMA SsiPassUpOrDie ==
    ASSUME SsiUnmanaged, NEW k \in TrapKind, PassUpOrDie(k)
    PROVE  manager_thread' = manager_thread /\ SSI_tcb \notin frozen'
<1>1. manager_thread' = manager_thread BY DEF PassUpOrDie, Terminate, managerVars
<1>2. CASE manager_thread[k][current_thread] = NULL
  BY <1>1, <1>2 DEF PassUpOrDie, Terminate, SsiUnmanaged
<1>3. CASE manager_thread[k][current_thread] # NULL
  <2>1. current_thread # SSI_tcb BY <1>3 DEF SsiUnmanaged
  <2>2. \/ frozen' = frozenAfterSend(current_thread, manager_thread[k][current_thread])
                        \cup {current_thread}
        \/ frozen' = frozen
    BY <1>3 DEF PassUpOrDie
  <2> QED BY <1>1, <2>1, <2>2, SendFreezesNobody DEF SsiUnmanaged
<1> QED BY <1>2, <1>3, <1>1

\* The invariant is inductive, relative to the queue discipline: SPECxxxMGR
\* serves other threads only, and the SSI is not free while it creates one.
LEMMA SsiUnmanagedNext == CoreInv /\ SsiUnmanaged /\ [Next]_vars => SsiUnmanaged'
<1> SUFFICES ASSUME CoreInv, SsiUnmanaged, [Next]_vars PROVE SsiUnmanaged' OBVIOUS
<1>f. ASSUME manager_thread' = manager_thread, frozen' \subseteq frozen PROVE SsiUnmanaged'
  BY <1>f DEF SsiUnmanaged
<1>t. ASSUME NEW t, Terminate(t) PROVE SsiUnmanaged'
  BY <1>f, <1>t DEF Terminate, managerVars
<1>1. CASE ThreadStep
  <2>1. ASSUME NEW a1, NEW w, MsgSend(a1, w) PROVE SsiUnmanaged'
    <3>1. CASE TrapTerminate(a1) BY <1>t, <3>1 DEF TrapTerminate
    <3>2. CASE TrapContinue(a1) BY <1>f, <3>2 DEF TrapContinue, managerVars
    <3>3. CASE Send(a1, w) BY <1>f, <3>3, SendFreezesNobody DEF Send, managerVars
    <3>4. CASE SendFails(a1, w) BY <1>f, <3>4 DEF SendFails, managerVars
    <3> QED BY <2>1, <3>1, <3>2, <3>3, <3>4 DEF MsgSend
  <2>2. ASSUME NEW a1, MsgRecv(a1) PROVE SsiUnmanaged'
    BY <1>f, <2>2 DEF MsgRecv, RecvReturns, RecvBlocks, managerVars
  <2>3. ASSUME NEW k \in TrapKind, Trap(k) PROVE SsiUnmanaged'
    BY <2>3, SsiPassUpOrDie DEF Trap, SsiUnmanaged
  <2> QED BY <1>1, <2>1, <2>2, <2>3 DEF ThreadStep
<1>2. CASE ServiceStep
  <2>1. ASSUME NEW parent, NEW managers, NEW sibling, CreateThread(parent, managers, sibling)
        PROVE  SsiUnmanaged'
    <3> DEFINE t == Head(tcbfree)
    <3>1. /\ current_thread = SSI_tcb /\ tcbfree # <<>> /\ frozen' = frozen
          /\ manager_thread' = [k \in TrapKind |->
                                  [manager_thread[k] EXCEPT ![t] = managers[k]]]
      BY <2>1 DEF CreateThread, allocTcb, InSSI
    <3>2. t # SSI_tcb BY <3>1, TailLemma DEF CoreInv, QueuesOK, Partition
    <3> HIDE DEF t
    <3> QED BY <3>1, <3>2 DEF SsiUnmanaged, CoreInv, TypeRest
  <2>2. ASSUME NEW req, KillThread(req) PROVE SsiUnmanaged'
    BY <1>t, <2>2 DEF KillThread
  <2>3. ASSUME NEW req \in User, NEW k \in Managed, NEW m \in User, SpecManager(req, k, m)
        PROVE  SsiUnmanaged'
    <3>1. req # SSI_tcb BY DEF User
    <3> QED BY <2>3, <3>1 DEF SpecManager, SsiUnmanaged, controlVars, CoreInv, TypeRest
  <2>4. CASE ServicePanic BY <1>f, <2>4 DEF ServicePanic, Panic, managerVars
  <2> QED BY <1>2, <2>1, <2>2, <2>3, <2>4 DEF ServiceStep, CreateSon, CreateBrother
<1>3. CASE Interrupt
  <2>1. ASSUME NEW s, NEW w, NEW requeue, InterruptMessage(s, w, requeue)
        PROVE  SsiUnmanaged'
    BY <1>f, <2>1, SendFreezesNobody DEF InterruptMessage, managerVars
  <2>2. CASE SliceExpired \/ InterruptIgnored \/ InterruptPanic
    BY <1>f, <2>2 DEF SliceExpired, InterruptIgnored, InterruptPanic, Panic, managerVars
  <2> QED BY <1>3, <2>1, <2>2 DEF Interrupt, PseudoClockTick, DeviceInterrupt
<1>4. CASE KernelStep
  <2>1. CASE scheduler
    BY <1>f, <2>1 DEF scheduler, Dispatch, Reload, Idle, managerVars
  <2>2. CASE TerminateChild \/ TerminateLeaf \/ TerminatePanic
    BY <1>f, <2>2 DEF TerminateChild, TerminateLeaf, TerminatePanic, Panic, managerVars
  <2>3. CASE NestedTrap
    BY <2>3, SsiPassUpOrDie, TrapKindAssumption DEF NestedTrap, SsiUnmanaged
  <2> QED BY <1>4, <2>1, <2>2, <2>3 DEF KernelStep
<1>5. CASE Halted \/ UNCHANGED vars
  BY <1>f, <1>5 DEF Halted, vars, managerVars, controlVars
<1> QED BY <1>1, <1>2, <1>3, <1>4, <1>5 DEF Next

----------------------------------------------------------------------------
(* A frozen thread waits for the manager of one of its traps, neither for  *)
(* the SSI nor for anybody, so only that manager's messages can wake it.   *)

IsManager(m, t) == \E k \in TrapKind : manager_thread[k][t] = m

FrozenWaits ==
    \A t \in frozen : /\ t \in ToSet(wait_queue) /\ waiting_for[t] \in Tcb
                      /\ IsManager(waiting_for[t], t)

\* The thread that createthread() takes from the free list is not the SSI,
\* which is running.
LEMMA FreshThread ==
    ASSUME CoreInv, InSSI, tcbfree # <<>>
    PROVE  Head(tcbfree) \in User /\ Head(tcbfree) \in ToSet(tcbfree)
BY TailLemma DEF CoreInv, QueuesOK, Partition, InSSI, User

\* The thread that send() wakes is no longer frozen, the others wait as before.
LEMMA FrozenAfterSend ==
    ASSUME CoreInv, FrozenWaits, NEW s, NEW t \in Tcb,
           NEW u \in frozenAfterSend(s, t)
    PROVE  /\ u \in ToSet(waitAfterSend(s, t)) /\ waitingAfterSend(s, t)[u] \in Tcb
           /\ IsManager(waitingAfterSend(s, t)[u], u)
<1>1. wait_queue \in Seq(Tcb) /\ waiting_for \in [Tcb -> Tcb \cup {ANYMESSAGE, MAGIC_SSI}]
  BY DEF CoreInv, QueuesOK, Partition, TypeTcb
<1>2. CASE Wakes(s, t)
  <2>1. u \in frozen /\ u # t BY <1>2 DEF frozenAfterSend
  <2>2. u \in ToSet(outThread(wait_queue, t)) BY <1>1, <2>1, OutLemma DEF FrozenWaits
  <2> QED BY <1>1, <1>2, <2>1, <2>2 DEF waitAfterSend, waitingAfterSend, FrozenWaits
<1>3. CASE ~Wakes(s, t)
  BY <1>3 DEF frozenAfterSend, waitAfterSend, waitingAfterSend, FrozenWaits
<1> QED BY <1>2, <1>3

\* Handlers that freeze nobody, and change neither where the frozen threads
\* are, nor whom they wait for, nor the managers.
LEMMA FrozenFrame ==
    ASSUME FrozenWaits, frozen' \subseteq frozen, waiting_for' = waiting_for,
           manager_thread' = manager_thread,
           \A u \in frozen' : u \in ToSet(wait_queue) => u \in ToSet(wait_queue')
    PROVE  FrozenWaits'
BY DEF FrozenWaits, IsManager

\* A trap freezes the thread that is running, for its manager.
LEMMA FrozenPassUpOrDie ==
    ASSUME CoreInv, FrozenWaits, NEW k \in TrapKind, kpc \in {"thread", "fault"},
           PassUpOrDie(k)
    PROVE  FrozenWaits'
<1> DEFINE s == current_thread
           m == manager_thread[k][s]
<1>1. s \in Tcb /\ m \in Tcb \cup {NULL}
  BY DEF CoreInv, CpuOwned, QueuesOK, Partition, TypeRest
<1>2. CASE m = NULL
  BY <1>2, FrozenFrame DEF PassUpOrDie, Terminate, tcbVars, queueVars, managerVars
<1>3. CASE m # NULL /\ (SendFaults(s, m) \/ SendPanics(s, m))
  BY <1>3, FrozenFrame DEF PassUpOrDie, tcbVars, queueVars, managerVars
<1>4. CASE m # NULL /\ ~SendFaults(s, m) /\ ~SendPanics(s, m)
  <2>1. /\ wait_queue' = insertThread(waitAfterSend(s, m), s)
        /\ waiting_for' = [waitingAfterSend(s, m) EXCEPT ![s] = m]
        /\ frozen' = frozenAfterSend(s, m) \cup {s} /\ manager_thread' = manager_thread
    BY <1>4 DEF PassUpOrDie, managerVars
  <2>2. /\ waitAfterSend(s, m) \in Seq(Tcb)
        /\ waitingAfterSend(s, m) \in [Tcb -> Tcb \cup {ANYMESSAGE, MAGIC_SSI}]
    <3>1. wait_queue \in Seq(Tcb) /\ waiting_for \in [Tcb -> Tcb \cup {ANYMESSAGE, MAGIC_SSI}]
      BY DEF CoreInv, QueuesOK, Partition, TypeTcb
    <3> QED BY <3>1, OutLemma DEF waitAfterSend, waitingAfterSend, MAGIC_SSI
  <2>3. m \in Tcb /\ IsManager(m, s) BY <1>1, <1>4 DEF IsManager
  <2> HIDE DEF m, s
  <2>4. ToSet(wait_queue') = ToSet(waitAfterSend(s, m)) \cup {s}
    BY <1>1, <2>1, <2>2, AppendLemma DEF insertThread
  <2>5. ASSUME NEW u \in frozen'
        PROVE  u \in ToSet(wait_queue') /\ waiting_for'[u] \in Tcb /\ IsManager(waiting_for'[u], u)
    <3>1. CASE u = s BY <1>1, <2>1, <2>2, <2>3, <2>4, <3>1
    <3>2. CASE u # s
      <4>1. /\ u \in ToSet(waitAfterSend(s, m)) /\ waitingAfterSend(s, m)[u] \in Tcb
            /\ IsManager(waitingAfterSend(s, m)[u], u)
        BY <2>1, <2>3, <3>2, FrozenAfterSend
      <4> QED BY <2>1, <2>2, <2>4, <3>2, <4>1
    <3> QED BY <3>1, <3>2
  <2> QED BY <2>1, <2>5 DEF FrozenWaits, IsManager
<1> QED BY <1>2, <1>3, <1>4

\* Every step keeps the frozen threads waiting for their managers.
LEMMA FrozenNext == CoreInv /\ FrozenWaits /\ [Next]_vars => FrozenWaits'
<1> SUFFICES ASSUME CoreInv, FrozenWaits, [Next]_vars PROVE FrozenWaits' OBVIOUS
<1>0. /\ wait_queue \in Seq(Tcb) /\ Distinct(wait_queue)
      /\ waiting_for \in [Tcb -> Tcb \cup {ANYMESSAGE, MAGIC_SSI}]
      /\ kpc = "thread" => current_thread \in Tcb
      /\ current_thread \notin ToSet(wait_queue)
      /\ ToSet(tcbfree) \cap ToSet(wait_queue) = {}
      /\ manager_thread \in [TrapKind -> [Tcb -> Tcb \cup {NULL}]]
  BY DEF CoreInv, QueuesOK, Partition, TypeTcb, TypeRest, CpuOwned
<1>t. ASSUME NEW t, Terminate(t) PROVE FrozenWaits'
  BY <1>t, FrozenFrame DEF Terminate, tcbVars, queueVars, managerVars
<1>s. ASSUME NEW s, NEW t \in Tcb, frozen' = frozenAfterSend(s, t),
             wait_queue' = waitAfterSend(s, t), waiting_for' = waitingAfterSend(s, t),
             manager_thread' = manager_thread
      PROVE  FrozenWaits'
  BY <1>s, FrozenAfterSend DEF FrozenWaits, IsManager
<1>o. ASSUME NEW t, wait_queue' = outThread(wait_queue, t), frozen' = frozen \ {t},
             waiting_for' = waiting_for, manager_thread' = manager_thread
      PROVE  FrozenWaits'
  <2>1. \A u \in frozen' : u \in ToSet(wait_queue) => u \in ToSet(wait_queue')
    BY <1>0, <1>o, OutLemma
  <2> QED BY <1>o, <2>1, FrozenFrame
<1>1. CASE ThreadStep
  <2>1. ASSUME NEW a1, NEW w, MsgSend(a1, w) PROVE FrozenWaits'
    <3>1. CASE TrapTerminate(a1) BY <1>t, <3>1 DEF TrapTerminate
    <3>2. CASE TrapContinue(a1)
      <4>1. CASE thereIsThread(wait_queue, Receiver(a1))
        BY <1>o, <3>2, <4>1 DEF TrapContinue, tcbVars, managerVars
      <4>2. CASE ~thereIsThread(wait_queue, Receiver(a1))
        BY <3>2, <4>2, FrozenFrame DEF TrapContinue, tcbVars, managerVars
      <4> QED BY <4>1, <4>2
    <3>3. CASE Send(a1, w) BY <1>s, <3>3, ReceiverIsTcb DEF Send, managerVars
    <3>4. CASE SendFails(a1, w) BY <3>4, FrozenFrame DEF SendFails, tcbVars, queueVars, managerVars
    <3> QED BY <2>1, <3>1, <3>2, <3>3, <3>4 DEF MsgSend
  <2>2. ASSUME NEW a1, RecvReturns(a1) PROVE FrozenWaits'
    BY <2>2, FrozenFrame DEF RecvReturns, queueVars, managerVars
  <2>3. ASSUME NEW a1, RecvBlocks(a1) PROVE FrozenWaits'
    <3>1. /\ waiting_for' = [waiting_for EXCEPT ![current_thread] = a1]
          /\ wait_queue' = insertThread(wait_queue, current_thread) /\ frozen' = frozen
          /\ current_thread \in Tcb /\ manager_thread' = manager_thread
      BY <1>0, <2>3 DEF RecvBlocks, InThread, managerVars
    <3>2. ToSet(wait_queue) \subseteq ToSet(wait_queue')
      BY <1>0, <3>1, AppendLemma DEF insertThread
    <3>3. \A u \in frozen : u # current_thread BY <1>0 DEF FrozenWaits
    <3> QED BY <1>0, <3>1, <3>2, <3>3 DEF FrozenWaits, IsManager
  <2> QED BY <1>1, <2>1, <2>2, <2>3, FrozenPassUpOrDie DEF ThreadStep, MsgRecv, Trap, InThread
<1>2. CASE ServiceStep
  <2>1. ASSUME NEW parent, NEW managers, NEW sibling, CreateThread(parent, managers, sibling)
        PROVE  FrozenWaits'
    <3> DEFINE t == Head(tcbfree)
    <3>1. /\ waiting_for' = [waiting_for EXCEPT ![t] = MINUS1]
          /\ UNCHANGED <<wait_queue, frozen>> /\ InSSI /\ tcbfree # <<>>
          /\ manager_thread' = [k \in TrapKind |->
                                  [manager_thread[k] EXCEPT ![t] = managers[k]]]
      BY <2>1 DEF CreateThread, allocTcb
    <3>2. t \in ToSet(tcbfree) BY <3>1, FreshThread
    <3> HIDE DEF t
    <3>3. ASSUME NEW u \in frozen
          PROVE  /\ u \in ToSet(wait_queue') /\ waiting_for'[u] = waiting_for[u]
                 /\ \A k \in TrapKind : manager_thread'[k][u] = manager_thread[k][u]
      <4>1. u \in Tcb /\ u # t BY <1>0, <3>2, SeqElements DEF FrozenWaits
      <4> QED BY <1>0, <3>1, <4>1 DEF FrozenWaits
    <3> QED BY <3>1, <3>3 DEF FrozenWaits, IsManager
  <2>2. ASSUME NEW req, KillThread(req) PROVE FrozenWaits'
    BY <1>t, <2>2 DEF KillThread
  <2>3. ASSUME NEW req \in User, NEW k \in Managed, NEW m \in User, SpecManager(req, k, m)
        PROVE  FrozenWaits'
    <3>1. /\ manager_thread' = [manager_thread EXCEPT ![k][req] = m]
          /\ manager_thread[k][req] = NULL
          /\ UNCHANGED <<frozen, wait_queue, waiting_for>>
      BY <2>3 DEF SpecManager, tcbVars, queueVars, controlVars
    <3>2. \A u \in Tcb, j \in TrapKind :
             manager_thread[j][u] # NULL => manager_thread'[j][u] = manager_thread[j][u]
      BY <1>0, <3>1, TrapKindAssumption DEF User
    <3>3. ASSUME NEW u \in frozen
          PROVE  \E j \in TrapKind : manager_thread'[j][u] = waiting_for[u]
      <4>1. u \in Tcb /\ waiting_for[u] # NULL BY <1>0, SeqElements, NullNotTcb DEF FrozenWaits
      <4>2. PICK j \in TrapKind : manager_thread[j][u] = waiting_for[u]
        BY DEF FrozenWaits, IsManager
      <4> QED BY <3>2, <4>1, <4>2
    <3> QED BY <3>1, <3>3 DEF FrozenWaits, IsManager
  <2>4. CASE ServicePanic
    BY <2>4, FrozenFrame DEF ServicePanic, Panic, tcbVars, queueVars, managerVars
  <2> QED BY <1>2, <2>1, <2>2, <2>3, <2>4 DEF ServiceStep, CreateSon, CreateBrother
<1>3. CASE Interrupt
  <2>1. ASSUME NEW s, NEW w, NEW requeue, InterruptMessage(s, w, requeue)
        PROVE  FrozenWaits'
    BY <1>s, <2>1, NullNotTcb DEF InterruptMessage, managerVars
  <2>2. CASE SliceExpired \/ InterruptIgnored \/ InterruptPanic
    BY <2>2, FrozenFrame DEF SliceExpired, InterruptIgnored, InterruptPanic, Panic,
                             tcbVars, queueVars, managerVars
  <2> QED BY <1>3, <2>1, <2>2 DEF Interrupt, PseudoClockTick, DeviceInterrupt
<1>4. CASE KernelStep
  <2>1. CASE scheduler
    BY <2>1, FrozenFrame DEF scheduler, Dispatch, Reload, Idle, tcbVars, queueVars,
                             managerVars
  <2>2. CASE TerminateChild \/ TerminatePanic
    BY <2>2, FrozenFrame DEF TerminateChild, TerminatePanic, Panic, tcbVars, queueVars,
                             managerVars
  <2>3. CASE TerminateLeaf
    <3> DEFINE t == Head(victims)
    <3>1. /\ wait_queue' = IF Running(t) THEN wait_queue ELSE outThread(wait_queue, t)
          /\ frozen' = frozen \ {t} /\ waiting_for' = waiting_for
          /\ manager_thread' = manager_thread
      BY <2>3 DEF TerminateLeaf, tcbVars
    <3> HIDE DEF t
    <3> QED BY <1>o, <3>1, FrozenFrame
  <2>4. CASE NestedTrap
    BY <2>4, FrozenPassUpOrDie, TrapKindAssumption DEF NestedTrap
  <2> QED BY <1>4, <2>1, <2>2, <2>3, <2>4 DEF KernelStep
<1>5. CASE Halted \/ UNCHANGED vars
  BY <1>5, FrozenFrame DEF Halted, vars, tcbVars, queueVars, managerVars, controlVars
<1> QED BY <1>1, <1>2, <1>3, <1>4, <1>5 DEF Next

----------------------------------------------------------------------------
\* The four inductive invariants hold together, from boot on.
LEMMA MailInvariants == Spec => [](CoreInv /\ MailInv /\ SsiUnmanaged /\ FrozenWaits)
<1>1. Init => CoreInv /\ MailInv /\ SsiUnmanaged /\ FrozenWaits
  BY InitCore, InitMail, NullNotTcb DEF Init, SsiUnmanaged, FrozenWaits
<1>2. CoreInv /\ MailInv /\ SsiUnmanaged /\ FrozenWaits /\ [Next]_vars
        => (CoreInv /\ MailInv /\ SsiUnmanaged /\ FrozenWaits)'
  BY CoreNext, MailNext, SsiUnmanagedNext, FrozenNext
<1> QED BY <1>1, <1>2, PTL DEF Spec

\* send(), recv() and terminate() neither lose nor share a message, for any
\* number of threads and messages: each is free or in the inbox of one
\* existing thread.
THEOREM MessagesConserved == Spec => []MessageConservation
BY MailInvariants, PTL DEF MailInv

\* A thread blocked by recv() has left a reply address and its inbox holds no
\* message that it waits for: send() has either woken it or was not awaited.
THEOREM NoWakeupLost == Spec => []NoLostWakeup
BY MailInvariants, PTL DEF MailInv

\* A send() that stores through an invalid reply address wakes a thread that
\* a trap has frozen: its sender is the manager of that trap, which neither the
\* SSI nor int_handler is, and its recipient is not the SSI.
THEOREM OnlyManagersCauseFaults == Spec => []OnlyManagersFault
<1>1. ASSUME CoreInv, MailInv, SsiUnmanaged, FrozenWaits,
             NEW s \in Tcb \cup Device \cup {BUS_INTERVALTIMER}, NEW t \in Tcb, SendFaults(s, t)
      PROVE  /\ s \in User /\ t \in User
             /\ \E k \in TrapKind : manager_thread[k][t] = s
  <2>1. /\ t \in ToSet(wait_queue) /\ ~reply[t]
        /\ waiting_for[t] \in {Sender(s), ANYMESSAGE}
    BY <1>1 DEF SendFaults, Wakes, thereIsThread
  <2>2. t \in frozen BY <1>1, <2>1 DEF MailInv, NoLostWakeup
  <2>3. t \in User BY <1>1, <2>2 DEF SsiUnmanaged, User
  <2>4. waiting_for[t] \in Tcb /\ IsManager(waiting_for[t], t) BY <1>1, <2>2 DEF FrozenWaits
  <2>5. Sender(s) \in Tcb /\ waiting_for[t] = Sender(s)
    BY <2>1, <2>4, NullNotTcb DEF ANYMESSAGE
  <2>6. s = Sender(s) /\ s # SSI_tcb BY <2>5, NullNotTcb DEF Sender, MAGIC_SSI
  <2> QED BY <2>3, <2>4, <2>5, <2>6 DEF IsManager, User
<1>2. CoreInv /\ MailInv /\ SsiUnmanaged /\ FrozenWaits => OnlyManagersFault
  BY <1>1 DEF OnlyManagersFault
<1> QED BY <1>2, MailInvariants, PTL

=============================================================================
