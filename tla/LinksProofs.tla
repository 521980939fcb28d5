----------------------------- MODULE LinksProofs -----------------------------
(***************************************************************************)
(* What the operations of include/listx.h do to rings: a list is a head    *)
(* and a sequence of entries, which list_add_tail extends, list_del        *)
(* shortens and the loop of list_for_each_entry visits, for lists of any   *)
(* length.  This is what allows the module Nucleus to take the lists of    *)
(* tcb.c as sequences.                                                     *)
(*                                                                         *)
(* On top of that, the inductive invariant LinksInv of the module Links,   *)
(* for any number of TCBs, when the SSI is not preempted inside a creation *)
(* and no TCB of a ring of parentless brothers is reused; its invariants;  *)
(* and the implementation of the abstract ThreadTree, step by step.        *)
(***************************************************************************)
EXTENDS Links, QueueProofs, FiniteSetTheorems

\* The i-th entry after the head h of the list q, where the head comes before
\* the first entry and after the last one.
Entry(h, q, i) == IF i \in 1 .. Len(q) THEN q[i] ELSE h

\* The memory l links the head h and the entries q into a ring.
Ring(l, h, q) ==
    /\ q \in Seq(Node) /\ h \in Node
    /\ Distinct(q) /\ h \notin ToSet(q)
    /\ \A i \in 0 .. Len(q) : /\ l.next[Entry(h, q, i)] = Entry(h, q, i + 1)
                              /\ l.prev[Entry(h, q, i + 1)] = Entry(h, q, i)

\* A memory holds two pointers for each list_head.
IsMemory(l) == l \in [next : [Node -> Node], prev : [Node -> Node]]

\* A position of the ring.
LEMMA EntryLemma ==
    ASSUME NEW h \in Node, NEW q \in Seq(Node), Distinct(q), h \notin ToSet(q)
    PROVE  /\ Len(q) \in Nat
           /\ \A i : Entry(h, q, i) \in Node /\ Entry(h, q, i) \in ToSet(q) \cup {h}
           /\ \A i \in 1 .. Len(q) : Entry(h, q, i) = q[i] /\ q[i] # h /\ q[i] \in ToSet(q)
           /\ \A i, j \in 0 .. Len(q) : Entry(h, q, i) = Entry(h, q, j) => i = j
           /\ \A i, j \in 1 .. Len(q) + 1 : Entry(h, q, i) = Entry(h, q, j) => i = j
           /\ Entry(h, q, 0) = h /\ Entry(h, q, Len(q) + 1) = h
<1>1. Len(q) \in Nat BY LenProperties
<1>2. \A i \in 1 .. Len(q) : q[i] \in Node /\ q[i] \in ToSet(q) /\ q[i] # h
  BY LenProperties, ElementOfSeq DEF ToSet
<1>3. \A i \in 1 .. Len(q) : Entry(h, q, i) = q[i] BY DEF Entry
<1>4. \A i : i \notin 1 .. Len(q) => Entry(h, q, i) = h BY DEF Entry
<1>5. \A i : Entry(h, q, i) \in Node /\ Entry(h, q, i) \in ToSet(q) \cup {h}
  BY <1>2, <1>3, <1>4
<1>6. 0 \notin 1 .. Len(q) /\ Len(q) + 1 \notin 1 .. Len(q) BY <1>1
<1>7. ASSUME NEW i \in 0 .. Len(q), NEW j \in 0 .. Len(q), Entry(h, q, i) = Entry(h, q, j)
      PROVE  i = j
  <2>1. CASE i = 0 /\ j = 0 BY <2>1
  <2>2. CASE i = 0 /\ j # 0 BY <2>2, <1>1, <1>2, <1>3, <1>4, <1>6, <1>7
  <2>3. CASE i # 0 /\ j = 0 BY <2>3, <1>1, <1>2, <1>3, <1>4, <1>6, <1>7
  <2>4. CASE i # 0 /\ j # 0
    <3>1. i \in 1 .. Len(q) /\ j \in 1 .. Len(q) BY <2>4, <1>1
    <3> QED BY <3>1, <1>3, <1>7 DEF Distinct
  <2> QED BY <2>1, <2>2, <2>3, <2>4
<1>8. ASSUME NEW i \in 1 .. Len(q) + 1, NEW j \in 1 .. Len(q) + 1,
             Entry(h, q, i) = Entry(h, q, j)
      PROVE  i = j
  <2> DEFINE z == Len(q) + 1
             x == IF i = z THEN 0 ELSE i
             y == IF j = z THEN 0 ELSE j
  <2>1. x \in 0 .. Len(q) /\ y \in 0 .. Len(q) BY <1>1
  <2>2. Entry(h, q, x) = Entry(h, q, i) /\ Entry(h, q, y) = Entry(h, q, j) BY <1>4, <1>6
  <2>3. x = y BY <2>1, <2>2, <1>7, <1>8
  <2> QED BY <2>3, <1>1
<1> QED BY <1>1, <1>2, <1>3, <1>4, <1>5, <1>6, <1>7, <1>8

----------------------------------------------------------------------------
(* list_for_each_entry *)

\* One step of the loop: the pointer pos after i steps from the head h.
LoopsFrom(h, at) ==
    at = [i \in 0 .. 2 * Len(thread_array) |->
            IF i = 0 THEN next[h]
            ELSE LET pos == at[i - 1] IN IF pos = h THEN h ELSE next[pos]]

\* The pointers that the loop visits in a ring are its entries, in order.
LEMMA LoopPositions ==
    ASSUME NEW l, l.next = next, NEW h, NEW q, Ring(l, h, q), NEW at, LoopsFrom(h, at),
           Len(thread_array) \in Nat
    PROVE  /\ DOMAIN at = 0 .. 2 * Len(thread_array)
           /\ \A i \in 0 .. 2 * Len(thread_array) : at[i] = Entry(h, q, i + 1)
<1> DEFINE N == 2 * Len(thread_array)
           bad == {i \in 0 .. N : at[i] # Entry(h, q, i + 1)}
<1>n. N \in Nat OBVIOUS
<1>1. /\ DOMAIN at = 0 .. N
      /\ \A i \in 0 .. N : at[i] = IF i = 0 THEN next[h]
                                   ELSE IF at[i - 1] = h THEN h ELSE next[at[i - 1]]
  BY DEF LoopsFrom
<1> HIDE DEF N
<1>r. /\ h \in Node /\ q \in Seq(Node) /\ Distinct(q) /\ h \notin ToSet(q)
      /\ \A i \in 0 .. Len(q) : next[Entry(h, q, i)] = Entry(h, q, i + 1)
  BY DEF Ring
<1>e. /\ Len(q) \in Nat /\ Entry(h, q, 0) = h
      /\ \A i \in 1 .. Len(q) : Entry(h, q, i) # h
  BY <1>r, EntryLemma
<1>2. bad = {}
  <2> SUFFICES ASSUME bad # {} PROVE FALSE OBVIOUS
  <2>1. bad \in SUBSET Nat BY <1>n
  <2>2. PICK j \in bad : \A k \in bad : j <= k
    <3> HIDE DEF bad
    <3> QED BY <2>1, LeastElement
  <2>3. CASE j = 0
    <3>0. 0 \in 0 .. N BY <1>n
    <3>1. at[0] = next[h]
      <4> HIDE DEF bad
      <4> QED BY <1>1, <3>0
    <3>2. 0 \in 0 .. Len(q) BY <1>e
    <3>3. next[h] = Entry(h, q, 0 + 1) BY <3>2, <1>r, <1>e
    <3> QED BY <2>3, <3>1, <3>3
  <2>4. CASE j # 0
    <3>1. j \in 0 .. N /\ j - 1 \in 0 .. N /\ (j - 1) + 1 = j BY <2>4, <1>n
    <3>2. j - 1 \notin bad BY <2>1, <2>2, <3>1, <1>n
    <3>3. at[j - 1] = Entry(h, q, j) BY <3>1, <3>2
    <3>4. at[j] = IF Entry(h, q, j) = h THEN h ELSE next[Entry(h, q, j)]
      BY <1>1, <2>4, <3>1, <3>3
    <3>5. CASE j \in 1 .. Len(q)
      <4>0. j \in 0 .. Len(q) BY <3>5, <1>e
      <4>1. next[Entry(h, q, j)] = Entry(h, q, j + 1) BY <4>0, <1>r
      <4>2. Entry(h, q, j) # h BY <3>5, <1>e
      <4> QED BY <3>4, <4>1, <4>2
    <3>6. CASE j \notin 1 .. Len(q)
      <4>1. j + 1 \notin 1 .. Len(q) BY <3>6, <3>1, <2>4, <1>e, <1>n
      <4>2. Entry(h, q, j) = h /\ Entry(h, q, j + 1) = h BY <3>6, <4>1 DEF Entry
      <4> QED BY <3>4, <4>2
    <3> QED BY <3>5, <3>6
  <2> QED BY <2>3, <2>4
<1>3. \A i \in 0 .. N : at[i] = Entry(h, q, i + 1) BY <1>2
<1> QED BY <1>1, <1>3 DEF N

\* The loop is a function, that of the entries.
LEMMA LoopExists ==
    ASSUME NEW l, l.next = next, NEW h, NEW q, Ring(l, h, q), Len(thread_array) \in Nat
    PROVE  \E at : LoopsFrom(h, at)
<1> DEFINE N == 2 * Len(thread_array)
           at == [i \in 0 .. N |-> Entry(h, q, i + 1)]
<1>n. N \in Nat OBVIOUS
<1>r. /\ h \in Node /\ q \in Seq(Node) /\ Distinct(q) /\ h \notin ToSet(q)
      /\ \A i \in 0 .. Len(q) : next[Entry(h, q, i)] = Entry(h, q, i + 1)
  BY DEF Ring
<1>e. /\ Len(q) \in Nat /\ Entry(h, q, 0) = h
      /\ \A i \in 1 .. Len(q) : Entry(h, q, i) # h
  BY <1>r, EntryLemma
<1> HIDE DEF N
<1>1. ASSUME NEW i \in 0 .. N
      PROVE  Entry(h, q, i + 1) = IF i = 0 THEN next[h]
                                  ELSE IF at[i - 1] = h THEN h ELSE next[at[i - 1]]
  <2>1. CASE i = 0
    <3>1. 0 \in 0 .. Len(q) BY <1>e
    <3>2. next[h] = Entry(h, q, 0 + 1) BY <3>1, <1>r, <1>e
    <3> QED BY <2>1, <3>2
  <2>2. CASE i # 0
    <3>1. i - 1 \in 0 .. N /\ (i - 1) + 1 = i BY <2>2, <1>n
    <3>2. at[i - 1] = Entry(h, q, i) BY <3>1
    <3> HIDE DEF at
    <3>3. CASE i \in 1 .. Len(q)
      <4>1. next[Entry(h, q, i)] = Entry(h, q, i + 1) /\ Entry(h, q, i) # h
        BY <3>3, <1>e, <1>r
      <4> QED BY <2>2, <3>2, <4>1
    <3>4. CASE i \notin 1 .. Len(q)
      <4>1. i + 1 \notin 1 .. Len(q) BY <3>4, <2>2, <1>e, <1>n
      <4>2. Entry(h, q, i) = h /\ Entry(h, q, i + 1) = h BY <3>4, <4>1 DEF Entry
      <4> QED BY <2>2, <3>2, <4>2
    <3> QED BY <3>3, <3>4
  <2> QED BY <2>1, <2>2
<1>2. at = [i \in 0 .. N |-> IF i = 0 THEN next[h]
                             ELSE IF at[i - 1] = h THEN h ELSE next[at[i - 1]]]
  BY <1>1
<1>3. LoopsFrom(h, at)
  <2> HIDE DEF at
  <2> QED BY <1>2 DEF LoopsFrom, N
<1> QED BY <1>3

\* list_for_each_entry meets the entries of the list, all of them and nothing
\* else: thereIsThread and outThread of tcb.c find a thread if and only if it
\* is linked in the list they search.
THEOREM LoopMeetsEntries ==
    ASSUME NEW l, l.next = next, NEW h, NEW q, Ring(l, h, q), Len(thread_array) \in Nat,
           Len(q) <= Len(thread_array)
    PROVE  Entries(h) = ToSet(q)
<1> DEFINE N == 2 * Len(thread_array)
           W == CHOOSE at : LoopsFrom(h, at)
<1>1. LoopsFrom(h, W)
  <2>1. \E at : LoopsFrom(h, at) BY LoopExists
  <2> QED BY <2>1, Zenon
<1>2. Entries(h) = {W[i] : i \in DOMAIN W} \ {h} BY Zenon DEF Entries, LoopsFrom
<1> HIDE DEF W
<1>3. DOMAIN W = 0 .. N /\ \A i \in 0 .. N : W[i] = Entry(h, q, i + 1)
  BY <1>1, LoopPositions
<1>4. /\ Len(q) \in Nat /\ h \notin ToSet(q) /\ DOMAIN q = 1 .. Len(q)
      /\ \A i : Entry(h, q, i) \in ToSet(q) \cup {h}
      /\ \A i \in 1 .. Len(q) : Entry(h, q, i) = q[i]
  BY EntryLemma, LenProperties DEF Ring
<1>5. ASSUME NEW x \in ToSet(q) PROVE x \in Entries(h)
  <2>1. PICK i \in 1 .. Len(q) : q[i] = x BY <1>4 DEF ToSet
  <2>2. i - 1 \in 0 .. N /\ (i - 1) + 1 = i BY <1>4
  <2>3. W[i - 1] = x BY <2>1, <2>2, <1>3, <1>4
  <2> QED BY <2>2, <2>3, <1>2, <1>3, <1>4
<1>6. ASSUME NEW x \in Entries(h) PROVE x \in ToSet(q) BY <1>2, <1>3, <1>4
<1> QED BY <1>5, <1>6

----------------------------------------------------------------------------
(* list_add_tail and list_del *)

\* A ring that an operation does not touch.
LEMMA RingKept ==
    ASSUME NEW l, NEW r, NEW h, NEW q, Ring(l, h, q),
           \A n \in ToSet(q) \cup {h} : r.next[n] = l.next[n] /\ r.prev[n] = l.prev[n]
    PROVE  Ring(r, h, q)
<1>1. \A i : Entry(h, q, i) \in ToSet(q) \cup {h} BY EntryLemma DEF Ring
<1> QED BY <1>1 DEF Ring

\* One store to the next field of n.
LEMMA StoreNext ==
    ASSUME NEW l, IsMemory(l), NEW n \in Node, NEW v \in Node, NEW r,
           r = [l EXCEPT !.next[n] = v]
    PROVE  IsMemory(r) /\ r.prev = l.prev /\ r.next = [l.next EXCEPT ![n] = v]
BY DEF IsMemory

\* One store to the prev field of n.
LEMMA StorePrev ==
    ASSUME NEW l, IsMemory(l), NEW n \in Node, NEW v \in Node, NEW r,
           r = [l EXCEPT !.prev[n] = v]
    PROVE  IsMemory(r) /\ r.next = l.next /\ r.prev = [l.prev EXCEPT ![n] = v]
BY DEF IsMemory

\* The four stores of __list_add(new, head->prev, head).
LEMMA AddTailStores ==
    ASSUME NEW l, IsMemory(l), NEW new \in Node, NEW h \in Node
    PROVE  LET r == list_add_tail(l, new, h)
               last == l.prev[h]
           IN  /\ IsMemory(r)
               /\ \A n \in Node :
                     /\ r.next[n] = IF n = last THEN new ELSE IF n = new THEN h ELSE l.next[n]
                     /\ r.prev[n] = IF n = new THEN last ELSE IF n = h THEN new ELSE l.prev[n]
<1> DEFINE last == l.prev[h]
           r == list_add_tail(l, new, h)
           l1 == [l EXCEPT !.prev[h] = new]
           l2 == [l1 EXCEPT !.next[new] = h]
           l3 == [l2 EXCEPT !.prev[new] = last]
           l4 == [l3 EXCEPT !.next[last] = new]
<1>r. r = l4 BY DEF list_add_tail
<1>l. l.next \in [Node -> Node] /\ l.prev \in [Node -> Node] /\ last \in Node
  BY DEF IsMemory
<1> HIDE DEF last, l4
<1>3. IsMemory(l3) /\ l3.next = [l.next EXCEPT ![new] = h]
                   /\ l3.prev = [[l.prev EXCEPT ![h] = new] EXCEPT ![new] = last]
  <2> HIDE DEF l1, l2, l3
  <2>1. IsMemory(l1) /\ l1.next = l.next /\ l1.prev = [l.prev EXCEPT ![h] = new]
    <3>1. l1 = [l EXCEPT !.prev[h] = new] BY DEF l1
    <3> QED BY <3>1 DEF IsMemory
  <2>2. IsMemory(l2) /\ l2.prev = l1.prev /\ l2.next = [l1.next EXCEPT ![new] = h]
    <3>1. l2 = [l1 EXCEPT !.next[new] = h] BY DEF l2
    <3> QED BY <2>1, <3>1 DEF IsMemory
  <2>3. IsMemory(l3) /\ l3.next = l2.next /\ l3.prev = [l2.prev EXCEPT ![new] = last]
    <3>1. l3 = [l2 EXCEPT !.prev[new] = last] BY DEF l3
    <3> QED BY <2>2, <3>1, <1>l DEF IsMemory
  <2> QED BY <2>1, <2>2, <2>3
<1> HIDE DEF l3
<1>4. IsMemory(l4) /\ l4.prev = l3.prev /\ l4.next = [l3.next EXCEPT ![last] = new]
  <2>1. l4 = [l3 EXCEPT !.next[last] = new] BY DEF l4
  <2> QED BY <1>3, <2>1, <1>l DEF IsMemory
<1> HIDE DEF r
<1>5. /\ IsMemory(r) /\ r.next = [[l.next EXCEPT ![new] = h] EXCEPT ![last] = new]
      /\ r.prev = [[l.prev EXCEPT ![h] = new] EXCEPT ![new] = last]
  BY <1>r, <1>3, <1>4
<1>6. \A n \in Node :
         /\ r.next[n] = IF n = last THEN new ELSE IF n = new THEN h ELSE l.next[n]
         /\ r.prev[n] = IF n = new THEN last ELSE IF n = h THEN new ELSE l.prev[n]
  BY <1>l, <1>5
<1> QED BY <1>5, <1>6 DEF r, last

\* The two stores of list_del(entry).
LEMMA DelStores ==
    ASSUME NEW l, IsMemory(l), NEW e \in Node
    PROVE  LET r == list_del(l, e)
           IN  /\ IsMemory(r)
               /\ \A n \in Node :
                     /\ r.next[n] = IF n = l.prev[e] THEN l.next[e] ELSE l.next[n]
                     /\ r.prev[n] = IF n = l.next[e] THEN l.prev[e] ELSE l.prev[n]
<1> DEFINE a == l.prev[e]
           b == l.next[e]
           r == list_del(l, e)
           l1 == [l EXCEPT !.prev[b] = a]
           l2 == [l1 EXCEPT !.next[a] = b]
<1>r. r = l2 BY DEF list_del
<1>1. l.next \in [Node -> Node] /\ l.prev \in [Node -> Node] /\ a \in Node /\ b \in Node
  BY DEF IsMemory
<1> HIDE DEF r, a, b, l1, l2
<1>2. IsMemory(l1) /\ l1.next = l.next /\ l1.prev = [l.prev EXCEPT ![b] = a]
  BY <1>1, StorePrev DEF l1
<1>3. IsMemory(l2) /\ l2.prev = l1.prev /\ l2.next = [l1.next EXCEPT ![a] = b]
  BY <1>1, <1>2, StoreNext DEF l2
<1>4. \A n \in Node : /\ r.next[n] = IF n = a THEN b ELSE l.next[n]
                      /\ r.prev[n] = IF n = b THEN a ELSE l.prev[n]
  BY <1>r, <1>1, <1>2, <1>3
<1> QED BY <1>r, <1>3, <1>4 DEF r, a, b

\* insertThread, insertChild and insertSibling: list_add_tail of an entry
\* that is not in the list appends it, and keeps every other list.
THEOREM AddTailAppends ==
    ASSUME NEW l, IsMemory(l), NEW h, NEW q, Ring(l, h, q), NEW new \in Node,
           new # h, new \notin ToSet(q)
    PROVE  /\ Ring(list_add_tail(l, new, h), h, Append(q, new))
           /\ \A g, p : /\ Ring(l, g, p)
                        /\ (ToSet(p) \cup {g}) \cap (ToSet(q) \cup {h, new}) = {}
                        => Ring(list_add_tail(l, new, h), g, p)
<1> DEFINE r == list_add_tail(l, new, h)
           N == Len(q)
           last == l.prev[h]
           aq == Append(q, new)
<1>0. /\ h \in Node /\ q \in Seq(Node) /\ Distinct(q) /\ h \notin ToSet(q)
      /\ \A i \in 0 .. N : /\ l.next[Entry(h, q, i)] = Entry(h, q, i + 1)
                           /\ l.prev[Entry(h, q, i + 1)] = Entry(h, q, i)
  BY DEF Ring
<1>1. /\ N \in Nat
      /\ \A i : Entry(h, q, i) \in Node /\ Entry(h, q, i) \in ToSet(q) \cup {h}
      /\ \A i \in 1 .. N : Entry(h, q, i) = q[i] /\ q[i] # h /\ q[i] \in ToSet(q)
      /\ \A i, j \in 0 .. N : Entry(h, q, i) = Entry(h, q, j) => i = j
      /\ Entry(h, q, 0) = h /\ Entry(h, q, N + 1) = h
  BY <1>0, EntryLemma
<1>2. last = Entry(h, q, N) /\ last \in Node /\ last \in ToSet(q) \cup {h}
  BY <1>0, <1>1
<1>3. /\ IsMemory(r)
      /\ \A n \in Node :
            /\ r.next[n] = IF n = last THEN new ELSE IF n = new THEN h ELSE l.next[n]
            /\ r.prev[n] = IF n = new THEN last ELSE IF n = h THEN new ELSE l.prev[n]
  BY <1>0, AddTailStores
<1> HIDE DEF last, r
<1>4. /\ aq \in Seq(Node) /\ Len(aq) = N + 1 /\ Distinct(aq)
      /\ ToSet(aq) = ToSet(q) \cup {new}
      /\ \A i \in 1 .. N : aq[i] = q[i]
      /\ aq[N + 1] = new
  BY <1>0, AppendLemma, AppendProperties
<1> HIDE DEF aq
<1>5. /\ \A i \in 0 .. N : Entry(h, aq, i) = Entry(h, q, i)
      /\ Entry(h, aq, N + 1) = new /\ Entry(h, aq, N + 2) = h
  BY <1>1, <1>4 DEF Entry
<1>6. ASSUME NEW i \in 0 .. N + 1
      PROVE  /\ r.next[Entry(h, aq, i)] = Entry(h, aq, i + 1)
             /\ r.prev[Entry(h, aq, i + 1)] = Entry(h, aq, i)
  <2>1. CASE i = N + 1
    <3>1. Entry(h, aq, i) = new /\ Entry(h, aq, i + 1) = h BY <2>1, <1>1, <1>5
    <3>2. new # last BY <1>2
    <3> QED BY <3>1, <3>2, <1>0, <1>3
  <2>2. CASE i = N
    <3>1. Entry(h, aq, i) = last /\ Entry(h, aq, i + 1) = new BY <2>2, <1>1, <1>2, <1>5
    <3> QED BY <3>1, <1>2, <1>3
  <2>3. CASE i \in 0 .. N - 1
    <3>1. /\ i \in 0 .. N /\ i + 1 \in 0 .. N /\ i + 1 \in 1 .. N /\ i # N /\ N \in 0 .. N
      BY <2>3, <1>1
    <3>2. Entry(h, aq, i) = Entry(h, q, i) /\ Entry(h, aq, i + 1) = Entry(h, q, i + 1)
      BY <3>1, <1>5
    <3>3. Entry(h, q, i) # last BY <3>1, <1>1, <1>2
    <3>4. Entry(h, q, i) # new /\ Entry(h, q, i) \in Node BY <1>1
    <3>5. Entry(h, q, i + 1) \notin {h, new} /\ Entry(h, q, i + 1) \in Node
      BY <3>1, <1>1
    <3>6. /\ l.next[Entry(h, q, i)] = Entry(h, q, i + 1)
          /\ l.prev[Entry(h, q, i + 1)] = Entry(h, q, i)
      BY <3>1, <1>0
    <3> QED BY <3>2, <3>3, <3>4, <3>5, <3>6, <1>3
  <2> QED BY <2>1, <2>2, <2>3, <1>1
<1>7. Ring(r, h, aq) BY <1>0, <1>4, <1>6 DEF Ring
<1>8. ASSUME NEW g, NEW p, Ring(l, g, p),
             (ToSet(p) \cup {g}) \cap (ToSet(q) \cup {h, new}) = {}
      PROVE  Ring(r, g, p)
  <2>1. ToSet(p) \cup {g} \subseteq Node BY <1>8, SeqElements DEF Ring
  <2>2. \A n \in ToSet(p) \cup {g} : n # last /\ n # new /\ n # h BY <1>2, <1>8
  <2>3. \A n \in ToSet(p) \cup {g} : r.next[n] = l.next[n] /\ r.prev[n] = l.prev[n]
    BY <2>1, <2>2, <1>3
  <2> QED BY <2>3, <1>8, RingKept
<1> QED BY <1>7, <1>8 DEF r, aq

\* removeThread, outThread, removeChild and outChild: list_del takes one entry
\* out of its list, whatever its place, and keeps every other list; nothing of
\* the entry's own pointers matters.
THEOREM DelRemoves ==
    ASSUME NEW l, IsMemory(l), NEW h, NEW q, Ring(l, h, q), NEW k \in 1 .. Len(q)
    PROVE  /\ Ring(list_del(l, q[k]), h, RemoveAt(q, k))
           /\ \A g, p : /\ Ring(l, g, p)
                        /\ (ToSet(p) \cup {g}) \cap (ToSet(q) \cup {h}) = {}
                        => Ring(list_del(l, q[k]), g, p)
<1> DEFINE e == q[k]
           r == list_del(l, e)
           N == Len(q)
           a == Entry(h, q, k - 1)
           b == Entry(h, q, k + 1)
           d == RemoveAt(q, k)
<1>0. /\ h \in Node /\ q \in Seq(Node) /\ Distinct(q) /\ h \notin ToSet(q)
      /\ \A i \in 0 .. N : /\ l.next[Entry(h, q, i)] = Entry(h, q, i + 1)
                           /\ l.prev[Entry(h, q, i + 1)] = Entry(h, q, i)
  BY DEF Ring
<1>1. /\ N \in Nat
      /\ \A i : Entry(h, q, i) \in Node /\ Entry(h, q, i) \in ToSet(q) \cup {h}
      /\ \A i \in 1 .. N : Entry(h, q, i) = q[i]
      /\ \A i, j \in 0 .. N : Entry(h, q, i) = Entry(h, q, j) => i = j
      /\ \A i, j \in 1 .. N + 1 : Entry(h, q, i) = Entry(h, q, j) => i = j
      /\ Entry(h, q, 0) = h /\ Entry(h, q, N + 1) = h
  BY <1>0, EntryLemma
<1>k. k \in 0 .. N /\ k - 1 \in 0 .. N /\ (k - 1) + 1 = k /\ k \in Nat BY <1>1
<1>2. l.next[e] = b /\ l.prev[e] = a /\ e \in Node
  <2>1. Entry(h, q, k) = e BY <1>1
  <2>2. l.next[Entry(h, q, k)] = Entry(h, q, k + 1) BY <1>k, <1>0
  <2>3. l.prev[Entry(h, q, (k - 1) + 1)] = Entry(h, q, k - 1) BY <1>k, <1>0
  <2>4. Entry(h, q, k) \in Node BY <1>1
  <2> QED BY <2>1, <2>2, <2>3, <2>4, <1>k
<1>3. \A n \in Node : /\ r.next[n] = IF n = a THEN b ELSE l.next[n]
                      /\ r.prev[n] = IF n = b THEN a ELSE l.prev[n]
  BY <1>2, DelStores
<1> HIDE DEF r, a, b
<1>4. /\ d \in Seq(Node) /\ Len(d) = N - 1 /\ Distinct(d) /\ ToSet(d) \subseteq ToSet(q)
      /\ \A j \in 1 .. N - 1 : d[j] = IF j < k THEN q[j] ELSE q[j + 1]
  BY <1>0, RemoveAtLemma, RemoveAtIndex
<1> HIDE DEF d
<1>5. \A j \in 0 .. N : Entry(h, d, j) = IF j < k THEN Entry(h, q, j) ELSE Entry(h, q, j + 1)
  <2> SUFFICES ASSUME NEW j \in 0 .. N
               PROVE  Entry(h, d, j) = IF j < k THEN Entry(h, q, j) ELSE Entry(h, q, j + 1)
    OBVIOUS
  <2>1. CASE j \in 1 .. N - 1 /\ j < k
    BY <2>1, <1>1, <1>4 DEF Entry
  <2>2. CASE j \in 1 .. N - 1 /\ ~(j < k)
    BY <2>2, <1>1, <1>4 DEF Entry
  <2>3. CASE j = 0 BY <2>3, <1>1, <1>4, <1>k DEF Entry
  <2>4. CASE j = N /\ j # 0 BY <2>4, <1>1, <1>4, <1>k DEF Entry
  <2> QED BY <2>1, <2>2, <2>3, <2>4, <1>1
<1>6. ASSUME NEW j \in 0 .. N - 1
      PROVE  /\ r.next[Entry(h, d, j)] = Entry(h, d, j + 1)
             /\ r.prev[Entry(h, d, j + 1)] = Entry(h, d, j)
  <2>0. j \in 0 .. N /\ j + 1 \in 0 .. N /\ j \in Nat BY <1>1
  <2>1. CASE j < k - 1
    <3>1. j < k /\ j + 1 < k /\ j # k - 1 /\ j + 1 # k + 1
          /\ j + 1 \in 1 .. N + 1 /\ k + 1 \in 1 .. N + 1
      BY <2>1, <2>0, <1>k, <1>1
    <3>2. Entry(h, d, j) = Entry(h, q, j) /\ Entry(h, d, j + 1) = Entry(h, q, j + 1)
      BY <3>1, <2>0, <1>5
    <3>3. Entry(h, q, j) # a BY <3>1, <2>0, <1>k, <1>1 DEF a
    <3>4. Entry(h, q, j + 1) # b BY <3>1, <1>1 DEF b
    <3>5. l.next[Entry(h, q, j)] = Entry(h, q, j + 1) /\ l.prev[Entry(h, q, j + 1)] = Entry(h, q, j)
      BY <2>0, <1>0
    <3>6. Entry(h, q, j) \in Node /\ Entry(h, q, j + 1) \in Node BY <1>1
    <3> QED BY <3>2, <3>3, <3>4, <3>5, <3>6, <1>3
  <2>2. CASE j = k - 1
    <3>1. j < k /\ ~(j + 1 < k) /\ j + 1 = k BY <2>2, <1>k
    <3>2. Entry(h, d, j) = a /\ Entry(h, d, j + 1) = b BY <3>1, <2>0, <2>2, <1>5 DEF a, b
    <3>3. a \in Node /\ b \in Node BY <1>1 DEF a, b
    <3> QED BY <3>2, <3>3, <1>3
  <2>3. CASE j > k - 1
    <3>1. ~(j < k) /\ ~(j + 1 < k) /\ j + 1 # k - 1 /\ (j + 1) + 1 # k + 1
          /\ (j + 1) + 1 \in 1 .. N + 1 /\ k + 1 \in 1 .. N + 1
      BY <2>3, <2>0, <1>k, <1>1
    <3>2. /\ Entry(h, d, j) = Entry(h, q, j + 1)
          /\ Entry(h, d, j + 1) = Entry(h, q, (j + 1) + 1)
      BY <3>1, <2>0, <1>5
    <3>3. Entry(h, q, j + 1) # a BY <3>1, <2>0, <1>k, <1>1 DEF a
    <3>4. Entry(h, q, (j + 1) + 1) # b BY <3>1, <1>1 DEF b
    <3>5. /\ l.next[Entry(h, q, j + 1)] = Entry(h, q, (j + 1) + 1)
          /\ l.prev[Entry(h, q, (j + 1) + 1)] = Entry(h, q, j + 1)
      BY <2>0, <1>0
    <3>6. Entry(h, q, j + 1) \in Node /\ Entry(h, q, (j + 1) + 1) \in Node BY <1>1
    <3> QED BY <3>2, <3>3, <3>4, <3>5, <3>6, <1>3
  <2> QED BY <2>1, <2>2, <2>3, <2>0, <1>k
<1>7. Ring(r, h, d) BY <1>0, <1>4, <1>6 DEF Ring
<1>8. ASSUME NEW g, NEW p, Ring(l, g, p), (ToSet(p) \cup {g}) \cap (ToSet(q) \cup {h}) = {}
      PROVE  Ring(r, g, p)
  <2>1. ToSet(p) \cup {g} \subseteq Node BY <1>8, SeqElements DEF Ring
  <2>2. a \in ToSet(q) \cup {h} /\ b \in ToSet(q) \cup {h} BY <1>1 DEF a, b
  <2>3. \A n \in ToSet(p) \cup {g} : r.next[n] = l.next[n] /\ r.prev[n] = l.prev[n]
    BY <2>1, <2>2, <1>3, <1>8
  <2> QED BY <2>3, <1>8, RingKept
<1> QED BY <1>7, <1>8 DEF r, d

----------------------------------------------------------------------------
(* Lists as sets of entries *)

\* The list of the head h holds the entries S, in some order.
Linked(l, h, S) == \E q : Ring(l, h, q) /\ ToSet(q) = S

\* The list_head fields of a TCB are objects of their own: t_next, t_sib and
\* t_child of different TCBs, and the queue heads, never overlap.
LEMMA NodeKinds ==
    /\ \A t, u : /\ t_next(t) = t_next(u) => t = u
                 /\ t_sib(t) = t_sib(u) => t = u
                 /\ t_child(t) = t_child(u) => t = u
                 /\ t_next(t) # t_sib(u) /\ t_next(t) # t_child(u) /\ t_sib(t) # t_child(u)
    /\ \A t : t_next(t) \notin Queue /\ t_sib(t) \notin Queue /\ t_child(t) \notin Queue
    /\ \A t : Container(t_next(t)) = t /\ Container(t_sib(t)) = t
    /\ \A t \in Tcb : t_next(t) \in Node /\ t_sib(t) \in Node /\ t_child(t) \in Node
    /\ Queue \subseteq Node
    /\ ready_queue \in Queue /\ wait_queue \in Queue /\ tcbfree_sentinel \in Queue
    /\ ready_queue # wait_queue /\ ready_queue # tcbfree_sentinel
    /\ wait_queue # tcbfree_sentinel
BY DEF t_next, t_sib, t_child, Container, Node, Queue, ready_queue, wait_queue, tcbfree_sentinel

\* The pointers of a list stay in it, and those of its two ends meet.
LEMMA LinkedFacts ==
    ASSUME NEW l, NEW h, NEW S, Linked(l, h, S)
    PROVE  /\ h \in Node /\ S \subseteq Node /\ h \notin S
           /\ l.next[h] = h <=> S = {}
           /\ \A n \in S \cup {h} : /\ l.next[n] \in S \cup {h} /\ l.prev[n] \in S \cup {h}
                                    /\ l.prev[l.next[n]] = n
<1>1. PICK q : Ring(l, h, q) /\ ToSet(q) = S BY DEF Linked
<1> DEFINE N == Len(q)
<1>0. /\ h \in Node /\ q \in Seq(Node) /\ Distinct(q) /\ h \notin ToSet(q)
      /\ \A i \in 0 .. N : /\ l.next[Entry(h, q, i)] = Entry(h, q, i + 1)
                           /\ l.prev[Entry(h, q, i + 1)] = Entry(h, q, i)
  BY <1>1 DEF Ring
<1>2. /\ N \in Nat /\ DOMAIN q = 1 .. N
      /\ \A i : Entry(h, q, i) \in Node /\ Entry(h, q, i) \in ToSet(q) \cup {h}
      /\ \A i \in 1 .. N : Entry(h, q, i) = q[i] /\ q[i] # h /\ q[i] \in ToSet(q)
      /\ Entry(h, q, 0) = h /\ Entry(h, q, N + 1) = h
  BY <1>0, EntryLemma, LenProperties
<1> HIDE DEF N
<1>3. S \subseteq Node BY <1>0, <1>1, SeqElements
<1>4. ASSUME NEW n \in S \cup {h}
      PROVE  \E i \in 0 .. N, j \in 0 .. N : Entry(h, q, i) = n /\ Entry(h, q, j + 1) = n
  <2>1. CASE n = h
    <3>1. 0 \in 0 .. N /\ N \in 0 .. N BY <1>2
    <3> QED BY <2>1, <3>1, <1>2
  <2>2. CASE n \in S
    <3>1. PICK i \in 1 .. N : q[i] = n BY <2>2, <1>1, <1>2 DEF ToSet
    <3>2. i \in 0 .. N /\ i - 1 \in 0 .. N /\ (i - 1) + 1 = i BY <1>2
    <3>3. Entry(h, q, i) = n BY <3>1, <1>2
    <3> QED BY <3>2, <3>3
  <2> QED BY <2>1, <2>2
<1>5. ASSUME NEW n \in S \cup {h}
      PROVE  l.next[n] \in S \cup {h} /\ l.prev[n] \in S \cup {h} /\ l.prev[l.next[n]] = n
  <2>1. PICK i \in 0 .. N, j \in 0 .. N : Entry(h, q, i) = n /\ Entry(h, q, j + 1) = n BY <1>4
  <2>2. l.next[n] = Entry(h, q, i + 1) /\ l.prev[Entry(h, q, i + 1)] = n BY <2>1, <1>0
  <2>3. l.prev[n] = Entry(h, q, j) BY <2>1, <1>0
  <2> QED BY <2>2, <2>3, <1>1, <1>2
<1>6. l.next[h] = h <=> S = {}
  <2>1. 0 \in 0 .. N BY <1>2
  <2>2. l.next[h] = Entry(h, q, 0 + 1) BY <2>1, <1>0, <1>2
  <2>3. CASE N = 0
    <3>1. S = {} BY <2>3, <1>1, <1>2 DEF ToSet
    <3>2. Entry(h, q, 0 + 1) = h BY <2>3, <1>2
    <3> QED BY <3>1, <3>2, <2>2
  <2>4. CASE N # 0
    <3>1. 1 \in 1 .. N BY <2>4, <1>2
    <3>2. Entry(h, q, 0 + 1) \in S /\ Entry(h, q, 0 + 1) # h BY <3>1, <1>1, <1>2
    <3> QED BY <3>2, <2>2
  <2> QED BY <2>3, <2>4
<1> QED BY <1>0, <1>1, <1>3, <1>5, <1>6

\* A list that a step does not touch.
LEMMA LinkedKept ==
    ASSUME NEW l, NEW r, NEW h, NEW S, Linked(l, h, S),
           \A n \in S \cup {h} : r.next[n] = l.next[n] /\ r.prev[n] = l.prev[n]
    PROVE  Linked(r, h, S)
<1>1. PICK q : Ring(l, h, q) /\ ToSet(q) = S BY DEF Linked
<1>2. Ring(r, h, q) BY <1>1, RingKept
<1> QED BY <1>1, <1>2 DEF Linked

\* list_add_tail of an entry that is not in the list.
LEMMA LinkedAdd ==
    ASSUME NEW l, IsMemory(l), NEW h, NEW S, Linked(l, h, S), NEW new \in Node,
           new # h, new \notin S
    PROVE  LET r == list_add_tail(l, new, h)
           IN  /\ IsMemory(r)
               /\ Linked(r, h, S \cup {new})
               /\ \A n \in Node \ (S \cup {h, new}) : /\ r.next[n] = l.next[n]
                                                      /\ r.prev[n] = l.prev[n]
<1> DEFINE r == list_add_tail(l, new, h)
           last == l.prev[h]
<1>1. PICK q : Ring(l, h, q) /\ ToSet(q) = S BY DEF Linked
<1>2. h \in Node /\ last \in S \cup {h} BY LinkedFacts
<1>3. /\ IsMemory(r)
      /\ \A n \in Node :
            /\ r.next[n] = IF n = last THEN new ELSE IF n = new THEN h ELSE l.next[n]
            /\ r.prev[n] = IF n = new THEN last ELSE IF n = h THEN new ELSE l.prev[n]
  BY <1>2, AddTailStores
<1>4. Ring(r, h, Append(q, new)) BY <1>1, AddTailAppends
<1>5. q \in Seq(Node) BY <1>1 DEF Ring
<1>6. ToSet(Append(q, new)) = S \cup {new} BY <1>1, <1>5, AppendLemma
<1> HIDE DEF r, last
<1>7. Linked(r, h, S \cup {new}) BY <1>4, <1>6 DEF Linked
<1>8. \A n \in Node \ (S \cup {h, new}) : r.next[n] = l.next[n] /\ r.prev[n] = l.prev[n]
  BY <1>2, <1>3
<1> QED BY <1>3, <1>7, <1>8 DEF r

\* list_del of an entry of the list.
LEMMA LinkedDel ==
    ASSUME NEW l, IsMemory(l), NEW h, NEW S, Linked(l, h, S), NEW e \in S
    PROVE  LET r == list_del(l, e)
           IN  /\ IsMemory(r)
               /\ Linked(r, h, S \ {e})
               /\ \A n \in Node \ (S \cup {h}) : /\ r.next[n] = l.next[n]
                                                 /\ r.prev[n] = l.prev[n]
<1> DEFINE r == list_del(l, e)
<1>1. PICK q : Ring(l, h, q) /\ ToSet(q) = S BY DEF Linked
<1>2. e \in Node /\ l.next[e] \in S \cup {h} /\ l.prev[e] \in S \cup {h} BY LinkedFacts
<1>3. /\ IsMemory(r)
      /\ \A n \in Node : /\ r.next[n] = IF n = l.prev[e] THEN l.next[e] ELSE l.next[n]
                         /\ r.prev[n] = IF n = l.next[e] THEN l.prev[e] ELSE l.prev[n]
  BY <1>2, DelStores
<1>5. q \in Seq(Node) /\ DOMAIN q = 1 .. Len(q) /\ Distinct(q) BY <1>1, LenProperties DEF Ring
<1>6. PICK k \in 1 .. Len(q) : q[k] = e BY <1>1, <1>5 DEF ToSet
<1>7. Ring(list_del(l, q[k]), h, RemoveAt(q, k)) BY <1>1, DelRemoves
<1>8. ToSet(RemoveAt(q, k)) = S \ {e} BY <1>1, <1>5, <1>6, RemoveAtLemma
<1> HIDE DEF r
<1>9. Linked(r, h, S \ {e}) BY <1>6, <1>7, <1>8 DEF Linked, r
<1>10. \A n \in Node \ (S \cup {h}) : r.next[n] = l.next[n] /\ r.prev[n] = l.prev[n]
  BY <1>2, <1>3
<1> QED BY <1>3, <1>9, <1>10 DEF r

----------------------------------------------------------------------------
(* The queues and the lists of children *)

\* The entries that stand for the threads S in a queue, or in a list of children.
Nexts(S) == {t_next(t) : t \in S}
Sibs(S) == {t_sib(t) : t \in S}

\* The threads whose t_parent, in the function par, is p.
Kids(par, p) == {c \in Tcb : par[c] = p}

\* The queues of the memory l hold the threads Q, each in one queue at most.
Queues(l, Q) ==
    /\ Q \in [Queue -> SUBSET Tcb]
    /\ \A g, h \in Queue : g # h => Q[g] \cap Q[h] = {}
    /\ \A h \in Queue : Linked(l, h, Nexts(Q[h]))

\* The list of children of every thread holds those that name it their parent.
Children(l, par) == \A p \in Tcb : Linked(l, t_child(p), Sibs(Kids(par, p)))

\* thread_array holds finitely many TCBs, each once.
LEMMA PoolSize ==
    IsFiniteSet(Tcb) /\ Cardinality(Tcb) = Len(thread_array) /\ Len(thread_array) \in Nat
<1> DEFINE N == Len(thread_array)
<1>1. /\ N \in Nat /\ DOMAIN thread_array = 1 .. N
      /\ \A i \in 1 .. N : thread_array[i] \in Tcb
      /\ thread_array = [i \in 1 .. N |-> thread_array[i]]
  BY LinksAssumption, LenProperties DEF Tcb, ToSet
<1>2. thread_array \in [1 .. N -> Tcb] BY <1>1
<1>3. thread_array \in Injection(1 .. N, Tcb)
  BY <1>1, <1>2, LinksAssumption DEF Injection, IsInjective, Distinct
<1>4. thread_array \in Surjection(1 .. N, Tcb) BY <1>1, <1>2 DEF Surjection, Tcb, ToSet
<1>5. ExistsBijection(1 .. N, Tcb) BY <1>3, <1>4 DEF ExistsBijection, Bijection
<1>6. IsFiniteSet(1 .. N) /\ Cardinality(1 .. N) = N
  <2>1. 1 \in Int /\ N \in Int BY <1>1
  <2>2. /\ IsFiniteSet(1 .. N)
        /\ Cardinality(1 .. N) = IF 1 > N THEN 0 ELSE N - 1 + 1
    BY <2>1, FS_Interval
  <2> QED BY <1>1, <2>2
<1> HIDE DEF N
<1>7. IsFiniteSet(Tcb) /\ Cardinality(Tcb) = N BY <1>5, <1>6, FS_Bijection
<1> QED BY <1>1, <1>7 DEF N

\* A list without repetition of one field of some TCBs is no longer than the array.
LEMMA ListLength ==
    ASSUME NEW q \in Seq(Node), Distinct(q), NEW T \in SUBSET Tcb,
           ToSet(q) = Nexts(T) \/ ToSet(q) = Sibs(T)
    PROVE  Len(q) <= Len(thread_array)
<1> DEFINE N == Len(q)
           f == [i \in 1 .. N |-> Container(q[i])]
<1>1. N \in Nat /\ DOMAIN q = 1 .. N BY LenProperties
<1>2. \A i \in 1 .. N : q[i] \in ToSet(q) BY <1>1 DEF ToSet
<1> HIDE DEF N
<1>3. ASSUME NEW i \in 1 .. N
      PROVE  /\ Container(q[i]) \in Tcb
             /\ ToSet(q) = Nexts(T) => q[i] = t_next(Container(q[i]))
             /\ ToSet(q) # Nexts(T) => q[i] = t_sib(Container(q[i]))
  <2>1. CASE ToSet(q) = Nexts(T)
    <3>1. PICK t \in T : q[i] = t_next(t) BY <1>2, <2>1 DEF Nexts
    <3> QED BY <2>1, <3>1, NodeKinds
  <2>2. CASE ToSet(q) # Nexts(T)
    <3>1. PICK t \in T : q[i] = t_sib(t) BY <1>2, <2>2 DEF Sibs
    <3> QED BY <2>2, <3>1, NodeKinds
  <2> QED BY <2>1, <2>2
<1>4. ASSUME NEW i \in 1 .. N, NEW j \in 1 .. N, Container(q[i]) = Container(q[j])
      PROVE  i = j
  <2>1. q[i] = q[j] BY <1>3, <1>4
  <2> QED BY <2>1 DEF Distinct, N
<1>5. f \in Injection(1 .. N, Tcb)
  <2>1. f \in [1 .. N -> Tcb] BY <1>3
  <2>2. IsInjective(f) BY <1>4 DEF IsInjective
  <2> QED BY <2>1, <2>2 DEF Injection
<1> HIDE DEF f
<1>6. Cardinality(1 .. N) <= Cardinality(Tcb) BY <1>5, PoolSize, FS_Injection
<1>7. Cardinality(1 .. N) = N
  <2>1. 1 \in Int /\ N \in Int BY <1>1
  <2>2. Cardinality(1 .. N) = IF 1 > N THEN 0 ELSE N - 1 + 1 BY <2>1, FS_Interval
  <2> QED BY <1>1, <2>2
<1> QED BY <1>6, <1>7, PoolSize DEF N

\* list_for_each_entry over a queue or a list of children meets its threads.
LEMMA EntriesLinked ==
    ASSUME NEW l, l.next = next, NEW h, NEW T \in SUBSET Tcb
    PROVE  /\ Linked(l, h, Nexts(T)) => Entries(h) = Nexts(T)
           /\ Linked(l, h, Sibs(T)) => Entries(h) = Sibs(T)
<1>1. ASSUME NEW S, Linked(l, h, S), S = Nexts(T) \/ S = Sibs(T)
      PROVE  Entries(h) = S
  <2>1. PICK q : Ring(l, h, q) /\ ToSet(q) = S BY <1>1 DEF Linked
  <2>2. q \in Seq(Node) /\ Distinct(q) BY <2>1 DEF Ring
  <2>3. Len(q) <= Len(thread_array) BY <1>1, <2>1, <2>2, ListLength
  <2> QED BY <2>1, <2>3, PoolSize, LoopMeetsEntries
<1> QED BY <1>1

\* Membership of the sets of entries.
LEMMA NextsSibs ==
    /\ \A S, t : (t_next(t) \in Nexts(S) <=> t \in S) /\ t_sib(t) \notin Nexts(S)
                 /\ t_child(t) \notin Nexts(S)
    /\ \A S, t : (t_sib(t) \in Sibs(S) <=> t \in S) /\ t_next(t) \notin Sibs(S)
                 /\ t_child(t) \notin Sibs(S)
    /\ \A S : Queue \cap Nexts(S) = {} /\ Queue \cap Sibs(S) = {}
    /\ \A S, T : Nexts(S) \cap Sibs(T) = {}
    /\ \A S, T : S \cap T = {} => Nexts(S) \cap Nexts(T) = {} /\ Sibs(S) \cap Sibs(T) = {}
    /\ \A S, t : Nexts(S \cup {t}) = Nexts(S) \cup {t_next(t)}
                 /\ Sibs(S \cup {t}) = Sibs(S) \cup {t_sib(t)}
    /\ \A S, t : Nexts(S \ {t}) = Nexts(S) \ {t_next(t)} /\ Sibs(S \ {t}) = Sibs(S) \ {t_sib(t)}
    /\ \A S : (Nexts(S) = {} <=> S = {}) /\ (Sibs(S) = {} <=> S = {})
<1>1. \A S, t : (t_next(t) \in Nexts(S) <=> t \in S) /\ t_sib(t) \notin Nexts(S)
                /\ t_child(t) \notin Nexts(S)
  BY NodeKinds DEF Nexts, Sibs
<1>2. \A S, t : (t_sib(t) \in Sibs(S) <=> t \in S) /\ t_next(t) \notin Sibs(S)
                /\ t_child(t) \notin Sibs(S)
  BY NodeKinds DEF Nexts, Sibs
<1>3. \A S : Queue \cap Nexts(S) = {} /\ Queue \cap Sibs(S) = {} BY NodeKinds DEF Nexts, Sibs
<1>4. \A S, T : Nexts(S) \cap Sibs(T) = {} BY NodeKinds DEF Nexts, Sibs
<1>5. \A S, T : S \cap T = {} => Nexts(S) \cap Nexts(T) = {} /\ Sibs(S) \cap Sibs(T) = {} BY NodeKinds DEF Nexts, Sibs
<1>6. \A S, t : Nexts(S \cup {t}) = Nexts(S) \cup {t_next(t)}
                /\ Sibs(S \cup {t}) = Sibs(S) \cup {t_sib(t)}
  BY NodeKinds DEF Nexts, Sibs
<1>7. \A S, t : Nexts(S \ {t}) = Nexts(S) \ {t_next(t)} /\ Sibs(S \ {t}) = Sibs(S) \ {t_sib(t)}
  BY NodeKinds DEF Nexts, Sibs
<1>8. \A S : (Nexts(S) = {} <=> S = {}) /\ (Sibs(S) = {} <=> S = {}) BY NodeKinds DEF Nexts, Sibs
<1> QED BY <1>1, <1>2, <1>3, <1>4, <1>5, <1>6, <1>7, <1>8

\* A step that leaves the pointers of every linked entry alone keeps all lists.
LEMMA ListsKept ==
    ASSUME NEW l, NEW r, NEW Q, NEW par, Queues(l, Q), Children(l, par), NULL \notin Tcb,
           \A n \in Queue : r.next[n] = l.next[n] /\ r.prev[n] = l.prev[n],
           \A h \in Queue : \A t \in Q[h] :
               r.next[t_next(t)] = l.next[t_next(t)] /\ r.prev[t_next(t)] = l.prev[t_next(t)],
           \A t \in Tcb :
               r.next[t_child(t)] = l.next[t_child(t)] /\ r.prev[t_child(t)] = l.prev[t_child(t)],
           \A t \in Tcb : par[t] # NULL =>
               r.next[t_sib(t)] = l.next[t_sib(t)] /\ r.prev[t_sib(t)] = l.prev[t_sib(t)]
    PROVE  Queues(r, Q) /\ Children(r, par)
<1>1. ASSUME NEW h \in Queue PROVE Linked(r, h, Nexts(Q[h]))
  <2>1. Linked(l, h, Nexts(Q[h])) BY DEF Queues
  <2>2. \A n \in Nexts(Q[h]) \cup {h} : r.next[n] = l.next[n] /\ r.prev[n] = l.prev[n]
    BY DEF Nexts
  <2> QED BY <2>1, <2>2, LinkedKept
<1>2. ASSUME NEW p \in Tcb PROVE Linked(r, t_child(p), Sibs(Kids(par, p)))
  <2>1. Linked(l, t_child(p), Sibs(Kids(par, p))) BY DEF Children
  <2>2. \A n \in Sibs(Kids(par, p)) \cup {t_child(p)} :
           r.next[n] = l.next[n] /\ r.prev[n] = l.prev[n]
    BY DEF Sibs, Kids
  <2> QED BY <2>1, <2>2, LinkedKept
<1> QED BY <1>1, <1>2 DEF Queues, Children

\* The queues Q with t in the queue h, and with t taken out of it.
With(Q, h, t) == [Q EXCEPT ![h] = Q[h] \cup {t}]
Without(Q, h, t) == [Q EXCEPT ![h] = Q[h] \ {t}]

\* insertThread of a thread that is in no queue.
LEMMA QueueAdd ==
    ASSUME NEW l, IsMemory(l), NEW Q, NEW par, Queues(l, Q), Children(l, par),
           NEW h \in Queue, NEW t \in Tcb, \A g \in Queue : t \notin Q[g]
    PROVE  LET r == insertThread(l, h, t)
           IN  /\ IsMemory(r)
               /\ Queues(r, With(Q, h, t))
               /\ Children(r, par)
               /\ \A c \in Tcb : r.prev[t_sib(c)] = l.prev[t_sib(c)]
<1> DEFINE r == insertThread(l, h, t)
           P == With(Q, h, t)
           S == Nexts(Q[h])
<1>1. Linked(l, h, S) BY DEF Queues
<1>2. t_next(t) \in Node /\ t_next(t) # h /\ t_next(t) \notin S BY NodeKinds, NextsSibs
<1>3. /\ IsMemory(r)
      /\ Linked(r, h, S \cup {t_next(t)})
      /\ \A n \in Node \ (S \cup {h, t_next(t)}) : r.next[n] = l.next[n] /\ r.prev[n] = l.prev[n]
  BY <1>1, <1>2, LinkedAdd DEF insertThread
<1> HIDE DEF r
<1>4. P \in [Queue -> SUBSET Tcb] /\ P[h] = Q[h] \cup {t} /\ \A g \in Queue \ {h} : P[g] = Q[g]
  BY DEF Queues, With
<1> HIDE DEF P
<1>5. Nexts(P[h]) = S \cup {t_next(t)} BY <1>4, NextsSibs
<1> HIDE DEF S
<1>6. ASSUME NEW g \in Queue PROVE Linked(r, g, Nexts(P[g]))
  <2>1. CASE g = h BY <2>1, <1>3, <1>5
  <2>2. CASE g # h
    <3>1. Linked(l, g, Nexts(Q[g])) /\ Q[g] \cap Q[h] = {} /\ t \notin Q[g] BY <2>2 DEF Queues
    <3>2. Nexts(Q[g]) \subseteq Node /\ g \in Node BY <3>1, LinkedFacts
    <3>3. \A n \in Nexts(Q[g]) \cup {g} : n \notin S \cup {h, t_next(t)}
      BY <2>2, <3>1, NodeKinds, NextsSibs DEF S
    <3>4. \A n \in Nexts(Q[g]) \cup {g} : r.next[n] = l.next[n] /\ r.prev[n] = l.prev[n]
      BY <1>3, <3>2, <3>3
    <3>5. Linked(r, g, Nexts(Q[g])) BY <3>1, <3>4, LinkedKept
    <3> QED BY <2>2, <3>5, <1>4
  <2> QED BY <2>1, <2>2
<1>7. ASSUME NEW g \in Queue, NEW k \in Queue, g # k PROVE P[g] \cap P[k] = {}
  BY <1>4, <1>7 DEF Queues
<1>8. Queues(r, P) BY <1>4, <1>6, <1>7 DEF Queues
<1>9. ASSUME NEW p \in Tcb PROVE Linked(r, t_child(p), Sibs(Kids(par, p)))
  <2>1. Linked(l, t_child(p), Sibs(Kids(par, p))) BY DEF Children
  <2>2. Sibs(Kids(par, p)) \subseteq Node /\ t_child(p) \in Node BY <2>1, LinkedFacts
  <2>3. \A n \in Sibs(Kids(par, p)) \cup {t_child(p)} : n \notin S \cup {h, t_next(t)}
    BY NodeKinds, NextsSibs DEF S
  <2>4. \A n \in Sibs(Kids(par, p)) \cup {t_child(p)} :
           r.next[n] = l.next[n] /\ r.prev[n] = l.prev[n]
    BY <1>3, <2>2, <2>3
  <2> QED BY <2>1, <2>4, LinkedKept
<1>10. ASSUME NEW c \in Tcb PROVE r.prev[t_sib(c)] = l.prev[t_sib(c)]
  <2>1. t_sib(c) \in Node /\ t_sib(c) \notin S \cup {h, t_next(t)}
    BY NodeKinds, NextsSibs DEF S
  <2> QED BY <2>1, <1>3
<1> QED BY <1>3, <1>8, <1>9, <1>10 DEF Children, r, P

\* removeThread and outThread of a thread of the queue h.
LEMMA QueueDel ==
    ASSUME NEW l, IsMemory(l), NEW Q, NEW par, Queues(l, Q), Children(l, par),
           NEW h \in Queue, NEW t \in Q[h]
    PROVE  LET r == list_del(l, t_next(t))
           IN  /\ IsMemory(r)
               /\ Queues(r, Without(Q, h, t))
               /\ Children(r, par)
               /\ \A c \in Tcb : r.prev[t_sib(c)] = l.prev[t_sib(c)]
<1> DEFINE r == list_del(l, t_next(t))
           P == Without(Q, h, t)
           S == Nexts(Q[h])
<1>1. Linked(l, h, S) BY DEF Queues
<1>2. t_next(t) \in S BY NextsSibs
<1>3. /\ IsMemory(r)
      /\ Linked(r, h, S \ {t_next(t)})
      /\ \A n \in Node \ (S \cup {h}) : r.next[n] = l.next[n] /\ r.prev[n] = l.prev[n]
  BY <1>1, <1>2, LinkedDel
<1> HIDE DEF r
<1>4. P \in [Queue -> SUBSET Tcb] /\ P[h] = Q[h] \ {t} /\ \A g \in Queue \ {h} : P[g] = Q[g]
  BY DEF Queues, Without
<1> HIDE DEF P
<1>5. Nexts(P[h]) = S \ {t_next(t)}
  <2>1. Nexts(Q[h] \ {t}) = Nexts(Q[h]) \ {t_next(t)} BY NextsSibs, Zenon
  <2> QED BY <2>1, <1>4
<1> HIDE DEF S
<1>6. ASSUME NEW g \in Queue PROVE Linked(r, g, Nexts(P[g]))
  <2>1. CASE g = h BY <2>1, <1>3, <1>5
  <2>2. CASE g # h
    <3>1. Linked(l, g, Nexts(Q[g])) /\ Q[g] \cap Q[h] = {} BY <2>2 DEF Queues
    <3>2. Nexts(Q[g]) \subseteq Node /\ g \in Node BY <3>1, LinkedFacts
    <3>3. \A n \in Nexts(Q[g]) \cup {g} : n \notin S \cup {h}
      BY <2>2, <3>1, NodeKinds, NextsSibs DEF S
    <3>4. \A n \in Nexts(Q[g]) \cup {g} : r.next[n] = l.next[n] /\ r.prev[n] = l.prev[n]
      BY <1>3, <3>2, <3>3
    <3>5. Linked(r, g, Nexts(Q[g])) BY <3>1, <3>4, LinkedKept
    <3> QED BY <2>2, <3>5, <1>4
  <2> QED BY <2>1, <2>2
<1>7. ASSUME NEW g \in Queue, NEW k \in Queue, g # k PROVE P[g] \cap P[k] = {}
  BY <1>4, <1>7 DEF Queues
<1>8. Queues(r, P) BY <1>4, <1>6, <1>7 DEF Queues
<1>9. ASSUME NEW p \in Tcb PROVE Linked(r, t_child(p), Sibs(Kids(par, p)))
  <2>1. Linked(l, t_child(p), Sibs(Kids(par, p))) BY DEF Children
  <2>2. Sibs(Kids(par, p)) \subseteq Node /\ t_child(p) \in Node BY <2>1, LinkedFacts
  <2>3. \A n \in Sibs(Kids(par, p)) \cup {t_child(p)} : n \notin S \cup {h}
    BY NodeKinds, NextsSibs DEF S
  <2>4. \A n \in Sibs(Kids(par, p)) \cup {t_child(p)} :
           r.next[n] = l.next[n] /\ r.prev[n] = l.prev[n]
    BY <1>3, <2>2, <2>3
  <2> QED BY <2>1, <2>4, LinkedKept
<1>10. ASSUME NEW c \in Tcb PROVE r.prev[t_sib(c)] = l.prev[t_sib(c)]
  <2>1. t_sib(c) \in Node /\ t_sib(c) \notin S \cup {h} BY NodeKinds, NextsSibs DEF S
  <2> QED BY <2>1, <1>3
<1> QED BY <1>3, <1>8, <1>9, <1>10 DEF Children, r, P

\* The parents par, with p for c.
Adopt(par, c, p) == [par EXCEPT ![c] = p]

\* insertChild of a thread that has no parent.
LEMMA ChildAdd ==
    ASSUME NEW l, IsMemory(l), NEW Q, NEW par \in [Tcb -> Tcb \cup {NULL}],
           Queues(l, Q), Children(l, par), NULL \notin Tcb,
           NEW p \in Tcb, NEW c \in Tcb, par[c] = NULL
    PROVE  LET r == list_add_tail(l, t_sib(c), t_child(p))
           IN  /\ IsMemory(r)
               /\ Queues(r, Q)
               /\ Children(r, Adopt(par, c, p))
               /\ \A x \in Tcb : par[x] # p /\ x # c => r.prev[t_sib(x)] = l.prev[t_sib(x)]
<1> DEFINE h == t_child(p)
           r == list_add_tail(l, t_sib(c), h)
           up == Adopt(par, c, p)
           S == Sibs(Kids(par, p))
<1>0. p # NULL BY DEF Kids
<1>1. Linked(l, h, S) BY DEF Children
<1>k. c \notin Kids(par, p) BY <1>0 DEF Kids
<1>2. t_sib(c) \in Node /\ t_sib(c) # h /\ t_sib(c) \notin S BY <1>k, NodeKinds, NextsSibs
<1>3. /\ IsMemory(r)
      /\ Linked(r, h, S \cup {t_sib(c)})
      /\ \A n \in Node \ (S \cup {h, t_sib(c)}) : r.next[n] = l.next[n] /\ r.prev[n] = l.prev[n]
  BY <1>1, <1>2, LinkedAdd
<1> HIDE DEF r
<1>4. /\ Kids(up, p) = Kids(par, p) \cup {c}
      /\ \A g \in Tcb : g # p => Kids(up, g) = Kids(par, g)
  BY <1>0 DEF Kids, Adopt
<1> HIDE DEF up
<1>5. Sibs(Kids(up, p)) = S \cup {t_sib(c)}
  <2>1. Sibs(Kids(par, p) \cup {c}) = Sibs(Kids(par, p)) \cup {t_sib(c)} BY NextsSibs
  <2> QED BY <2>1, <1>4
<1>s. h \in Node /\ h \notin Queue BY NodeKinds
<1> HIDE DEF S
<1>6. ASSUME NEW g \in Tcb PROVE Linked(r, t_child(g), Sibs(Kids(up, g)))
  <2>1. CASE g = p BY <2>1, <1>3, <1>5
  <2>2. CASE g # p
    <3>1. Linked(l, t_child(g), Sibs(Kids(par, g))) BY DEF Children
    <3>2. Kids(par, g) \cap Kids(par, p) = {} /\ c \notin Kids(par, g)
      BY <2>2 DEF Kids
    <3>3. Sibs(Kids(par, g)) \subseteq Node /\ t_child(g) \in Node BY <3>1, LinkedFacts
    <3>4. Sibs(Kids(par, g)) \cap S = {} BY <3>2, NextsSibs DEF S
    <3>5. h \notin Sibs(Kids(par, g)) /\ t_sib(c) \notin Sibs(Kids(par, g))
      BY <3>2, NextsSibs
    <3>6. t_child(g) \notin S /\ t_child(g) # h /\ t_child(g) # t_sib(c)
      BY <2>2, NextsSibs, NodeKinds DEF S
    <3>7. \A n \in Sibs(Kids(par, g)) \cup {t_child(g)} :
             r.next[n] = l.next[n] /\ r.prev[n] = l.prev[n]
      <4> HIDE DEF h
      <4> QED BY <1>3, <3>3, <3>4, <3>5, <3>6
    <3>8. Linked(r, t_child(g), Sibs(Kids(par, g))) BY <3>1, <3>7, LinkedKept
    <3> QED BY <2>2, <3>8, <1>4
  <2> QED BY <2>1, <2>2
<1>7. ASSUME NEW g \in Queue PROVE Linked(r, g, Nexts(Q[g]))
  <2>1. Linked(l, g, Nexts(Q[g])) BY DEF Queues
  <2>2. Nexts(Q[g]) \subseteq Node /\ g \in Node BY <2>1, LinkedFacts
  <2>3. g \notin S /\ g # h /\ g # t_sib(c) BY <1>s, NodeKinds, NextsSibs DEF S
  <2>4. Nexts(Q[g]) \cap S = {} /\ h \notin Nexts(Q[g]) /\ t_sib(c) \notin Nexts(Q[g])
    BY NextsSibs DEF S
  <2>5. \A n \in Nexts(Q[g]) \cup {g} : r.next[n] = l.next[n] /\ r.prev[n] = l.prev[n]
    <3> HIDE DEF h
    <3> QED BY <1>3, <2>2, <2>3, <2>4
  <2> QED BY <2>1, <2>5, LinkedKept
<1>8. Queues(r, Q) BY <1>7 DEF Queues
<1>9. ASSUME NEW x \in Tcb, par[x] # p, x # c PROVE r.prev[t_sib(x)] = l.prev[t_sib(x)]
  <2>1. x \notin Kids(par, p) BY <1>9 DEF Kids
  <2>2. t_sib(x) \in Node /\ t_sib(x) \notin S /\ t_sib(x) # h /\ t_sib(x) # t_sib(c)
    BY <1>9, <2>1, NodeKinds, NextsSibs DEF S
  <2> HIDE DEF h
  <2> QED BY <2>2, <1>3
<1> QED BY <1>3, <1>6, <1>8, <1>9 DEF Children, r, up

\* outChild and removeChild of a thread that has a parent.
LEMMA ChildDel ==
    ASSUME NEW l, IsMemory(l), NEW Q, NEW par \in [Tcb -> Tcb \cup {NULL}],
           Queues(l, Q), Children(l, par), NULL \notin Tcb, NEW c \in Tcb, par[c] # NULL
    PROVE  LET r == list_del(l, t_sib(c))
           IN  /\ IsMemory(r)
               /\ Queues(r, Q)
               /\ Children(r, Adopt(par, c, NULL))
               /\ \A x \in Tcb : par[x] = NULL => r.prev[t_sib(x)] = l.prev[t_sib(x)]
<1> DEFINE p == par[c]
           h == t_child(p)
           r == list_del(l, t_sib(c))
           up == Adopt(par, c, NULL)
           S == Sibs(Kids(par, p))
<1>0. p \in Tcb /\ p # NULL OBVIOUS
<1>1. Linked(l, h, S) BY <1>0 DEF Children
<1>k. c \in Kids(par, p) BY DEF Kids
<1>2. t_sib(c) \in S BY <1>k, NextsSibs
<1>3. /\ IsMemory(r)
      /\ Linked(r, h, S \ {t_sib(c)})
      /\ \A n \in Node \ (S \cup {h}) : r.next[n] = l.next[n] /\ r.prev[n] = l.prev[n]
  BY <1>1, <1>2, LinkedDel
<1> HIDE DEF r
<1>4. /\ Kids(up, p) = Kids(par, p) \ {c}
      /\ \A g \in Tcb : g # p => Kids(up, g) = Kids(par, g)
  BY <1>0 DEF Kids, Adopt
<1> HIDE DEF up
<1>5. Sibs(Kids(up, p)) = S \ {t_sib(c)}
  <2>1. Sibs(Kids(par, p) \ {c}) = Sibs(Kids(par, p)) \ {t_sib(c)} BY NextsSibs, Zenon
  <2> QED BY <2>1, <1>4
<1>s. h \in Node /\ h \notin Queue BY <1>0, NodeKinds
<1> HIDE DEF S, p
<1>6. ASSUME NEW g \in Tcb PROVE Linked(r, t_child(g), Sibs(Kids(up, g)))
  <2>1. CASE g = p BY <2>1, <1>3, <1>5
  <2>2. CASE g # p
    <3>1. Linked(l, t_child(g), Sibs(Kids(par, g))) BY DEF Children
    <3>2. Kids(par, g) \cap Kids(par, p) = {} BY <2>2 DEF Kids
    <3>3. Sibs(Kids(par, g)) \subseteq Node /\ t_child(g) \in Node BY <3>1, LinkedFacts
    <3>4. Sibs(Kids(par, g)) \cap S = {} BY <3>2, NextsSibs DEF S
    <3>5. h \notin Sibs(Kids(par, g)) BY <3>2, NextsSibs
    <3>6. t_child(g) \notin S /\ t_child(g) # h BY <2>2, NextsSibs, NodeKinds DEF S
    <3>7. \A n \in Sibs(Kids(par, g)) \cup {t_child(g)} :
             r.next[n] = l.next[n] /\ r.prev[n] = l.prev[n]
      <4> HIDE DEF h
      <4> QED BY <1>3, <3>3, <3>4, <3>5, <3>6
    <3>8. Linked(r, t_child(g), Sibs(Kids(par, g))) BY <3>1, <3>7, LinkedKept
    <3> QED BY <2>2, <3>8, <1>4
  <2> QED BY <2>1, <2>2
<1>7. ASSUME NEW g \in Queue PROVE Linked(r, g, Nexts(Q[g]))
  <2>1. Linked(l, g, Nexts(Q[g])) BY DEF Queues
  <2>2. Nexts(Q[g]) \subseteq Node /\ g \in Node BY <2>1, LinkedFacts
  <2>3. g \notin S /\ g # h BY <1>s, NodeKinds, NextsSibs DEF S
  <2>4. Nexts(Q[g]) \cap S = {} /\ h \notin Nexts(Q[g]) BY NextsSibs DEF S
  <2>5. \A n \in Nexts(Q[g]) \cup {g} : r.next[n] = l.next[n] /\ r.prev[n] = l.prev[n]
    <3> HIDE DEF h
    <3> QED BY <1>3, <2>2, <2>3, <2>4
  <2> QED BY <2>1, <2>5, LinkedKept
<1>8. Queues(r, Q) BY <1>7 DEF Queues
<1>9. ASSUME NEW x \in Tcb, par[x] = NULL PROVE r.prev[t_sib(x)] = l.prev[t_sib(x)]
  <2>1. x \notin Kids(par, p) BY <1>0, <1>9 DEF Kids
  <2>2. t_sib(x) \in Node /\ t_sib(x) \notin S /\ t_sib(x) # h
    BY <2>1, NodeKinds, NextsSibs DEF S
  <2> HIDE DEF h
  <2> QED BY <2>2, <1>3
<1> QED BY <1>3, <1>6, <1>8, <1>9 DEF Children, r, up

----------------------------------------------------------------------------
(* The inductive invariant.  Q gives the threads of each queue and rank     *)
(* orders the tree: a parent is below its children.                         *)

\* The memory without the first store of an insertion in the ready queue that
\* is under way: the other pointers it has changed are those of the new entry.
Mem == [next |-> next,
        prev |-> IF ssi.pc \in {"add2", "add3", "add4"}
                 THEN [prev EXCEPT ![ready_queue] = ssi.load] ELSE prev]

FormInv ==
    /\ LinksTypeOK /\ IsMemory(Mem)
    /\ ssi = [pc |-> ssi.pc, req |-> ssi.req, new |-> ssi.new, load |-> ssi.load]

ListInv(Q) == Queues(Mem, Q) /\ Children(Mem, t_parent)

\* Every TCB is in a queue, or is the current thread or the one in creation.
PlaceInv(Q) ==
    \A t \in Tcb : (\E h \in Queue : t \in Q[h])
                     <=> ~(t = current_thread \/ (InCreation /\ t = ssi.new))

\* Parentless threads: what insertSibling reaches through their t_sib is
\* the t_sib of a parentless thread, never an entry of a list of children.
SibInv(Q) ==
    /\ \A t \in rings : /\ t_parent[t] = NULL
                        /\ \E u \in rings : Mem.prev[t_sib(t)] = t_sib(u)
    /\ \A t \in Tcb : t \notin rings /\ t \notin Q[tcbfree_sentinel] /\ t \notin ToSet(victims)
                      /\ t_parent[t] = NULL => Mem.prev[t_sib(t)] = t_sib(t)

FreeInv(Q) ==
    \A t \in Q[tcbfree_sentinel] : t_parent[t] = NULL /\ Kids(t_parent, t) = {}

\* thread_count is late by the thread in creation.
CountInv(Q) ==
    thread_count + (IF ssi.pc \in {"link", "count", "store"} THEN 1 ELSE 0)
      = Cardinality(Tcb \ Q[tcbfree_sentinel])

CreateInv(Q) ==
    /\ InCreation =>
          /\ victims = <<>> /\ current_thread = SSI_tcb
          /\ ssi.new \in Tcb /\ ssi.new # SSI_tcb /\ Kids(t_parent, ssi.new) = {}
          /\ ssi.req \in Q[ready_queue] \cup Q[wait_queue]
    /\ ssi.pc = "link" => t_parent[ssi.new] = NULL /\ ssi.new \notin rings
    /\ ssi.pc = "store" => ssi.load = thread_count
    /\ ssi.pc \in {"add1", "add2", "add3", "add4"} => ssi.load = Mem.prev[ready_queue]
    /\ ssi.pc \in {"add2", "add3", "add4"} => prev[ready_queue] = t_next(ssi.new)
    /\ ssi.pc \in {"add3", "add4"} => next[t_next(ssi.new)] = ready_queue
    /\ ssi.pc = "add4" => prev[t_next(ssi.new)] = ssi.load

\* What terminate() still has to free hangs below the frames of its recursion.
DoomInv(Q) ==
    /\ Distinct(victims) /\ \A t \in ToSet(victims) : t_parent[t] = NULL
    /\ ToSet(victims) \subseteq doomed /\ doomed \cap Q[tcbfree_sentinel] = {}
    /\ \A c \in Tcb : t_parent[c] \in doomed => c \in doomed
    /\ \A u \in doomed : u \in ToSet(victims) \/ t_parent[u] \in doomed

RankInv(rank) ==
    /\ rank \in [Tcb -> Nat]
    /\ \A c \in Tcb : t_parent[c] # NULL => rank[t_parent[c]] < rank[c]

LinksInv(Q, rank) ==
    /\ FormInv /\ ListInv(Q) /\ PlaceInv(Q) /\ SibInv(Q) /\ FreeInv(Q)
    /\ CountInv(Q) /\ CreateInv(Q) /\ DoomInv(Q) /\ RankInv(rank)

\* The tests that tcb.c makes on its lists have the answers that the sets give.
LEMMA ListTests ==
    ASSUME NEW Q, FormInv, ListInv(Q)
    PROVE  /\ \A h \in Queue : /\ Entries(h) = Nexts(Q[h]) /\ Q[h] \subseteq Tcb
                               /\ \A t : thereIsThread(h, t) <=> t \in Q[h]
                               /\ list_empty(h) <=> Q[h] = {}
                               /\ ~list_empty(h) => \E t \in Q[h] : next[h] = t_next(t)
           /\ \A p \in Tcb : /\ Entries(t_child(p)) = Sibs(Kids(t_parent, p))
                             /\ list_empty(t_child(p)) <=> Kids(t_parent, p) = {}
                             /\ ~list_empty(t_child(p)) =>
                                   \E c \in Kids(t_parent, p) : next[t_child(p)] = t_sib(c)
<1>0. Mem.next = next BY DEF Mem
<1> DEFINE m == Mem
<1> HIDE DEF m
<1>1. ASSUME NEW h \in Queue
      PROVE  /\ Entries(h) = Nexts(Q[h]) /\ Q[h] \subseteq Tcb
             /\ \A t : thereIsThread(h, t) <=> t \in Q[h]
             /\ list_empty(h) <=> Q[h] = {}
             /\ ~list_empty(h) => \E t \in Q[h] : next[h] = t_next(t)
  <2>1. Q[h] \in SUBSET Tcb /\ Linked(m, h, Nexts(Q[h])) BY DEF ListInv, Queues, m
  <2>2. m.next = next BY <1>0 DEF m
  <2>3. Entries(h) = Nexts(Q[h]) BY <2>1, <2>2, EntriesLinked
  <2>4. next[h] \in Nexts(Q[h]) \cup {h} /\ (next[h] = h <=> Nexts(Q[h]) = {})
    BY <2>1, <2>2, LinkedFacts
  <2>5. Nexts(Q[h]) = {} <=> Q[h] = {} BY NextsSibs
  <2>6. list_empty(h) <=> Q[h] = {} BY <2>4, <2>5 DEF list_empty
  <2>7. ~list_empty(h) => \E t \in Q[h] : next[h] = t_next(t) BY <2>4 DEF list_empty, Nexts
  <2>8. \A t : thereIsThread(h, t) <=> t \in Q[h] BY <2>3, NextsSibs DEF thereIsThread
  <2> QED BY <2>1, <2>3, <2>6, <2>7, <2>8
<1>2. ASSUME NEW p \in Tcb
      PROVE  /\ Entries(t_child(p)) = Sibs(Kids(t_parent, p))
             /\ list_empty(t_child(p)) <=> Kids(t_parent, p) = {}
             /\ ~list_empty(t_child(p)) =>
                   \E c \in Kids(t_parent, p) : next[t_child(p)] = t_sib(c)
  <2> DEFINE K == Kids(t_parent, p)
             h == t_child(p)
  <2>1. K \in SUBSET Tcb /\ Linked(m, h, Sibs(K)) BY DEF ListInv, Children, m, Kids
  <2>2. m.next = next BY <1>0 DEF m
  <2> HIDE DEF K, h
  <2>3. Entries(h) = Sibs(K) BY <2>1, <2>2, EntriesLinked
  <2>4. next[h] \in Sibs(K) \cup {h} /\ (next[h] = h <=> Sibs(K) = {})
    BY <2>1, <2>2, LinkedFacts
  <2>5. Sibs(K) = {} <=> K = {} BY NextsSibs
  <2>6. list_empty(h) <=> K = {} BY <2>4, <2>5 DEF list_empty
  <2>7. ~list_empty(h) => \E c \in K : next[h] = t_sib(c) BY <2>4 DEF list_empty, Sibs
  <2> QED BY <2>3, <2>6, <2>7 DEF K, h
<1> QED BY <1>1, <1>2

\* The memory after a handler's stores.
LEMMA StoreMem ==
    ASSUME NEW l, IsMemory(l), Store(l), ssi'.pc \notin {"add2", "add3", "add4"}
    PROVE  Mem' = l
<1>1. Mem' = [next |-> next', prev |-> prev'] BY DEF Mem
<1>2. l = [next |-> l.next, prev |-> l.prev] BY DEF IsMemory
<1> QED BY <1>1, <1>2 DEF Store

\* Outside the four stores of an insertion Mem is the memory.
LEMMA MemIdle ==
    ASSUME ssi.pc \notin {"add2", "add3", "add4"}
    PROVE  Mem = Memory /\ Mem.prev = prev
BY DEF Mem, Memory

\* Without preemption no handler runs while the SSI creates a thread.
LEMMA NoHandler ==
    ASSUME NEW Q, CreateInv(Q), LinksTypeOK, Preempt = FALSE, InCreation
    PROVE  /\ ~Runs /\ ~Interruptible /\ current_thread # NULL /\ victims = <<>>
           /\ ~InKernel
BY LinksAssumption DEF CreateInv, Runs, Interruptible, InKernel, Tcb, ToSet, SSI_tcb, LinksTypeOK

----------------------------------------------------------------------------
(* The invariant is kept: threads change queues *)

\* What a step that moves threads between the queues and the CPU keeps.
LEMMA QueueStep ==
    ASSUME NEW Q, NEW rank, LinksInv(Q, rank), ~InCreation, NEW P,
           UNCHANGED <<t_parent, thread_count, ssi, victims, rings, doomed>>,
           current_thread' \in Tcb \cup {NULL},
           NEW l, IsMemory(l), Store(l), Queues(l, P), Children(l, t_parent),
           \A c \in Tcb : l.prev[t_sib(c)] = Mem.prev[t_sib(c)],
           P[tcbfree_sentinel] = Q[tcbfree_sentinel],
           \A t \in Tcb : (\E h \in Queue : t \in P[h]) <=> t # current_thread'
    PROVE  LinksInv(P, rank)'
<1>i. ssi.pc = "idle" /\ ssi' = ssi BY DEF InCreation
<1>0. Mem' = l BY <1>i, StoreMem
<1>1. FormInv'
  <2>1. next' \in [Node -> Node] /\ prev' \in [Node -> Node] BY DEF Store, IsMemory
  <2>2. IsMemory(Mem)' BY <1>0 DEF IsMemory
  <2> QED BY <2>1, <2>2 DEF LinksInv, FormInv, LinksTypeOK
<1>2. ListInv(P)' BY <1>0 DEF ListInv, Queues, Children, Linked, Ring
<1>3. PlaceInv(P)' BY <1>i DEF PlaceInv, InCreation
<1>r. rings \subseteq Tcb BY DEF LinksInv, FormInv, LinksTypeOK
<1>4. SibInv(P)' BY <1>0, <1>r DEF LinksInv, SibInv
<1>5. FreeInv(P)' BY DEF LinksInv, FreeInv, Kids
<1>6. CountInv(P)' BY DEF LinksInv, CountInv
<1>7. CreateInv(P)' BY <1>i DEF CreateInv, InCreation
<1>8. DoomInv(P)' BY DEF LinksInv, DoomInv
<1>9. RankInv(rank)' BY DEF LinksInv, RankInv
<1> QED BY <1>1, <1>2, <1>3, <1>4, <1>5, <1>6, <1>7, <1>8, <1>9 DEF LinksInv

\* scheduler() takes the first thread of the ready queue.
LEMMA DispatchKeeps ==
    ASSUME NEW Q, NEW rank, LinksInv(Q, rank), Preempt = FALSE, Dispatch
    PROVE  \E P : LinksInv(P, rank)' /\ P[tcbfree_sentinel] = Q[tcbfree_sentinel]
<1>0. FormInv /\ ListInv(Q) /\ PlaceInv(Q) /\ CreateInv(Q) /\ LinksTypeOK /\ IsMemory(Mem)
  BY DEF LinksInv, FormInv
<1>i. ~InCreation BY <1>0, NoHandler DEF Dispatch
<1>m. Mem = Memory BY <1>i, MemIdle DEF InCreation
<1>1. PICK t \in Q[ready_queue] : next[ready_queue] = t_next(t)
  BY <1>0, ListTests, NodeKinds DEF Dispatch
<1> DEFINE l == list_del(Mem, t_next(t))
           P == Without(Q, ready_queue, t)
<1>2. /\ Queues(Mem, Q) /\ Children(Mem, t_parent) /\ ready_queue \in Queue
      /\ Q \in [Queue -> SUBSET Tcb] /\ t \in Tcb
  BY <1>0, NodeKinds DEF ListInv, Queues
<1>3. /\ IsMemory(l) /\ Queues(l, P) /\ Children(l, t_parent)
      /\ \A c \in Tcb : l.prev[t_sib(c)] = Mem.prev[t_sib(c)]
  BY <1>0, <1>2, QueueDel
<1>4. Store(l) /\ current_thread' = t BY <1>1, <1>m, NodeKinds DEF Dispatch
<1>5. /\ P[ready_queue] = Q[ready_queue] \ {t}
      /\ \A h \in Queue : h # ready_queue => P[h] = Q[h]
  BY <1>2 DEF Without
<1>6. \A h \in Queue : h # ready_queue => t \notin Q[h] BY <1>2 DEF Queues
<1> HIDE DEF l, P
<1>7. \A u \in Tcb : (\E h \in Queue : u \in P[h]) <=> u # t
  <2>1. \A u \in Tcb : (\E h \in Queue : u \in Q[h])
    BY <1>0, <1>i, LinksAssumption DEF PlaceInv, Dispatch
  <2> QED BY <2>1, <1>2, <1>5, <1>6
<1>8. P[tcbfree_sentinel] = Q[tcbfree_sentinel] BY <1>5, NodeKinds
<1>9. UNCHANGED <<t_parent, thread_count, ssi, victims, rings, doomed>> BY DEF Dispatch
<1>10. LinksInv(P, rank)'
  BY <1>i, <1>2, <1>3, <1>4, <1>7, <1>8, <1>9, QueueStep
<1> QED BY <1>8, <1>10

\* The current thread goes to the tail of a queue: recv() without a message,
\* or the end of a time slice.
LEMMA LeaveKeeps ==
    ASSUME NEW Q, NEW rank, LinksInv(Q, rank), ~InCreation,
           NEW h \in Queue, h # tcbfree_sentinel, current_thread # NULL,
           Store(insertThread(Memory, h, current_thread)), current_thread' = NULL,
           UNCHANGED <<t_parent, thread_count, ssi, victims, rings, doomed>>
    PROVE  \E P : LinksInv(P, rank)' /\ P[tcbfree_sentinel] = Q[tcbfree_sentinel]
<1>0. FormInv /\ ListInv(Q) /\ PlaceInv(Q) /\ CreateInv(Q) /\ LinksTypeOK /\ IsMemory(Mem)
  BY DEF LinksInv, FormInv
<1>m. Mem = Memory BY MemIdle DEF InCreation
<1>t. PICK t \in Tcb : t = current_thread BY <1>0 DEF LinksTypeOK
<1> DEFINE l == insertThread(Mem, h, t)
           P == With(Q, h, t)
<1>2. /\ Queues(Mem, Q) /\ Children(Mem, t_parent) /\ h \in Queue
      /\ Q \in [Queue -> SUBSET Tcb] /\ t \in Tcb
  BY <1>0, NodeKinds DEF ListInv, Queues, LinksTypeOK
<1>3. \A g \in Queue : t \notin Q[g] BY <1>0, <1>2, <1>t DEF PlaceInv
<1>6. Store(l) BY <1>m, <1>t
<1>4. /\ IsMemory(l) /\ Queues(l, P) /\ Children(l, t_parent)
      /\ \A c \in Tcb : l.prev[t_sib(c)] = Mem.prev[t_sib(c)]
  BY <1>0, <1>2, <1>3, QueueAdd
<1>5. P[h] = Q[h] \cup {t} /\ \A g \in Queue : g # h => P[g] = Q[g] BY <1>2 DEF With
<1> HIDE DEF l, P
<1>7. \A u \in Tcb : (\E g \in Queue : u \in P[g]) <=> u # current_thread'
  <2>1. \A u \in Tcb : u # t => (\E g \in Queue : u \in Q[g]) BY <1>0, <1>t DEF PlaceInv
  <2>2. \A u \in Tcb : u # NULL BY LinksAssumption
  <2> QED BY <2>1, <2>2, <1>2, <1>5
<1>8. P[tcbfree_sentinel] = Q[tcbfree_sentinel] BY <1>5, NodeKinds
<1>9. current_thread' \in Tcb \cup {NULL} OBVIOUS
<1>10. LinksInv(P, rank)'
  BY <1>2, <1>4, <1>6, <1>7, <1>8, <1>9, QueueStep
<1> QED BY <1>8, <1>10

\* send() moves a waiting thread to the ready queue.
LEMMA WakeKeeps ==
    ASSUME NEW Q, NEW rank, LinksInv(Q, rank), Preempt = FALSE, NEW t \in Tcb, Wake(t)
    PROVE  \E P : LinksInv(P, rank)' /\ P[tcbfree_sentinel] = Q[tcbfree_sentinel]
<1>0. FormInv /\ ListInv(Q) /\ PlaceInv(Q) /\ CreateInv(Q) /\ LinksTypeOK /\ IsMemory(Mem)
  BY DEF LinksInv, FormInv
<1>i. ~InCreation BY <1>0, NoHandler DEF Wake
<1>m. Mem = Memory BY <1>i, MemIdle DEF InCreation
<1>k. /\ ready_queue \in Queue /\ wait_queue \in Queue /\ tcbfree_sentinel \in Queue
      /\ ready_queue # wait_queue /\ ready_queue # tcbfree_sentinel
      /\ wait_queue # tcbfree_sentinel
  BY NodeKinds
<1>1. thereIsThread(wait_queue, t) /\ t \in Q[wait_queue] BY <1>0, <1>k, ListTests DEF Wake
<1> DEFINE d == list_del(Mem, t_next(t))
           D == Without(Q, wait_queue, t)
           l == insertThread(d, ready_queue, t)
           P == With(D, ready_queue, t)
<1>2. Queues(Mem, Q) /\ Children(Mem, t_parent) /\ Q \in [Queue -> SUBSET Tcb]
  BY <1>0 DEF ListInv, Queues
<1>3. /\ IsMemory(d) /\ Queues(d, D) /\ Children(d, t_parent)
      /\ \A c \in Tcb : d.prev[t_sib(c)] = Mem.prev[t_sib(c)]
  BY <1>0, <1>1, <1>2, <1>k, QueueDel
<1>4. /\ D \in [Queue -> SUBSET Tcb] /\ D[wait_queue] = Q[wait_queue] \ {t}
      /\ \A h \in Queue : h # wait_queue => D[h] = Q[h]
  BY <1>2, <1>k DEF Without
<1>5. Store(l) BY <1>1, <1>m DEF Wake, outThread
<1>6. \A h \in Queue : h # wait_queue => t \notin Q[h] BY <1>1, <1>2, <1>k DEF Queues
<1> HIDE DEF d, D
<1>7. \A h \in Queue : t \notin D[h] BY <1>4, <1>6
<1>8. /\ IsMemory(l) /\ Queues(l, P) /\ Children(l, t_parent)
      /\ \A c \in Tcb : l.prev[t_sib(c)] = d.prev[t_sib(c)]
  BY <1>3, <1>7, <1>k, QueueAdd
<1>9. P[ready_queue] = D[ready_queue] \cup {t} /\ \A h \in Queue : h # ready_queue => P[h] = D[h]
  BY <1>4, <1>k DEF With
<1> HIDE DEF l, P
<1>10. \A u \in Tcb : (\E h \in Queue : u \in P[h]) <=> u # current_thread'
  <2>1. \A u \in Tcb : (\E h \in Queue : u \in Q[h]) <=> u # current_thread
    BY <1>0, <1>i DEF PlaceInv
  <2>2. \A u \in Tcb : (\E h \in Queue : u \in P[h]) <=> (\E h \in Queue : u \in Q[h])
    BY <1>1, <1>4, <1>9, <1>k
  <2>3. current_thread' = current_thread BY DEF Wake
  <2> QED BY <2>1, <2>2, <2>3
<1>11. P[tcbfree_sentinel] = Q[tcbfree_sentinel] BY <1>4, <1>9, <1>k
<1>12. UNCHANGED <<t_parent, thread_count, ssi, victims, rings, doomed>> BY DEF Wake
<1>13. current_thread' \in Tcb \cup {NULL} BY <1>0 DEF LinksTypeOK, Wake
<1>14. \A c \in Tcb : l.prev[t_sib(c)] = Mem.prev[t_sib(c)] BY <1>3, <1>8
<1>15. LinksInv(P, rank)'
  BY <1>i, <1>2, <1>5, <1>8, <1>10, <1>11, <1>12, <1>13, <1>14, QueueStep
<1> QED BY <1>11, <1>15

----------------------------------------------------------------------------
(* The invariant is kept: terminate() *)

\* A subtree holds its root, the children of its threads, and nothing else.
LEMMA SubtreeFacts ==
    ASSUME NEW t \in Tcb
    PROVE  /\ t \in Subtree(t) /\ Subtree(t) \subseteq Tcb
           /\ \A c \in Tcb : t_parent[c] \in Subtree(t) => c \in Subtree(t)
           /\ \A u \in Subtree(t) : u = t \/ t_parent[u] \in Subtree(t)
<1> DEFINE Closed(S) == t \in S /\ \A c \in Tcb : t_parent[c] \in S => c \in S
           T == Subtree(t)
<1>1. \A u : u \in T <=> u \in Tcb /\ \A S \in SUBSET Tcb : Closed(S) => u \in S
  BY DEF Subtree
<1> HIDE DEF T
<1>2. t \in T /\ T \subseteq Tcb BY <1>1
<1>3. ASSUME NEW c \in Tcb, t_parent[c] \in T PROVE c \in T
  <2>1. ASSUME NEW S \in SUBSET Tcb, Closed(S) PROVE c \in S BY <1>1, <1>3, <2>1
  <2> QED BY <2>1, <1>1
<1>4. ASSUME NEW u \in T, u # t, t_parent[u] \notin T PROVE FALSE
  <2>1. Closed(T \ {u}) BY <1>2, <1>3, <1>4
  <2>2. T \ {u} \in SUBSET Tcb BY <1>2
  <2> QED BY <2>1, <2>2, <1>1, <1>4
<1> QED BY <1>2, <1>3, <1>4 DEF T

\* outChild: the links and the parents after it, with the thread's t_sib as it
\* comes.
LEMMA OutChild ==
    ASSUME NEW Q, FormInv, ListInv(Q), ~InCreation, NEW t \in Tcb, outChild(t),
           ssi' = ssi
    PROVE  /\ next' \in [Node -> Node] /\ prev' \in [Node -> Node] /\ IsMemory(Mem)'
           /\ ListInv(Q)'
           /\ t_parent' = Adopt(t_parent, t, NULL)
           /\ \A c \in Tcb : t_parent[c] = NULL => Mem'.prev[t_sib(c)] = Mem.prev[t_sib(c)]
<1>0. /\ IsMemory(Mem) /\ Queues(Mem, Q) /\ Children(Mem, t_parent)
      /\ t_parent \in [Tcb -> Tcb \cup {NULL}] /\ NULL \notin Tcb
  BY LinksAssumption DEF FormInv, ListInv, LinksTypeOK
<1>i. ssi.pc = "idle" BY DEF InCreation
<1>m. Mem = Memory BY <1>i, MemIdle
<1>1. CASE t_parent[t] = NULL
  <2>1. next' = next /\ prev' = prev /\ t_parent' = t_parent BY <1>1 DEF outChild, links
  <2>2. Mem' = Mem BY <2>1 DEF Mem
  <2>3. t_parent' = Adopt(t_parent, t, NULL) BY <1>0, <1>1, <2>1 DEF Adopt
  <2>4. IsMemory(Mem)' BY <2>2, <1>0 DEF IsMemory
  <2>5. ListInv(Q)'
    BY <2>1, <2>2, <1>0 DEF ListInv, Queues, Children, Linked, Ring
  <2> QED BY <2>1, <2>2, <2>3, <2>4, <2>5, <1>0 DEF FormInv, LinksTypeOK
<1>2. CASE t_parent[t] # NULL
  <2> DEFINE l == list_del(Mem, t_sib(t))
  <2>1. Store(l) /\ t_parent' = Adopt(t_parent, t, NULL) BY <1>2, <1>m DEF outChild, Adopt
  <2>2. /\ IsMemory(l) /\ Queues(l, Q) /\ Children(l, Adopt(t_parent, t, NULL))
        /\ \A c \in Tcb : t_parent[c] = NULL => l.prev[t_sib(c)] = Mem.prev[t_sib(c)]
    BY <1>0, <1>2, ChildDel
  <2> HIDE DEF l
  <2>3. Mem' = l BY <1>i, <2>1, <2>2, StoreMem
  <2>4. IsMemory(Mem)' BY <2>2, <2>3 DEF IsMemory
  <2>5. ListInv(Q)'
    BY <2>1, <2>2, <2>3 DEF ListInv, Queues, Children, Linked, Ring
  <2>6. next' \in [Node -> Node] /\ prev' \in [Node -> Node] BY <2>1, <2>2 DEF Store, IsMemory
  <2> QED BY <2>1, <2>2, <2>3, <2>4, <2>5, <2>6
<1> QED BY <1>1, <1>2

\* terminate() of a living thread, outside any other termination or creation.
LEMMA TerminateKeeps ==
    ASSUME NEW Q, NEW rank, LinksInv(Q, rank), ~InCreation, victims = <<>>,
           NEW t \in Tcb, t \notin Q[tcbfree_sentinel], Terminate(t)
    PROVE  LinksInv(Q, rank)'
<1>0. /\ FormInv /\ ListInv(Q) /\ LinksTypeOK /\ t_parent \in [Tcb -> Tcb \cup {NULL}]
      /\ NULL \notin Tcb /\ rings \subseteq Tcb /\ Q[tcbfree_sentinel] \subseteq Tcb
  BY LinksAssumption, NodeKinds DEF LinksInv, FormInv, LinksTypeOK, ListInv, Queues
<1>i. ssi.pc = "idle" /\ ssi' = ssi BY DEF InCreation, Terminate
<1>1. /\ next' \in [Node -> Node] /\ prev' \in [Node -> Node] /\ IsMemory(Mem)'
      /\ ListInv(Q)'
      /\ t_parent' = Adopt(t_parent, t, NULL)
      /\ \A c \in Tcb : t_parent[c] = NULL => Mem'.prev[t_sib(c)] = Mem.prev[t_sib(c)]
  BY <1>0, <1>i, OutChild DEF Terminate
<1>2. /\ t_parent'[t] = NULL /\ t_parent' \in [Tcb -> Tcb \cup {NULL}]
      /\ \A c \in Tcb : c # t => t_parent'[c] = t_parent[c]
  BY <1>0, <1>1 DEF Adopt
<1>3. /\ t \in Subtree(t) /\ Subtree(t) \subseteq Tcb
      /\ \A c \in Tcb : t_parent[c] \in Subtree(t) => c \in Subtree(t)
      /\ \A u \in Subtree(t) : u = t \/ t_parent[u] \in Subtree(t)
  BY SubtreeFacts
<1>4. /\ victims' = <<t>> /\ doomed' = Subtree(t) /\ current_thread' = current_thread
      /\ thread_count' = thread_count /\ rings' = rings
  BY DEF Terminate
<1>5. victims' \in Seq(Tcb) /\ ToSet(victims') = {t} /\ Distinct(victims')
  BY <1>4, OneLemma
<1>6. ToSet(victims) = {} BY EmptyLemma
<1>7. FormInv' BY <1>0, <1>1, <1>2, <1>3, <1>4, <1>5, <1>i DEF FormInv, LinksTypeOK
<1>8. PlaceInv(Q)' BY <1>4, <1>i DEF LinksInv, PlaceInv, InCreation
<1>9. SibInv(Q)'
  <2>1. SibInv(Q) BY DEF LinksInv
  <2>2. ASSUME NEW c \in rings
        PROVE  t_parent'[c] = NULL /\ \E u \in rings : Mem'.prev[t_sib(c)] = t_sib(u)
    BY <2>1, <1>0, <1>1, <1>2 DEF SibInv
  <2>3. ASSUME NEW c \in Tcb, c \notin rings, c \notin Q[tcbfree_sentinel], c # t,
               t_parent'[c] = NULL
        PROVE  Mem'.prev[t_sib(c)] = t_sib(c)
    BY <2>1, <2>3, <1>1, <1>2, <1>6 DEF SibInv
  <2> QED BY <2>2, <2>3, <1>4, <1>5 DEF SibInv
<1>10. FreeInv(Q)'
  <2>1. ASSUME NEW f \in Q[tcbfree_sentinel]
        PROVE  t_parent'[f] = NULL /\ Kids(t_parent', f) = {}
    BY <1>0, <1>2 DEF LinksInv, FreeInv, Kids
  <2> QED BY <2>1 DEF FreeInv, Kids
<1>11. CountInv(Q)' BY <1>4, <1>i DEF LinksInv, CountInv
<1>12. CreateInv(Q)' BY <1>i DEF CreateInv, InCreation
<1>13. DoomInv(Q)'
  <2>1. doomed' \cap Q[tcbfree_sentinel] = {}
    <3>1. ASSUME NEW u \in Subtree(t), u \in Q[tcbfree_sentinel] PROVE FALSE
      <4>1. t_parent[u] = NULL BY <3>1 DEF LinksInv, FreeInv
      <4>2. u # t BY <3>1
      <4> QED BY <4>1, <4>2, <1>0, <1>3
    <3> QED BY <3>1, <1>4
  <2>2. \A c \in Tcb : t_parent'[c] \in doomed' => c \in doomed' BY <1>0, <1>2, <1>3, <1>4
  <2>3. \A u \in doomed' : u \in ToSet(victims') \/ t_parent'[u] \in doomed'
    BY <1>2, <1>3, <1>4, <1>5
  <2> QED BY <2>1, <2>2, <2>3, <1>2, <1>3, <1>4, <1>5 DEF DoomInv
<1>14. RankInv(rank)' BY <1>0, <1>2 DEF LinksInv, RankInv
<1> QED BY <1>1, <1>7, <1>8, <1>9, <1>10, <1>11, <1>12, <1>13, <1>14 DEF LinksInv

\* removeChild finds a child of the thread that terminate() is at.
LEMMA TerminateChildKeeps ==
    ASSUME NEW Q, NEW rank, LinksInv(Q, rank), TerminateChild
    PROVE  LinksInv(Q, rank)'
<1>0. /\ FormInv /\ ListInv(Q) /\ LinksTypeOK /\ t_parent \in [Tcb -> Tcb \cup {NULL}]
      /\ NULL \notin Tcb /\ rings \subseteq Tcb /\ Q[tcbfree_sentinel] \subseteq Tcb
      /\ victims \in Seq(Tcb) /\ victims # <<>> /\ IsMemory(Mem)
      /\ Queues(Mem, Q) /\ Children(Mem, t_parent) /\ DoomInv(Q) /\ SibInv(Q)
  BY LinksAssumption, NodeKinds
  DEF LinksInv, FormInv, LinksTypeOK, ListInv, Queues, TerminateChild
<1>i. ssi.pc = "idle" /\ ssi' = ssi /\ ~InCreation
  BY <1>0 DEF InCreation, TerminateChild, LinksInv, CreateInv
<1>m. Mem = Memory BY <1>i, MemIdle
<1>1. PICK v \in Tcb : v = Head(victims) /\ v \in ToSet(victims) BY <1>0, TailLemma
<1>2. PICK c \in Kids(t_parent, v) : next[t_child(v)] = t_sib(c)
  BY <1>0, <1>1, ListTests DEF TerminateChild
<1>3. c \in Tcb /\ t_parent[c] = v /\ t_parent[c] # NULL BY <1>0 DEF Kids
<1> DEFINE l == list_del(Mem, t_sib(c))
<1>4. /\ Store(l) /\ t_parent' = Adopt(t_parent, c, NULL) /\ victims' = <<c>> \o victims
      /\ UNCHANGED <<current_thread, thread_count, ssi, rings, doomed>>
  BY <1>1, <1>2, <1>m, NodeKinds DEF TerminateChild, Adopt
<1>5. /\ IsMemory(l) /\ Queues(l, Q) /\ Children(l, Adopt(t_parent, c, NULL))
      /\ \A x \in Tcb : t_parent[x] = NULL => l.prev[t_sib(x)] = Mem.prev[t_sib(x)]
  BY <1>0, <1>3, ChildDel
<1> HIDE DEF l
<1>6. Mem' = l BY <1>i, <1>4, <1>5, StoreMem
<1>7. /\ t_parent'[c] = NULL /\ t_parent' \in [Tcb -> Tcb \cup {NULL}]
      /\ \A x \in Tcb : x # c => t_parent'[x] = t_parent[x]
  BY <1>0, <1>3, <1>4 DEF Adopt
<1>8. /\ c \notin ToSet(victims) /\ c \in doomed /\ Distinct(victims)
      /\ ToSet(victims) \subseteq Tcb
  BY <1>0, <1>1, <1>3, SeqElements DEF DoomInv
<1>9. victims' \in Seq(Tcb) /\ ToSet(victims') = ToSet(victims) \cup {c} /\ Distinct(victims')
  <2>1. <<c>> \in Seq(Tcb) /\ ToSet(<<c>>) = {c} /\ Distinct(<<c>>) BY <1>3, OneLemma
  <2> DEFINE one == <<c>>
  <2>2. one \in Seq(Tcb) /\ ToSet(one) = {c} /\ Distinct(one) /\ ToSet(one) \cap ToSet(victims) = {}
    BY <2>1, <1>8
  <2>3. victims' = one \o victims BY <1>4
  <2> HIDE DEF one
  <2>4. /\ one \o victims \in Seq(Tcb) /\ ToSet(one \o victims) = ToSet(one) \cup ToSet(victims)
        /\ Distinct(one \o victims)
    BY <2>2, <1>0, <1>8, ConcatLemma
  <2> QED BY <2>2, <2>3, <2>4
<1>10. FormInv'
  <2>1. next' \in [Node -> Node] /\ prev' \in [Node -> Node] BY <1>4, <1>5 DEF Store, IsMemory
  <2>2. IsMemory(Mem)' BY <1>5, <1>6 DEF IsMemory
  <2> QED BY <2>1, <2>2, <1>0, <1>4, <1>7, <1>9 DEF FormInv, LinksTypeOK
<1>11. ListInv(Q)' BY <1>4, <1>5, <1>6 DEF ListInv, Queues, Children, Linked, Ring
<1>12. PlaceInv(Q)' BY <1>4, <1>i DEF LinksInv, PlaceInv, InCreation
<1>13. SibInv(Q)'
  <2>2. ASSUME NEW x \in rings
        PROVE  t_parent'[x] = NULL /\ \E u \in rings : Mem'.prev[t_sib(x)] = t_sib(u)
    <3>1. x \in Tcb /\ t_parent[x] = NULL /\ \E u \in rings : Mem.prev[t_sib(x)] = t_sib(u)
      BY <1>0 DEF SibInv
    <3>2. Mem'.prev[t_sib(x)] = Mem.prev[t_sib(x)] BY <3>1, <1>5, <1>6
    <3> QED BY <3>1, <3>2, <1>3, <1>7
  <2>3. ASSUME NEW x \in Tcb, x \notin rings, x \notin Q[tcbfree_sentinel],
               x \notin ToSet(victims'), t_parent'[x] = NULL
        PROVE  Mem'.prev[t_sib(x)] = t_sib(x)
    BY <2>3, <1>0, <1>5, <1>6, <1>7, <1>9 DEF SibInv
  <2> QED BY <2>2, <2>3, <1>4 DEF SibInv
<1>14. FreeInv(Q)'
  <2>1. ASSUME NEW f \in Q[tcbfree_sentinel]
        PROVE  t_parent'[f] = NULL /\ Kids(t_parent', f) = {}
    BY <1>0, <1>7 DEF LinksInv, FreeInv, Kids
  <2> QED BY <2>1 DEF FreeInv, Kids
<1>15. CountInv(Q)' BY <1>4 DEF LinksInv, CountInv
<1>16. CreateInv(Q)' BY <1>i DEF CreateInv, InCreation
<1>17. DoomInv(Q)'
  <2>1. doomed \subseteq Tcb BY <1>0 DEF LinksTypeOK
  <2>2. \A x \in Tcb : t_parent'[x] \in doomed => x \in doomed
    BY <2>1, <1>0, <1>7, <1>8 DEF DoomInv
  <2>3. \A u \in doomed : u \in ToSet(victims') \/ t_parent'[u] \in doomed
    BY <2>1, <1>0, <1>7, <1>9 DEF DoomInv
  <2>4. \A x \in ToSet(victims') : t_parent'[x] = NULL BY <1>0, <1>7, <1>8, <1>9 DEF DoomInv
  <2>5. ToSet(victims') \subseteq doomed /\ doomed \cap Q[tcbfree_sentinel] = {}
    BY <1>0, <1>8, <1>9 DEF DoomInv
  <2> QED BY <2>2, <2>3, <2>4, <2>5, <1>4, <1>9 DEF DoomInv
<1>18. RankInv(rank)' BY <1>0, <1>7 DEF LinksInv, RankInv
<1> QED BY <1>10, <1>11, <1>12, <1>13, <1>14, <1>15, <1>16, <1>17, <1>18 DEF LinksInv

\* The count of the TCBs that are not free.
LEMMA CountFree ==
    ASSUME NEW F \in SUBSET Tcb, NEW t \in Tcb
    PROVE  /\ Cardinality(Tcb \ F) \in 0 .. Len(thread_array)
           /\ t \notin F => Cardinality(Tcb \ (F \cup {t})) + 1 = Cardinality(Tcb \ F)
           /\ t \in F => Cardinality(Tcb \ (F \ {t})) = Cardinality(Tcb \ F) + 1
<1> DEFINE A == Tcb \ F
<1>1. IsFiniteSet(A) /\ Cardinality(A) <= Len(thread_array) BY PoolSize, FS_Subset
<1>2. Cardinality(A) \in Nat BY <1>1, FS_CardinalityType
<1>3. ASSUME t \notin F PROVE Cardinality(Tcb \ (F \cup {t})) + 1 = Cardinality(A)
  <2>1. Tcb \ (F \cup {t}) = A \ {t} /\ t \in A BY <1>3
  <2>2. Cardinality(A \ {t}) = Cardinality(A) - 1
    <3> HIDE DEF A
    <3> QED BY <2>1, <1>1, FS_RemoveElement
  <2> HIDE DEF A
  <2> QED BY <2>1, <2>2, <1>2
<1>4. ASSUME t \in F PROVE Cardinality(Tcb \ (F \ {t})) = Cardinality(A) + 1
  <2>1. Tcb \ (F \ {t}) = A \cup {t} /\ t \notin A BY <1>4
  <2>2. Cardinality(A \cup {t}) = Cardinality(A) + 1
    <3> HIDE DEF A
    <3> QED BY <2>1, <1>1, FS_AddElement
  <2> HIDE DEF A
  <2> QED BY <2>1, <2>2, <1>2
<1> QED BY <1>1, <1>2, <1>3, <1>4, PoolSize

\* A victim without children leaves its queue, or the CPU, for the free list.
LEMMA LeafMemory ==
    ASSUME NEW Q, NEW rank, LinksInv(Q, rank), TerminateLeaf,
           NEW t \in Tcb, t = Head(victims), t \notin Q[tcbfree_sentinel], ~InCreation
    PROVE  \E P, l : /\ IsMemory(l) /\ Store(l) /\ Queues(l, P) /\ Children(l, t_parent)
                     /\ \A c \in Tcb : l.prev[t_sib(c)] = Mem.prev[t_sib(c)]
                     /\ P[tcbfree_sentinel] = Q[tcbfree_sentinel] \cup {t}
                     /\ \A u \in Tcb : (\E h \in Queue : u \in P[h]) <=> u # current_thread'
<1>0. /\ FormInv /\ ListInv(Q) /\ PlaceInv(Q) /\ LinksTypeOK /\ IsMemory(Mem) /\ NULL \notin Tcb
      /\ Queues(Mem, Q) /\ Children(Mem, t_parent) /\ Q \in [Queue -> SUBSET Tcb]
  BY LinksAssumption DEF LinksInv, FormInv, ListInv, Queues
<1>m. Mem = Memory BY MemIdle DEF InCreation
<1>k. /\ ready_queue \in Queue /\ wait_queue \in Queue /\ tcbfree_sentinel \in Queue
      /\ ready_queue # wait_queue /\ ready_queue # tcbfree_sentinel
      /\ wait_queue # tcbfree_sentinel
      /\ \A h \in Queue : h = ready_queue \/ h = wait_queue \/ h = tcbfree_sentinel
  BY NodeKinds DEF Queue
<1> DEFINE out == IF thereIsThread(ready_queue, t) THEN outThread(Memory, ready_queue, t)
                  ELSE IF current_thread = t THEN Memory ELSE outThread(Memory, wait_queue, t)
<1>1. /\ Exists(t) \/ current_thread = t
      /\ Store(insertThread(out, tcbfree_sentinel, t))
      /\ current_thread' = IF current_thread = t THEN NULL ELSE current_thread
  BY DEF TerminateLeaf
<1>t. /\ thereIsThread(ready_queue, t) <=> t \in Q[ready_queue]
      /\ thereIsThread(wait_queue, t) <=> t \in Q[wait_queue]
  BY <1>0, <1>k, ListTests
<1>p. \A u \in Tcb : (\E h \in Queue : u \in Q[h]) <=> u # current_thread
  BY <1>0 DEF PlaceInv
<1>2. ASSUME NEW d, NEW D, IsMemory(d), Queues(d, D), Children(d, t_parent), out = d,
             \A c \in Tcb : d.prev[t_sib(c)] = Mem.prev[t_sib(c)],
             \A h \in Queue : t \notin D[h] /\ D[h] = Q[h] \ {t}
      PROVE  \E P, l : /\ IsMemory(l) /\ Store(l) /\ Queues(l, P) /\ Children(l, t_parent)
                       /\ \A c \in Tcb : l.prev[t_sib(c)] = Mem.prev[t_sib(c)]
                       /\ P[tcbfree_sentinel] = Q[tcbfree_sentinel] \cup {t}
                       /\ \A u \in Tcb : (\E h \in Queue : u \in P[h]) <=> u # current_thread'
  <2> DEFINE l == insertThread(d, tcbfree_sentinel, t)
             P == With(D, tcbfree_sentinel, t)
  <2>1. Store(l) BY <1>1, <1>2
  <2>2. \A h \in Queue : t \notin D[h] BY <1>2
  <2>3. /\ IsMemory(l) /\ Queues(l, P) /\ Children(l, t_parent)
        /\ \A c \in Tcb : l.prev[t_sib(c)] = d.prev[t_sib(c)]
    BY <1>2, <1>k, <2>2, QueueAdd
  <2>4. D \in [Queue -> SUBSET Tcb] BY <1>2 DEF Queues
  <2>5. /\ P[tcbfree_sentinel] = D[tcbfree_sentinel] \cup {t}
        /\ \A h \in Queue : h # tcbfree_sentinel => P[h] = D[h]
    BY <2>4, <1>k DEF With
  <2> HIDE DEF P, l, out
  <2>6. P[tcbfree_sentinel] = Q[tcbfree_sentinel] \cup {t} BY <2>5, <1>2, <1>k
  <2>7. ASSUME NEW u \in Tcb
        PROVE  (\E h \in Queue : u \in P[h]) <=> u # current_thread'
    <3>1. CASE u = t
      <4>1. u # current_thread' BY <3>1, <1>0, <1>1
      <4> QED BY <4>1, <3>1, <2>6, <1>k
    <3>2. CASE u # t
      <4>1. (\E h \in Queue : u \in P[h]) <=> (\E h \in Queue : u \in Q[h])
        BY <3>2, <2>5, <1>2, <1>k
      <4>2. u # current_thread' <=> u # current_thread BY <3>2, <1>0, <1>1
      <4> QED BY <4>1, <4>2, <1>p
    <3> QED BY <3>1, <3>2
  <2>8. \A c \in Tcb : l.prev[t_sib(c)] = Mem.prev[t_sib(c)] BY <2>3, <1>2
  <2> QED BY <2>1, <2>3, <2>6, <2>7, <2>8
<1>3. ASSUME NEW h \in Queue, t \in Q[h], out = list_del(Mem, t_next(t))
      PROVE  \E d, D : /\ IsMemory(d) /\ Queues(d, D) /\ Children(d, t_parent) /\ out = d
                       /\ \A c \in Tcb : d.prev[t_sib(c)] = Mem.prev[t_sib(c)]
                       /\ \A g \in Queue : t \notin D[g] /\ D[g] = Q[g] \ {t}
  <2> DEFINE d == list_del(Mem, t_next(t))
             D == Without(Q, h, t)
  <2>1. /\ IsMemory(d) /\ Queues(d, D) /\ Children(d, t_parent)
        /\ \A c \in Tcb : d.prev[t_sib(c)] = Mem.prev[t_sib(c)]
    BY <1>0, <1>3, QueueDel
  <2>2. D[h] = Q[h] \ {t} /\ \A g \in Queue : g # h => D[g] = Q[g] BY <1>0 DEF Without
  <2>3. \A g \in Queue : g # h => t \notin Q[g] BY <1>0, <1>3 DEF Queues
  <2> HIDE DEF D, out
  <2>4. \A g \in Queue : t \notin D[g] /\ D[g] = Q[g] \ {t} BY <2>2, <2>3
  <2>5. out = d BY <1>3
  <2> HIDE DEF d
  <2> QED BY <2>1, <2>4, <2>5
<1>4. \E d, D : /\ IsMemory(d) /\ Queues(d, D) /\ Children(d, t_parent) /\ out = d
                /\ \A c \in Tcb : d.prev[t_sib(c)] = Mem.prev[t_sib(c)]
                /\ \A g \in Queue : t \notin D[g] /\ D[g] = Q[g] \ {t}
  <2>1. CASE t \in Q[ready_queue]
    <3>1. out = list_del(Mem, t_next(t)) BY <2>1, <1>t, <1>m DEF outThread
    <3> HIDE DEF out
    <3> QED BY <3>1, <2>1, <1>3, <1>k
  <2>2. CASE t \notin Q[ready_queue] /\ current_thread = t
    <3>1. out = Mem BY <2>2, <1>t, <1>m
    <3> HIDE DEF out
    <3>2. \A g \in Queue : t \notin Q[g] BY <2>2, <1>p
    <3>3. \A g \in Queue : t \notin Q[g] /\ Q[g] = Q[g] \ {t} BY <3>2
    <3> QED BY <3>1, <3>3, <1>0
  <2>3. CASE t \notin Q[ready_queue] /\ current_thread # t
    <3>0. t \in Q[wait_queue] BY <2>3, <1>t, <1>1 DEF Exists
    <3>1. out = list_del(Mem, t_next(t)) BY <2>3, <3>0, <1>t, <1>m DEF outThread
    <3> HIDE DEF out
    <3> QED BY <3>0, <3>1, <1>3, <1>k
  <2> QED BY <2>1, <2>2, <2>3
<1> HIDE DEF out
<1> QED BY <1>2, <1>4

\* The base case of terminate().
LEMMA TerminateLeafKeeps ==
    ASSUME NEW Q, NEW rank, LinksInv(Q, rank), TerminateLeaf
    PROVE  \E P : LinksInv(P, rank)' /\ P[tcbfree_sentinel] = Q[tcbfree_sentinel] \cup {Head(victims)}
<1>0. /\ FormInv /\ ListInv(Q) /\ LinksTypeOK /\ t_parent \in [Tcb -> Tcb \cup {NULL}]
      /\ NULL \notin Tcb /\ rings \subseteq Tcb /\ Q[tcbfree_sentinel] \in SUBSET Tcb
      /\ victims \in Seq(Tcb) /\ victims # <<>> /\ DoomInv(Q) /\ SibInv(Q) /\ FreeInv(Q)
      /\ CountInv(Q) /\ doomed \subseteq Tcb
  BY LinksAssumption, NodeKinds
  DEF LinksInv, FormInv, LinksTypeOK, ListInv, Queues, TerminateLeaf
<1>i. ssi.pc = "idle" /\ ssi' = ssi /\ ~InCreation
  BY <1>0 DEF InCreation, TerminateLeaf, LinksInv, CreateInv
<1>1. PICK t \in Tcb : t = Head(victims) BY <1>0, TailLemma
<1>2. /\ t \in ToSet(victims) /\ Tail(victims) \in Seq(Tcb)
      /\ ToSet(victims) = ToSet(Tail(victims)) \cup {t}
      /\ Distinct(Tail(victims)) /\ t \notin ToSet(Tail(victims))
  BY <1>0, <1>1, TailLemma DEF DoomInv
<1>3. t \in doomed /\ t_parent[t] = NULL /\ t \notin Q[tcbfree_sentinel]
  BY <1>0, <1>2 DEF DoomInv
<1>4. Kids(t_parent, t) = {} BY <1>0, <1>1, ListTests DEF TerminateLeaf
<1>5. \E P, l : /\ IsMemory(l) /\ Store(l) /\ Queues(l, P) /\ Children(l, t_parent)
                /\ \A c \in Tcb : l.prev[t_sib(c)] = Mem.prev[t_sib(c)]
                /\ P[tcbfree_sentinel] = Q[tcbfree_sentinel] \cup {t}
                /\ \A u \in Tcb : (\E h \in Queue : u \in P[h]) <=> u # current_thread'
  BY <1>1, <1>3, <1>i, LeafMemory
<1>6. PICK P, l : /\ IsMemory(l) /\ Store(l) /\ Queues(l, P) /\ Children(l, t_parent)
                  /\ \A c \in Tcb : l.prev[t_sib(c)] = Mem.prev[t_sib(c)]
                  /\ P[tcbfree_sentinel] = Q[tcbfree_sentinel] \cup {t}
                  /\ \A u \in Tcb : (\E h \in Queue : u \in P[h]) <=> u # current_thread'
  BY <1>5
<1>7. /\ doomed' = doomed \ {t} /\ thread_count' = thread_count - 1 /\ victims' = Tail(victims)
      /\ UNCHANGED <<t_parent, ssi, rings>>
      /\ current_thread' = IF current_thread = t THEN NULL ELSE current_thread
  BY <1>1 DEF TerminateLeaf
<1>8. Mem' = l BY <1>i, <1>6, StoreMem
<1>9. CountInv(P)' /\ thread_count' \in 0 .. Len(thread_array)
  <2> DEFINE F == Q[tcbfree_sentinel]
             n == Cardinality(Tcb \ (F \cup {t}))
  <2>1. n + 1 = Cardinality(Tcb \ F) BY <1>0, <1>3, CountFree
  <2>2. F \cup {t} \in SUBSET Tcb BY <1>0
  <2>3. n \in 0 .. Len(thread_array)
    <3> DEFINE G == F \cup {t}
    <3>1. G \in SUBSET Tcb BY <2>2
    <3> HIDE DEF G
    <3>2. Cardinality(Tcb \ G) \in 0 .. Len(thread_array) BY <3>1, CountFree
    <3> QED BY <3>2 DEF G
  <2>4. thread_count = Cardinality(Tcb \ F) /\ thread_count \in 0 .. Len(thread_array)
    BY <1>0, <1>i DEF CountInv, LinksTypeOK
  <2>5. n = Cardinality(Tcb \ P[tcbfree_sentinel]) BY <1>6
  <2> HIDE DEF F, n
  <2>6. thread_count' = n BY <2>1, <2>3, <2>4, <1>7, PoolSize
  <2>7. ssi'.pc = "idle" BY <1>i
  <2>8. thread_count' + 0 = n BY <2>3, <2>6, PoolSize
  <2> QED BY <2>3, <2>5, <2>6, <2>7, <2>8 DEF CountInv
<1>10. FormInv'
  <2>1. next' \in [Node -> Node] /\ prev' \in [Node -> Node] BY <1>6 DEF Store, IsMemory
  <2>2. IsMemory(Mem)' BY <1>6, <1>8 DEF IsMemory
  <2>3. current_thread' \in Tcb \cup {NULL} BY <1>0, <1>7 DEF LinksTypeOK
  <2>4. doomed' \subseteq Tcb /\ victims' \in Seq(Tcb) BY <1>0, <1>2, <1>7
  <2> QED BY <2>1, <2>2, <2>3, <2>4, <1>0, <1>7, <1>9 DEF FormInv, LinksTypeOK
<1>11. ListInv(P)' BY <1>6, <1>7, <1>8 DEF ListInv, Queues, Children, Linked, Ring
<1>12. PlaceInv(P)' BY <1>6, <1>i DEF PlaceInv, InCreation
<1>13. SibInv(P)' BY <1>0, <1>2, <1>6, <1>7, <1>8 DEF SibInv
<1>14. FreeInv(P)' BY <1>0, <1>3, <1>4, <1>6, <1>7 DEF FreeInv, Kids
<1>15. CreateInv(P)' BY <1>i DEF CreateInv, InCreation
<1>16. DoomInv(P)'
  <2>1. doomed' \cap P[tcbfree_sentinel] = {} BY <1>0, <1>6, <1>7 DEF DoomInv
  <2>2. ToSet(victims') \subseteq doomed' BY <1>0, <1>2, <1>7 DEF DoomInv
  <2>3. \A c \in Tcb : t_parent'[c] \in doomed' => c \in doomed'
    BY <1>0, <1>3, <1>7 DEF DoomInv
  <2>4. \A u \in doomed' : u \in ToSet(victims') \/ t_parent'[u] \in doomed'
    BY <1>0, <1>2, <1>4, <1>7 DEF DoomInv, Kids
  <2>5. Distinct(victims') /\ \A x \in ToSet(victims') : t_parent'[x] = NULL
    BY <1>0, <1>2, <1>7 DEF DoomInv
  <2> QED BY <2>1, <2>2, <2>3, <2>4, <2>5 DEF DoomInv
<1>17. RankInv(rank)' BY <1>7 DEF LinksInv, RankInv
<1>18. LinksInv(P, rank)'
  BY <1>9, <1>10, <1>11, <1>12, <1>13, <1>14, <1>15, <1>16, <1>17 DEF LinksInv
<1> QED BY <1>1, <1>6, <1>18

----------------------------------------------------------------------------
(* The invariant is kept: CREATESON and CREATEBROTHER *)

\* When no termination is under way nothing is condemned: above the thread of
\* least rank there would be another one.
LEMMA NothingDoomed ==
    ASSUME NEW Q, NEW rank, DoomInv(Q), RankInv(rank), LinksTypeOK, victims = <<>>
    PROVE  doomed = {}
<1> SUFFICES ASSUME doomed # {} PROVE FALSE OBVIOUS
<1>0. /\ doomed \subseteq Tcb /\ NULL \notin Tcb /\ rank \in [Tcb -> Nat]
      /\ \A u \in doomed : u \in ToSet(victims) \/ t_parent[u] \in doomed
      /\ \A c \in Tcb : t_parent[c] # NULL => rank[t_parent[c]] < rank[c]
  BY LinksAssumption DEF LinksTypeOK, RankInv, DoomInv
<1>1. ToSet(victims) = {} BY EmptyLemma
<1> DEFINE I == {rank[u] : u \in doomed}
<1>2. I \in SUBSET Nat /\ I # {} BY <1>0
<1>3. \E j \in I : \A k \in I : j <= k
  <2> HIDE DEF I
  <2> QED BY <1>2, LeastElement
<1>4. PICK u \in doomed : \A w \in doomed : rank[u] <= rank[w] BY <1>3
<1>5. t_parent[u] \in doomed BY <1>0, <1>1
<1>6. rank[t_parent[u]] < rank[u] /\ rank[u] <= rank[t_parent[u]] BY <1>0, <1>4, <1>5
<1>7. rank[u] \in Nat /\ rank[t_parent[u]] \in Nat BY <1>0, <1>5
<1> QED BY <1>6, <1>7

\* The two stores of INIT_LIST_HEAD(n).
LEMMA InitStores ==
    ASSUME NEW l, IsMemory(l), NEW n \in Node
    PROVE  LET r == INIT_LIST_HEAD(l, n)
           IN  /\ IsMemory(r)
               /\ \A x \in Node : /\ r.next[x] = IF x = n THEN n ELSE l.next[x]
                                  /\ r.prev[x] = IF x = n THEN n ELSE l.prev[x]
<1> DEFINE r == INIT_LIST_HEAD(l, n)
           l1 == [l EXCEPT !.next[n] = n]
           l2 == [l1 EXCEPT !.prev[n] = n]
<1>r. r = l2 BY DEF INIT_LIST_HEAD
<1>1. l.next \in [Node -> Node] /\ l.prev \in [Node -> Node] BY DEF IsMemory
<1> HIDE DEF r, l1, l2
<1>2. IsMemory(l1) /\ l1.prev = l.prev /\ l1.next = [l.next EXCEPT ![n] = n]
  BY <1>1, StoreNext DEF l1
<1>3. IsMemory(l2) /\ l2.next = l1.next /\ l2.prev = [l1.prev EXCEPT ![n] = n]
  <2>1. l2 = [l1 EXCEPT !.prev[n] = n] BY DEF l2
  <2> QED BY <1>2, <2>1 DEF IsMemory
<1>4. \A x \in Node : /\ r.next[x] = IF x = n THEN n ELSE l.next[x]
                      /\ r.prev[x] = IF x = n THEN n ELSE l.prev[x]
  BY <1>r, <1>1, <1>2, <1>3
<1> QED BY <1>r, <1>3, <1>4 DEF r

\* allocTcb: the first free TCB leaves the free list, without children and
\* with a t_sib that points to itself.
LEMMA AllocMemory ==
    ASSUME NEW m, IsMemory(m), NEW Q, NEW par \in [Tcb -> Tcb \cup {NULL}],
           Queues(m, Q), Children(m, par), NULL \notin Tcb,
           NEW new \in Q[tcbfree_sentinel], par[new] = NULL, Kids(par, new) = {}
    PROVE  LET r == allocTcb(m, new)
           IN  /\ IsMemory(r)
               /\ Queues(r, Without(Q, tcbfree_sentinel, new))
               /\ Children(r, par)
               /\ r.prev[t_sib(new)] = t_sib(new)
               /\ \A c \in Tcb : c # new => r.prev[t_sib(c)] = m.prev[t_sib(c)]
<1> DEFINE d == list_del(m, t_next(new))
           e == INIT_LIST_HEAD(d, t_child(new))
           r == INIT_LIST_HEAD(e, t_sib(new))
           P == Without(Q, tcbfree_sentinel, new)
<1>0. /\ tcbfree_sentinel \in Queue /\ Q \in [Queue -> SUBSET Tcb] /\ new \in Tcb
      /\ t_child(new) \in Node /\ t_sib(new) \in Node
  BY NodeKinds DEF Queues
<1>1. /\ IsMemory(d) /\ Queues(d, P) /\ Children(d, par)
      /\ \A c \in Tcb : d.prev[t_sib(c)] = m.prev[t_sib(c)]
  BY <1>0, QueueDel
<1> HIDE DEF d, P
<1>2. /\ IsMemory(e)
      /\ \A x \in Node : /\ e.next[x] = IF x = t_child(new) THEN t_child(new) ELSE d.next[x]
                         /\ e.prev[x] = IF x = t_child(new) THEN t_child(new) ELSE d.prev[x]
  BY <1>0, <1>1, InitStores
<1> HIDE DEF e
<1>3. /\ IsMemory(r)
      /\ \A x \in Node : /\ r.next[x] = IF x = t_sib(new) THEN t_sib(new) ELSE e.next[x]
                         /\ r.prev[x] = IF x = t_sib(new) THEN t_sib(new) ELSE e.prev[x]
  BY <1>0, <1>2, InitStores
<1> HIDE DEF r
<1>4. d.next[t_child(new)] = t_child(new) /\ d.prev[t_child(new)] = t_child(new)
  <2>1. Linked(d, t_child(new), Sibs(Kids(par, new))) BY <1>0, <1>1 DEF Children
  <2>2. Sibs(Kids(par, new)) = {} BY NextsSibs
  <2>3. Linked(d, t_child(new), {}) BY <2>1, <2>2
  <2> QED BY <2>3, LinkedFacts
<1>5. \A x \in Node : x # t_sib(new) => r.next[x] = d.next[x] /\ r.prev[x] = d.prev[x]
  BY <1>2, <1>3, <1>4
<1>6. Queues(r, P) /\ Children(r, par)
  <2>1. \A n \in Queue : r.next[n] = d.next[n] /\ r.prev[n] = d.prev[n]
    BY <1>5, NodeKinds
  <2>2. P \in [Queue -> SUBSET Tcb] BY <1>1 DEF Queues
  <2>3. \A h \in Queue : \A t \in P[h] :
           r.next[t_next(t)] = d.next[t_next(t)] /\ r.prev[t_next(t)] = d.prev[t_next(t)]
    BY <2>2, <1>5, NodeKinds
  <2>4. \A t \in Tcb :
           r.next[t_child(t)] = d.next[t_child(t)] /\ r.prev[t_child(t)] = d.prev[t_child(t)]
    BY <1>5, NodeKinds
  <2>5. \A t \in Tcb : par[t] # NULL =>
           r.next[t_sib(t)] = d.next[t_sib(t)] /\ r.prev[t_sib(t)] = d.prev[t_sib(t)]
    BY <1>5, NodeKinds
  <2> QED BY <2>1, <2>3, <2>4, <2>5, <1>1, ListsKept
<1>7. r.prev[t_sib(new)] = t_sib(new) BY <1>0, <1>3
<1>8. \A c \in Tcb : c # new => r.prev[t_sib(c)] = m.prev[t_sib(c)]
  BY <1>1, <1>5, NodeKinds
<1> QED BY <1>3, <1>6, <1>7, <1>8 DEF allocTcb, r, e, d, P

\* A creation starts.
LEMMA AllocateKeeps ==
    ASSUME NEW Q, NEW rank, LinksInv(Q, rank), Reuse = FALSE, NEW req \in User, NEW kind,
           Allocate(req, kind)
    PROVE  \E P : /\ LinksInv(P, rank)' /\ ssi'.new \in Q[tcbfree_sentinel]
                  /\ P[tcbfree_sentinel] = Q[tcbfree_sentinel] \ {ssi'.new}
<1>0. /\ FormInv /\ ListInv(Q) /\ LinksTypeOK /\ t_parent \in [Tcb -> Tcb \cup {NULL}]
      /\ NULL \notin Tcb /\ rings \subseteq Tcb /\ Q \in [Queue -> SUBSET Tcb]
      /\ SibInv(Q) /\ FreeInv(Q) /\ CountInv(Q) /\ PlaceInv(Q) /\ DoomInv(Q)
      /\ Queues(Mem, Q) /\ Children(Mem, t_parent) /\ IsMemory(Mem)
  BY LinksAssumption DEF LinksInv, FormInv, LinksTypeOK, ListInv, Queues
<1>k. /\ ready_queue \in Queue /\ wait_queue \in Queue /\ tcbfree_sentinel \in Queue
      /\ ready_queue # wait_queue /\ ready_queue # tcbfree_sentinel
      /\ wait_queue # tcbfree_sentinel
  BY NodeKinds
<1>i. /\ ssi.pc = "idle" /\ ~InCreation /\ victims = <<>> /\ current_thread = SSI_tcb
      /\ Exists(req) /\ ~list_empty(tcbfree_sentinel)
  BY DEF Allocate, At, InCreation, InKernel
<1>m. Mem = Memory BY <1>i, MemIdle
<1>1. PICK new \in Q[tcbfree_sentinel] : next[tcbfree_sentinel] = t_next(new)
  BY <1>0, <1>i, <1>k, ListTests
<1> DEFINE r == allocTcb(Mem, new)
           P == Without(Q, tcbfree_sentinel, new)
<1>2. /\ new \notin rings /\ Store(r) /\ t_parent' = [t_parent EXCEPT ![new] = NULL]
      /\ ssi' = [pc |-> "link", req |-> req, new |-> new, load |-> kind]
      /\ UNCHANGED <<current_thread, thread_count, victims, rings, doomed>>
  <2>1. Container(next[tcbfree_sentinel]) = new BY <1>1, NodeKinds
  <2> QED BY <2>1, <1>m DEF Allocate
<1>3. new \in Tcb /\ t_parent[new] = NULL /\ Kids(t_parent, new) = {}
  BY <1>0, <1>k DEF FreeInv
<1>4. /\ IsMemory(r) /\ Queues(r, P) /\ Children(r, t_parent)
      /\ r.prev[t_sib(new)] = t_sib(new)
      /\ \A c \in Tcb : c # new => r.prev[t_sib(c)] = Mem.prev[t_sib(c)]
  <2> DEFINE m == Mem
  <2>1. IsMemory(m) /\ Queues(m, Q) /\ Children(m, t_parent) BY <1>0
  <2> HIDE DEF m
  <2>2. LET s == allocTcb(m, new)
        IN  /\ IsMemory(s) /\ Queues(s, P) /\ Children(s, t_parent)
            /\ s.prev[t_sib(new)] = t_sib(new)
            /\ \A c \in Tcb : c # new => s.prev[t_sib(c)] = m.prev[t_sib(c)]
    BY <2>1, <1>0, <1>3, AllocMemory
  <2> QED BY <2>2 DEF m
<1>5. P[tcbfree_sentinel] = Q[tcbfree_sentinel] \ {new}
      /\ \A h \in Queue : h # tcbfree_sentinel => P[h] = Q[h]
  BY <1>0, <1>k DEF Without
<1> HIDE DEF r, P
<1>6. t_parent' = t_parent BY <1>0, <1>2, <1>3
<1>7. /\ ssi'.pc = "link" /\ ssi'.req = req /\ ssi'.new = new /\ ssi'.load = kind
      /\ ssi' = [pc |-> ssi'.pc, req |-> ssi'.req, new |-> ssi'.new, load |-> ssi'.load]
  BY <1>2
<1>8. Mem' = r BY <1>2, <1>4, <1>7, StoreMem
<1>9. FormInv'
  <2>1. next' \in [Node -> Node] /\ prev' \in [Node -> Node] BY <1>2, <1>4 DEF Store, IsMemory
  <2>2. IsMemory(Mem)' BY <1>4, <1>8 DEF IsMemory
  <2> QED BY <2>1, <2>2, <1>0, <1>2, <1>6, <1>7 DEF FormInv, LinksTypeOK
<1>10. ListInv(P)' BY <1>4, <1>6, <1>8 DEF ListInv, Queues, Children, Linked, Ring
<1>11. new # current_thread BY <1>0, <1>1, <1>3, <1>k DEF PlaceInv
<1>12. PlaceInv(P)'
  <2>1. \A t \in Tcb : (\E h \in Queue : t \in Q[h]) <=> t # current_thread
    BY <1>0, <1>i DEF PlaceInv
  <2>2. \A h \in Queue : h # tcbfree_sentinel => new \notin Q[h] BY <1>0, <1>1, <1>k DEF Queues
  <2>3. \A t \in Tcb : (\E h \in Queue : t \in P[h]) <=> t # current_thread /\ t # new
    BY <2>1, <2>2, <1>5, <1>k
  <2>4. InCreation' /\ current_thread' = current_thread BY <1>2, <1>7 DEF InCreation
  <2> QED BY <2>3, <2>4, <1>7 DEF PlaceInv
<1>13. SibInv(P)'
  <2>1. ASSUME NEW t \in rings
        PROVE  t_parent[t] = NULL /\ \E u \in rings : Mem'.prev[t_sib(t)] = t_sib(u)
    BY <1>0, <1>2, <1>4, <1>8 DEF SibInv
  <2>2. ASSUME NEW t \in Tcb, t \notin rings, t \notin P[tcbfree_sentinel],
               t \notin ToSet(victims), t_parent[t] = NULL
        PROVE  Mem'.prev[t_sib(t)] = t_sib(t)
    <3>1. CASE t = new BY <3>1, <1>4, <1>8
    <3>2. CASE t # new BY <3>2, <2>2, <1>0, <1>4, <1>5, <1>8 DEF SibInv
    <3> QED BY <3>1, <3>2
  <2> QED BY <2>1, <2>2, <1>2, <1>6 DEF SibInv
<1>14. FreeInv(P)' BY <1>0, <1>5, <1>6 DEF FreeInv, Kids
<1>15. CountInv(P)'
  <2> DEFINE F == Q[tcbfree_sentinel]
  <2>1. Cardinality(Tcb \ (F \ {new})) = Cardinality(Tcb \ F) + 1
    BY <1>0, <1>1, <1>3, <1>k, CountFree
  <2>2. thread_count = Cardinality(Tcb \ F) BY <1>0, <1>i DEF CountInv, LinksTypeOK
  <2>3. thread_count' = thread_count /\ P[tcbfree_sentinel] = F \ {new} BY <1>2, <1>5
  <2>4. thread_count' + 1 = Cardinality(Tcb \ P[tcbfree_sentinel])
    <3> HIDE DEF F
    <3> QED BY <2>1, <2>2, <2>3
  <2> QED BY <2>4, <1>7 DEF CountInv
<1>16. CreateInv(P)'
  <2>1. req \in P[ready_queue] \cup P[wait_queue]
    BY <1>0, <1>i, <1>5, <1>k, ListTests DEF Exists
  <2> QED BY <2>1, <1>2, <1>3, <1>6, <1>7, <1>11, <1>i DEF CreateInv, Kids
<1>17. DoomInv(P)' BY <1>0, <1>2, <1>5, <1>6 DEF DoomInv
<1>18. RankInv(rank)' BY <1>6 DEF LinksInv, RankInv
<1>19. LinksInv(P, rank)'
  BY <1>9, <1>10, <1>12, <1>13, <1>14, <1>15, <1>16, <1>17, <1>18 DEF LinksInv
<1> QED BY <1>1, <1>5, <1>7, <1>19

\* insertChild of the new thread below a parent.
LEMMA LinkBelow ==
    ASSUME NEW Q, NEW rank, LinksInv(Q, rank), Link, NEW p \in Tcb,
           p = IF ssi.load = "son" THEN ssi.req ELSE t_parent[ssi.req]
    PROVE  \E f : LinksInv(Q, f)'
<1>0. /\ FormInv /\ ListInv(Q) /\ LinksTypeOK /\ t_parent \in [Tcb -> Tcb \cup {NULL}]
      /\ NULL \notin Tcb /\ rings \subseteq Tcb /\ Q \in [Queue -> SUBSET Tcb]
      /\ SibInv(Q) /\ FreeInv(Q) /\ CountInv(Q) /\ PlaceInv(Q) /\ DoomInv(Q) /\ RankInv(rank)
      /\ Queues(Mem, Q) /\ Children(Mem, t_parent) /\ IsMemory(Mem) /\ CreateInv(Q)
  BY LinksAssumption DEF LinksInv, FormInv, LinksTypeOK, ListInv, Queues
<1>k. /\ ready_queue \in Queue /\ wait_queue \in Queue /\ tcbfree_sentinel \in Queue
      /\ ready_queue # tcbfree_sentinel /\ wait_queue # tcbfree_sentinel
  BY NodeKinds
<1>i. ssi.pc = "link" /\ InCreation BY DEF Link, At, InCreation
<1>m. Mem = Memory BY <1>i, MemIdle
<1>1. PICK new \in Tcb, req \in Tcb : new = ssi.new /\ req = ssi.req
  BY <1>0, <1>i, <1>k DEF CreateInv
<1>2. /\ victims = <<>> /\ current_thread = SSI_tcb /\ new # SSI_tcb
      /\ Kids(t_parent, new) = {} /\ req \in Q[ready_queue] \cup Q[wait_queue]
      /\ t_parent[new] = NULL /\ new \notin rings
  BY <1>0, <1>1, <1>i DEF CreateInv
<1>3. req # new /\ req \notin Q[tcbfree_sentinel]
  <2>1. \A h \in Queue : new \notin Q[h] BY <1>0, <1>1, <1>i DEF PlaceInv
  <2> QED BY <2>1, <1>0, <1>2, <1>k DEF Queues
<1>4. p # new /\ p \notin Q[tcbfree_sentinel] /\ p # NULL
  BY <1>0, <1>1, <1>2, <1>3 DEF Kids, FreeInv
<1> DEFINE l == list_add_tail(Mem, t_sib(new), t_child(p))
           f == [rank EXCEPT ![new] = rank[p] + 1]
<1>5. /\ Store(l) /\ t_parent' = Adopt(t_parent, new, p) /\ rings' = rings
      /\ ssi' = [ssi EXCEPT !.pc = "count"]
      /\ UNCHANGED <<current_thread, thread_count, victims, doomed>>
  BY <1>1, <1>4, <1>m DEF Link, GoTo, Adopt
<1>6. /\ IsMemory(l) /\ Queues(l, Q) /\ Children(l, Adopt(t_parent, new, p))
      /\ \A x \in Tcb : t_parent[x] # p /\ x # new => l.prev[t_sib(x)] = Mem.prev[t_sib(x)]
  BY <1>0, <1>2, ChildAdd
<1>7. /\ ssi'.pc = "count" /\ ssi'.req = req /\ ssi'.new = new
      /\ ssi' = [pc |-> ssi'.pc, req |-> ssi'.req, new |-> ssi'.new, load |-> ssi'.load]
  BY <1>0, <1>1, <1>5 DEF FormInv
<1> HIDE DEF l
<1>8. Mem' = l BY <1>5, <1>6, <1>7, StoreMem
<1>9. /\ t_parent'[new] = p /\ t_parent' \in [Tcb -> Tcb \cup {NULL}]
      /\ \A x \in Tcb : x # new => t_parent'[x] = t_parent[x]
  BY <1>0, <1>5 DEF Adopt
<1>10. doomed = {} BY <1>0, <1>2, NothingDoomed
<1>11. FormInv'
  <2>1. next' \in [Node -> Node] /\ prev' \in [Node -> Node] BY <1>5, <1>6 DEF Store, IsMemory
  <2>2. IsMemory(Mem)' BY <1>6, <1>8 DEF IsMemory
  <2> QED BY <2>1, <2>2, <1>0, <1>5, <1>7, <1>9 DEF FormInv, LinksTypeOK
<1>12. ListInv(Q)' BY <1>5, <1>6, <1>8 DEF ListInv, Queues, Children, Linked, Ring
<1>13. PlaceInv(Q)'
  <2>1. InCreation' /\ current_thread' = current_thread BY <1>5, <1>7 DEF InCreation
  <2> QED BY <2>1, <1>0, <1>1, <1>7, <1>i DEF PlaceInv
<1>14. SibInv(Q)'
  <2>1. ASSUME NEW t \in rings
        PROVE  t_parent'[t] = NULL /\ \E u \in rings : Mem'.prev[t_sib(t)] = t_sib(u)
    <3>1. t \in Tcb /\ t # new /\ t_parent[t] = NULL BY <1>0, <1>2 DEF SibInv
    <3>2. Mem'.prev[t_sib(t)] = Mem.prev[t_sib(t)] BY <3>1, <1>4, <1>6, <1>8
    <3> QED BY <3>1, <3>2, <1>0, <1>9 DEF SibInv
  <2>2. ASSUME NEW t \in Tcb, t \notin rings, t \notin Q[tcbfree_sentinel],
               t \notin ToSet(victims), t_parent'[t] = NULL
        PROVE  Mem'.prev[t_sib(t)] = t_sib(t)
    <3>1. t # new /\ t_parent[t] = NULL BY <2>2, <1>4, <1>9
    <3>2. Mem'.prev[t_sib(t)] = Mem.prev[t_sib(t)] BY <3>1, <1>4, <1>6, <1>8
    <3> QED BY <2>2, <3>1, <3>2, <1>0 DEF SibInv
  <2> QED BY <2>1, <2>2, <1>5 DEF SibInv
<1>15. \A g \in Tcb : g # p => Kids(t_parent', g) \subseteq Kids(t_parent, g)
  BY <1>9 DEF Kids
<1>16. FreeInv(Q)'
  <2>1. ASSUME NEW g \in Q[tcbfree_sentinel]
        PROVE  t_parent'[g] = NULL /\ Kids(t_parent', g) = {}
    <3>1. \A h \in Queue : new \notin Q[h] BY <1>0, <1>1, <1>i DEF PlaceInv
    <3>2. g # new /\ g # p /\ g \in Tcb BY <3>1, <1>0, <1>4, <1>k
    <3> QED BY <3>2, <1>0, <1>9, <1>15 DEF FreeInv
  <2> QED BY <2>1 DEF FreeInv, Kids
<1>17. CountInv(Q)' BY <1>0, <1>5, <1>7, <1>i DEF CountInv
<1>18. CreateInv(Q)'
  <2>1. Kids(t_parent', new) = {} BY <1>2, <1>4, <1>15
  <2>2. Kids(t_parent, new)' = Kids(t_parent', new) BY DEF Kids
  <2>3. Kids(t_parent, ssi.new)' = {} BY <2>1, <2>2, <1>7 DEF Kids
  <2> QED BY <2>3, <1>2, <1>5, <1>7 DEF CreateInv
<1>19. DoomInv(Q)'
  <2>1. doomed' = {} /\ victims' = <<>> /\ ToSet(victims') = {} /\ Distinct(victims')
    BY <1>2, <1>5, <1>10, EmptyLemma
  <2> QED BY <2>1 DEF DoomInv
<1>20. RankInv(f)'
  <2>1. rank \in [Tcb -> Nat] /\ rank[p] \in Nat BY <1>0 DEF RankInv
  <2>2. f \in [Tcb -> Nat] /\ f[new] = rank[p] + 1 /\ \A x \in Tcb : x # new => f[x] = rank[x]
    BY <2>1
  <2> HIDE DEF f
  <2>3. ASSUME NEW c \in Tcb, t_parent'[c] # NULL PROVE f[t_parent'[c]] < f[c]
    <3>1. CASE c = new
      <4>1. f[t_parent'[c]] = rank[p] BY <3>1, <2>2, <1>4, <1>9
      <4> QED BY <3>1, <4>1, <2>1, <2>2
    <3>2. CASE c # new
      <4>1. t_parent'[c] = t_parent[c] /\ t_parent[c] # new /\ t_parent[c] \in Tcb
        BY <3>2, <2>3, <1>0, <1>2, <1>9 DEF Kids
      <4>2. rank[t_parent[c]] < rank[c] BY <4>1, <1>0 DEF RankInv
      <4> QED BY <4>1, <4>2, <3>2, <2>2
    <3> QED BY <3>1, <3>2
  <2> QED BY <2>2, <2>3 DEF RankInv
<1>21. LinksInv(Q, f)'
  <2> HIDE DEF f
  <2> QED BY <1>11, <1>12, <1>13, <1>14, <1>16, <1>17, <1>18, <1>19, <1>20 DEF LinksInv
<1> QED BY <1>21

\* insertSibling of the new thread, when the requester has no parent: the
\* stores reach the t_sib of parentless threads only.
LEMMA LinkBeside ==
    ASSUME NEW Q, NEW rank, LinksInv(Q, rank), Link,
           NULL = IF ssi.load = "son" THEN ssi.req ELSE t_parent[ssi.req]
    PROVE  LinksInv(Q, rank)'
<1>0. /\ FormInv /\ ListInv(Q) /\ LinksTypeOK /\ t_parent \in [Tcb -> Tcb \cup {NULL}]
      /\ NULL \notin Tcb /\ rings \subseteq Tcb /\ Q \in [Queue -> SUBSET Tcb]
      /\ SibInv(Q) /\ FreeInv(Q) /\ CountInv(Q) /\ PlaceInv(Q) /\ DoomInv(Q) /\ RankInv(rank)
      /\ Queues(Mem, Q) /\ Children(Mem, t_parent) /\ IsMemory(Mem) /\ CreateInv(Q)
  BY LinksAssumption DEF LinksInv, FormInv, LinksTypeOK, ListInv, Queues
<1>k. /\ ready_queue \in Queue /\ wait_queue \in Queue /\ tcbfree_sentinel \in Queue
      /\ ready_queue # tcbfree_sentinel /\ wait_queue # tcbfree_sentinel
  BY NodeKinds
<1>i. ssi.pc = "link" /\ InCreation BY DEF Link, At, InCreation
<1>m. Mem = Memory BY <1>i, MemIdle
<1>1. PICK new \in Tcb, req \in Tcb : new = ssi.new /\ req = ssi.req
  BY <1>0, <1>i, <1>k DEF CreateInv
<1>2. /\ victims = <<>> /\ current_thread = SSI_tcb /\ new # SSI_tcb
      /\ Kids(t_parent, new) = {} /\ req \in Q[ready_queue] \cup Q[wait_queue]
      /\ t_parent[new] = NULL /\ new \notin rings /\ ToSet(victims) = {}
  BY <1>0, <1>1, <1>i, EmptyLemma DEF CreateInv
<1>3. req # new /\ req \notin Q[tcbfree_sentinel]
  <2>1. \A h \in Queue : new \notin Q[h] BY <1>0, <1>1, <1>i DEF PlaceInv
  <2> QED BY <2>1, <1>0, <1>2, <1>k DEF Queues
<1>4. t_parent[req] = NULL BY <1>0, <1>1
<1> DEFINE l == list_add_tail(Mem, t_sib(new), t_sib(req))
<1>5. /\ Store(l) /\ t_parent' = t_parent /\ rings' = rings \cup {req, new}
      /\ ssi' = [ssi EXCEPT !.pc = "count"]
      /\ UNCHANGED <<current_thread, thread_count, victims, doomed>>
  <2>1. /\ Store(l) /\ t_parent' = [t_parent EXCEPT ![new] = NULL] /\ rings' = rings \cup {req, new}
        /\ ssi' = [ssi EXCEPT !.pc = "count"]
        /\ UNCHANGED <<current_thread, thread_count, victims, doomed>>
    BY <1>1, <1>m DEF Link, GoTo
  <2> QED BY <2>1, <1>0, <1>2
<1>6. \E u \in rings \cup {req} : Mem.prev[t_sib(req)] = t_sib(u)
  BY <1>0, <1>2, <1>3, <1>4 DEF SibInv
<1>7. PICK u \in rings \cup {req} : Mem.prev[t_sib(req)] = t_sib(u) BY <1>6
<1>8. u \in Tcb /\ t_parent[u] = NULL BY <1>0, <1>4 DEF SibInv
<1>9. /\ IsMemory(l)
      /\ \A n \in Node :
            /\ l.next[n] = IF n = t_sib(u) THEN t_sib(new)
                           ELSE IF n = t_sib(new) THEN t_sib(req) ELSE Mem.next[n]
            /\ l.prev[n] = IF n = t_sib(new) THEN t_sib(u)
                           ELSE IF n = t_sib(req) THEN t_sib(new) ELSE Mem.prev[n]
  <2> DEFINE m == Mem
  <2>0. IsMemory(m) /\ m.prev[t_sib(req)] = t_sib(u) BY <1>0, <1>7
  <2> HIDE DEF m
  <2>1. t_sib(new) \in Node /\ t_sib(req) \in Node BY NodeKinds
  <2>2. LET r == list_add_tail(m, t_sib(new), t_sib(req))
        IN  /\ IsMemory(r)
            /\ \A n \in Node :
                  /\ r.next[n] = IF n = t_sib(u) THEN t_sib(new)
                                 ELSE IF n = t_sib(new) THEN t_sib(req) ELSE m.next[n]
                  /\ r.prev[n] = IF n = t_sib(new) THEN t_sib(u)
                                 ELSE IF n = t_sib(req) THEN t_sib(new) ELSE m.prev[n]
    <3> DEFINE a == t_sib(new)
               b == t_sib(req)
               r == list_add_tail(m, a, b)
    <3>1. a \in Node /\ b \in Node BY <2>1
    <3>2. m.prev[b] = t_sib(u) BY <2>0
    <3> HIDE DEF a, b
    <3>3. /\ IsMemory(r)
          /\ \A n \in Node :
                /\ r.next[n] = IF n = m.prev[b] THEN a ELSE IF n = a THEN b ELSE m.next[n]
                /\ r.prev[n] = IF n = a THEN m.prev[b] ELSE IF n = b THEN a ELSE m.prev[n]
      BY <2>0, <3>1, AddTailStores
    <3> HIDE DEF r
    <3> QED BY <3>2, <3>3 DEF r, a, b
  <2> QED BY <2>2 DEF m
<1> HIDE DEF l
<1>10. /\ ssi'.pc = "count" /\ ssi'.req = req /\ ssi'.new = new
       /\ ssi' = [pc |-> ssi'.pc, req |-> ssi'.req, new |-> ssi'.new, load |-> ssi'.load]
  BY <1>0, <1>1, <1>5 DEF FormInv
<1>11. Mem' = l BY <1>5, <1>9, <1>10, StoreMem
<1>12. Queues(l, Q) /\ Children(l, t_parent)
  <2>1. \A n \in Queue : l.next[n] = Mem.next[n] /\ l.prev[n] = Mem.prev[n] BY <1>9, NodeKinds
  <2>2. \A h \in Queue : \A t \in Q[h] :
           l.next[t_next(t)] = Mem.next[t_next(t)] /\ l.prev[t_next(t)] = Mem.prev[t_next(t)]
    BY <1>0, <1>9, NodeKinds
  <2>3. \A t \in Tcb :
           l.next[t_child(t)] = Mem.next[t_child(t)] /\ l.prev[t_child(t)] = Mem.prev[t_child(t)]
    BY <1>9, NodeKinds
  <2>4. \A t \in Tcb : t_parent[t] # NULL =>
           l.next[t_sib(t)] = Mem.next[t_sib(t)] /\ l.prev[t_sib(t)] = Mem.prev[t_sib(t)]
    BY <1>2, <1>4, <1>8, <1>9, NodeKinds
  <2> QED BY <2>1, <2>2, <2>3, <2>4, <1>0, ListsKept
<1>13. FormInv'
  <2>1. next' \in [Node -> Node] /\ prev' \in [Node -> Node] BY <1>5, <1>9 DEF Store, IsMemory
  <2>2. IsMemory(Mem)' BY <1>9, <1>11 DEF IsMemory
  <2>3. rings' \subseteq Tcb BY <1>0, <1>5
  <2> QED BY <2>1, <2>2, <2>3, <1>0, <1>5, <1>10 DEF FormInv, LinksTypeOK
<1>14. ListInv(Q)' BY <1>5, <1>11, <1>12 DEF ListInv, Queues, Children, Linked, Ring
<1>15. PlaceInv(Q)'
  <2>1. InCreation' /\ current_thread' = current_thread BY <1>5, <1>10 DEF InCreation
  <2> QED BY <2>1, <1>0, <1>1, <1>10, <1>i DEF PlaceInv
<1>16. SibInv(Q)'
  <2>0. \A t \in Tcb : t # new /\ t # req => Mem'.prev[t_sib(t)] = Mem.prev[t_sib(t)]
    BY <1>9, <1>11, NodeKinds
  <2>1. ASSUME NEW t \in rings'
        PROVE  t_parent[t] = NULL /\ \E w \in rings' : Mem'.prev[t_sib(t)] = t_sib(w)
    <3>1. CASE t = new
      <4>1. Mem'.prev[t_sib(t)] = t_sib(u) BY <3>1, <1>9, <1>11, NodeKinds
      <4>2. u \in rings' BY <1>5
      <4> QED BY <3>1, <4>1, <4>2, <1>2
    <3>2. CASE t = req
      <4>1. Mem'.prev[t_sib(t)] = t_sib(new) BY <3>2, <1>3, <1>9, <1>11, NodeKinds
      <4>2. new \in rings' BY <1>5
      <4> QED BY <3>2, <4>1, <4>2, <1>4
    <3>3. CASE t # new /\ t # req
      <4>1. t \in rings /\ t \in Tcb BY <3>3, <1>0, <1>5
      <4>2. PICK w \in rings : Mem.prev[t_sib(t)] = t_sib(w) BY <4>1, <1>0 DEF SibInv
      <4>3. w \in rings' BY <1>5
      <4>4. t_parent[t] = NULL BY <4>1, <1>0 DEF SibInv
      <4> QED BY <4>1, <4>2, <4>3, <4>4, <3>3, <2>0
    <3> QED BY <3>1, <3>2, <3>3
  <2>2. ASSUME NEW t \in Tcb, t \notin rings', t \notin Q[tcbfree_sentinel],
               t \notin ToSet(victims), t_parent[t] = NULL
        PROVE  Mem'.prev[t_sib(t)] = t_sib(t)
    <3>1. t # new /\ t # req /\ t \notin rings BY <2>2, <1>5
    <3> QED BY <2>0, <2>2, <3>1, <1>0 DEF SibInv
  <2> QED BY <2>1, <2>2, <1>5 DEF SibInv
<1>17. FreeInv(Q)' BY <1>0, <1>5 DEF FreeInv, Kids
<1>18. CountInv(Q)' BY <1>0, <1>5, <1>10, <1>i DEF CountInv
<1>19. CreateInv(Q)' BY <1>2, <1>5, <1>10 DEF CreateInv, Kids
<1>20. DoomInv(Q)' BY <1>0, <1>5 DEF DoomInv
<1>21. RankInv(rank)' BY <1>0, <1>5 DEF RankInv
<1> QED BY <1>13, <1>14, <1>15, <1>16, <1>17, <1>18, <1>19, <1>20, <1>21 DEF LinksInv

\* A step of a creation that touches neither a list nor the tree.
LEMMA CreationStep ==
    ASSUME NEW Q, NEW rank, LinksInv(Q, rank), InCreation, InCreation',
           UNCHANGED <<t_parent, current_thread, victims, rings, doomed>>,
           ssi'.new = ssi.new, ssi'.req = ssi.req,
           LinksTypeOK', IsMemory(Mem)',
           ssi' = [pc |-> ssi'.pc, req |-> ssi'.req, new |-> ssi'.new, load |-> ssi'.load],
           \A n \in Node : n # t_next(ssi.new) =>
               Mem'.next[n] = Mem.next[n] /\ Mem'.prev[n] = Mem.prev[n],
           CountInv(Q)', ssi'.pc # "link",
           ssi'.pc = "store" => ssi'.load = thread_count',
           ssi'.pc \in {"add1", "add2", "add3", "add4"} => ssi'.load = Mem'.prev[ready_queue],
           ssi'.pc \in {"add2", "add3", "add4"} => prev'[ready_queue] = t_next(ssi.new),
           ssi'.pc \in {"add3", "add4"} => next'[t_next(ssi.new)] = ready_queue,
           ssi'.pc = "add4" => prev'[t_next(ssi.new)] = ssi'.load
    PROVE  LinksInv(Q, rank)'
<1>0. /\ FormInv /\ ListInv(Q) /\ LinksTypeOK /\ NULL \notin Tcb /\ rings \subseteq Tcb
      /\ Q \in [Queue -> SUBSET Tcb] /\ SibInv(Q) /\ FreeInv(Q) /\ PlaceInv(Q) /\ DoomInv(Q)
      /\ RankInv(rank) /\ Queues(Mem, Q) /\ Children(Mem, t_parent) /\ CreateInv(Q)
  BY LinksAssumption DEF LinksInv, FormInv, LinksTypeOK, ListInv, Queues
<1>1. PICK new \in Tcb : new = ssi.new BY <1>0 DEF CreateInv
<1> DEFINE r == Mem'
           m == Mem
<1>2. \A n \in Node : n # t_next(new) => r.next[n] = m.next[n] /\ r.prev[n] = m.prev[n]
  BY <1>1
<1>3. \A h \in Queue : new \notin Q[h] BY <1>0, <1>1 DEF PlaceInv
<1>4. Queues(m, Q) /\ Children(m, t_parent) BY <1>0
<1> HIDE DEF r, m
<1>5. Queues(r, Q) /\ Children(r, t_parent)
  <2>1. \A n \in Queue : r.next[n] = m.next[n] /\ r.prev[n] = m.prev[n] BY <1>2, NodeKinds
  <2>2. \A h \in Queue : \A t \in Q[h] :
           r.next[t_next(t)] = m.next[t_next(t)] /\ r.prev[t_next(t)] = m.prev[t_next(t)]
    BY <1>0, <1>2, <1>3, NodeKinds
  <2>3. \A t \in Tcb :
           r.next[t_child(t)] = m.next[t_child(t)] /\ r.prev[t_child(t)] = m.prev[t_child(t)]
    BY <1>2, NodeKinds
  <2>4. \A t \in Tcb : t_parent[t] # NULL =>
           r.next[t_sib(t)] = m.next[t_sib(t)] /\ r.prev[t_sib(t)] = m.prev[t_sib(t)]
    BY <1>2, NodeKinds
  <2> QED BY <2>1, <2>2, <2>3, <2>4, <1>0, <1>4, ListsKept
<1>6. \A t \in Tcb : Mem'.prev[t_sib(t)] = Mem.prev[t_sib(t)] BY <1>2, NodeKinds DEF r, m
<1>7. FormInv' BY DEF FormInv
<1>8. ListInv(Q)'
  <2>1. Queues(Mem', Q) /\ Children(Mem', t_parent) BY <1>5 DEF r
  <2> QED BY <2>1 DEF ListInv, Queues, Children, Linked, Ring
<1>9. PlaceInv(Q)' BY <1>0 DEF PlaceInv
<1>10. SibInv(Q)' BY <1>0, <1>6 DEF SibInv
<1>11. FreeInv(Q)' BY <1>0 DEF FreeInv, Kids
<1>12. CreateInv(Q)' BY <1>0 DEF CreateInv, Kids
<1>13. DoomInv(Q)' BY <1>0 DEF DoomInv
<1>14. RankInv(rank)' BY <1>0 DEF RankInv
<1> QED BY <1>7, <1>8, <1>9, <1>10, <1>11, <1>12, <1>13, <1>14 DEF LinksInv

\* thread_count++ and the load of the queue's tail.
LEMMA CountKeeps ==
    ASSUME NEW Q, NEW rank, LinksInv(Q, rank), CountLoad \/ CountStore \/ ReadTail
    PROVE  LinksInv(Q, rank)'
<1>0. /\ FormInv /\ LinksTypeOK /\ IsMemory(Mem) /\ CountInv(Q) /\ CreateInv(Q)
      /\ Q[tcbfree_sentinel] \in SUBSET Tcb
  BY NodeKinds DEF LinksInv, FormInv, ListInv, Queues
<1>1. /\ ssi.pc \in {"count", "store", "tail"} /\ InCreation
      /\ next' = next /\ prev' = prev
      /\ UNCHANGED <<t_parent, current_thread, victims, rings, doomed>>
  BY DEF CountLoad, CountStore, ReadTail, At, InCreation, links
<1>2. /\ ssi'.new = ssi.new /\ ssi'.req = ssi.req
      /\ ssi' = [pc |-> ssi'.pc, req |-> ssi'.req, new |-> ssi'.new, load |-> ssi'.load]
      /\ ssi'.pc \in {"store", "tail", "add1"} /\ InCreation'
      /\ ssi'.pc = "store" => /\ ssi.pc = "count" /\ ssi'.load = thread_count
                              /\ thread_count' = thread_count
      /\ ssi'.pc = "tail" => ssi.pc = "store" /\ thread_count' = ssi.load + 1
      /\ ssi'.pc = "add1" => /\ ssi.pc = "tail" /\ ssi'.load = prev[ready_queue]
                             /\ thread_count' = thread_count
  <2> USE DEF FormInv, InCreation
  <2>1. CASE CountLoad BY <1>0, <2>1 DEF CountLoad, At
  <2>2. CASE CountStore BY <1>0, <2>2 DEF CountStore, At, GoTo
  <2>3. CASE ReadTail BY <1>0, <2>3 DEF ReadTail, At
  <2> QED BY <2>1, <2>2, <2>3
<1>3. Mem' = Mem BY <1>1, <1>2 DEF Mem
<1>m. Mem.prev = prev BY <1>1, MemIdle
<1>4. CountInv(Q)' /\ thread_count' \in 0 .. Len(thread_array)
  <2> DEFINE n == Cardinality(Tcb \ Q[tcbfree_sentinel])
  <2>1. n \in 0 .. Len(thread_array)
    <3>1. PICK t : t \in Tcb BY <1>0, <1>1 DEF CreateInv
    <3> QED BY <1>0, <3>1, CountFree
  <2>2. thread_count + (IF ssi.pc \in {"link", "count", "store"} THEN 1 ELSE 0) = n
    BY <1>0 DEF CountInv
  <2>3. thread_count \in 0 .. Len(thread_array) /\ Len(thread_array) \in Nat
    BY <1>0, PoolSize DEF LinksTypeOK
  <2>4. ssi.pc = "store" => ssi.load = thread_count BY <1>0 DEF CreateInv
  <2> HIDE DEF n
  <2>5. thread_count' + (IF ssi'.pc \in {"link", "count", "store"} THEN 1 ELSE 0) = n
        /\ thread_count' \in 0 .. Len(thread_array)
    <3>1. CASE ssi'.pc = "store" BY <3>1, <2>2, <2>3, <1>2
    <3>2. CASE ssi'.pc = "tail"
      <4>1. thread_count' = thread_count + 1 /\ thread_count + 1 = n
        BY <3>2, <2>2, <2>4, <1>2
      <4>2. thread_count' + 0 = n /\ thread_count' = n BY <4>1, <2>1, <2>3
      <4> QED BY <3>2, <4>2, <2>1
    <3>3. CASE ssi'.pc = "add1" BY <3>3, <2>2, <2>3, <1>2
    <3> QED BY <3>1, <3>2, <3>3, <1>2
  <2> QED BY <2>5 DEF CountInv, n
<1>5. LinksTypeOK' BY <1>0, <1>1, <1>2, <1>4 DEF LinksTypeOK
<1>6. IsMemory(Mem)' BY <1>0, <1>3 DEF IsMemory
<1> QED BY <1>0, <1>1, <1>2, <1>3, <1>m, <1>4, <1>5, <1>6, CreationStep

\* The first three stores of insertThread(&ready_queue, new_thread).
LEMMA InsertKeeps ==
    ASSUME NEW Q, NEW rank, LinksInv(Q, rank), InsertStore, ssi.pc # "add4"
    PROVE  LinksInv(Q, rank)'
<1>0. /\ FormInv /\ LinksTypeOK /\ IsMemory(Mem) /\ CountInv(Q) /\ CreateInv(Q)
      /\ next \in [Node -> Node] /\ prev \in [Node -> Node]
  BY DEF LinksInv, FormInv, LinksTypeOK
<1>1. /\ ssi.pc \in {"add1", "add2", "add3"} /\ InCreation
      /\ UNCHANGED <<t_parent, current_thread, thread_count, victims, rings, doomed>>
  BY DEF InsertStore, AddStores, At, InCreation
<1>2. PICK new \in Tcb, load \in Node : new = ssi.new /\ load = ssi.load /\ load = Mem.prev[ready_queue]
  <2>1. Mem.prev \in [Node -> Node] /\ ready_queue \in Node BY <1>0, NodeKinds DEF IsMemory
  <2>2. ssi.load = Mem.prev[ready_queue] /\ ssi.new \in Tcb BY <1>0, <1>1 DEF CreateInv
  <2> QED BY <2>1, <2>2
<1> DEFINE e == t_next(new)
<1>e. e \in Node /\ ready_queue \in Node /\ e # ready_queue BY NodeKinds
<1>3. /\ ssi'.new = new /\ ssi'.req = ssi.req /\ ssi'.load = load
      /\ ssi' = [pc |-> ssi'.pc, req |-> ssi'.req, new |-> ssi'.new, load |-> ssi'.load]
      /\ ssi'.pc \in {"add2", "add3", "add4"} /\ InCreation'
      /\ ssi'.pc = "add2" => /\ ssi.pc = "add1" /\ next' = next
                             /\ prev' = [prev EXCEPT ![ready_queue] = e]
      /\ ssi'.pc = "add3" => /\ ssi.pc = "add2" /\ prev' = prev
                             /\ next' = [next EXCEPT ![e] = ready_queue]
      /\ ssi'.pc = "add4" => /\ ssi.pc = "add3" /\ next' = next
                             /\ prev' = [prev EXCEPT ![e] = load]
  <2> HIDE DEF e
  <2>1. CASE ssi.pc = "add1"
    BY <2>1, <1>0, <1>2 DEF InsertStore, AddStores, At, GoTo, FormInv, InCreation, e
  <2>2. CASE ssi.pc = "add2"
    BY <2>2, <1>0, <1>2 DEF InsertStore, AddStores, At, GoTo, FormInv, InCreation, e
  <2>3. CASE ssi.pc = "add3"
    BY <2>3, <1>0, <1>2 DEF InsertStore, AddStores, At, GoTo, FormInv, InCreation, e
  <2> QED BY <2>1, <2>2, <2>3, <1>1
<1>4. /\ ssi.pc \in {"add2", "add3"} => prev[ready_queue] = e
      /\ ssi.pc = "add3" => next[e] = ready_queue
  BY <1>0, <1>2 DEF CreateInv
<1> HIDE DEF e
<1>5. next' \in [Node -> Node] /\ prev' \in [Node -> Node] BY <1>0, <1>2, <1>3, <1>e
<1>6. Mem' = [next |-> next', prev |-> [prev' EXCEPT ![ready_queue] = load]] BY <1>3 DEF Mem
<1>7. IsMemory(Mem)'
  <2>1. IsMemory(Mem') BY <1>2, <1>5, <1>6 DEF IsMemory
  <2> QED BY <2>1 DEF IsMemory
<1>8. /\ Mem.next = next
      /\ ssi.pc = "add1" => Mem.prev = prev
      /\ ssi.pc # "add1" => Mem.prev = [prev EXCEPT ![ready_queue] = load]
  BY <1>1, <1>2 DEF Mem
<1>9. ASSUME NEW n \in Node, n # e
      PROVE  Mem'.next[n] = Mem.next[n] /\ Mem'.prev[n] = Mem.prev[n]
  <2>1. Mem'.next[n] = next'[n] /\ Mem'.prev[n] = IF n = ready_queue THEN load ELSE prev'[n]
    BY <1>5, <1>6, <1>e
  <2>2. /\ Mem.next[n] = next[n]
        /\ ssi.pc = "add1" => Mem.prev[n] = prev[n] /\ load = prev[ready_queue]
        /\ ssi.pc # "add1" => Mem.prev[n] = IF n = ready_queue THEN load ELSE prev[n]
    BY <1>0, <1>2, <1>8, <1>e
  <2>3. next'[n] = next[n] /\ (n # ready_queue => prev'[n] = prev[n])
    BY <1>0, <1>1, <1>3, <1>9, <1>e
  <2> QED BY <2>1, <2>2, <2>3
<1>10. LinksTypeOK' BY <1>0, <1>1, <1>3, <1>5 DEF LinksTypeOK
<1>11. CountInv(Q)' BY <1>0, <1>1, <1>3 DEF CountInv
<1>12. Mem'.prev[ready_queue] = load BY <1>5, <1>6, <1>e
<1>13. /\ prev'[ready_queue] = e
       /\ ssi'.pc \in {"add3", "add4"} => next'[e] = ready_queue
       /\ ssi'.pc = "add4" => prev'[e] = load
  BY <1>0, <1>3, <1>4, <1>e
<1> QED BY <1>1, <1>2, <1>3, <1>7, <1>9, <1>10, <1>11, <1>12, <1>13, CreationStep DEF e

\* The last store: the new thread is in the ready queue.
LEMMA InsertedKeeps ==
    ASSUME NEW Q, NEW rank, LinksInv(Q, rank), InsertStore, ssi.pc = "add4"
    PROVE  \E P : LinksInv(P, rank)' /\ P[tcbfree_sentinel] = Q[tcbfree_sentinel]
<1>0. /\ FormInv /\ LinksTypeOK /\ IsMemory(Mem) /\ CountInv(Q) /\ CreateInv(Q)
      /\ next \in [Node -> Node] /\ prev \in [Node -> Node] /\ Q \in [Queue -> SUBSET Tcb]
      /\ Queues(Mem, Q) /\ Children(Mem, t_parent) /\ SibInv(Q) /\ PlaceInv(Q) /\ FreeInv(Q)
      /\ DoomInv(Q) /\ RankInv(rank) /\ NULL \notin Tcb /\ rings \subseteq Tcb
  BY LinksAssumption DEF LinksInv, FormInv, LinksTypeOK, ListInv, Queues
<1>1. /\ InCreation /\ ssi' = IdleSsi /\ next' = [next EXCEPT ![ssi.load] = t_next(ssi.new)]
      /\ prev' = prev
      /\ UNCHANGED <<t_parent, current_thread, thread_count, victims, rings, doomed>>
  BY DEF InsertStore, AddStores, At, InCreation
<1>2. PICK new \in Tcb, load \in Node : new = ssi.new /\ load = ssi.load /\ load = Mem.prev[ready_queue]
  <2>1. Mem.prev \in [Node -> Node] /\ ready_queue \in Node BY <1>0, NodeKinds DEF IsMemory
  <2>2. ssi.load = Mem.prev[ready_queue] /\ ssi.new \in Tcb BY <1>0, <1>1 DEF CreateInv
  <2> QED BY <2>1, <2>2
<1> DEFINE e == t_next(new)
           m == Mem
           l == insertThread(m, ready_queue, new)
           P == With(Q, ready_queue, new)
<1>e. /\ e \in Node /\ ready_queue \in Node /\ e # ready_queue /\ ready_queue \in Queue
      /\ tcbfree_sentinel \in Queue /\ tcbfree_sentinel # ready_queue
  BY NodeKinds
<1>3. prev[ready_queue] = e /\ next[e] = ready_queue /\ prev[e] = load
  BY <1>0, <1>2 DEF CreateInv
<1>4. m.next = next /\ m.prev = [prev EXCEPT ![ready_queue] = load]
  BY <1>2 DEF Mem
<1>5. IsMemory(m) /\ Queues(m, Q) /\ Children(m, t_parent) BY <1>0
<1>6. \A h \in Queue : new \notin Q[h] BY <1>0, <1>1, <1>2 DEF PlaceInv
<1>p. m.prev[ready_queue] = load BY <1>2
<1>s. \A c \in Tcb : m.prev[t_sib(c)] = Mem.prev[t_sib(c)] OBVIOUS
<1> HIDE DEF m
<1>7. /\ IsMemory(l) /\ Queues(l, P) /\ Children(l, t_parent)
      /\ \A c \in Tcb : l.prev[t_sib(c)] = m.prev[t_sib(c)]
  <2> HIDE DEF e
  <2> QED BY <1>5, <1>6, <1>e, QueueAdd
<1>8. \A n \in Node :
         /\ l.next[n] = IF n = load THEN e ELSE IF n = e THEN ready_queue ELSE m.next[n]
         /\ l.prev[n] = IF n = e THEN load ELSE IF n = ready_queue THEN e ELSE m.prev[n]
  <2> DEFINE r == list_add_tail(m, e, ready_queue)
  <2>1. l = r BY DEF insertThread
  <2> HIDE DEF e, l
  <2>2. \A n \in Node :
           /\ r.next[n] = IF n = m.prev[ready_queue] THEN e
                          ELSE IF n = e THEN ready_queue ELSE m.next[n]
           /\ r.prev[n] = IF n = e THEN m.prev[ready_queue]
                          ELSE IF n = ready_queue THEN e ELSE m.prev[n]
    BY <1>5, <1>e, AddTailStores
  <2> HIDE DEF r
  <2> QED BY <2>1, <2>2, <1>p
<1>9. next' = [next EXCEPT ![load] = e] BY <1>1, <1>2
<1>10. P[ready_queue] = Q[ready_queue] \cup {new}
       /\ \A h \in Queue : h # ready_queue => P[h] = Q[h]
  BY <1>0, <1>e DEF With
<1> HIDE DEF l, e, P
<1>11. ssi'.pc = "idle" /\ ~InCreation'
       /\ ssi' = [pc |-> ssi'.pc, req |-> ssi'.req, new |-> ssi'.new, load |-> ssi'.load]
  BY <1>1 DEF IdleSsi, InCreation
<1>12. Mem' = [next |-> next', prev |-> prev'] BY <1>11 DEF Mem
<1>13. next' \in [Node -> Node] /\ prev' \in [Node -> Node]
  <2>1. prev' = prev BY <1>1
  <2>2. next' \in [Node -> Node] BY <1>0, <1>9, <1>e
  <2> QED BY <2>1, <2>2, <1>0
<1>14. ASSUME NEW n \in Node PROVE Mem'.next[n] = l.next[n] /\ Mem'.prev[n] = l.prev[n]
  <2>1. Mem'.next[n] = IF n = load THEN e ELSE next[n] BY <1>0, <1>2, <1>9, <1>12
  <2>2. Mem'.prev[n] = prev[n] BY <1>1, <1>12
  <2>3. m.next[n] = next[n] /\ m.prev[n] = IF n = ready_queue THEN load ELSE prev[n]
    BY <1>0, <1>4, <1>e
  <2> QED BY <2>1, <2>2, <2>3, <1>3, <1>8
<1> DEFINE r == Mem'
<1>15. \A n \in Node : r.next[n] = l.next[n] /\ r.prev[n] = l.prev[n] BY <1>14
<1>16. IsMemory(Mem)'
  <2>1. IsMemory(Mem') BY <1>12, <1>13 DEF IsMemory
  <2> QED BY <2>1 DEF IsMemory
<1>17. \A c \in Tcb : Mem'.prev[t_sib(c)] = Mem.prev[t_sib(c)]
  BY <1>7, <1>s, <1>15, NodeKinds
<1>18. ListInv(P)'
  <2> HIDE DEF r
  <2>0. P \in [Queue -> SUBSET Tcb] BY <1>7 DEF Queues
  <2>1. \A n \in Queue : r.next[n] = l.next[n] /\ r.prev[n] = l.prev[n] BY <1>15, NodeKinds
  <2>2. \A h \in Queue : \A t \in P[h] :
           r.next[t_next(t)] = l.next[t_next(t)] /\ r.prev[t_next(t)] = l.prev[t_next(t)]
    BY <2>0, <1>15, NodeKinds
  <2>3. \A t \in Tcb :
           r.next[t_child(t)] = l.next[t_child(t)] /\ r.prev[t_child(t)] = l.prev[t_child(t)]
    BY <1>15, NodeKinds
  <2>4. \A t \in Tcb : t_parent[t] # NULL =>
           r.next[t_sib(t)] = l.next[t_sib(t)] /\ r.prev[t_sib(t)] = l.prev[t_sib(t)]
    BY <1>15, NodeKinds
  <2>5. Queues(r, P) /\ Children(r, t_parent)
    BY <2>1, <2>2, <2>3, <2>4, <1>0, <1>7, ListsKept
  <2>6. Queues(Mem', P) /\ Children(Mem', t_parent) /\ t_parent' = t_parent BY <2>5, <1>1 DEF r
  <2> QED BY <2>6 DEF ListInv, Queues, Children, Linked, Ring
<1>19. FormInv' BY <1>0, <1>1, <1>11, <1>13, <1>16 DEF FormInv, LinksTypeOK
<1>20. PlaceInv(P)'
  <2>1. \A t \in Tcb : (\E h \in Queue : t \in Q[h]) <=> t # current_thread /\ t # new
    BY <1>0, <1>1, <1>2 DEF PlaceInv
  <2>2. new # current_thread BY <1>0, <1>1, <1>2 DEF CreateInv
  <2>3. \A t \in Tcb : (\E h \in Queue : t \in P[h]) <=> t # current_thread
    BY <2>1, <2>2, <1>10, <1>e
  <2> QED BY <2>3, <1>1, <1>11 DEF PlaceInv
<1>21. P[tcbfree_sentinel] = Q[tcbfree_sentinel] BY <1>10, <1>e
<1>22. SibInv(P)' BY <1>0, <1>1, <1>17, <1>21 DEF SibInv
<1>23. FreeInv(P)' BY <1>0, <1>1, <1>21 DEF FreeInv, Kids
<1>24. CountInv(P)' BY <1>0, <1>1, <1>11, <1>21 DEF CountInv
<1>25. CreateInv(P)' BY <1>11 DEF CreateInv
<1>26. DoomInv(P)' BY <1>0, <1>1, <1>21 DEF DoomInv
<1>27. RankInv(rank)' BY <1>0, <1>1 DEF RankInv
<1>28. LinksInv(P, rank)'
  BY <1>18, <1>19, <1>20, <1>22, <1>23, <1>24, <1>25, <1>26, <1>27 DEF LinksInv
<1> QED BY <1>21, <1>28

----------------------------------------------------------------------------
(* The invariant holds when boot.c starts the scheduler *)

\* No thread has a parent.
Orphans == [t \in Tcb |-> NULL]

\* The memory l after the TCBs F have been put in the free list.
Filled(l, F) ==
    /\ IsMemory(l) /\ Children(l, Orphans)
    /\ Queues(l, [h \in Queue |-> IF h = tcbfree_sentinel THEN F ELSE {}])
    /\ \A c \in Tcb : l.prev[t_sib(c)] = t_sib(c)

\* All lists are empty.
LEMMA EmptyFilled ==
    Filled(EmptyMemory, {})
<1> DEFINE l == EmptyMemory
<1>1. IsMemory(l) /\ \A n \in Node : l.next[n] = n /\ l.prev[n] = n
  BY DEF EmptyMemory, IsMemory
<1> HIDE DEF l
<1>2. ASSUME NEW h \in Node PROVE Linked(l, h, {})
  <2> DEFINE q == <<>>
  <2>1. q \in Seq(Node) /\ Len(q) = 0 /\ ToSet(q) = {} /\ Distinct(q) BY EmptyLemma
  <2> HIDE DEF q
  <2>2. \A i : Entry(h, q, i) = h BY <2>1 DEF Entry
  <2>3. Ring(l, h, q) BY <1>1, <2>1, <2>2 DEF Ring
  <2> QED BY <2>1, <2>3 DEF Linked
<1>3. ASSUME NEW p \in Tcb PROVE Linked(l, t_child(p), Sibs(Kids(Orphans, p)))
  <2>1. Kids(Orphans, p) = {} BY LinksAssumption DEF Kids, Orphans
  <2>2. Sibs(Kids(Orphans, p)) = {} BY <2>1, NextsSibs
  <2>3. t_child(p) \in Node BY NodeKinds
  <2> QED BY <2>2, <2>3, <1>2
<1> DEFINE Q == [h \in Queue |-> IF h = tcbfree_sentinel THEN {} ELSE {}]
<1>4. Q \in [Queue -> SUBSET Tcb] /\ \A h \in Queue : Q[h] = {} OBVIOUS
<1> HIDE DEF Q
<1>5. ASSUME NEW h \in Queue PROVE Linked(l, h, Nexts(Q[h]))
  <2>1. Nexts(Q[h]) = {} BY <1>4, NextsSibs
  <2>2. h \in Node BY NodeKinds
  <2> QED BY <2>1, <2>2, <1>2
<1>6. Queues(l, Q) BY <1>4, <1>5 DEF Queues
<1>7. \A c \in Tcb : l.prev[t_sib(c)] = t_sib(c) BY <1>1, NodeKinds
<1> QED BY <1>1, <1>3, <1>6, <1>7 DEF Filled, Children, l, Q

\* One round of the loop of initTcbs.
LEMMA FillOne ==
    ASSUME NEW l, NEW F \in SUBSET Tcb, Filled(l, F), NEW t \in Tcb, t \notin F
    PROVE  Filled(insertThread(l, tcbfree_sentinel, t), F \cup {t})
<1> DEFINE Q == [h \in Queue |-> IF h = tcbfree_sentinel THEN F ELSE {}]
           P == [h \in Queue |-> IF h = tcbfree_sentinel THEN F \cup {t} ELSE {}]
           r == insertThread(l, tcbfree_sentinel, t)
<1>0. tcbfree_sentinel \in Queue BY NodeKinds
<1>1. IsMemory(l) /\ Queues(l, Q) /\ Children(l, Orphans) BY DEF Filled
<1>2. \A h \in Queue : t \notin Q[h] OBVIOUS
<1>3. With(Q, tcbfree_sentinel, t) = P BY <1>0 DEF With
<1>4. \A c \in Tcb : l.prev[t_sib(c)] = t_sib(c) BY DEF Filled
<1> HIDE DEF Q, P
<1>5. /\ IsMemory(r) /\ Queues(r, With(Q, tcbfree_sentinel, t)) /\ Children(r, Orphans)
      /\ \A c \in Tcb : r.prev[t_sib(c)] = l.prev[t_sib(c)]
  BY <1>0, <1>1, <1>2, QueueAdd
<1> HIDE DEF r
<1>6. Queues(r, P) /\ \A c \in Tcb : r.prev[t_sib(c)] = t_sib(c) BY <1>3, <1>4, <1>5
<1> QED BY <1>5, <1>6 DEF Filled, P, r

\* The memories of the loop of initTcbs, up to the k-th TCB.
Fills(f, k) ==
    f = [i \in 0 .. k |-> IF i = 0 THEN EmptyMemory
                          ELSE insertThread(f[i - 1], tcbfree_sentinel, thread_array[i])]

\* The loop can be followed as far as the array goes.
LEMMA FillExists ==
    ASSUME NEW N \in Nat
    PROVE  \E f : Fills(f, N)
<1> DEFINE Step(l, i) == insertThread(l, tcbfree_sentinel, thread_array[i])
           bad == {k \in 0 .. N : ~\E f : Fills(f, k)}
<1> SUFFICES ASSUME bad # {} PROVE FALSE
  <2>1. N \in 0 .. N OBVIOUS
  <2> QED BY <2>1
<1>1. bad \in SUBSET Nat OBVIOUS
<1>2. \E k \in bad : \A j \in bad : k <= j
  <2> HIDE DEF bad
  <2> QED BY <1>1, LeastElement
<1>3. PICK k \in bad : \A j \in bad : k <= j BY <1>2
<1>4. k \in 0 .. N /\ ~\E f : Fills(f, k) OBVIOUS
<1>5. CASE k = 0
  <2> DEFINE f == [i \in 0 .. 0 |-> EmptyMemory]
  <2>1. f = [i \in 0 .. 0 |-> IF i = 0 THEN EmptyMemory ELSE Step(f[i - 1], i)] OBVIOUS
  <2> HIDE DEF f
  <2>2. Fills(f, 0) BY <2>1 DEF Fills
  <2> QED BY <2>2, <1>4, <1>5
<1>6. CASE k # 0
  <2>1. k - 1 \in 0 .. N /\ k - 1 \notin bad BY <1>1, <1>3, <1>4, <1>6
  <2>2. PICK g : Fills(g, k - 1) BY <2>1
  <2> HIDE DEF bad
  <2>3. \A i \in 0 .. k - 1 : g[i] = IF i = 0 THEN EmptyMemory ELSE Step(g[i - 1], i)
    BY <2>2 DEF Fills
  <2> HIDE DEF Step
  <2> DEFINE f == [i \in 0 .. k |-> IF i = k THEN Step(g[k - 1], k) ELSE g[i]]
  <2>4. ASSUME NEW i \in 0 .. k
        PROVE  f[i] = IF i = 0 THEN EmptyMemory ELSE Step(f[i - 1], i)
    <3>1. CASE i = k
      <4>1. i - 1 \in 0 .. k /\ i - 1 # k /\ i # 0 BY <3>1, <1>4, <1>6
      <4>2. f[i - 1] = g[i - 1] /\ f[i] = Step(g[k - 1], k) BY <4>1, <3>1
      <4> QED BY <4>1, <4>2, <3>1
    <3>2. CASE i # k /\ i # 0
      <4>1. i - 1 \in 0 .. k /\ i - 1 # k /\ i \in 0 .. k - 1 BY <3>2, <1>4
      <4>2. f[i - 1] = g[i - 1] /\ f[i] = g[i] BY <4>1, <3>2
      <4> HIDE DEF f
      <4> QED BY <4>1, <4>2, <3>2, <2>3
    <3>3. CASE i # k /\ i = 0
      <4>1. 0 \in 0 .. k - 1 /\ f[i] = g[i] BY <3>3, <1>4
      <4> HIDE DEF f
      <4> QED BY <4>1, <3>3, <2>3
    <3> QED BY <3>1, <3>2, <3>3
  <2>5. f = [i \in 0 .. k |-> IF i = 0 THEN EmptyMemory ELSE Step(f[i - 1], i)]
    <3>1. f = [i \in 0 .. k |-> f[i]] OBVIOUS
    <3> HIDE DEF f
    <3> QED BY <2>4, <3>1
  <2> HIDE DEF f
  <2>6. Fills(f, k) BY <2>5 DEF Fills, Step
  <2> QED BY <2>6, <1>4
<1> QED BY <1>5, <1>6

\* initTcbs puts every TCB in the free list.
LEMMA InitTcbs ==
    Filled(initTcbs, Tcb)
<1> DEFINE N == Len(thread_array)
           f == CHOOSE g : Fills(g, N)
           upTo(i) == {thread_array[j] : j \in 1 .. i}
<1>0. /\ N \in Nat /\ DOMAIN thread_array = 1 .. N /\ Distinct(thread_array)
      /\ \A i \in 1 .. N : thread_array[i] \in Tcb
  BY PoolSize, LinksAssumption, LenProperties DEF Tcb, ToSet
<1>1. Fills(f, N)
  <2>1. \E g : Fills(g, N) BY <1>0, FillExists
  <2> HIDE DEF N
  <2> QED BY <2>1, Zenon
<1>2. initTcbs = f[N] BY Zenon DEF initTcbs, Fills
<1> HIDE DEF f
<1> DEFINE bad == {i \in 0 .. N : ~Filled(f[i], upTo(i))}
<1>3. f[0] = EmptyMemory /\ \A i \in 1 .. N : f[i] = insertThread(f[i - 1], tcbfree_sentinel, thread_array[i])
  <2> HIDE DEF N
  <2> QED BY <1>0, <1>1 DEF Fills
<1> HIDE DEF N
<1>4. bad = {}
  <2> SUFFICES ASSUME bad # {} PROVE FALSE OBVIOUS
  <2>1. bad \in SUBSET Nat BY <1>0
  <2>2. \E k \in bad : \A j \in bad : k <= j
    <3> HIDE DEF bad
    <3> QED BY <2>1, LeastElement
  <2>3. PICK k \in bad : \A j \in bad : k <= j BY <2>2
  <2>4. k \in 0 .. N /\ ~Filled(f[k], upTo(k)) OBVIOUS
  <2>5. CASE k = 0
    <3>1. upTo(k) = {} BY <2>5
    <3> QED BY <3>1, <2>4, <2>5, <1>3, EmptyFilled
  <2>6. CASE k # 0
    <3>0. k \in 1 .. N /\ k - 1 \in 0 .. N /\ k \in Nat /\ k - 1 < k BY <2>4, <2>6, <1>0
    <3>1. k \in 1 .. N /\ k - 1 \in 0 .. N /\ k - 1 \notin bad
      <4> HIDE DEF bad
      <4> QED BY <3>0, <2>1, <2>3
    <3>2. Filled(f[k - 1], upTo(k - 1)) BY <3>1
    <3>3. upTo(k) = upTo(k - 1) \cup {thread_array[k]}
      <4>1. \A j \in 1 .. k : j \in 1 .. k - 1 \/ j = k BY <3>1, <1>0
      <4>2. \A j \in 1 .. k - 1 : j \in 1 .. k BY <3>1, <1>0
      <4>3. k \in 1 .. k BY <3>1, <1>0
      <4> QED BY <4>1, <4>2, <4>3
    <3>4. upTo(k - 1) \in SUBSET Tcb /\ thread_array[k] \notin upTo(k - 1)
      <4>1. \A j \in 1 .. k - 1 : j \in 1 .. N /\ j # k BY <3>1, <1>0
      <4>2. \A j \in 1 .. k - 1 : thread_array[j] \in Tcb /\ thread_array[j] # thread_array[k]
        BY <4>1, <3>1, <1>0 DEF Distinct, N
      <4> QED BY <4>2
    <3>5. thread_array[k] \in Tcb /\ f[k] = insertThread(f[k - 1], tcbfree_sentinel, thread_array[k])
      BY <3>1, <1>0, <1>3
    <3> DEFINE F == upTo(k - 1)
               t == thread_array[k]
               l == f[k - 1]
    <3>6. F \in SUBSET Tcb /\ Filled(l, F) /\ t \in Tcb /\ t \notin F
      BY <3>2, <3>4, <3>5
    <3>7. Filled(insertThread(l, tcbfree_sentinel, t), F \cup {t})
      <4> HIDE DEF F, t, l
      <4> QED BY <3>6, FillOne
    <3> QED BY <3>3, <3>5, <3>7, <2>4
  <2> QED BY <2>5, <2>6
<1>5. Filled(f[N], upTo(N))
  <2>1. N \in 0 .. N BY <1>0
  <2> QED BY <2>1, <1>4
<1>6. upTo(N) = Tcb BY <1>0 DEF Tcb, ToSet
<1> QED BY <1>2, <1>5, <1>6

\* The memory l with the TCBs R in the ready queue and the others free.
Booted(l, R) ==
    /\ IsMemory(l) /\ Children(l, Orphans)
    /\ Queues(l, [h \in Queue |-> IF h = tcbfree_sentinel THEN Tcb \ R
                                  ELSE IF h = ready_queue THEN R ELSE {}])
    /\ \A c \in Tcb : l.prev[t_sib(c)] = t_sib(c)

\* A thread of boot.c goes from the free list to the ready queue.
LEMMA BootKeeps ==
    ASSUME NEW l, NEW R \in SUBSET Tcb, Booted(l, R), NEW t \in Tcb, t \notin R
    PROVE  Booted(BootThread(l, t), R \cup {t})
<1> DEFINE Q == [h \in Queue |-> IF h = tcbfree_sentinel THEN Tcb \ R
                                 ELSE IF h = ready_queue THEN R ELSE {}]
           P == [h \in Queue |-> IF h = tcbfree_sentinel THEN Tcb \ (R \cup {t})
                                 ELSE IF h = ready_queue THEN R \cup {t} ELSE {}]
           O == Without(Q, tcbfree_sentinel, t)
           m == allocTcb(l, t)
           r == insertThread(m, ready_queue, t)
<1>0. /\ tcbfree_sentinel \in Queue /\ ready_queue \in Queue
      /\ ready_queue # tcbfree_sentinel /\ NULL \notin Tcb
  BY NodeKinds, LinksAssumption
<1>1. IsMemory(l) /\ Queues(l, Q) /\ Children(l, Orphans) BY DEF Booted
<1>2. \A c \in Tcb : l.prev[t_sib(c)] = t_sib(c) BY DEF Booted
<1>3. t \in Q[tcbfree_sentinel] BY <1>0
<1>4. \A g \in Queue : t \notin O[g] BY <1>0 DEF Without
<1>5. With(O, ready_queue, t) = P
  <2>1. O = [h \in Queue |-> IF h = tcbfree_sentinel THEN Tcb \ (R \cup {t})
                             ELSE IF h = ready_queue THEN R ELSE {}]
    BY <1>0 DEF Without
  <2> HIDE DEF O
  <2>2. O[ready_queue] = R BY <2>1, <1>0
  <2>3. With(O, ready_queue, t) = [O EXCEPT ![ready_queue] = R \cup {t}] BY <2>2 DEF With
  <2>4. [O EXCEPT ![ready_queue] = R \cup {t}]
          = [h \in Queue |-> IF h = ready_queue THEN R \cup {t} ELSE O[h]]
    BY <2>1
  <2>5. \A h \in Queue : h # ready_queue =>
            O[h] = IF h = tcbfree_sentinel THEN Tcb \ (R \cup {t}) ELSE {}
    BY <2>1
  <2>6. [h \in Queue |-> IF h = ready_queue THEN R \cup {t} ELSE O[h]] = P
    BY <2>5, <1>0
  <2> QED BY <2>3, <2>4, <2>6, Zenon
<1> HIDE DEF P, Q
<1>6. /\ IsMemory(m) /\ Queues(m, O) /\ Children(m, Orphans)
      /\ \A c \in Tcb : m.prev[t_sib(c)] = t_sib(c)
  <2> DEFINE par == Orphans
  <2>1. par \in [Tcb -> Tcb \cup {NULL}] /\ par[t] = NULL /\ Kids(par, t) = {}
    BY <1>0 DEF Orphans, Kids
  <2>2. Children(l, par) BY <1>1
  <2> HIDE DEF par
  <2>3. /\ IsMemory(m) /\ Queues(m, O) /\ Children(m, par)
        /\ m.prev[t_sib(t)] = t_sib(t)
        /\ \A c \in Tcb : c # t => m.prev[t_sib(c)] = l.prev[t_sib(c)]
    BY <1>0, <1>1, <1>3, <2>1, <2>2, AllocMemory
  <2>4. \A c \in Tcb : m.prev[t_sib(c)] = t_sib(c) BY <1>2, <2>3
  <2> QED BY <2>3, <2>4 DEF par
<1> HIDE DEF m, O
<1>7. /\ IsMemory(r) /\ Queues(r, With(O, ready_queue, t)) /\ Children(r, Orphans)
      /\ \A c \in Tcb : r.prev[t_sib(c)] = m.prev[t_sib(c)]
  BY <1>0, <1>4, <1>6, QueueAdd
<1> HIDE DEF r
<1>8. Queues(r, P) /\ \A c \in Tcb : r.prev[t_sib(c)] = t_sib(c) BY <1>5, <1>6, <1>7
<1>9. BootThread(l, t) = r BY DEF BootThread, r, m
<1> QED BY <1>7, <1>8, <1>9 DEF Booted, P

\* The invariant holds when main() of boot.c calls the scheduler.
LEMMA InitInv ==
    ASSUME Init
    PROVE  \E Q, rank : /\ LinksInv(Q, rank)
                        /\ Q[tcbfree_sentinel] = Tcb \ {SSI_tcb, TEST_tcb}
<1> DEFINE R == {SSI_tcb, TEST_tcb}
           boot == BootThread(BootThread(initTcbs, SSI_tcb), TEST_tcb)
           Q == [h \in Queue |-> IF h = tcbfree_sentinel THEN Tcb \ R
                                 ELSE IF h = ready_queue THEN R ELSE {}]
           rank == [t \in Tcb |-> 0]
<1>0. /\ tcbfree_sentinel \in Queue /\ ready_queue \in Queue /\ wait_queue \in Queue
      /\ ready_queue # tcbfree_sentinel
  BY NodeKinds
<1>1. SSI_tcb \in Tcb /\ TEST_tcb \in Tcb /\ SSI_tcb # TEST_tcb /\ NULL \notin Tcb
  <2>1. /\ Len(thread_array) \in Nat /\ Len(thread_array) > 1
        /\ thread_array \in Seq(Tcb) /\ Distinct(thread_array) /\ NULL \notin Tcb
    BY PoolSize, LinksAssumption
  <2>2. 1 \in 1 .. Len(thread_array) /\ 2 \in 1 .. Len(thread_array) BY <2>1
  <2> QED BY <2>1, <2>2 DEF SSI_tcb, TEST_tcb, Distinct
<1>2. Booted(initTcbs, {})
  <2> DEFINE E == [h \in Queue |-> IF h = tcbfree_sentinel THEN Tcb ELSE {}]
             G == [h \in Queue |-> IF h = tcbfree_sentinel THEN Tcb \ {}
                                   ELSE IF h = ready_queue THEN {} ELSE {}]
  <2>1. E = G OBVIOUS
  <2>2. /\ IsMemory(initTcbs) /\ Children(initTcbs, Orphans) /\ Queues(initTcbs, E)
        /\ \A c \in Tcb : initTcbs.prev[t_sib(c)] = t_sib(c)
    BY InitTcbs DEF Filled
  <2> QED BY <2>1, <2>2 DEF Booted
<1>3. Booted(boot, R)
  <2> DEFINE l == BootThread(initTcbs, SSI_tcb)
             S == {} \cup {SSI_tcb}
  <2>1. {} \in SUBSET Tcb /\ SSI_tcb \notin {} OBVIOUS
  <2>2. Booted(l, S) BY <1>1, <1>2, <2>1, BootKeeps
  <2>3. S \in SUBSET Tcb /\ TEST_tcb \notin S /\ S \cup {TEST_tcb} = R BY <1>1
  <2> HIDE DEF l, S
  <2>4. Booted(BootThread(l, TEST_tcb), S \cup {TEST_tcb}) BY <1>1, <2>2, <2>3, BootKeeps
  <2> QED BY <2>3, <2>4 DEF l
<1>4. /\ next = boot.next /\ prev = boot.prev /\ t_parent = Orphans
      /\ current_thread = NULL /\ thread_count = 2 /\ ssi = IdleSsi /\ victims = <<>>
      /\ rings = {} /\ doomed = {}
  BY DEF Init, Orphans
<1> HIDE DEF boot
<1>5. /\ IsMemory(boot) /\ Children(boot, Orphans) /\ Queues(boot, Q)
      /\ \A c \in Tcb : boot.prev[t_sib(c)] = t_sib(c)
  BY <1>3 DEF Booted
<1>6. ssi.pc = "idle" /\ ssi = [pc |-> ssi.pc, req |-> ssi.req, new |-> ssi.new, load |-> ssi.load]
  BY <1>4 DEF IdleSsi
<1>7. Mem = boot
  <2>1. ssi.pc \notin {"add2", "add3", "add4"} BY <1>6
  <2>2. Mem = [next |-> next, prev |-> prev] BY <2>1, MemIdle DEF Memory
  <2> QED BY <1>4, <1>5, <2>2 DEF IsMemory
<1>8. \A t \in Tcb : t_parent[t] = NULL BY <1>4 DEF Orphans
<1>9. \A t \in Tcb : Kids(t_parent, t) = {} BY <1>1, <1>8 DEF Kids
<1>10. /\ Q[tcbfree_sentinel] = Tcb \ R
       /\ \A t \in Tcb : \E h \in Queue : t \in Q[h]
  BY <1>0
<1>11. Cardinality(Tcb \ Q[tcbfree_sentinel]) = 2
  <2>1. Tcb \ Q[tcbfree_sentinel] = {SSI_tcb} \cup {TEST_tcb} BY <1>1, <1>10
  <2>2. IsFiniteSet({SSI_tcb}) /\ Cardinality({SSI_tcb}) = 1 BY FS_Singleton
  <2>3. TEST_tcb \notin {SSI_tcb} BY <1>1
  <2>4. Cardinality({SSI_tcb} \cup {TEST_tcb}) = Cardinality({SSI_tcb}) + 1
    BY <2>2, <2>3, FS_AddElement
  <2>5. Cardinality({SSI_tcb} \cup {TEST_tcb}) = 2 BY <2>2, <2>4
  <2> HIDE DEF Q, R
  <2> QED BY <2>1, <2>5
<1> HIDE DEF Q, R
<1>12. FormInv
  <2>1. IsMemory(Mem) BY <1>5, <1>7
  <2>2. next \in [Node -> Node] /\ prev \in [Node -> Node] BY <1>4, <1>5 DEF IsMemory
  <2>3. t_parent \in [Tcb -> Tcb \cup {NULL}] BY <1>4 DEF Orphans
  <2>4. thread_count \in 0 .. Len(thread_array) BY <1>4, PoolSize, LinksAssumption
  <2>5. victims \in Seq(Tcb) BY <1>4
  <2> QED BY <2>1, <2>2, <2>3, <2>4, <2>5, <1>4, <1>6 DEF FormInv, LinksTypeOK
<1>13. ListInv(Q) BY <1>4, <1>5, <1>7 DEF ListInv
<1>14. PlaceInv(Q) BY <1>1, <1>4, <1>6, <1>10 DEF PlaceInv, InCreation
<1>15. SibInv(Q) BY <1>4, <1>5, <1>7 DEF SibInv
<1>16. FreeInv(Q)
  <2>1. Q[tcbfree_sentinel] \subseteq Tcb BY <1>10
  <2> QED BY <2>1, <1>8, <1>9 DEF FreeInv
<1>17. CountInv(Q) BY <1>4, <1>6, <1>11 DEF CountInv
<1>18. CreateInv(Q) BY <1>6 DEF CreateInv, InCreation
<1>19. DoomInv(Q)
  <2>1. ToSet(victims) = {} /\ Distinct(victims) BY <1>4, EmptyLemma
  <2> QED BY <2>1, <1>4 DEF DoomInv
<1>20. RankInv(rank) BY <1>8 DEF RankInv
<1> HIDE DEF rank
<1>21. LinksInv(Q, rank)
  BY <1>12, <1>13, <1>14, <1>15, <1>16, <1>17, <1>18, <1>19, <1>20 DEF LinksInv
<1> QED BY <1>10, <1>21 DEF R

----------------------------------------------------------------------------
(* The theorems *)

\* Trap: the current thread is in no queue.
LEMMA TrapKeeps ==
    ASSUME NEW Q, NEW rank, LinksInv(Q, rank), Preempt = FALSE, Trap
    PROVE  LinksInv(Q, rank)'
<1>1. FormInv /\ PlaceInv(Q) /\ CreateInv(Q) /\ LinksTypeOK BY DEF LinksInv, FormInv
<1>2. Runs /\ Terminate(current_thread) BY DEF Trap
<1>3. ~InCreation BY <1>1, <1>2, NoHandler
<1>4. victims = <<>> /\ current_thread \in Tcb BY <1>1, <1>2 DEF Runs, InKernel, LinksTypeOK
<1>5. PICK t \in Tcb : t = current_thread BY <1>4
<1>6. t \notin Q[tcbfree_sentinel] BY <1>1, <1>5, NodeKinds DEF PlaceInv
<1> QED BY <1>2, <1>3, <1>4, <1>5, <1>6, TerminateKeeps

\* KillThread: the target is in the ready or in the wait queue.
LEMMA KillKeeps ==
    ASSUME NEW Q, NEW rank, LinksInv(Q, rank), Preempt = FALSE,
           NEW t \in User, KillThread(t)
    PROVE  LinksInv(Q, rank)'
<1>1. FormInv /\ ListInv(Q) /\ CreateInv(Q) /\ LinksTypeOK BY DEF LinksInv, FormInv
<1>2. Runs /\ Terminate(t) /\ Exists(t) /\ t \in Tcb BY DEF KillThread, User
<1>3. ~InCreation BY <1>1, <1>2, NoHandler
<1>4. victims = <<>> BY <1>2 DEF Runs, InKernel
<1>5. t \in Q[ready_queue] \/ t \in Q[wait_queue]
  BY <1>1, <1>2, ListTests, NodeKinds DEF Exists
<1>6. t \notin Q[tcbfree_sentinel] BY <1>1, <1>5, NodeKinds DEF ListInv, Queues
<1> QED BY <1>2, <1>3, <1>4, <1>6, TerminateKeeps

\* A slice that expires, or recv() without a message.
LEMMA StopKeeps ==
    ASSUME NEW Q, NEW rank, LinksInv(Q, rank), Preempt = FALSE, SliceExpired \/ Block
    PROVE  \E P : LinksInv(P, rank)' /\ P[tcbfree_sentinel] = Q[tcbfree_sentinel]
<1>1. CreateInv(Q) /\ LinksTypeOK BY DEF LinksInv, FormInv
<1>2. ~InCreation BY <1>1, NoHandler DEF SliceExpired, Block
<1>3. /\ ready_queue \in Queue /\ wait_queue \in Queue
      /\ ready_queue # tcbfree_sentinel /\ wait_queue # tcbfree_sentinel
  BY NodeKinds
<1>4. CASE SliceExpired BY <1>2, <1>3, <1>4, LeaveKeeps DEF SliceExpired
<1>5. CASE Block BY <1>2, <1>3, <1>5, LeaveKeeps DEF Block, Runs, InKernel
<1> QED BY <1>4, <1>5

\* A step of a creation.
LEMMA CreationKeeps ==
    ASSUME NEW Q, NEW rank, LinksInv(Q, rank), Creation
    PROVE  \E P, f : LinksInv(P, f)'
<1>1. CASE Link
  <2> DEFINE parent == IF ssi.load = "son" THEN ssi.req ELSE t_parent[ssi.req]
  <2>1. parent \in Tcb \cup {NULL}
    <3>1. /\ InCreation /\ CreateInv(Q) /\ LinksTypeOK /\ ListInv(Q)
      BY <1>1 DEF Link, At, InCreation, LinksInv, FormInv
    <3>2. ssi.req \in Tcb BY <3>1, NodeKinds DEF CreateInv, ListInv, Queues
    <3> QED BY <3>1, <3>2 DEF LinksTypeOK
  <2>2. CASE parent = NULL
    <3>1. LinksInv(Q, rank)' BY <1>1, <2>2, LinkBeside
    <3> QED BY <3>1
  <2>3. CASE parent \in Tcb
    <3>1. PICK p \in Tcb : p = IF ssi.load = "son" THEN ssi.req ELSE t_parent[ssi.req] BY <2>3
    <3>2. \E f : LinksInv(Q, f)' BY <1>1, <3>1, LinkBelow
    <3> QED BY <3>2
  <2> QED BY <2>1, <2>2, <2>3
<1>2. CASE CountLoad \/ CountStore \/ ReadTail
  <2>1. LinksInv(Q, rank)' BY <1>2, CountKeeps
  <2> QED BY <2>1
<1>3. CASE InsertStore /\ ssi.pc # "add4"
  <2>1. LinksInv(Q, rank)' BY <1>3, InsertKeeps
  <2> QED BY <2>1
<1>4. CASE InsertStore /\ ssi.pc = "add4"
  <2>1. \E P : LinksInv(P, rank)' BY <1>4, InsertedKeeps
  <2> QED BY <2>1
<1> QED BY <1>1, <1>2, <1>3, <1>4 DEF Creation

\* A step that changes nothing keeps the invariant.
LEMMA StutterKeeps ==
    ASSUME NEW Q, NEW rank, LinksInv(Q, rank), UNCHANGED vars
    PROVE  LinksInv(Q, rank)'
<1>1. /\ UNCHANGED <<next, prev, t_parent, current_thread, thread_count, ssi, victims, rings, doomed>>
      /\ Mem' = Mem
  BY DEF vars, links, Mem
<1>2. FormInv' BY <1>1 DEF LinksInv, FormInv, LinksTypeOK, IsMemory
<1>3. ListInv(Q)' BY <1>1 DEF LinksInv, ListInv, Queues, Children, Linked, Ring, Kids
<1>4. SibInv(Q)' BY <1>1 DEF LinksInv, SibInv
<1>5. (PlaceInv(Q) /\ FreeInv(Q))' BY <1>1 DEF LinksInv, PlaceInv, InCreation, FreeInv, Kids
<1>6. (CountInv(Q) /\ CreateInv(Q) /\ DoomInv(Q) /\ RankInv(rank))'
  BY <1>1 DEF LinksInv, CountInv, CreateInv, InCreation, DoomInv, RankInv, Kids
<1>7. LinksInv(Q, rank)' BY <1>2, <1>3, <1>4, <1>5, <1>6 DEF LinksInv
<1> QED BY <1>7

\* Every step keeps the invariant.
LEMMA NextKeeps ==
    ASSUME NEW Q, NEW rank, LinksInv(Q, rank), Preempt = FALSE, Reuse = FALSE, [Next]_vars
    PROVE  \E P, f : LinksInv(P, f)'
<1>1. CASE Dispatch
  <2>1. \E P : LinksInv(P, rank)' BY <1>1, DispatchKeeps
  <2> QED BY <2>1
<1>2. CASE SliceExpired \/ Block
  <2>1. \E P : LinksInv(P, rank)' BY <1>2, StopKeeps
  <2> QED BY <2>1
<1>3. CASE Trap
  <2>1. LinksInv(Q, rank)' BY <1>3, TrapKeeps
  <2> QED BY <2>1
<1>4. ASSUME NEW t \in Tcb, Wake(t) PROVE \E P, f : LinksInv(P, f)'
  <2>1. \E P : LinksInv(P, rank)' BY <1>4, WakeKeeps
  <2> QED BY <2>1
<1>5. ASSUME NEW t \in User, KillThread(t) PROVE \E P, f : LinksInv(P, f)'
  <2>1. LinksInv(Q, rank)' BY <1>5, KillKeeps
  <2> QED BY <2>1
<1>6. ASSUME NEW req \in User, NEW kind \in {"son", "brother"}, Allocate(req, kind)
      PROVE  \E P, f : LinksInv(P, f)'
  <2>1. \E P : LinksInv(P, rank)' BY <1>6, AllocateKeeps
  <2> QED BY <2>1
<1>7. CASE Creation BY <1>7, CreationKeeps
<1>8. CASE TerminateChild
  <2>1. LinksInv(Q, rank)' BY <1>8, TerminateChildKeeps
  <2> QED BY <2>1
<1>9. CASE TerminateLeaf
  <2>1. \E P : LinksInv(P, rank)' BY <1>9, TerminateLeafKeeps
  <2> QED BY <2>1
<1>10. CASE UNCHANGED vars
  <2>1. LinksInv(Q, rank)' BY <1>10, StutterKeeps
  <2> QED BY <2>1
<1> QED BY <1>1, <1>2, <1>3, <1>4, <1>5, <1>6, <1>7, <1>8, <1>9, <1>10
        DEF Next, Termination

\* Some threads are in the queues, and the tree has a rank for each of them.
LinksInductive == \E Q, rank : LinksInv(Q, rank)

\* The inductive invariant of the lists of tcb.c.
THEOREM LinksInvariant ==
    ASSUME Preempt = FALSE, Reuse = FALSE
    PROVE  Spec => []LinksInductive
<1>1. Init => LinksInductive BY InitInv DEF LinksInductive
<1>2. LinksInductive /\ [Next]_vars => LinksInductive' BY NextKeeps DEF LinksInductive
<1> QED BY <1>1, <1>2, PTL DEF Spec

\* The types of the pointers and counters: in particular thread_count stays
\* between 0 and the size of the pool, and no pointer leaves the list_heads.
THEOREM LinksTypeCorrect ==
    ASSUME Preempt = FALSE, Reuse = FALSE
    PROVE  Spec => []LinksTypeOK
<1>1. LinksInductive => LinksTypeOK BY DEF LinksInductive, LinksInv, FormInv
<1> QED BY <1>1, LinksInvariant, PTL

\* Every TCB can be reached from the head of exactly one queue, or is the
\* current thread or the one that the SSI creates: no handler, no
\* termination and no creation loses a thread or links it twice.
THEOREM NoThreadIsLost ==
    ASSUME Preempt = FALSE, Reuse = FALSE
    PROVE  Spec => []NoThreadLost
<1>1. ASSUME NEW Q, NEW rank, LinksInv(Q, rank) PROVE NoThreadLost
  <2>1. FormInv /\ ListInv(Q) /\ PlaceInv(Q) BY <1>1 DEF LinksInv
  <2> SUFFICES ASSUME NEW t \in Tcb
               PROVE  Cardinality({q \in Queue : t_next(t) \in Entries(q)})
                        = IF t = current_thread \/ (InCreation /\ t = ssi.new) THEN 0 ELSE 1
    BY DEF NoThreadLost
  <2> DEFINE K == {q \in Queue : t_next(t) \in Entries(q)}
  <2>2. \A q \in Queue : t_next(t) \in Entries(q) <=> t \in Q[q]
    BY <2>1, ListTests DEF thereIsThread
  <2>3. \A g, h \in Queue : g # h => Q[g] \cap Q[h] = {} BY <2>1 DEF ListInv, Queues
  <2>4. CASE t = current_thread \/ (InCreation /\ t = ssi.new)
    <3>1. \A h \in Queue : t \notin Q[h] BY <2>1, <2>4 DEF PlaceInv
    <3>2. K = {} BY <3>1, <2>2
    <3> HIDE DEF K
    <3>3. Cardinality(K) = 0 BY <3>2, FS_EmptySet
    <3> QED BY <3>3, <2>4 DEF K
  <2>5. CASE ~(t = current_thread \/ (InCreation /\ t = ssi.new))
    <3>1. PICK h \in Queue : t \in Q[h] BY <2>1, <2>5 DEF PlaceInv
    <3>2. K = {h} BY <3>1, <2>2, <2>3
    <3> HIDE DEF K
    <3>3. Cardinality(K) = 1 BY <3>2, FS_Singleton
    <3> QED BY <3>3, <2>5 DEF K
  <2> QED BY <2>4, <2>5
<1>2. LinksInductive => NoThreadLost BY <1>1 DEF LinksInductive
<1> QED BY <1>2, LinksInvariant, PTL

\* The threads that are alive are those outside the free list.
LEMMA AliveThreads ==
    ASSUME NEW Q, NEW rank, LinksInv(Q, rank)
    PROVE  Alive = {t \in Tcb : t \notin Q[tcbfree_sentinel] /\ ~(InCreation /\ t = ssi.new)}
<1>1. FormInv /\ ListInv(Q) /\ PlaceInv(Q) /\ CreateInv(Q) BY DEF LinksInv
<1>2. /\ \A h \in Queue : h = ready_queue \/ h = wait_queue \/ h = tcbfree_sentinel
      /\ ready_queue \in Queue /\ wait_queue \in Queue /\ tcbfree_sentinel \in Queue
      /\ ready_queue # tcbfree_sentinel /\ wait_queue # tcbfree_sentinel
  BY NodeKinds DEF Queue
<1>3. Entries(ready_queue) = Nexts(Q[ready_queue]) /\ Entries(wait_queue) = Nexts(Q[wait_queue])
  BY <1>1, <1>2, ListTests
<1>4. \A t : t_next(t) \in Entries(ready_queue) \cup Entries(wait_queue)
               <=> t \in Q[ready_queue] \/ t \in Q[wait_queue]
  BY <1>3, NextsSibs
<1>5. Alive = {t \in Tcb : t \in Q[ready_queue] \/ t \in Q[wait_queue] \/ t = current_thread}
  BY <1>4 DEF Alive
<1>6. ASSUME NEW t \in Tcb
      PROVE  (t \in Q[ready_queue] \/ t \in Q[wait_queue] \/ t = current_thread)
               <=> t \notin Q[tcbfree_sentinel] /\ ~(InCreation /\ t = ssi.new)
  <2>1. (t \in Q[ready_queue] \/ t \in Q[wait_queue] \/ t \in Q[tcbfree_sentinel])
          <=> ~(t = current_thread \/ (InCreation /\ t = ssi.new))
    BY <1>1, <1>2 DEF PlaceInv
  <2>2. ~(t \in Q[tcbfree_sentinel] /\ (t \in Q[ready_queue] \/ t \in Q[wait_queue]))
    BY <1>1, <1>2 DEF ListInv, Queues
  <2>3. InCreation /\ t = ssi.new => t # current_thread BY <1>1 DEF CreateInv
  <2> QED BY <2>1, <2>2, <2>3
<1> QED BY <1>5, <1>6

\* Between creations and terminations the lists of children say what
\* t_parent says, the links agree both ways around, and thread_count is the
\* number of threads that are alive.
THEOREM ListsWellLinked ==
    ASSUME Preempt = FALSE, Reuse = FALSE
    PROVE  Spec => []WellLinked
<1>1. ASSUME NEW Q, NEW rank, LinksInv(Q, rank), victims = <<>>, ~InCreation
      PROVE  /\ \A p, c \in Tcb : t_sib(c) \in Entries(t_child(p)) <=> t_parent[c] = p
             /\ \A h \in Queue \cup {t_child(p) : p \in Tcb} :
                   \A n \in Entries(h) \cup {h} : prev[next[n]] = n
             /\ thread_count = Cardinality(Alive)
  <2>1. FormInv /\ ListInv(Q) /\ CountInv(Q) BY <1>1 DEF LinksInv
  <2>2. ssi.pc = "idle" BY <1>1 DEF InCreation
  <2>3. Mem.next = next /\ Mem.prev = prev
    <3>1. ssi.pc \notin {"add2", "add3", "add4"} BY <2>2
    <3> QED BY <3>1, MemIdle DEF Memory
  <2>4. ASSUME NEW p \in Tcb, NEW c \in Tcb
        PROVE  t_sib(c) \in Entries(t_child(p)) <=> t_parent[c] = p
    <3>1. Entries(t_child(p)) = Sibs(Kids(t_parent, p)) BY <2>1, ListTests
    <3>2. t_sib(c) \in Sibs(Kids(t_parent, p)) <=> c \in Kids(t_parent, p) BY NextsSibs
    <3> QED BY <3>1, <3>2 DEF Kids
  <2>5. ASSUME NEW h, NEW S, Linked(Mem, h, S), Entries(h) = S
        PROVE  \A n \in Entries(h) \cup {h} : prev[next[n]] = n
    <3> DEFINE m == Mem
    <3>1. m.next = next /\ m.prev = prev /\ Linked(m, h, S) BY <2>3, <2>5
    <3> HIDE DEF m
    <3>2. \A n \in S \cup {h} : m.prev[m.next[n]] = n BY <3>1, LinkedFacts
    <3> QED BY <3>1, <3>2, <2>5
  <2>6. ASSUME NEW h \in Queue PROVE \A n \in Entries(h) \cup {h} : prev[next[n]] = n
    <3>1. Linked(Mem, h, Nexts(Q[h])) BY <2>1 DEF ListInv, Queues
    <3>2. Entries(h) = Nexts(Q[h]) BY <2>1, ListTests
    <3> QED BY <3>1, <3>2, <2>5
  <2>7. ASSUME NEW p \in Tcb
        PROVE  \A n \in Entries(t_child(p)) \cup {t_child(p)} : prev[next[n]] = n
    <3>1. Linked(Mem, t_child(p), Sibs(Kids(t_parent, p))) BY <2>1 DEF ListInv, Children
    <3>2. Entries(t_child(p)) = Sibs(Kids(t_parent, p)) BY <2>1, ListTests
    <3> QED BY <3>1, <3>2, <2>5
  <2>8. thread_count = Cardinality(Alive)
    <3>1. Alive = Tcb \ Q[tcbfree_sentinel] BY <1>1, AliveThreads
    <3>2. thread_count + 0 = Cardinality(Tcb \ Q[tcbfree_sentinel]) BY <2>1, <2>2 DEF CountInv
    <3>3. thread_count + 0 = thread_count
      <4>1. thread_count \in 0 .. Len(thread_array) BY <2>1 DEF FormInv, LinksTypeOK
      <4> QED BY <4>1, PoolSize
    <3> QED BY <3>1, <3>2, <3>3
  <2> QED BY <2>4, <2>6, <2>7, <2>8
<1>2. LinksInductive => WellLinked BY <1>1 DEF LinksInductive, WellLinked
<1> QED BY <1>2, LinksInvariant, PTL

\* terminate() never reaches a thread outside the subtree of its target, and
\* when it returns none of that subtree is left.
THEOREM TerminateKillsSubtree ==
    ASSUME Preempt = FALSE, Reuse = FALSE
    PROVE  Spec => []KillsSubtree
<1>1. ASSUME NEW Q, NEW rank, LinksInv(Q, rank) PROVE KillsSubtree
  <2>1. DoomInv(Q) /\ RankInv(rank) /\ LinksTypeOK BY <1>1 DEF LinksInv, FormInv
  <2>2. ToSet(victims) \subseteq doomed BY <2>1 DEF DoomInv
  <2>3. victims = <<>> => doomed = {} BY <2>1, NothingDoomed
  <2> QED BY <2>2, <2>3 DEF KillsSubtree
<1>2. LinksInductive => KillsSubtree BY <1>1 DEF LinksInductive
<1> QED BY <1>2, LinksInvariant, PTL

----------------------------------------------------------------------------
(* The lists implement the abstract tree of ThreadTree *)

\* The threads that are alive, in any state and in the next one.
LEMMA AliveNow ==
    \A Q, rank : LinksInv(Q, rank) =>
        Alive = {t \in Tcb : t \notin Q[tcbfree_sentinel] /\ ~(InCreation /\ t = ssi.new)}
BY AliveThreads

\* The same of the state after a step.
LEMMA AliveThen ==
    (\A Q, rank : LinksInv(Q, rank) =>
        Alive = {t \in Tcb : t \notin Q[tcbfree_sentinel] /\ ~(InCreation /\ t = ssi.new)})'
BY AliveNow, PTL

\* Who is alive after a step that leaves the threads F in the free list.
LEMMA AliveAfter ==
    ASSUME NEW P, NEW f, LinksInv(P, f)', NEW F, P[tcbfree_sentinel] = F
    PROVE  Alive' = {t \in Tcb : t \notin F /\ ~(InCreation' /\ t = ssi'.new)}
BY AliveThen

\* A step that changes the parents of condemned or dead threads only.
LEMMA TreeStutters ==
    ASSUME Alive' = Alive, doomed' = doomed,
           \A t \in Alive : t \notin doomed => t_parent'[t] = t_parent[t]
    PROVE  UNCHANGED Tree!treeVars
<1>1. Parent = [t \in Tcb |-> IF t \in Alive \ doomed THEN t_parent[t] ELSE NULL] BY DEF Parent
<1>2. Parent' = [t \in Tcb |-> IF t \in Alive' \ doomed' THEN t_parent'[t] ELSE NULL]
  BY DEF Parent
<1>3. Parent' = Parent BY <1>1, <1>2
<1> QED BY <1>3 DEF Tree!treeVars

\* Outside a creation, when nothing is condemned, the abstract tree has the
\* parents that the TCBs name.
LEMMA ParentIs ==
    ASSUME NEW Q, NEW rank, LinksInv(Q, rank), ~InCreation, victims = <<>>
    PROVE  doomed = {} /\ Parent = t_parent /\ Alive = Tcb \ Q[tcbfree_sentinel]
<1>1. /\ LinksTypeOK /\ FreeInv(Q) /\ DoomInv(Q) /\ RankInv(rank)
      /\ t_parent \in [Tcb -> Tcb \cup {NULL}]
  BY DEF LinksInv, FormInv, LinksTypeOK
<1>2. doomed = {} BY <1>1, NothingDoomed
<1>3. Alive = Tcb \ Q[tcbfree_sentinel] BY AliveThreads
<1>4. Parent = [t \in Tcb |-> IF t \in Alive \ doomed THEN t_parent[t] ELSE NULL] BY DEF Parent
<1>5. \A t \in Tcb : (IF t \in Alive \ doomed THEN t_parent[t] ELSE NULL) = t_parent[t]
  BY <1>1, <1>2, <1>3 DEF FreeInv
<1> QED BY <1>1, <1>2, <1>3, <1>4, <1>5

\* main() of boot.c sets up the abstract tree.
LEMMA TreeStarts ==
    ASSUME Init
    PROVE  Tree!TreeInit
<1>1. PICK Q, rank : LinksInv(Q, rank) /\ Q[tcbfree_sentinel] = Tcb \ {SSI_tcb, TEST_tcb}
  BY InitInv
<1>2. ~InCreation /\ victims = <<>> BY DEF Init, InCreation, IdleSsi
<1>3. doomed = {} /\ Parent = t_parent /\ Alive = Tcb \ Q[tcbfree_sentinel]
  BY <1>1, <1>2, ParentIs
<1>4. SSI_tcb \in Tcb /\ TEST_tcb \in Tcb
  <2>1. /\ Len(thread_array) \in Nat /\ Len(thread_array) > 1 /\ thread_array \in Seq(Tcb)
    BY PoolSize, LinksAssumption
  <2>2. 1 \in 1 .. Len(thread_array) /\ 2 \in 1 .. Len(thread_array) BY <2>1
  <2> QED BY <2>1, <2>2 DEF SSI_tcb, TEST_tcb
<1>5. Alive = {SSI_tcb, TEST_tcb} BY <1>1, <1>3, <1>4
<1>6. t_parent = [t \in Tcb |-> NULL] BY DEF Init
<1> QED BY <1>3, <1>5, <1>6 DEF Tree!TreeInit

\* terminate() starts: it condemns the subtree of its target in the abstract tree.
LEMMA TreeTerminates ==
    ASSUME NEW Q, NEW rank, LinksInv(Q, rank), ~InCreation, victims = <<>>,
           NEW t \in Tcb, t \notin Q[tcbfree_sentinel], Terminate(t)
    PROVE  Tree!TreeNext
<1>1. LinksInv(Q, rank)' BY TerminateKeeps
<1>2. doomed = {} /\ Parent = t_parent /\ Alive = Tcb \ Q[tcbfree_sentinel] BY ParentIs
<1>3. ssi' = ssi /\ doomed' = Subtree(t) BY DEF Terminate
<1>4. Alive' = Alive
  <2>1. ~InCreation' BY <1>3 DEF InCreation
  <2> QED BY <1>1, <1>2, <2>1, AliveAfter
<1>5. Tree!Subtree(t) = Subtree(t) BY <1>2 DEF Tree!Subtree, Subtree
<1>6. t \in Subtree(t) BY SubtreeFacts
<1>7. /\ \A u \in Tcb : u # t => t_parent'[u] = t_parent[u]
      /\ \A u \in Tcb : u \notin Alive => t_parent[u] = NULL
  <2>1. t_parent \in [Tcb -> Tcb \cup {NULL}] /\ FreeInv(Q)
    BY DEF LinksInv, FormInv, LinksTypeOK
  <2>2. \A u \in Tcb : u # t => t_parent'[u] = t_parent[u] BY <2>1 DEF Terminate, outChild
  <2> QED BY <2>1, <2>2, <1>2 DEF FreeInv
<1>8. Parent' = [u \in Tcb |-> IF u \in doomed' THEN NULL ELSE Parent[u]]
  <2>1. Parent' = [u \in Tcb |-> IF u \in Alive' \ doomed' THEN t_parent'[u] ELSE NULL]
    BY DEF Parent
  <2>2. \A u \in Tcb : (IF u \in Alive' \ doomed' THEN t_parent'[u] ELSE NULL)
                         = IF u \in doomed' THEN NULL ELSE Parent[u]
    BY <1>2, <1>3, <1>4, <1>6, <1>7
  <2> QED BY <2>1, <2>2
<1>9. Tree!Terminate(t) BY <1>2, <1>3, <1>4, <1>5, <1>8 DEF Tree!Terminate
<1>10. t \in Alive BY <1>2
<1> QED BY <1>9, <1>10 DEF Tree!TreeNext

\* The base case of terminate() frees one condemned thread.
LEMMA TreeReaps ==
    ASSUME NEW Q, NEW rank, LinksInv(Q, rank), TerminateLeaf
    PROVE  Tree!TreeNext
<1>1. /\ victims \in Seq(Tcb) /\ victims # <<>> /\ DoomInv(Q) /\ CreateInv(Q)
  BY DEF LinksInv, FormInv, LinksTypeOK, TerminateLeaf
<1>2. PICK t \in Tcb : t = Head(victims) /\ t \in ToSet(victims) BY <1>1, TailLemma
<1>3. t \in doomed BY <1>1, <1>2 DEF DoomInv
<1>4. ~InCreation /\ ssi' = ssi /\ t_parent' = t_parent /\ doomed' = doomed \ {t}
  BY <1>1, <1>2 DEF CreateInv, TerminateLeaf
<1>5. PICK P : LinksInv(P, rank)' /\ P[tcbfree_sentinel] = Q[tcbfree_sentinel] \cup {t}
  BY <1>2, TerminateLeafKeeps
<1> DEFINE F == Q[tcbfree_sentinel] \cup {t}
<1>6. P[tcbfree_sentinel] = F /\ ~InCreation' BY <1>4, <1>5 DEF InCreation
<1>7. Alive = Tcb \ Q[tcbfree_sentinel] BY <1>4, AliveThreads
<1>8. Alive' = Alive \ {t}
  <2>1. Alive' = {u \in Tcb : u \notin F /\ ~(InCreation' /\ u = ssi'.new)}
    <3> HIDE DEF F
    <3> QED BY <1>5, <1>6, AliveAfter
  <2> QED BY <2>1, <1>6, <1>7
<1>9. Parent' = Parent
  <2>1. Parent = [u \in Tcb |-> IF u \in Alive \ doomed THEN t_parent[u] ELSE NULL] BY DEF Parent
  <2>2. Parent' = [u \in Tcb |-> IF u \in Alive' \ doomed' THEN t_parent'[u] ELSE NULL]
    BY DEF Parent
  <2>3. Alive' \ doomed' = Alive \ doomed BY <1>3, <1>4, <1>8
  <2> QED BY <2>1, <2>2, <2>3, <1>4
<1>10. Tree!Reap(t) BY <1>3, <1>4, <1>8, <1>9 DEF Tree!Reap
<1> QED BY <1>10 DEF Tree!TreeNext, Tree!Reaping

\* The last store of a creation: the thread appears in the abstract tree, below
\* a living parent or without one.
LEMMA TreeCreates ==
    ASSUME NEW Q, NEW rank, LinksInv(Q, rank), InsertStore, ssi.pc = "add4"
    PROVE  Tree!TreeNext
<1>1. /\ LinksTypeOK /\ PlaceInv(Q) /\ CreateInv(Q) /\ FreeInv(Q) /\ DoomInv(Q) /\ RankInv(rank)
      /\ t_parent \in [Tcb -> Tcb \cup {NULL}] /\ NULL \notin Tcb
  BY LinksAssumption DEF LinksInv, FormInv, LinksTypeOK
<1>2. InCreation /\ ssi' = IdleSsi /\ t_parent' = t_parent /\ doomed' = doomed
  BY DEF InsertStore, AddStores, At, InCreation
<1>3. PICK new \in Tcb : new = ssi.new /\ Kids(t_parent, new) = {} BY <1>1, <1>2 DEF CreateInv
<1>4. doomed = {} BY <1>1, <1>2, NothingDoomed DEF CreateInv
<1>5. new \notin Q[tcbfree_sentinel] BY <1>1, <1>2, <1>3, NodeKinds DEF PlaceInv
<1>6. Alive = {t \in Tcb : t \notin Q[tcbfree_sentinel] /\ t # new} BY <1>2, <1>3, AliveThreads
<1>7. PICK P : LinksInv(P, rank)' /\ P[tcbfree_sentinel] = Q[tcbfree_sentinel]
  BY InsertedKeeps
<1>8. Alive' = Alive \cup {new}
  <2>1. ~InCreation' BY <1>2 DEF InCreation, IdleSsi
  <2>2. Alive' = {t \in Tcb : t \notin Q[tcbfree_sentinel]} BY <2>1, <1>7, AliveAfter
  <2> QED BY <2>2, <1>5, <1>6
<1> DEFINE p == t_parent[new]
<1>9. p \in Alive \cup {NULL}
  <2>1. p \in Tcb \cup {NULL} BY <1>1
  <2>2. ASSUME p \in Tcb PROVE p \in Alive
    <3>1. new \in Kids(t_parent, p) BY DEF Kids
    <3>2. p # new BY <3>1, <1>3
    <3>3. p \notin Q[tcbfree_sentinel] BY <3>1, <1>1 DEF FreeInv
    <3> QED BY <2>2, <3>2, <3>3, <1>6
  <2> QED BY <2>1, <2>2
<1>10. Parent' = [Parent EXCEPT ![new] = p]
  <2>1. Parent = [t \in Tcb |-> IF t \in Alive \ doomed THEN t_parent[t] ELSE NULL] BY DEF Parent
  <2>2. Parent' = [t \in Tcb |-> IF t \in Alive' \ doomed' THEN t_parent'[t] ELSE NULL]
    BY DEF Parent
  <2>3. Parent' = [t \in Tcb |-> IF t \in Alive \cup {new} THEN t_parent[t] ELSE NULL]
    BY <2>2, <1>2, <1>4, <1>8
  <2>4. Parent = [t \in Tcb |-> IF t \in Alive THEN t_parent[t] ELSE NULL] BY <2>1, <1>4
  <2> QED BY <2>3, <2>4
<1>11. Tree!Create(new, p) BY <1>2, <1>4, <1>8, <1>10 DEF Tree!Create
<1>12. new \in Tcb \ Alive BY <1>6
<1> HIDE DEF p
<1> QED BY <1>9, <1>11, <1>12 DEF Tree!TreeNext

\* The other steps of a creation: the thread is not in the abstract tree yet.
LEMMA TreeWaits ==
    ASSUME NEW Q, NEW rank, LinksInv(Q, rank), InCreation, InCreation', ssi'.new = ssi.new,
           NEW f, LinksInv(Q, f)', doomed' = doomed,
           \A t \in Tcb : t # ssi.new => t_parent'[t] = t_parent[t]
    PROVE  UNCHANGED Tree!treeVars
<1>1. Alive = {t \in Tcb : t \notin Q[tcbfree_sentinel] /\ t # ssi.new} BY AliveThreads
<1>2. Alive' = {t \in Tcb : t \notin Q[tcbfree_sentinel] /\ ~(InCreation' /\ t = ssi'.new)}
  BY AliveAfter
<1>3. Alive' = Alive BY <1>1, <1>2
<1> QED BY <1>1, <1>3, TreeStutters

\* The steps of a creation.
LEMMA TreeCreation ==
    ASSUME NEW Q, NEW rank, LinksInv(Q, rank), Creation
    PROVE  Tree!TreeNext \/ UNCHANGED Tree!treeVars
<1>0. /\ InCreation /\ FormInv /\ LinksTypeOK /\ CreateInv(Q) /\ ListInv(Q)
      /\ t_parent \in [Tcb -> Tcb \cup {NULL}]
      /\ ssi = [pc |-> ssi.pc, req |-> ssi.req, new |-> ssi.new, load |-> ssi.load]
  <2>1. InCreation
    BY DEF Creation, Link, CountLoad, CountStore, ReadTail, InsertStore, AddStores, At, InCreation
  <2> QED BY <2>1 DEF LinksInv, FormInv, LinksTypeOK
<1>1. CASE Link
  <2> DEFINE parent == IF ssi.load = "son" THEN ssi.req ELSE t_parent[ssi.req]
  <2>1. \E f : LinksInv(Q, f)'
    <3>1. ssi.req \in Tcb BY <1>0, NodeKinds DEF CreateInv, ListInv, Queues
    <3>2. parent \in Tcb \cup {NULL} BY <3>1, <1>0
    <3>3. CASE parent = NULL
      <4>1. LinksInv(Q, rank)' BY <1>1, <3>3, LinkBeside
      <4> QED BY <4>1
    <3>4. CASE parent \in Tcb
      <4>1. PICK p \in Tcb : p = IF ssi.load = "son" THEN ssi.req ELSE t_parent[ssi.req] BY <3>4
      <4> QED BY <1>1, <4>1, LinkBelow
    <3> QED BY <3>2, <3>3, <3>4
  <2>2. PICK f : LinksInv(Q, f)' BY <2>1
  <2>3. /\ ssi' = [ssi EXCEPT !.pc = "count"] /\ doomed' = doomed
        /\ t_parent' = [t_parent EXCEPT ![ssi.new] = parent]
    BY <1>1 DEF Link, GoTo
  <2>4. InCreation' /\ ssi'.new = ssi.new BY <2>3, <1>0 DEF InCreation
  <2>5. \A t \in Tcb : t # ssi.new => t_parent'[t] = t_parent[t] BY <2>3, <1>0
  <2>6. doomed' = doomed BY <2>3
  <2> QED BY <2>2, <2>4, <2>5, <2>6, <1>0, TreeWaits
<1>2. CASE CountLoad \/ CountStore \/ ReadTail
  <2>1. LinksInv(Q, rank)' BY <1>2, CountKeeps
  <2>2. doomed' = doomed /\ t_parent' = t_parent BY <1>2 DEF CountLoad, CountStore, ReadTail
  <2>3. InCreation' /\ ssi'.new = ssi.new
    <3>1. CASE CountLoad BY <3>1, <1>0 DEF CountLoad, InCreation
    <3>2. CASE CountStore BY <3>2, <1>0 DEF CountStore, GoTo, InCreation
    <3>3. CASE ReadTail BY <3>3, <1>0 DEF ReadTail, InCreation
    <3> QED BY <1>2, <3>1, <3>2, <3>3
  <2> QED BY <2>1, <2>2, <2>3, <1>0, TreeWaits
<1>3. CASE InsertStore /\ ssi.pc # "add4"
  <2>1. LinksInv(Q, rank)' BY <1>3, InsertKeeps
  <2>2. doomed' = doomed /\ t_parent' = t_parent BY <1>3 DEF InsertStore
  <2>3. InCreation' /\ ssi'.new = ssi.new
    <3>1. PICK pc \in {"add2", "add3", "add4"} : ssi' = [ssi EXCEPT !.pc = pc]
      BY <1>3 DEF InsertStore, AddStores, At, GoTo
    <3> QED BY <3>1, <1>0 DEF InCreation
  <2> QED BY <2>1, <2>2, <2>3, <1>0, TreeWaits
<1>4. CASE InsertStore /\ ssi.pc = "add4" BY <1>4, TreeCreates
<1> QED BY <1>1, <1>2, <1>3, <1>4 DEF Creation

\* A creation starts: the thread leaves the free list, and is not alive yet.
LEMMA TreeAllocates ==
    ASSUME NEW Q, NEW rank, LinksInv(Q, rank), Reuse = FALSE, NEW req \in User, NEW kind,
           Allocate(req, kind)
    PROVE  UNCHANGED Tree!treeVars
<1>1. PICK P : /\ LinksInv(P, rank)' /\ ssi'.new \in Q[tcbfree_sentinel]
               /\ P[tcbfree_sentinel] = Q[tcbfree_sentinel] \ {ssi'.new}
  BY AllocateKeeps
<1>2. PICK new : new = ssi'.new OBVIOUS
<1>3. ~InCreation /\ doomed' = doomed /\ InCreation'
  BY DEF Allocate, At, InCreation
<1>4. Alive = Tcb \ Q[tcbfree_sentinel] BY <1>3, AliveThreads
<1>5. Alive' = {t \in Tcb : t \notin P[tcbfree_sentinel] /\ t # new}
  BY <1>1, <1>2, <1>3, AliveAfter
<1>6. Alive' = Alive BY <1>1, <1>2, <1>4, <1>5
<1>7. \A t \in Tcb : t # new => t_parent'[t] = t_parent[t]
  <2>1. t_parent \in [Tcb -> Tcb \cup {NULL}] BY DEF LinksInv, FormInv, LinksTypeOK
  <2> QED BY <2>1, <1>2 DEF Allocate
<1>8. \A t \in Alive : t \in Tcb /\ t # new BY <1>5, <1>6
<1> QED BY <1>3, <1>6, <1>7, <1>8, TreeStutters

\* A step that moves threads between the queues and the CPU.
LEMMA TreeStays ==
    ASSUME NEW Q, NEW rank, LinksInv(Q, rank),
           NEW P, LinksInv(P, rank)', P[tcbfree_sentinel] = Q[tcbfree_sentinel],
           ssi' = ssi, doomed' = doomed, t_parent' = t_parent
    PROVE  UNCHANGED Tree!treeVars
<1>1. Alive = {t \in Tcb : t \notin Q[tcbfree_sentinel] /\ ~(InCreation /\ t = ssi.new)}
  BY AliveThreads
<1>2. Alive' = {t \in Tcb : t \notin Q[tcbfree_sentinel] /\ ~(InCreation' /\ t = ssi'.new)}
  BY AliveAfter
<1>3. InCreation' <=> InCreation BY DEF InCreation
<1>4. Alive' = Alive BY <1>1, <1>2, <1>3
<1> QED BY <1>4, TreeStutters

\* removeChild inside terminate() unlinks a condemned thread.
LEMMA TreeDescends ==
    ASSUME NEW Q, NEW rank, LinksInv(Q, rank), TerminateChild
    PROVE  UNCHANGED Tree!treeVars
<1>1. /\ FormInv /\ ListInv(Q) /\ victims \in Seq(Tcb) /\ victims # <<>> /\ DoomInv(Q)
      /\ t_parent \in [Tcb -> Tcb \cup {NULL}]
  BY DEF LinksInv, FormInv, LinksTypeOK, TerminateChild
<1>2. PICK v \in Tcb : v = Head(victims) /\ v \in ToSet(victims) BY <1>1, TailLemma
<1>3. PICK c \in Kids(t_parent, v) : next[t_child(v)] = t_sib(c)
  BY <1>1, <1>2, ListTests DEF TerminateChild
<1>4. c \in doomed BY <1>1, <1>2 DEF DoomInv, Kids
<1>5. Container(next[t_child(Head(victims))]) = c BY <1>2, <1>3, NodeKinds
<1>6. t_parent' = [t_parent EXCEPT ![c] = NULL] /\ ssi' = ssi /\ doomed' = doomed
  BY <1>5 DEF TerminateChild
<1>7. LinksInv(Q, rank)' BY TerminateChildKeeps
<1>8. Alive = {t \in Tcb : t \notin Q[tcbfree_sentinel] /\ ~(InCreation /\ t = ssi.new)}
  BY AliveThreads
<1>9. Alive' = {t \in Tcb : t \notin Q[tcbfree_sentinel] /\ ~(InCreation' /\ t = ssi'.new)}
  BY <1>7, AliveAfter
<1>10. Alive' = Alive BY <1>6, <1>8, <1>9 DEF InCreation
<1>11. \A t \in Alive : t \notin doomed => t_parent'[t] = t_parent[t] BY <1>1, <1>4, <1>6, <1>8
<1> QED BY <1>6, <1>10, <1>11, TreeStutters

\* Every step of the lists is a step of the abstract tree, or none.
LEMMA TreeSteps ==
    ASSUME NEW Q, NEW rank, LinksInv(Q, rank), Preempt = FALSE, Reuse = FALSE, [Next]_vars
    PROVE  Tree!TreeNext \/ UNCHANGED Tree!treeVars
<1>0. FormInv /\ ListInv(Q) /\ PlaceInv(Q) /\ CreateInv(Q) /\ LinksTypeOK
  BY DEF LinksInv, FormInv
<1>1. CASE Dispatch
  <2>1. PICK P : LinksInv(P, rank)' /\ P[tcbfree_sentinel] = Q[tcbfree_sentinel]
    BY <1>1, DispatchKeeps
  <2> QED BY <1>1, <2>1, TreeStays DEF Dispatch
<1>2. CASE SliceExpired \/ Block
  <2>1. PICK P : LinksInv(P, rank)' /\ P[tcbfree_sentinel] = Q[tcbfree_sentinel]
    BY <1>2, StopKeeps
  <2> QED BY <1>2, <2>1, TreeStays DEF SliceExpired, Block
<1>3. ASSUME NEW t \in Tcb, Wake(t) PROVE UNCHANGED Tree!treeVars
  <2>1. PICK P : LinksInv(P, rank)' /\ P[tcbfree_sentinel] = Q[tcbfree_sentinel]
    BY <1>3, WakeKeeps
  <2> QED BY <1>3, <2>1, TreeStays DEF Wake
<1>4. CASE Trap
  <2>1. Runs /\ Terminate(current_thread) BY <1>4 DEF Trap
  <2>2. ~InCreation BY <1>0, <2>1, NoHandler
  <2>3. victims = <<>> /\ current_thread \in Tcb BY <1>0, <2>1 DEF Runs, InKernel, LinksTypeOK
  <2>4. PICK t \in Tcb : t = current_thread BY <2>3
  <2>5. t \notin Q[tcbfree_sentinel] BY <1>0, <2>4, NodeKinds DEF PlaceInv
  <2> QED BY <2>1, <2>2, <2>3, <2>4, <2>5, TreeTerminates
<1>5. ASSUME NEW t \in User, KillThread(t) PROVE Tree!TreeNext
  <2>1. Runs /\ Terminate(t) /\ Exists(t) /\ t \in Tcb BY <1>5 DEF KillThread, User
  <2>2. ~InCreation BY <1>0, <2>1, NoHandler
  <2>3. victims = <<>> BY <2>1 DEF Runs, InKernel
  <2>4. t \in Q[ready_queue] \/ t \in Q[wait_queue]
    BY <1>0, <2>1, ListTests, NodeKinds DEF Exists
  <2>5. t \notin Q[tcbfree_sentinel] BY <1>0, <2>4, NodeKinds DEF ListInv, Queues
  <2> QED BY <2>1, <2>2, <2>3, <2>5, TreeTerminates
<1>6. ASSUME NEW req \in User, NEW kind \in {"son", "brother"}, Allocate(req, kind)
      PROVE  UNCHANGED Tree!treeVars
  BY <1>6, TreeAllocates
<1>7. CASE Creation BY <1>7, TreeCreation
<1>8. CASE TerminateChild BY <1>8, TreeDescends
<1>9. CASE TerminateLeaf BY <1>9, TreeReaps
<1>10. CASE UNCHANGED vars
  <2>1. LinksInv(Q, rank)'
    BY <1>10, StutterKeeps
  <2> QED BY <1>10, <2>1, TreeStays DEF vars, links
<1> QED BY <1>1, <1>2, <1>3, <1>4, <1>5, <1>6, <1>7, <1>8, <1>9, <1>10
        DEF Next, Termination

\* The lists of tcb.c implement the abstract tree, step by step: threads are
\* created below a living parent or without one, and terminate() condemns and
\* frees exactly the subtree of its target (TreeImplemented without its fairness).
THEOREM ListsImplementTree ==
    ASSUME Preempt = FALSE, Reuse = FALSE
    PROVE  Spec => Tree!TreeSafety
<1>1. Init => Tree!TreeInit BY TreeStarts
<1>2. LinksInductive /\ [Next]_vars => [Tree!TreeNext]_(Tree!treeVars)
  BY TreeSteps DEF LinksInductive
<1> QED BY <1>1, <1>2, LinksInvariant, PTL DEF Spec, Tree!TreeSafety

=============================================================================
