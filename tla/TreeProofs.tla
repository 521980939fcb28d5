---------------------------- MODULE TreeProofs ----------------------------
(***************************************************************************)
(* The thread tree (tcb.c) through thread creation and the recursion of    *)
(* terminate(): t_parent and the t_child lists are two views of one tree   *)
(* of existing threads, until insertSibling links a brother through a TCB  *)
(* that has become a child; from there on they are not.                    *)
(***************************************************************************)
EXTENDS NucleusProofs

----------------------------------------------------------------------------
(* The tree, as a relation between the values of its links, of the free    *)
(* list and of the frames of terminate().                                  *)

Linked(parent, child) ==
    /\ parent \in [Tcb -> Tcb \cup {NULL}] /\ child \in [Tcb -> Seq(Tcb)]
    /\ \A p \in Tcb : Distinct(child[p])
    /\ \A p, c \in Tcb : c \in ToSet(child[p]) <=> parent[c] = p

Unlinked(parent, child, free) ==
    \A t \in ToSet(free) : parent[t] = NULL /\ child[t] = <<>>

Frames(parent, free, frames) ==
    /\ Distinct(frames)
    /\ \A t \in ToSet(frames) : parent[t] = NULL
    /\ \A i \in 1 .. Len(frames) - 1 : frames[i] \notin ToSet(free)

\* A thread with children, or with a parent, is not free.
LEMMA RelativesExist ==
    ASSUME NEW parent, NEW child, NEW free, Linked(parent, child),
           Unlinked(parent, child, free), NEW p \in Tcb, NEW c \in Tcb, parent[c] = p
    PROVE  p \notin ToSet(free) /\ c \notin ToSet(free)
<1>1. c \in ToSet(child[p]) BY DEF Linked
<1>2. child[p] # <<>> BY <1>1, EmptyLemma
<1> QED BY <1>2, NullNotTcb DEF Unlinked

\* outChild: t leaves the list of its parent, if it has one.
LEMMA OutChild ==
    ASSUME NEW parent, NEW child, NEW free \in Seq(Tcb), NEW t \in Tcb,
           Linked(parent, child), Unlinked(parent, child, free)
    PROVE  LET par == [parent EXCEPT ![t] = NULL]
               chi == [p \in Tcb |-> IF p = parent[t] THEN RemoveFirst(child[p], t)
                                     ELSE child[p]]
           IN  Linked(par, chi) /\ Unlinked(par, chi, free)
<1> DEFINE par == [parent EXCEPT ![t] = NULL]
           chi == [p \in Tcb |-> IF p = parent[t] THEN RemoveFirst(child[p], t) ELSE child[p]]
<1>0. parent \in [Tcb -> Tcb \cup {NULL}] /\ child \in [Tcb -> Seq(Tcb)] BY DEF Linked
<1>1. ASSUME NEW p \in Tcb
      PROVE  /\ RemoveFirst(child[p], t) \in Seq(Tcb)
             /\ Distinct(RemoveFirst(child[p], t))
             /\ t \notin ToSet(RemoveFirst(child[p], t))
             /\ \A c \in Tcb \ {t} : c \in ToSet(RemoveFirst(child[p], t)) <=> c \in ToSet(child[p])
  <2>1. child[p] \in Seq(Tcb) /\ Distinct(child[p]) BY <1>0 DEF Linked
  <2> QED BY <2>1, OutLemma DEF outThread
<1>2. /\ \A p \in Tcb : chi[p] = IF p = parent[t] THEN RemoveFirst(child[p], t) ELSE child[p]
      /\ par[t] = NULL /\ \A c \in Tcb \ {t} : par[c] = parent[c]
      /\ par \in [Tcb -> Tcb \cup {NULL}]
  BY <1>0
<1>3. chi \in [Tcb -> Seq(Tcb)] BY <1>0, <1>1
<1>4. NULL \notin Tcb BY NullNotTcb
<1>5. Linked(par, chi)
  <2> HIDE DEF par, chi
  <2>1. ASSUME NEW p \in Tcb PROVE Distinct(chi[p])
    <3>1. CASE p = parent[t]
      <4>1. chi[p] = RemoveFirst(child[p], t) BY <3>1, <1>2
      <4> QED BY <4>1, <1>1
    <3>2. CASE p # parent[t]
      <4>1. chi[p] = child[p] BY <3>2, <1>2
      <4> QED BY <4>1 DEF Linked
    <3> QED BY <3>1, <3>2
  <2>2. ASSUME NEW p \in Tcb, NEW c \in Tcb PROVE c \in ToSet(chi[p]) <=> par[c] = p
    <3>1. CASE c = t
      <4>1. par[c] # p BY <3>1, <1>2, <1>4
      <4>2. c \notin ToSet(chi[p]) BY <3>1, <1>1, <1>2 DEF Linked
      <4> QED BY <4>1, <4>2
    <3>2. CASE c # t
      BY <3>2, <1>1, <1>2 DEF Linked
    <3> QED BY <3>1, <3>2
  <2> QED BY <1>2, <1>3, <2>1, <2>2 DEF Linked
<1>6. Unlinked(par, chi, free)
  <2> SUFFICES ASSUME NEW u \in ToSet(free) PROVE par[u] = NULL /\ chi[u] = <<>>
    BY DEF Unlinked
  <2>1. parent[u] = NULL /\ child[u] = <<>> BY DEF Unlinked
  <2>2. u \in Tcb => u # parent[t] BY RelativesExist
  <2>3. u \in Tcb BY SeqElements
  <2> QED BY <2>1, <2>2, <2>3, <1>2
<1> QED BY <1>5, <1>6

Orphaned(parent, c) == [parent EXCEPT ![c] = NULL]
ChildRemoved(child, t) == [child EXCEPT ![t] = Tail(child[t])]

\* removeChild: the first child of t leaves t's list.
LEMMA RemoveChild ==
    ASSUME NEW parent, NEW child, NEW free \in Seq(Tcb), NEW t \in Tcb, child[t] # <<>>,
           Linked(parent, child), Unlinked(parent, child, free)
    PROVE  /\ Linked(Orphaned(parent, Head(child[t])), ChildRemoved(child, t))
           /\ Unlinked(Orphaned(parent, Head(child[t])), ChildRemoved(child, t), free)
           /\ Head(child[t]) \in Tcb /\ parent[Head(child[t])] = t
<1> DEFINE c == Head(child[t])
           par == Orphaned(parent, c)
           chi == ChildRemoved(child, t)
<1>0. /\ parent \in [Tcb -> Tcb \cup {NULL}] /\ child \in [Tcb -> Seq(Tcb)]
      /\ child[t] \in Seq(Tcb) /\ Distinct(child[t]) /\ NULL \notin Tcb
  BY NullNotTcb DEF Linked
<1>1. /\ Tail(child[t]) \in Seq(Tcb) /\ c \in Tcb /\ c \in ToSet(child[t])
      /\ ToSet(child[t]) = ToSet(Tail(child[t])) \cup {c}
      /\ Distinct(Tail(child[t])) /\ c \notin ToSet(Tail(child[t]))
  BY <1>0, TailLemma
<1>2. parent[c] = t BY <1>1 DEF Linked
<1> HIDE DEF c
<1>3. /\ chi[t] = Tail(child[t]) /\ \A p \in Tcb \ {t} : chi[p] = child[p]
      /\ chi \in [Tcb -> Seq(Tcb)]
      /\ par[c] = NULL /\ \A x \in Tcb \ {c} : par[x] = parent[x]
      /\ par \in [Tcb -> Tcb \cup {NULL}]
  BY <1>0, <1>1 DEF Orphaned, ChildRemoved
<1> HIDE DEF par, chi
<1>4. Linked(par, chi)
  <2>1. ASSUME NEW p \in Tcb PROVE Distinct(chi[p])
    <3>1. CASE p = t BY <3>1, <1>1, <1>3
    <3>2. CASE p # t BY <3>2, <1>3 DEF Linked
    <3> QED BY <3>1, <3>2
  <2>2. ASSUME NEW p \in Tcb, NEW x \in Tcb PROVE x \in ToSet(chi[p]) <=> par[x] = p
    <3>1. CASE x = c
      <4>1. par[x] # p BY <3>1, <1>0, <1>3
      <4>2. x \notin ToSet(chi[p]) BY <3>1, <1>1, <1>2, <1>3 DEF Linked
      <4> QED BY <4>1, <4>2
    <3>2. CASE x # c
      <4>1. x \in ToSet(chi[p]) <=> x \in ToSet(child[p])
        <5>1. CASE p = t BY <3>2, <5>1, <1>1, <1>3
        <5>2. CASE p # t BY <5>2, <1>3
        <5> QED BY <5>1, <5>2
      <4>2. par[x] = parent[x] BY <3>2, <1>3
      <4> QED BY <4>1, <4>2 DEF Linked
    <3> QED BY <3>1, <3>2
  <2> QED BY <1>3, <2>1, <2>2 DEF Linked
<1>5. Unlinked(par, chi, free)
  <2> SUFFICES ASSUME NEW u \in ToSet(free) PROVE par[u] = NULL /\ chi[u] = <<>>
    BY DEF Unlinked
  <2>1. parent[u] = NULL /\ child[u] = <<>> /\ u # t BY DEF Unlinked
  <2>2. u \in Tcb BY SeqElements
  <2> QED BY <2>1, <2>2, <1>3
<1> QED BY <1>1, <1>2, <1>4, <1>5 DEF c, par, chi

\* insertChild: a fresh TCB becomes the last child of an existing thread, or
\* stays without a parent.
LEMMA InsertChild ==
    ASSUME NEW parent, NEW child, NEW free \in Seq(Tcb), free # <<>>, Distinct(free),
           NEW to \in Tcb \cup {NULL}, to \notin ToSet(free),
           Linked(parent, child), Unlinked(parent, child, free)
    PROVE  LET t == Head(free)
               par == [parent EXCEPT ![t] = to]
               chi == [p \in Tcb |-> IF p = t THEN <<>>
                                     ELSE IF p = to THEN Append(child[p], t) ELSE child[p]]
           IN  Linked(par, chi) /\ Unlinked(par, chi, Tail(free))
<1> DEFINE t == Head(free)
           par == [parent EXCEPT ![t] = to]
           chi == [p \in Tcb |-> IF p = t THEN <<>>
                                 ELSE IF p = to THEN Append(child[p], t) ELSE child[p]]
<1>0. /\ parent \in [Tcb -> Tcb \cup {NULL}] /\ child \in [Tcb -> Seq(Tcb)]
      /\ NULL \notin Tcb
  BY NullNotTcb DEF Linked
<1>1. /\ t \in Tcb /\ t \in ToSet(free) /\ ToSet(free) = ToSet(Tail(free)) \cup {t}
      /\ t \notin ToSet(Tail(free))
  BY TailLemma
<1>2. parent[t] = NULL /\ child[t] = <<>> /\ t # to BY <1>1 DEF Unlinked
<1> HIDE DEF t
<1>3. ASSUME NEW p \in Tcb
      PROVE  /\ Append(child[p], t) \in Seq(Tcb) /\ Distinct(Append(child[p], t))
             /\ ToSet(Append(child[p], t)) = ToSet(child[p]) \cup {t}
  <2>1. child[p] \in Seq(Tcb) /\ Distinct(child[p]) BY <1>0 DEF Linked
  <2>2. t \notin ToSet(child[p]) BY <1>0, <1>1, <1>2 DEF Linked
  <2> QED BY <2>1, <2>2, <1>1, AppendLemma
<1>4. <<>> \in Seq(Tcb) /\ ToSet(<<>>) = {} /\ Distinct(<<>>) BY EmptyLemma
<1>5. /\ chi[t] = <<>> /\ \A p \in Tcb \ {t, to} : chi[p] = child[p]
      /\ to \in Tcb => chi[to] = Append(child[to], t)
      /\ par[t] = to /\ \A x \in Tcb \ {t} : par[x] = parent[x]
      /\ par \in [Tcb -> Tcb \cup {NULL}]
  BY <1>0, <1>1, <1>2
<1>6. chi \in [Tcb -> Seq(Tcb)] BY <1>0, <1>3, <1>4
<1>7. Linked(par, chi)
  <2> HIDE DEF par, chi
  <2>1. ASSUME NEW p \in Tcb PROVE Distinct(chi[p])
    <3>1. CASE p = t BY <3>1, <1>4, <1>5
    <3>2. CASE p = to BY <3>2, <1>3, <1>5
    <3>3. CASE p # t /\ p # to BY <3>3, <1>5 DEF Linked
    <3> QED BY <3>1, <3>2, <3>3
  <2>2. ASSUME NEW p \in Tcb, NEW x \in Tcb PROVE x \in ToSet(chi[p]) <=> par[x] = p
    <3>1. CASE p = t
      <4>1. x \notin ToSet(chi[p]) BY <3>1, <1>4, <1>5
      <4>2. par[x] # t
        <5>1. CASE x = t BY <5>1, <1>2, <1>5
        <5>2. CASE x # t BY <5>2, <1>1, <1>2, <1>4, <1>5 DEF Linked
        <5> QED BY <5>1, <5>2
      <4> QED BY <3>1, <4>1, <4>2
    <3>2. CASE p = to /\ p # t
      <4>1. ToSet(chi[p]) = ToSet(child[p]) \cup {t} BY <3>2, <1>3, <1>5
      <4>2. x \in ToSet(child[p]) <=> parent[x] = p BY DEF Linked
      <4>3. CASE x = t BY <3>2, <4>1, <4>3, <1>5
      <4>4. CASE x # t BY <4>1, <4>2, <4>4, <1>5
      <4> QED BY <4>3, <4>4
    <3>3. CASE p # t /\ p # to
      <4>1. chi[p] = child[p] BY <3>3, <1>5
      <4>2. x \in ToSet(child[p]) <=> parent[x] = p BY DEF Linked
      <4>3. par[x] = p <=> parent[x] = p
        <5>1. CASE x = t BY <3>3, <5>1, <1>0, <1>2, <1>5
        <5>2. CASE x # t BY <5>2, <1>5
        <5> QED BY <5>1, <5>2
      <4> QED BY <4>1, <4>2, <4>3
    <3> QED BY <3>1, <3>2, <3>3
  <2> QED BY <1>5, <1>6, <2>1, <2>2 DEF Linked
<1>8. Unlinked(par, chi, Tail(free))
  <2> SUFFICES ASSUME NEW u \in ToSet(Tail(free)) PROVE par[u] = NULL /\ chi[u] = <<>>
    BY DEF Unlinked
  <2>1. parent[u] = NULL /\ child[u] = <<>> /\ u # t /\ u # to BY <1>1 DEF Unlinked
  <2>2. u \in Tcb BY <1>1, SeqElements
  <2> HIDE DEF par, chi
  <2> QED BY <2>1, <2>2, <1>5
<1> QED BY <1>7, <1>8 DEF t

----------------------------------------------------------------------------
(* The inductive invariant: outside terminate() there is no frame, so a    *)
(* new call of it starts the only one.                                     *)

NoFrames == kpc \notin {"terminate"} \cup Stopped => victims = <<>>

TreeInv == TreeUntilTorn /\ NoFrames

\* The tree property is the three relations of the current values.
LEMMA TreeIsRelation ==
    ASSUME TypeRest
    PROVE  TreeConsistent <=> /\ Linked(t_parent, t_child)
                              /\ Unlinked(t_parent, t_child, tcbfree)
                              /\ Frames(t_parent, tcbfree, victims)
BY DEF TypeRest, TreeConsistent, Linked, Unlinked, Frames

\* main() of boot.c links no thread to another.
LEMMA InitTree == Init => TreeInv
<1> SUFFICES ASSUME Init PROVE TreeInv OBVIOUS
<1>1. ToSet(<<>>) = {} /\ Distinct(<<>>) /\ Len(<<>>) = 0 BY EmptyLemma
<1>2. /\ \A t \in Tcb : t_parent[t] = NULL /\ t_child[t] = <<>>
      /\ victims = <<>> /\ NULL \notin Tcb
  BY NullNotTcb DEF Init
<1>3. ToSet(tcbfree) \subseteq Tcb BY InitCore DEF CoreInv, QueuesOK, Partition
<1>4. TreeConsistent BY <1>1, <1>2, <1>3 DEF TreeConsistent
<1>5. kpc # "torn" BY DEF Init
<1> QED BY <1>2, <1>4, <1>5 DEF TreeInv, TreeUntilTorn, NoFrames

\* Steps that touch neither the tree nor the free list.
LEMMA TreeFrame ==
    ASSUME TreeInv, UNCHANGED <<t_parent, t_child, tcbfree, victims>>,
           kpc' = "torn" <=> kpc = "torn",
           kpc' \notin {"terminate"} \cup Stopped => kpc \notin {"terminate"} \cup Stopped
    PROVE  TreeInv'
BY DEF TreeInv, TreeUntilTorn, TreeConsistent, NoFrames

\* The call terminate(t) by a handler or by the SSI: outChild and the first frame.
LEMMA TreeTerminate ==
    ASSUME CoreInv, TreeInv, kpc # "torn", NEW t \in Tcb, Terminate(t)
    PROVE  TreeInv'
<1>1. /\ kpc' = "terminate" /\ victims' = <<t>> /\ tcbfree' = tcbfree
      /\ t_child' = [p \in Tcb |-> IF p = t_parent[t] THEN RemoveFirst(t_child[p], t)
                                   ELSE t_child[p]]
      /\ t_parent' = [t_parent EXCEPT ![t] = NULL]
  BY DEF Terminate, queueVars
<1>2. Linked(t_parent, t_child) /\ Unlinked(t_parent, t_child, tcbfree)
  BY TreeIsRelation DEF CoreInv, TreeInv, TreeUntilTorn
<1>3. tcbfree \in Seq(Tcb) BY DEF CoreInv, QueuesOK, Partition
<1>4. Linked(t_parent', t_child') /\ Unlinked(t_parent', t_child', tcbfree')
  BY <1>1, <1>2, <1>3, OutChild
<1>5. Frames(t_parent', tcbfree', victims')
  <2>1. ToSet(<<t>>) = {t} /\ Distinct(<<t>>) /\ Len(<<t>>) = 1 BY OneLemma
  <2>2. t_parent'[t] = NULL BY <1>1, <1>2 DEF Linked
  <2> QED BY <1>1, <2>1, <2>2 DEF Frames
<1>6. TreeConsistent' BY <1>4, <1>5 DEF TreeConsistent, Linked, Unlinked, Frames
<1> QED BY <1>1, <1>6 DEF TreeInv, TreeUntilTorn, NoFrames

\* The recursion of terminate() takes the first child of the innermost frame.
LEMMA TreeTerminateChild ==
    ASSUME CoreInv, TreeInv, TerminateChild
    PROVE  TreeInv'
<1> DEFINE t == Head(victims)
           c == Head(t_child[t])
<1>1. /\ kpc = "terminate" /\ kpc' = kpc /\ t_child[t] # <<>>
      /\ victims' = <<c>> \o victims
      /\ t_child' = [t_child EXCEPT ![t] = Tail(t_child[t])]
      /\ t_parent' = [t_parent EXCEPT ![c] = NULL]
      /\ tcbfree' = tcbfree
  BY DEF TerminateChild, queueVars
<1>2. /\ Linked(t_parent, t_child) /\ Unlinked(t_parent, t_child, tcbfree)
      /\ Frames(t_parent, tcbfree, victims)
  BY <1>1, TreeIsRelation DEF CoreInv, TreeInv, TreeUntilTorn
<1>3. tcbfree \in Seq(Tcb) /\ victims \in Seq(Tcb) /\ NULL \notin Tcb
  BY NullNotTcb DEF CoreInv, QueuesOK, Partition, TypeRest
<1>4. t \in Tcb BY <1>1, TailLemma DEF CoreInv, CpuOwned, TypeRest
<1>5. /\ Linked(t_parent', t_child') /\ Unlinked(t_parent', t_child', tcbfree')
      /\ c \in Tcb /\ t_parent[c] = t
  <2>1. t_child[t] # <<>> /\ tcbfree \in Seq(Tcb) BY <1>1, <1>3
  <2>2. Linked(t_parent, t_child) /\ Unlinked(t_parent, t_child, tcbfree) BY <1>2
  <2>3. t_parent' = Orphaned(t_parent, c) /\ t_child' = ChildRemoved(t_child, t)
    BY <1>1 DEF Orphaned, ChildRemoved
  <2>4. c = Head(t_child[t]) OBVIOUS
  <2> HIDE DEF c, t
  <2>5. /\ Linked(t_parent', t_child') /\ Unlinked(t_parent', t_child', tcbfree)
        /\ c \in Tcb /\ t_parent[c] = t
    BY <2>1, <2>2, <2>3, <2>4, <1>4, RemoveChild
  <2> QED BY <1>1, <2>5
<1>6. c \notin ToSet(tcbfree) /\ c \notin ToSet(victims)
  <2>1. c \notin ToSet(tcbfree)
    <3> HIDE DEF c, t
    <3> QED BY <1>2, <1>4, <1>5, RelativesExist
  <2>2. c \notin ToSet(victims) BY <1>2, <1>3, <1>4, <1>5 DEF Frames
  <2> QED BY <2>1, <2>2
<1> HIDE DEF c, t
<1> DEFINE one == <<c>>
<1>7. one \in Seq(Tcb) /\ Len(one) = 1 /\ ToSet(one) = {c} /\ Distinct(one) /\ one[1] = c
  BY <1>5, OneLemma
<1>8. victims' = one \o victims BY <1>1
<1> HIDE DEF one
<1>9. /\ Len(victims') = 1 + Len(victims) /\ Len(victims) \in Nat
      /\ ToSet(victims') = {c} \cup ToSet(victims) /\ Distinct(victims')
  <2>1. ToSet(one) \cap ToSet(victims) = {} BY <1>6, <1>7
  <2>2. Distinct(victims) BY <1>2 DEF Frames
  <2>3. /\ Len(one \o victims) = Len(one) + Len(victims)
        /\ ToSet(one \o victims) = ToSet(one) \cup ToSet(victims)
        /\ Distinct(one \o victims)
    <3>1. one \in Seq(Tcb) /\ Distinct(one) BY <1>7
    <3>2. victims \in Seq(Tcb) BY <1>3
    <3> QED BY <3>1, <3>2, <2>1, <2>2, ConcatLemma
  <2> QED BY <1>3, <1>7, <1>8, <2>3, LenProperties
<1>10. Frames(t_parent', tcbfree', victims')
  <2>1. ASSUME NEW i \in 1 .. Len(victims') - 1 PROVE victims'[i] \notin ToSet(tcbfree')
    <3>0. /\ i \in 1 .. Len(one) + Len(victims)
          /\ victims'[i] = IF i <= 1 THEN one[i] ELSE victims[i - 1]
      <4>1. i \in 1 .. Len(one) + Len(victims) BY <1>7, <1>9
      <4>2. (one \o victims)[i] = IF i <= Len(one) THEN one[i] ELSE victims[i - Len(one)]
        BY <4>1, <1>3, <1>7, ConcatProperties
      <4> QED BY <4>1, <4>2, <1>7, <1>8
    <3>1. CASE i = 1 BY <3>0, <3>1, <1>1, <1>6, <1>7
    <3>2. CASE i # 1
      <4>1. i - 1 \in 1 .. Len(victims) - 1 /\ ~(i <= 1) BY <3>2, <1>9
      <4> QED BY <3>0, <4>1, <1>1, <1>2 DEF Frames
    <3> QED BY <3>1, <3>2
  <2>2. \A x \in ToSet(victims') : t_parent'[x] = NULL
    <3>1. t_parent'[c] = NULL BY <1>1, <1>2, <1>5 DEF Linked
    <3>2. \A x \in ToSet(victims) : t_parent'[x] = t_parent[x] BY <1>1, <1>6
    <3> QED BY <3>1, <3>2, <1>2, <1>9 DEF Frames
  <2> QED BY <2>1, <2>2, <1>9 DEF Frames
<1>11. TreeConsistent' BY <1>5, <1>10 DEF TreeConsistent, Linked, Unlinked, Frames
<1> QED BY <1>1, <1>11 DEF TreeInv, TreeUntilTorn, NoFrames

\* The base case of terminate() frees the innermost frame, a thread that has
\* neither parent nor children left.
LEMMA TreeTerminateLeaf ==
    ASSUME CoreInv, TreeInv, TerminateLeaf
    PROVE  TreeInv'
<1> DEFINE t == Head(victims)
<1>1. /\ kpc = "terminate" /\ t_child[t] = <<>> /\ tcbfree' = Append(tcbfree, t)
      /\ victims' = Tail(victims) /\ UNCHANGED <<t_parent, t_child>>
      /\ kpc' # "torn" /\ (kpc' # "terminate" => Tail(victims) = <<>>)
  BY DEF TerminateLeaf, treeVars
<1>2. /\ Linked(t_parent, t_child) /\ Unlinked(t_parent, t_child, tcbfree)
      /\ Frames(t_parent, tcbfree, victims)
  BY <1>1, TreeIsRelation DEF CoreInv, TreeInv, TreeUntilTorn
<1>3. tcbfree \in Seq(Tcb) /\ victims \in Seq(Tcb) /\ victims # <<>>
  BY <1>1 DEF CoreInv, CpuOwned, QueuesOK, Partition, TypeRest
<1>4. /\ t \in Tcb /\ t \in ToSet(victims) /\ Len(Tail(victims)) = Len(victims) - 1
      /\ Len(victims) \in Nat \ {0} /\ ToSet(victims) = ToSet(Tail(victims)) \cup {t}
      /\ Distinct(Tail(victims)) /\ t \notin ToSet(Tail(victims))
  BY <1>2, <1>3, TailLemma DEF Frames
<1>5. ToSet(tcbfree') = ToSet(tcbfree) \cup {t} BY <1>1, <1>3, <1>4, AppendLemma
<1>6. t_parent[t] = NULL BY <1>2, <1>4 DEF Frames
<1> HIDE DEF t
<1>7. Unlinked(t_parent', t_child', tcbfree') BY <1>1, <1>2, <1>5, <1>6 DEF Unlinked
<1>8. Frames(t_parent', tcbfree', victims')
  <2>1. ASSUME NEW i \in 1 .. Len(victims') - 1 PROVE victims'[i] \notin ToSet(tcbfree')
    <3>1. /\ i + 1 \in 1 .. Len(victims) - 1 /\ i \in 1 .. Len(Tail(victims))
      BY <1>1, <1>4
    <3>2. Tail(victims)[i] = victims[i + 1] BY <1>3, <3>1, HeadTailProperties
    <3>3. victims[i + 1] \notin ToSet(tcbfree) BY <3>1, <1>2 DEF Frames
    <3>4. Tail(victims)[i] \in ToSet(Tail(victims))
      <4>1. Tail(victims) \in Seq(Tcb) BY <1>3, TailLemma
      <4> QED BY <4>1, <3>1, LenProperties DEF ToSet
    <3> QED BY <1>1, <1>4, <1>5, <3>2, <3>3, <3>4
  <2> QED BY <1>1, <1>2, <1>4, <2>1 DEF Frames
<1>9. TreeConsistent'
  BY <1>1, <1>2, <1>7, <1>8 DEF TreeConsistent, Linked, Unlinked, Frames
<1> QED BY <1>1, <1>9 DEF TreeInv, TreeUntilTorn, NoFrames

\* CREATESON and CREATEBROTHER link the fresh TCB to an existing parent, or to
\* none.  A brother that insertSibling links through a child stands in a t_child
\* list without having a parent.
LEMMA TreeCreateThread ==
    ASSUME CoreInv, TreeInv, NEW parent \in Tcb \cup {NULL}, parent \notin ToSet(tcbfree),
           NEW managers, NEW sibling \in Tcb, CreateThread(parent, managers, sibling)
    PROVE  TreeInv'
<1> DEFINE t == Head(tcbfree)
           last == ring_prev[sibling]
           torn == parent = NULL /\ t_parent[last] # NULL
           list == IF torn THEN t_parent[last] ELSE parent
<1>1. /\ kpc = "thread" /\ kpc' = (IF torn THEN "torn" ELSE kpc)
      /\ tcbfree # <<>> /\ tcbfree' = Tail(tcbfree)
      /\ t_parent' = [t_parent EXCEPT ![t] = parent]
      /\ t_child' = [p \in Tcb |-> IF p = t THEN <<>>
                                   ELSE IF p = list THEN Append(t_child[p], t)
                                   ELSE t_child[p]]
      /\ victims' = victims
  BY DEF CreateThread, allocTcb, InSSI, InThread
<1>2. victims = <<>> BY <1>1 DEF TreeInv, NoFrames, Stopped
<1>3. Linked(t_parent, t_child) /\ Unlinked(t_parent, t_child, tcbfree)
  BY <1>1, TreeIsRelation DEF CoreInv, TreeInv, TreeUntilTorn
<1>4. tcbfree \in Seq(Tcb) /\ Distinct(tcbfree) BY DEF CoreInv, QueuesOK, Partition
<1>5. CASE torn
  <2>1. last \in Tcb /\ list \in Tcb /\ t_parent[last] = list
    BY <1>5 DEF CoreInv, TypeRest
  <2>2. t \in Tcb /\ t \in ToSet(tcbfree) BY <1>1, <1>4, TailLemma
  <2>3. list # t BY <1>3, <2>1, <2>2, RelativesExist
  <2>4. t_child[list] \in Seq(Tcb) BY <1>3, <2>1 DEF Linked
  <2>5. t_child'[list] = Append(t_child[list], t) BY <1>1, <2>1, <2>3
  <2>6. t_parent'[t] = NULL BY <1>1, <1>3, <1>5, <2>2 DEF Linked
  <2> HIDE DEF t, last, torn, list
  <2>7. ToSet(t_child'[list]) = ToSet(t_child[list]) \cup {t}
    <3>1. ToSet(Append(t_child[list], t)) = ToSet(t_child[list]) \cup {t}
      BY <2>2, <2>4, AppendLemma
    <3> QED BY <2>5, <3>1
  <2>8. t \in ToSet(t_child'[list]) /\ t_parent'[t] # list
    BY <2>1, <2>6, <2>7, NullNotTcb
  <2>9. ~TreeConsistent' BY <2>1, <2>2, <2>8 DEF TreeConsistent
  <2> QED BY <1>1, <1>2, <1>5, <2>9 DEF TreeInv, TreeUntilTorn, NoFrames
<1>6. CASE ~torn
  <2>1. Linked(t_parent', t_child') /\ Unlinked(t_parent', t_child', tcbfree')
    <3> DEFINE par == [t_parent EXCEPT ![t] = parent]
               chi == [p \in Tcb |-> IF p = t THEN <<>>
                                     ELSE IF p = parent THEN Append(t_child[p], t)
                                     ELSE t_child[p]]
    <3>1. Linked(par, chi) /\ Unlinked(par, chi, Tail(tcbfree))
      BY <1>1, <1>3, <1>4, InsertChild
    <3>2. t_parent' = par /\ t_child' = chi BY <1>1, <1>6
    <3> HIDE DEF par, chi
    <3> QED BY <1>1, <3>1, <3>2
  <2>2. Frames(t_parent', tcbfree', victims')
    BY <1>1, <1>2, EmptyLemma DEF Frames
  <2>3. TreeConsistent' BY <2>1, <2>2 DEF TreeConsistent, Linked, Unlinked, Frames
  <2> QED BY <1>1, <1>2, <1>6, <2>3 DEF TreeInv, TreeUntilTorn, NoFrames
<1> QED BY <1>5, <1>6

\* The invariant is inductive, relative to the queue discipline.
LEMMA TreeNext == CoreInv /\ TreeInv /\ [Next]_vars => TreeInv'
<1> SUFFICES ASSUME CoreInv, TreeInv, [Next]_vars PROVE TreeInv' OBVIOUS
<1> USE DEF Stopped
<1>0. User \subseteq Tcb BY DEF User
<1>c. kpc \in {"thread", "fault"} => current_thread \in Tcb
  BY DEF CoreInv, CpuOwned, QueuesOK, Partition
<1>p. ASSUME NEW k \in TrapKind, kpc \in {"thread", "fault"}, PassUpOrDie(k)
      PROVE  TreeInv'
  <2>1. CASE manager_thread[k][current_thread] = NULL
    BY <1>c, <1>p, <2>1, TreeTerminate DEF PassUpOrDie
  <2>2. CASE manager_thread[k][current_thread] # NULL
    BY <1>p, <2>2, TreeFrame DEF PassUpOrDie, treeVars, queueVars
  <2> QED BY <2>1, <2>2
<1>1. CASE ThreadStep
  <2>1. ASSUME NEW a1, NEW w, MsgSend(a1, w) PROVE TreeInv'
    <3>1. CASE TrapTerminate(a1)
      BY <3>1, ReceiverIsTcb, TreeTerminate DEF TrapTerminate, InThread
    <3>2. CASE TrapContinue(a1)
      BY <3>2, TreeFrame DEF TrapContinue, InThread, treeVars
    <3>3. CASE Send(a1, w)
      BY <3>3, TreeFrame DEF Send, InThread, treeVars
    <3>4. CASE SendFails(a1, w)
      BY <3>4, TreeFrame DEF SendFails, InThread, treeVars, queueVars
    <3> QED BY <2>1, <3>1, <3>2, <3>3, <3>4 DEF MsgSend
  <2>2. ASSUME NEW a1, MsgRecv(a1) PROVE TreeInv'
    BY <2>2, TreeFrame DEF MsgRecv, RecvReturns, RecvBlocks, InThread, treeVars, queueVars
  <2>3. ASSUME NEW k \in TrapKind, Trap(k) PROVE TreeInv'
    BY <1>p, <2>3 DEF Trap, InThread
  <2> QED BY <1>1, <2>1, <2>2, <2>3 DEF ThreadStep
<1>2. CASE ServiceStep
  <2>e. ASSUME NEW req \in User, Exists(req) PROVE req \notin ToSet(tcbfree)
    BY <2>e DEF Exists, thereIsThread, CoreInv, QueuesOK, Partition
  <2>n. NULL \notin ToSet(tcbfree)
    BY NullNotTcb, SeqElements DEF CoreInv, QueuesOK, Partition
  <2>1. ASSUME NEW req \in User, CreateSon(req) PROVE TreeInv'
    <3>1. req \in Tcb \cup {NULL} /\ req \in Tcb BY <1>0
    <3>2. req \notin ToSet(tcbfree) BY <2>1, <2>e DEF CreateSon
    <3> QED BY <2>1, <3>1, <3>2, TreeCreateThread DEF CreateSon
  <2>2. ASSUME NEW req \in User, CreateBrother(req) PROVE TreeInv'
    <3>1. t_parent[req] \in Tcb \cup {NULL} BY <1>0 DEF CoreInv, TypeRest
    <3>0. kpc # "torn" BY <2>2 DEF CreateBrother, CreateThread, InSSI, InThread
    <3>2. Linked(t_parent, t_child) /\ Unlinked(t_parent, t_child, tcbfree)
      BY <3>0, TreeIsRelation DEF CoreInv, TreeInv, TreeUntilTorn
    <3>3. t_parent[req] \notin ToSet(tcbfree) BY <1>0, <2>n, <3>1, <3>2, RelativesExist
    <3> QED BY <1>0, <2>2, <3>1, <3>3, TreeCreateThread DEF CreateBrother
  <2>3. ASSUME NEW req \in User, KillThread(req) PROVE TreeInv'
    BY <1>0, <2>3, TreeTerminate DEF KillThread, InSSI, InThread
  <2>4. ASSUME NEW req, NEW k, NEW m, SpecManager(req, k, m) PROVE TreeInv'
    BY <2>4, TreeFrame DEF SpecManager, InSSI, InThread, treeVars, queueVars, controlVars
  <2>5. CASE ServicePanic
    BY <2>5, TreeFrame DEF ServicePanic, Panic, InSSI, InThread, treeVars, queueVars
  <2> QED BY <1>2, <2>1, <2>2, <2>3, <2>4, <2>5 DEF ServiceStep
<1>3. CASE Interrupt
  <2>1. ASSUME Interruptible, NEW s, NEW w, NEW requeue, InterruptMessage(s, w, requeue)
        PROVE  TreeInv'
    BY <2>1, TreeFrame DEF InterruptMessage, Interruptible, treeVars
  <2>2. CASE SliceExpired \/ InterruptIgnored \/ InterruptPanic
    BY <2>2, TreeFrame DEF SliceExpired, InterruptIgnored, InterruptPanic, Panic,
                           Interruptible, treeVars, queueVars
  <2> QED BY <1>3, <2>1, <2>2 DEF Interrupt, PseudoClockTick, DeviceInterrupt
<1>4. CASE KernelStep
  <2>1. CASE scheduler
    BY <2>1, TreeFrame DEF scheduler, Dispatch, Reload, Idle, Resume, treeVars, queueVars
  <2>2. CASE TerminatePanic
    BY <2>2, TreeFrame DEF TerminatePanic, Panic, treeVars, queueVars
  <2>3. CASE NestedTrap BY <1>p, <2>3, TrapKindAssumption DEF NestedTrap
  <2> QED BY <1>4, <2>1, <2>2, <2>3, TreeTerminateChild, TreeTerminateLeaf DEF KernelStep
<1>5. CASE Halted \/ UNCHANGED vars
  BY <1>5, TreeFrame DEF Halted, vars, treeVars, queueVars, controlVars
<1> QED BY <1>1, <1>2, <1>3, <1>4, <1>5 DEF Next

\* The tree and the queue discipline hold together, from boot on.
LEMMA TreeInvariants == Spec => [](CoreInv /\ TreeInv)
<1>1. Init => CoreInv /\ TreeInv BY InitCore, InitTree
<1>2. CoreInv /\ TreeInv /\ [Next]_vars => (CoreInv /\ TreeInv)' BY CoreNext, TreeNext
<1> QED BY <1>1, <1>2, PTL DEF Spec

\* For any number of threads: thread creation and the recursion of terminate()
\* keep the links one tree, of which no freed TCB is a part, up to the first
\* insertSibling that links a brother through the reused TCB of a dead one that
\* is a child by then; that call, and nothing else, breaks the tree (tcb.c).
THEOREM TreeKeptUntilTorn == Spec => []TreeUntilTorn
BY TreeInvariants, PTL DEF TreeInv

=============================================================================
