----------------------------- MODULE QueueProofs -----------------------------
(***************************************************************************)
(* What the operations on lists do to the set, the length and the          *)
(* distinctness of their elements.                                         *)
(***************************************************************************)
EXTENDS Lists, SequenceTheorems, WellFoundedInduction, TLAPS

\* The elements of a list.
LEMMA SeqElements ==
    ASSUME NEW S, NEW q \in Seq(S)
    PROVE  ToSet(q) \subseteq S
BY LenProperties, ElementOfSeq DEF ToSet

\* insertThread adds one element at the tail and keeps a list without repetition.
LEMMA AppendLemma ==
    ASSUME NEW S, NEW q \in Seq(S), NEW x \in S
    PROVE  /\ Append(q, x) \in Seq(S)
           /\ Len(Append(q, x)) = Len(q) + 1
           /\ ToSet(Append(q, x)) = ToSet(q) \cup {x}
           /\ Distinct(q) /\ x \notin ToSet(q) => Distinct(Append(q, x))
<1>1. /\ Append(q, x) \in Seq(S)
      /\ Len(Append(q, x)) = Len(q) + 1
      /\ DOMAIN Append(q, x) = 1 .. Len(q) + 1
      /\ \A i \in 1 .. Len(q) : Append(q, x)[i] = q[i]
      /\ Append(q, x)[Len(q) + 1] = x
      /\ DOMAIN q = 1 .. Len(q) /\ Len(q) \in Nat
  BY AppendProperties, LenProperties
<1>2. ToSet(Append(q, x)) = ToSet(q) \cup {x}
  BY <1>1 DEF ToSet
<1>3. ASSUME Distinct(q), x \notin ToSet(q)
      PROVE  Distinct(Append(q, x))
  BY <1>1, <1>3 DEF ToSet, Distinct
<1> QED BY <1>1, <1>2, <1>3

\* removeThread takes the head off a list without repetition.
LEMMA TailLemma ==
    ASSUME NEW S, NEW q \in Seq(S), q # <<>>
    PROVE  /\ Tail(q) \in Seq(S)
           /\ Head(q) \in S
           /\ Head(q) \in ToSet(q)
           /\ Len(Tail(q)) = Len(q) - 1 /\ Len(q) \in Nat \ {0}
           /\ ToSet(q) = ToSet(Tail(q)) \cup {Head(q)}
           /\ Distinct(q) => Distinct(Tail(q)) /\ Head(q) \notin ToSet(Tail(q))
<1>1. /\ Tail(q) \in Seq(S) /\ Head(q) \in S
      /\ Len(Tail(q)) = Len(q) - 1
      /\ \A i \in 1 .. Len(Tail(q)) : Tail(q)[i] = q[i + 1]
      /\ Head(q) = q[1]
      /\ DOMAIN q = 1 .. Len(q) /\ Len(q) \in Nat \ {0}
      /\ DOMAIN Tail(q) = 1 .. Len(q) - 1
  BY HeadTailProperties, LenProperties, EmptySeq
<1>2. ToSet(q) = ToSet(Tail(q)) \cup {Head(q)}
  <2>1. ASSUME NEW i \in 1 .. Len(q) PROVE q[i] \in ToSet(Tail(q)) \cup {Head(q)}
    <3>1. CASE i = 1 BY <1>1, <3>1
    <3>2. CASE i # 1
      <4>1. i - 1 \in 1 .. Len(Tail(q)) /\ q[i] = Tail(q)[i - 1] BY <1>1, <3>2
      <4> QED BY <4>1, <1>1 DEF ToSet
    <3> QED BY <3>1, <3>2
  <2>2. ASSUME NEW i \in 1 .. Len(q) - 1 PROVE Tail(q)[i] \in ToSet(q)
    BY <1>1 DEF ToSet
  <2> QED BY <1>1, <2>1, <2>2 DEF ToSet
<1>3. ASSUME Distinct(q) PROVE Distinct(Tail(q)) /\ Head(q) \notin ToSet(Tail(q))
  BY <1>1, <1>3 DEF ToSet, Distinct
<1> QED BY <1>1, <1>2, <1>3 DEF ToSet

\* The elements that popMessage leaves in an inbox, in their order.
LEMMA RemoveAtIndex ==
    ASSUME NEW S, NEW q \in Seq(S), NEW i \in 1 .. Len(q)
    PROVE  /\ RemoveAt(q, i) \in Seq(S)
           /\ Len(RemoveAt(q, i)) = Len(q) - 1
           /\ \A j \in 1 .. Len(q) - 1 : RemoveAt(q, i)[j] = IF j < i THEN q[j] ELSE q[j + 1]
<1> DEFINE r == RemoveAt(q, i)
           p == SubSeq(q, 1, i - 1)
           s == SubSeq(q, i + 1, Len(q))
<1>0. Len(q) \in Nat /\ DOMAIN q = 1 .. Len(q) BY LenProperties
<1>1. /\ p \in Seq(S) /\ Len(p) = i - 1
      /\ \A j \in 1 .. i - 1 : p[j] = q[j]
  <2>1. \A j \in 1 .. i - 1 : j \in 1 .. Len(q) BY <1>0
  <2> QED BY <1>0, <2>1, SubSeqProperties, LenProperties
<1>2. /\ s \in Seq(S) /\ Len(s) = Len(q) - i
      /\ \A j \in 1 .. Len(q) - i : s[j] = q[i + j]
  <2>1. i + 1 \in Int /\ Len(q) \in Int /\ i \in Int BY <1>0
  <2>2. \A j \in i + 1 .. Len(q) : j \in 1 .. Len(q) BY <1>0
  <2>3. \A j \in i + 1 .. Len(q) : q[j] \in S BY <1>0, <2>2, ElementOfSeq
  <2>4. /\ s \in Seq(S)
        /\ Len(s) = IF i + 1 <= Len(q) THEN Len(q) - (i + 1) + 1 ELSE 0
        /\ \A j \in 1 .. Len(q) - (i + 1) + 1 : s[j] = q[(i + 1) + j - 1]
    BY <2>1, <2>3, SubSeqProperties
  <2>5. /\ Len(q) - (i + 1) + 1 = Len(q) - i
        /\ i + 1 <= Len(q) \/ Len(q) - i = 0
        /\ \A j \in 1 .. Len(q) - i : (i + 1) + j - 1 = i + j
    <3>1. i <= Len(q) BY <1>0
    <3> HIDE DEF r, p, s
    <3>2. Len(q) - (i + 1) + 1 = Len(q) - i BY <2>1
    <3>3. i + 1 <= Len(q) \/ Len(q) - i = 0 BY <2>1, <3>1
    <3>4. \A j \in 1 .. Len(q) - i : (i + 1) + j - 1 = i + j BY <2>1
    <3> QED BY <3>2, <3>3, <3>4
  <2> HIDE DEF s
  <2> QED BY <2>4, <2>5
<1>c. r = p \o s BY DEF RemoveAt
<1> HIDE DEF r, p, s
<1>3. /\ r \in Seq(S) /\ Len(r) = Len(q) - 1
      /\ \A j \in 1 .. Len(q) - 1 : r[j] = IF j < i THEN q[j] ELSE q[j + 1]
  <2>1. /\ r \in Seq(S) /\ Len(r) = Len(p) + Len(s)
        /\ \A j \in 1 .. Len(p) + Len(s) : r[j] = IF j <= Len(p) THEN p[j] ELSE s[j - Len(p)]
    BY <1>c, <1>1, <1>2, ConcatProperties
  <2>2. Len(p) + Len(s) = Len(q) - 1 BY <1>0, <1>1, <1>2
  <2>3. ASSUME NEW j \in 1 .. Len(q) - 1 PROVE r[j] = IF j < i THEN q[j] ELSE q[j + 1]
    <3>0. r[j] = IF j <= Len(p) THEN p[j] ELSE s[j - Len(p)] BY <2>1, <2>2
    <3>1. CASE j < i
      <4>1. j \in 1 .. i - 1 /\ j <= Len(p) BY <3>1, <1>0, <1>1
      <4> QED BY <3>0, <3>1, <4>1, <1>1
    <3>2. CASE ~(j < i)
      <4>1. /\ ~(j <= Len(p)) /\ j - Len(p) \in 1 .. Len(q) - i
            /\ i + (j - Len(p)) = j + 1
        BY <3>2, <1>0, <1>1
      <4>2. s[j - Len(p)] = q[i + (j - Len(p))] BY <4>1, <1>2
      <4> QED BY <3>0, <3>2, <4>1, <4>2
    <3> QED BY <3>1, <3>2
  <2> QED BY <2>1, <2>2, <2>3
<1> QED BY <1>3 DEF r

\* Removing one position of a list without repetition removes that element only.
LEMMA RemoveAtLemma ==
    ASSUME NEW S, NEW q \in Seq(S), NEW i \in 1 .. Len(q)
    PROVE  /\ RemoveAt(q, i) \in Seq(S)
           /\ Len(RemoveAt(q, i)) = Len(q) - 1
           /\ ToSet(q) = ToSet(RemoveAt(q, i)) \cup {q[i]}
           /\ Distinct(q) => Distinct(RemoveAt(q, i)) /\ q[i] \notin ToSet(RemoveAt(q, i))
<1> DEFINE r == RemoveAt(q, i)
<1>0. Len(q) \in Nat /\ DOMAIN q = 1 .. Len(q) BY LenProperties
<1>3. /\ r \in Seq(S) /\ Len(r) = Len(q) - 1
      /\ \A j \in 1 .. Len(q) - 1 : r[j] = IF j < i THEN q[j] ELSE q[j + 1]
  BY RemoveAtIndex
<1> HIDE DEF r
<1>4. DOMAIN r = 1 .. Len(q) - 1 BY <1>3, LenProperties
<1>5. ToSet(q) = ToSet(r) \cup {q[i]}
  <2>1. ASSUME NEW j \in 1 .. Len(q) PROVE q[j] \in ToSet(r) \cup {q[i]}
    <3>1. CASE j < i
      <4>1. j \in 1 .. Len(q) - 1 /\ r[j] = q[j] BY <3>1, <1>3, <1>0
      <4> QED BY <4>1, <1>4 DEF ToSet
    <3>2. CASE j > i
      <4>1. j - 1 \in 1 .. Len(q) - 1 /\ r[j - 1] = q[j] BY <3>2, <1>3, <1>0
      <4> QED BY <4>1, <1>4 DEF ToSet
    <3> QED BY <3>1, <3>2, <1>0
  <2>2. ASSUME NEW j \in 1 .. Len(q) - 1 PROVE r[j] \in ToSet(q)
    BY <1>3, <1>0 DEF ToSet
  <2>3. q[i] \in ToSet(q) BY <1>0 DEF ToSet
  <2>4. \A x \in ToSet(q) : x \in ToSet(r) \cup {q[i]} BY <2>1, <1>0 DEF ToSet
  <2>5. \A x \in ToSet(r) : x \in ToSet(q) BY <2>2, <1>4 DEF ToSet
  <2> QED BY <2>3, <2>4, <2>5
<1>6. ASSUME Distinct(q) PROVE Distinct(r) /\ q[i] \notin ToSet(r)
  <2>1. ASSUME NEW j \in 1 .. Len(q) - 1, NEW k \in 1 .. Len(q) - 1, r[j] = r[k]
        PROVE  j = k
    <3> DEFINE x == IF j < i THEN j ELSE j + 1
               y == IF k < i THEN k ELSE k + 1
    <3>1. x \in 1 .. Len(q) /\ y \in 1 .. Len(q) BY <1>0
    <3>2. r[j] = q[x] /\ r[k] = q[y] BY <1>3
    <3>3. x = y
      <4> HIDE DEF x, y
      <4> QED BY <3>1, <3>2, <2>1, <1>6 DEF Distinct
    <3> QED BY <3>3, <1>0
  <2>2. ASSUME NEW j \in 1 .. Len(q) - 1 PROVE r[j] # q[i]
    <3> DEFINE x == IF j < i THEN j ELSE j + 1
    <3>1. x \in 1 .. Len(q) /\ x # i BY <1>0
    <3>2. r[j] = q[x] BY <1>3
    <3> HIDE DEF x
    <3> QED BY <3>1, <3>2, <1>6 DEF Distinct
  <2> QED BY <2>1, <2>2, <1>3, <1>4 DEF Distinct, ToSet
<1> QED BY <1>3, <1>5, <1>6 DEF r

\* A non-empty set of naturals has a least element.
LEMMA LeastElement ==
    ASSUME NEW I \in SUBSET Nat, I # {}
    PROVE  \E j \in I : \A k \in I : j <= k
<1> DEFINE R == {ij \in Nat \X Nat : ij[1] < ij[2]}
<1>1. IsWellFoundedOn(R, Nat) BY NatLessThanWellFounded, Zenon DEF OpToRel
<1>2. \E j \in I : \A k \in I : ~(<<k, j>> \in R)
  <2> HIDE DEF R
  <2> QED BY <1>1, WFMin, Zenon
<1>3. PICK j \in I : \A k \in I : ~(<<k, j>> \in R) BY <1>2
<1>4. ASSUME NEW k \in I PROVE j <= k
  <2>1. k \in Nat /\ j \in Nat /\ <<k, j>> \in Nat \X Nat OBVIOUS
  <2>2. ~(k < j) BY <1>3, <2>1
  <2> QED BY <2>1, <2>2
<1> QED BY <1>4

\* Lists without repetition that share no element concatenate to another such list.
LEMMA ConcatLemma ==
    ASSUME NEW S, NEW p \in Seq(S), NEW q \in Seq(S)
    PROVE  /\ p \o q \in Seq(S)
           /\ Len(p \o q) = Len(p) + Len(q)
           /\ ToSet(p \o q) = ToSet(p) \cup ToSet(q)
           /\ Distinct(p) /\ Distinct(q) /\ ToSet(p) \cap ToSet(q) = {} => Distinct(p \o q)
<1> DEFINE r == p \o q
<1>0. /\ Len(p) \in Nat /\ DOMAIN p = 1 .. Len(p)
      /\ Len(q) \in Nat /\ DOMAIN q = 1 .. Len(q)
  BY LenProperties
<1>1. /\ r \in Seq(S) /\ Len(r) = Len(p) + Len(q)
      /\ \A i \in 1 .. Len(p) + Len(q) : r[i] = IF i <= Len(p) THEN p[i] ELSE q[i - Len(p)]
  BY ConcatProperties
<1> HIDE DEF r
<1>2. DOMAIN r = 1 .. Len(p) + Len(q) BY <1>1, LenProperties
<1>3. ToSet(r) = ToSet(p) \cup ToSet(q)
  <2>1. ASSUME NEW i \in 1 .. Len(p) + Len(q) PROVE r[i] \in ToSet(p) \cup ToSet(q)
    <3>1. CASE i <= Len(p) BY <3>1, <1>0, <1>1 DEF ToSet
    <3>2. CASE ~(i <= Len(p))
      <4>1. i - Len(p) \in 1 .. Len(q) BY <3>2, <1>0
      <4>2. r[i] = q[i - Len(p)] BY <3>2, <1>1
      <4> QED BY <4>1, <4>2, <1>0 DEF ToSet
    <3> QED BY <3>1, <3>2
  <2>2. ASSUME NEW i \in 1 .. Len(p) PROVE p[i] \in ToSet(r)
    <3>1. i \in 1 .. Len(p) + Len(q) /\ r[i] = p[i] BY <1>0, <1>1
    <3> QED BY <3>1, <1>2 DEF ToSet
  <2>3. ASSUME NEW i \in 1 .. Len(q) PROVE q[i] \in ToSet(r)
    <3>1. /\ i + Len(p) \in 1 .. Len(p) + Len(q) /\ ~(i + Len(p) <= Len(p))
          /\ (i + Len(p)) - Len(p) = i
      BY <1>0
    <3>2. r[i + Len(p)] = q[i] BY <3>1, <1>1
    <3> QED BY <3>1, <3>2, <1>2 DEF ToSet
  <2> QED BY <2>1, <2>2, <2>3, <1>0, <1>2 DEF ToSet
<1>4. ASSUME Distinct(p), Distinct(q), ToSet(p) \cap ToSet(q) = {}
      PROVE  Distinct(r)
  <2> SUFFICES ASSUME NEW i \in 1 .. Len(r), NEW j \in 1 .. Len(r), r[i] = r[j]
               PROVE  i = j
    BY DEF Distinct
  <2>1. /\ r[i] = IF i <= Len(p) THEN p[i] ELSE q[i - Len(p)]
        /\ r[j] = IF j <= Len(p) THEN p[j] ELSE q[j - Len(p)]
    BY <1>1
  <2>2. /\ ~(i <= Len(p)) => i - Len(p) \in 1 .. Len(q)
        /\ ~(j <= Len(p)) => j - Len(p) \in 1 .. Len(q)
        /\ i <= Len(p) => i \in 1 .. Len(p)
        /\ j <= Len(p) => j \in 1 .. Len(p)
    BY <1>0, <1>1
  <2>3. CASE i <= Len(p) /\ j <= Len(p) BY <2>1, <2>2, <2>3, <1>4 DEF Distinct
  <2>4. CASE ~(i <= Len(p)) /\ ~(j <= Len(p))
    <3>1. i - Len(p) = j - Len(p) BY <2>1, <2>2, <2>4, <1>4 DEF Distinct
    <3> QED BY <3>1, <1>0, <1>1
  <2>5. CASE i <= Len(p) /\ ~(j <= Len(p))
    <3>1. r[i] \in ToSet(p) /\ r[j] \in ToSet(q) BY <2>1, <2>2, <2>5, <1>0 DEF ToSet
    <3> QED BY <3>1, <1>4
  <2>6. CASE ~(i <= Len(p)) /\ j <= Len(p)
    <3>1. r[j] \in ToSet(p) /\ r[i] \in ToSet(q) BY <2>1, <2>2, <2>6, <1>0 DEF ToSet
    <3> QED BY <3>1, <1>4
  <2> QED BY <2>3, <2>4, <2>5, <2>6
<1> QED BY <1>1, <1>3, <1>4 DEF r

\* A list of one element.
LEMMA OneLemma ==
    ASSUME NEW S, NEW x \in S
    PROVE  <<x>> \in Seq(S) /\ Len(<<x>>) = 1 /\ ToSet(<<x>>) = {x} /\ Distinct(<<x>>)
<1>1. <<x>> \in Seq(S) /\ Len(<<x>>) = 1 /\ <<x>>[1] = x OBVIOUS
<1>2. DOMAIN <<x>> = 1 .. 1 BY <1>1, LenProperties
<1>3. ToSet(<<x>>) = {x} BY <1>1, <1>2 DEF ToSet
<1> QED BY <1>1, <1>3 DEF Distinct

\* The empty list.
LEMMA EmptyLemma ==
    ASSUME NEW S
    PROVE  <<>> \in Seq(S) /\ Len(<<>>) = 0 /\ ToSet(<<>>) = {} /\ Distinct(<<>>)
<1>1. <<>> \in Seq(S) /\ Len(<<>>) = 0 OBVIOUS
<1>2. DOMAIN <<>> = 1 .. 0 BY <1>1, LenProperties
<1>3. ToSet(<<>>) = {} BY <1>2 DEF ToSet
<1> QED BY <1>1, <1>3 DEF Distinct

=============================================================================
