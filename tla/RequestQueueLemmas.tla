-------------------------- MODULE RequestQueueLemmas --------------------------
(***************************************************************************)
(* What removing a request from a queue, and adding one to it, does to the *)
(* requests queued; the least-number principle; the steps of a fold, sums  *)
(* and division.                                                           *)
(***************************************************************************)
EXTENDS RequestQueues, FiniteSets, SequenceTheorems, FiniteSetTheorems, WellFoundedInduction,
        TLAPS

\* RemoveAt drops one element and keeps the order of the others.
LEMMA RemoveAtIsSeq ==
    ASSUME NEW S, NEW s \in Seq(S), NEW i \in 1 .. Len(s)
    PROVE  /\ RemoveAt(s, i) \in Seq(S)
           /\ Len(RemoveAt(s, i)) = Len(s) - 1
           /\ \A j \in 1 .. Len(s) - 1 :
                 RemoveAt(s, i)[j] = IF j < i THEN s[j] ELSE s[j + 1]
<1> DEFINE a == SubSeq(s, 1, i - 1)
           b == SubSeq(s, i + 1, Len(s))
<1>1. /\ a \in Seq(S) /\ Len(a) = i - 1
      /\ \A j \in 1 .. i - 1 : a[j] = s[j]
  <2>1. \A j \in 1 .. i - 1 : s[j] \in S
    BY ElementOfSeq
  <2>2. QED BY <2>1, SubSeqProperties
<1>2. /\ b \in Seq(S) /\ Len(b) = Len(s) - i
      /\ \A j \in 1 .. Len(s) - i : b[j] = s[i + j]
  <2>1. \A j \in i + 1 .. Len(s) : s[j] \in S
    BY ElementOfSeq
  <2>2. QED BY <2>1, SubSeqProperties
<1> HIDE DEF a, b
<1>3. /\ a \o b \in Seq(S) /\ Len(a \o b) = Len(a) + Len(b)
      /\ \A j \in 1 .. Len(a) + Len(b) :
            (a \o b)[j] = IF j <= Len(a) THEN a[j] ELSE b[j - Len(a)]
  BY <1>1, <1>2, ConcatProperties
<1>4. Len(a \o b) = Len(s) - 1
  BY <1>1, <1>2, <1>3
<1>5. \A j \in 1 .. Len(s) - 1 :
            (a \o b)[j] = IF j < i THEN s[j] ELSE s[j + 1]
  BY <1>1, <1>2, <1>3
<1>6. QED BY <1>3, <1>4, <1>5 DEF RemoveAt, a, b

\* A list without duplicates loses exactly the element removed.
LEMMA RemoveAtElements ==
    ASSUME NEW S, NEW s \in Seq(S), NEW i \in 1 .. Len(s), NoDuplicates(s)
    PROVE  /\ ToSet(RemoveAt(s, i)) = ToSet(s) \ {s[i]}
           /\ NoDuplicates(RemoveAt(s, i))
<1> DEFINE t == RemoveAt(s, i)
<1>1. /\ t \in Seq(S) /\ Len(t) = Len(s) - 1
      /\ \A j \in 1 .. Len(s) - 1 : t[j] = IF j < i THEN s[j] ELSE s[j + 1]
  BY RemoveAtIsSeq
<1> HIDE DEF t
<1>2. DOMAIN t = 1 .. Len(s) - 1 /\ DOMAIN s = 1 .. Len(s)
  BY <1>1
<1>3. NoDuplicates(t)
  <2>1. SUFFICES ASSUME NEW j \in 1 .. Len(s) - 1, NEW k \in 1 .. Len(s) - 1,
                        t[j] = t[k]
                 PROVE  j = k
    BY <1>2 DEF NoDuplicates
  <2> DEFINE old(n) == IF n < i THEN n ELSE n + 1
  <2>2. /\ old(j) \in 1 .. Len(s) /\ t[j] = s[old(j)]
        /\ old(k) \in 1 .. Len(s) /\ t[k] = s[old(k)]
    BY <1>1
  <2>3. old(j) = old(k)
    BY <1>2, <2>1, <2>2 DEF NoDuplicates
  <2>4. QED BY <2>3
<1>4. ToSet(t) \subseteq ToSet(s) \ {s[i]}
  BY <1>1, <1>2 DEF ToSet, NoDuplicates
<1>5. ASSUME NEW j \in 1 .. Len(s), j # i
      PROVE  s[j] \in ToSet(t)
  <2>1. CASE j < i
    BY <2>1, <1>1, <1>2 DEF ToSet
  <2>2. CASE j > i
    <3>1. j - 1 \in 1 .. Len(s) - 1 /\ t[j - 1] = s[j]
      BY <2>2, <1>1
    <3>2. QED BY <3>1, <1>2 DEF ToSet
  <2>3. QED BY <2>1, <2>2, <1>5
<1>6. ToSet(s) \ {s[i]} \subseteq ToSet(t)
  BY <1>2, <1>5 DEF ToSet
<1>7. QED BY <1>3, <1>4, <1>6 DEF t

\* Without removes r, if it is there, and nothing else.
LEMMA WithoutElements ==
    ASSUME NEW S, NEW q \in Seq(S), NEW r
    PROVE  /\ Without(q, r) \in Seq(S)
           /\ NoDuplicates(q) =>
                 /\ ToSet(Without(q, r)) = ToSet(q) \ {r}
                 /\ NoDuplicates(Without(q, r))
<1>1. CASE \E i \in DOMAIN q : q[i] = r
  <2> DEFINE i == CHOOSE i \in DOMAIN q : q[i] = r
  <2>1. i \in 1 .. Len(q) /\ q[i] = r
    BY <1>1
  <2>2. Without(q, r) = RemoveAt(q, i)
    BY <1>1 DEF Without
  <2> HIDE DEF i
  <2>3. QED BY <2>1, <2>2, RemoveAtIsSeq, RemoveAtElements
<1>2. CASE ~ \E i \in DOMAIN q : q[i] = r
  BY <1>2 DEF Without, ToSet
<1>3. QED BY <1>1, <1>2

\* Append adds one element, which must be new to a list without duplicates.
LEMMA AppendElements ==
    ASSUME NEW S, NEW s \in Seq(S), NEW e \in S
    PROVE  /\ Append(s, e) \in Seq(S)
           /\ ToSet(Append(s, e)) = ToSet(s) \cup {e}
           /\ NoDuplicates(s) /\ e \notin ToSet(s) => NoDuplicates(Append(s, e))
<1>1. /\ Append(s, e) \in Seq(S) /\ Len(Append(s, e)) = Len(s) + 1
      /\ \A j \in 1 .. Len(s) : Append(s, e)[j] = s[j]
      /\ Append(s, e)[Len(s) + 1] = e
  OBVIOUS
<1>2. DOMAIN s = 1 .. Len(s) /\ DOMAIN Append(s, e) = 1 .. Len(s) + 1 /\ Len(s) \in Nat
  BY <1>1
<1>3. ToSet(Append(s, e)) = ToSet(s) \cup {e}
  BY <1>1, <1>2 DEF ToSet
<1>4. ASSUME NoDuplicates(s), e \notin ToSet(s) PROVE NoDuplicates(Append(s, e))
  BY <1>1, <1>2, <1>4 DEF ToSet, NoDuplicates
<1>5. QED BY <1>1, <1>3, <1>4

\* Two queues in a row hold what either holds.
LEMMA ConcatElements ==
    ASSUME NEW S, NEW s \in Seq(S), NEW t \in Seq(S)
    PROVE  /\ s \o t \in Seq(S)
           /\ ToSet(s \o t) = ToSet(s) \cup ToSet(t)
           /\ NoDuplicates(s \o t) <=>
                 NoDuplicates(s) /\ NoDuplicates(t) /\ ToSet(s) \cap ToSet(t) = {}
<1> DEFINE c == s \o t
<1>1. /\ c \in Seq(S) /\ Len(c) = Len(s) + Len(t)
      /\ \A i \in 1 .. Len(s) + Len(t) :
            c[i] = IF i <= Len(s) THEN s[i] ELSE t[i - Len(s)]
  BY ConcatProperties
<1> HIDE DEF c
<1>2. /\ DOMAIN c = 1 .. Len(s) + Len(t) /\ DOMAIN s = 1 .. Len(s)
      /\ DOMAIN t = 1 .. Len(t) /\ Len(s) \in Nat /\ Len(t) \in Nat
  BY <1>1
<1>3. /\ \A i \in DOMAIN s : i \in DOMAIN c /\ c[i] = s[i]
      /\ \A i \in DOMAIN t : Len(s) + i \in DOMAIN c /\ c[Len(s) + i] = t[i]
      /\ \A i \in DOMAIN c :
            \/ i \in DOMAIN s
            \/ i - Len(s) \in DOMAIN t /\ c[i] = t[i - Len(s)]
  BY <1>1, <1>2
<1>4. ToSet(c) = ToSet(s) \cup ToSet(t)
  BY <1>3 DEF ToSet
<1>5. ASSUME NoDuplicates(c)
      PROVE  NoDuplicates(s) /\ NoDuplicates(t) /\ ToSet(s) \cap ToSet(t) = {}
  <2>1. NoDuplicates(s)
    BY <1>3, <1>5 DEF NoDuplicates
  <2>2. NoDuplicates(t)
    <3>1. \A i, j \in DOMAIN t : Len(s) + i = Len(s) + j => i = j
      BY <1>2
    <3>2. QED BY <1>3, <1>5, <3>1 DEF NoDuplicates
  <2>3. ASSUME NEW i \in DOMAIN s, NEW j \in DOMAIN t, s[i] = t[j] PROVE FALSE
    <3>1. i = Len(s) + j
      BY <1>3, <1>5, <2>3 DEF NoDuplicates
    <3>2. QED BY <1>2, <3>1
  <2>4. QED BY <2>1, <2>2, <2>3 DEF ToSet
<1>6. ASSUME NoDuplicates(s), NoDuplicates(t), ToSet(s) \cap ToSet(t) = {}
      PROVE  NoDuplicates(c)
  <2>1. \A i \in DOMAIN s, j \in DOMAIN t : s[i] # t[j]
    BY <1>6 DEF ToSet
  <2>2. SUFFICES ASSUME NEW i \in DOMAIN c, NEW j \in DOMAIN c, c[i] = c[j] PROVE i = j
    BY DEF NoDuplicates
  <2>3. CASE i \in DOMAIN s /\ j \in DOMAIN s
    BY <1>3, <1>6, <2>2, <2>3 DEF NoDuplicates
  <2>4. CASE i \notin DOMAIN s /\ j \notin DOMAIN s
    <3>1. i - Len(s) = j - Len(s)
      BY <1>3, <1>6, <2>2, <2>4 DEF NoDuplicates
    <3>2. QED BY <1>2, <3>1
  <2>5. CASE i \in DOMAIN s /\ j \notin DOMAIN s
    BY <1>3, <2>1, <2>2, <2>5
  <2>6. CASE i \notin DOMAIN s /\ j \in DOMAIN s
    BY <1>3, <2>1, <2>2, <2>6
  <2>7. QED BY <2>3, <2>4, <2>5, <2>6
<1>7. QED BY <1>1, <1>4, <1>5, <1>6 DEF c

\* Removing from the second of two queues in a row.
LEMMA RemoveAtConcat ==
    ASSUME NEW S, NEW s \in Seq(S), NEW t \in Seq(S), NEW i \in 1 .. Len(t)
    PROVE  /\ Len(s) + i \in 1 .. Len(s \o t) /\ (s \o t)[Len(s) + i] = t[i]
           /\ s \o RemoveAt(t, i) = RemoveAt(s \o t, Len(s) + i)
<1> DEFINE c == s \o t
           u == RemoveAt(t, i)
<1>1. /\ c \in Seq(S) /\ Len(c) = Len(s) + Len(t)
      /\ \A j \in 1 .. Len(s) + Len(t) :
            c[j] = IF j <= Len(s) THEN s[j] ELSE t[j - Len(s)]
  BY ConcatProperties
<1>2. /\ u \in Seq(S) /\ Len(u) = Len(t) - 1
      /\ \A j \in 1 .. Len(t) - 1 : u[j] = IF j < i THEN t[j] ELSE t[j + 1]
  BY RemoveAtIsSeq
<1> HIDE DEF c, u
<1>3. Len(s) \in Nat /\ Len(t) \in Nat /\ Len(s) + i \in 1 .. Len(c)
  BY <1>1
<1>4. /\ RemoveAt(c, Len(s) + i) \in Seq(S) /\ Len(RemoveAt(c, Len(s) + i)) = Len(c) - 1
      /\ \A j \in 1 .. Len(c) - 1 :
            RemoveAt(c, Len(s) + i)[j] = IF j < Len(s) + i THEN c[j] ELSE c[j + 1]
  BY <1>1, <1>3, RemoveAtIsSeq
<1>5. /\ s \o u \in Seq(S) /\ Len(s \o u) = Len(s) + Len(u)
      /\ \A j \in 1 .. Len(s) + Len(u) :
            (s \o u)[j] = IF j <= Len(s) THEN s[j] ELSE u[j - Len(s)]
  BY <1>2, ConcatProperties
<1>6. \A j \in 1 .. Len(c) - 1 : (s \o u)[j] = RemoveAt(c, Len(s) + i)[j]
  <2> TAKE j \in 1 .. Len(c) - 1
  <2>1. CASE j <= Len(s)
    BY <1>1, <1>2, <1>3, <1>4, <1>5, <2>1
  <2>2. CASE j > Len(s)
    <3>1. j - Len(s) \in 1 .. Len(t) - 1 /\ (s \o u)[j] = u[j - Len(s)]
      BY <1>1, <1>2, <1>3, <1>5, <2>2
    <3>2. u[j - Len(s)] = IF j - Len(s) < i THEN t[j - Len(s)] ELSE t[j - Len(s) + 1]
      BY <1>2, <3>1
    <3>3. c[j] = t[j - Len(s)] /\ c[j + 1] = t[j + 1 - Len(s)]
      BY <1>1, <1>3, <2>2
    <3>4. j \in Int /\ Len(s) \in Int /\ i \in Int /\ Len(c) \in Int
      BY <1>1, <1>3
    <3>5. /\ j - Len(s) < i <=> j < Len(s) + i
          /\ j + 1 - Len(s) = j - Len(s) + 1
      BY <3>4
    <3>6. RemoveAt(c, Len(s) + i)[j] = IF j < Len(s) + i THEN c[j] ELSE c[j + 1]
      BY <1>4
    <3>7. QED BY <3>1, <3>2, <3>3, <3>5, <3>6
  <2>3. j \in Int
    BY <1>1, <1>3
  <2>4. j <= Len(s) \/ j > Len(s)
    BY <1>3, <2>3
  <2>5. QED BY <2>1, <2>2, <2>4, Zenon
<1>7. s \o u = RemoveAt(c, Len(s) + i)
  <2>1. Len(s \o u) = Len(c) - 1
    BY <1>1, <1>2, <1>3, <1>5
  <2>2. QED BY <1>4, <1>5, <1>6, <2>1, SeqEqual
<1>8. c[Len(s) + i] = t[i]
  BY <1>1, <1>3
<1>9. QED BY <1>3, <1>7, <1>8 DEF c, u

\* The head of the second queue goes to the end of the first.
LEMMA HeadMoves ==
    ASSUME NEW S, NEW s \in Seq(S), NEW t \in Seq(S), t # <<>>
    PROVE  Append(s, t[1]) \o RemoveAt(t, 1) = s \o t
<1> DEFINE a == Append(s, t[1])
           u == RemoveAt(t, 1)
<1>1. 1 \in 1 .. Len(t) /\ t[1] \in S /\ Len(s) \in Nat /\ Len(t) \in Nat
  OBVIOUS
<1>2. /\ a \in Seq(S) /\ Len(a) = Len(s) + 1 /\ a[Len(s) + 1] = t[1]
      /\ \A j \in 1 .. Len(s) : a[j] = s[j]
  BY <1>1
<1>3. /\ u \in Seq(S) /\ Len(u) = Len(t) - 1
      /\ \A j \in 1 .. Len(t) - 1 : u[j] = t[j + 1]
  BY <1>1, RemoveAtIsSeq
<1> HIDE DEF a, u
<1>4. /\ a \o u \in Seq(S) /\ Len(a \o u) = Len(s) + Len(t)
      /\ \A j \in 1 .. Len(s) + Len(t) :
            (a \o u)[j] = IF j <= Len(s) + 1 THEN a[j] ELSE u[j - (Len(s) + 1)]
  <2>1. /\ a \o u \in Seq(S) /\ Len(a \o u) = Len(a) + Len(u)
        /\ \A j \in 1 .. Len(a) + Len(u) :
              (a \o u)[j] = IF j <= Len(a) THEN a[j] ELSE u[j - Len(a)]
    BY <1>2, <1>3, ConcatProperties
  <2>2. Len(a) + Len(u) = Len(s) + Len(t)
    BY <1>1, <1>2, <1>3
  <2>3. QED BY <1>2, <2>1, <2>2
<1>5. /\ s \o t \in Seq(S) /\ Len(s \o t) = Len(s) + Len(t)
      /\ \A j \in 1 .. Len(s) + Len(t) :
            (s \o t)[j] = IF j <= Len(s) THEN s[j] ELSE t[j - Len(s)]
  BY ConcatProperties
<1>6. \A j \in 1 .. Len(s) + Len(t) : (a \o u)[j] = (s \o t)[j]
  <2> TAKE j \in 1 .. Len(s) + Len(t)
  <2>1. j \in Int /\ 1 <= j /\ j <= Len(s) + Len(t)
    BY <1>1
  <2>2. CASE j <= Len(s)
    BY <1>1, <1>2, <1>4, <1>5, <2>1, <2>2
  <2>3. CASE j = Len(s) + 1
    <3>1. (s \o t)[j] = t[j - Len(s)] /\ (a \o u)[j] = a[j]
      BY <1>1, <1>4, <1>5, <2>1, <2>3
    <3>2. j - Len(s) = 1
      BY <1>1, <2>3
    <3>3. QED BY <1>2, <2>3, <3>1, <3>2
  <2>4. CASE j > Len(s) + 1
    <3>1. (s \o t)[j] = t[j - Len(s)] /\ (a \o u)[j] = u[j - (Len(s) + 1)]
      BY <1>1, <1>4, <1>5, <2>1, <2>4
    <3>2. j - (Len(s) + 1) \in 1 .. Len(t) - 1 /\ j - (Len(s) + 1) + 1 = j - Len(s)
      BY <1>1, <2>1, <2>4
    <3>3. u[j - (Len(s) + 1)] = t[j - (Len(s) + 1) + 1]
      BY <1>3, <3>2
    <3>4. QED BY <3>1, <3>2, <3>3
  <2>5. j <= Len(s) \/ j = Len(s) + 1 \/ j > Len(s) + 1
    BY <1>1, <2>1
  <2>6. QED BY <2>2, <2>3, <2>4, <2>5, Zenon
<1>7. QED BY <1>1, <1>4, <1>5, <1>6, SeqEqual DEF a, u

--------------------------------------------------------------------------------
(* Requests that wait ahead of all others *)

\* The elements of P come first in q.
FirstIn(q, P) == \A i, j \in DOMAIN q : i < j /\ q[j] \in P => q[i] \in P

LEMMA RemoveAtFirstIn ==
    ASSUME NEW S, NEW s \in Seq(S), NEW i \in 1 .. Len(s), NEW P, FirstIn(s, P)
    PROVE  FirstIn(RemoveAt(s, i), P)
<1> DEFINE t == RemoveAt(s, i)
<1>1. /\ t \in Seq(S) /\ Len(t) = Len(s) - 1
      /\ \A j \in 1 .. Len(s) - 1 : t[j] = IF j < i THEN s[j] ELSE s[j + 1]
  BY RemoveAtIsSeq
<1> HIDE DEF t
<1>2. DOMAIN t = 1 .. Len(s) - 1 /\ DOMAIN s = 1 .. Len(s)
  BY <1>1
<1> DEFINE old(n) == IF n < i THEN n ELSE n + 1
<1>3. \A n \in DOMAIN t : old(n) \in DOMAIN s /\ t[n] = s[old(n)]
  BY <1>1, <1>2
<1>4. \A m, n \in DOMAIN t : m < n => old(m) < old(n)
  BY <1>2
<1> HIDE DEF old
<1>5. QED BY <1>3, <1>4 DEF FirstIn, t

LEMMA WithoutFirstIn ==
    ASSUME NEW S, NEW s \in Seq(S), NEW r, NEW P, FirstIn(s, P)
    PROVE  FirstIn(Without(s, r), P)
<1>1. CASE \E i \in DOMAIN s : s[i] = r
  <2> DEFINE i == CHOOSE i \in DOMAIN s : s[i] = r
  <2>1. i \in 1 .. Len(s)
    BY <1>1
  <2>2. Without(s, r) = RemoveAt(s, i)
    BY <1>1 DEF Without
  <2> HIDE DEF i
  <2>3. QED BY <2>1, <2>2, RemoveAtFirstIn
<1>2. CASE ~ \E i \in DOMAIN s : s[i] = r
  BY <1>2 DEF Without
<1>3. QED BY <1>1, <1>2

\* Who joins at the end must not be one of them.
LEMMA AppendFirstIn ==
    ASSUME NEW S, NEW s \in Seq(S), NEW e \in S, NEW P, FirstIn(s, P), e \notin P
    PROVE  FirstIn(Append(s, e), P)
<1>1. /\ \A j \in 1 .. Len(s) : Append(s, e)[j] = s[j]
      /\ Append(s, e)[Len(s) + 1] = e
      /\ DOMAIN s = 1 .. Len(s) /\ DOMAIN Append(s, e) = 1 .. Len(s) + 1 /\ Len(s) \in Nat
  OBVIOUS
<1>2. \A j \in 1 .. Len(s) + 1 : j \in DOMAIN s \/ j = Len(s) + 1
  BY <1>1
<1>3. QED BY <1>1, <1>2 DEF FirstIn

\* Who joins at the head must be one of them.
LEMMA PrependFirstIn ==
    ASSUME NEW S, NEW s \in Seq(S), NEW e \in S, NEW P, FirstIn(s, P), e \in P
    PROVE  FirstIn(<<e>> \o s, P)
<1> DEFINE t == <<e>> \o s
<1>1. /\ t[1] = e /\ DOMAIN t = 1 .. Len(s) + 1 /\ DOMAIN s = 1 .. Len(s) /\ Len(s) \in Nat
      /\ \A j \in 2 .. Len(s) + 1 : t[j] = s[j - 1]
  OBVIOUS
<1> HIDE DEF t
<1>2. SUFFICES ASSUME NEW i \in DOMAIN t, NEW j \in DOMAIN t, i < j, t[j] \in P
               PROVE  t[i] \in P
  BY DEF FirstIn, t
<1>3. CASE i = 1
  BY <1>1, <1>3
<1>4. CASE i # 1
  <2>1. /\ i - 1 \in DOMAIN s /\ j - 1 \in DOMAIN s /\ i - 1 < j - 1
        /\ t[i] = s[i - 1] /\ t[j] = s[j - 1]
    BY <1>1, <1>2, <1>4
  <2>2. QED BY <1>2, <2>1 DEF FirstIn
<1>5. QED BY <1>3, <1>4

\* Only the elements of q matter.
LEMMA SameFirstIn ==
    ASSUME NEW q, NEW P, NEW Q, FirstIn(q, P),
           \A x \in ToSet(q) : x \in P <=> x \in Q
    PROVE  FirstIn(q, Q)
BY DEF FirstIn, ToSet

--------------------------------------------------------------------------------
(* Induction, and folds over queues *)

\* The least-number principle, which serves as induction: a set of natural numbers
\* that is not empty, such as that of the counterexamples, has a least member.
LEMMA LeastNat ==
    ASSUME NEW T \in SUBSET Nat, T # {}
    PROVE  \E x \in T : \A y \in T : x <= y
<1> DEFINE R == OpToRel(<, Nat)
<1>1. IsWellFoundedOn(R, Nat)
  BY NatLessThanWellFounded
<1>2. \A x, y \in Nat : <<y, x>> \in R <=> y < x
  BY DEF OpToRel
<1> HIDE DEF R
<1>3. PICK x \in T : \A y \in T : <<y, x>> \notin R
  BY <1>1, WFMin
<1>4. \A y \in T : ~(y < x)
  BY <1>2, <1>3
<1>5. \A y \in T : x <= y
  BY <1>4
<1>6. QED BY <1>5

\* Hence a bounded set of natural numbers has its greatest member as Max.
LEMMA MaxIsGreatest ==
    ASSUME NEW n \in Nat, NEW T \in SUBSET (0 .. n), T # {}
    PROVE  Max(T) \in T /\ \A y \in T : Max(T) >= y
<1> DEFINE U == {n - y : y \in T}
<1>1. U \in SUBSET Nat /\ U # {}
  <2>1. \A y \in T : y \in 0 .. n
    OBVIOUS
  <2>2. \A y \in T : n - y \in Nat
    BY <2>1
  <2>3. QED BY <2>2
<1>2. \E x \in U : \A y \in U : x <= y
  BY <1>1, LeastNat
<1>3. PICK z \in T : \A y \in T : n - z <= n - y
  BY <1>2
<1>4. \A y \in T : z >= y
  BY <1>3
<1>5. QED BY <1>4 DEF Max

LEMMA MinIsLeast ==
    ASSUME NEW T \in SUBSET Nat, T # {}
    PROVE  Min(T) \in T /\ \A y \in T : Min(T) <= y
BY LeastNat DEF Min

\* The k-th member of a bounded set of numbers is the one above k - 1 others.
LEMMA KthMember ==
    ASSUME NEW n \in Nat, NEW S \in SUBSET (1 .. n), NEW k \in 1 .. Cardinality(S)
    PROVE  \E x \in S : Cardinality({y \in S : y < x}) = k - 1
<1> DEFINE Below(x) == {y \in S : y < x}
           Upto(x) == {y \in S : y <= x}
<1>0. \A y \in S : y \in Int /\ y \in Nat /\ y \in 0 .. n
  OBVIOUS
<1>1. IsFiniteSet(S) /\ Cardinality(S) \in Nat
  <2>1. IsFiniteSet(1 .. n)
    BY FS_Interval
  <2>2. QED BY <2>1, FS_Subset, FS_CardinalityType
<1>2. ASSUME NEW x \in S
      PROVE  /\ Cardinality(Below(x)) \in Nat
             /\ Cardinality(Upto(x)) = Cardinality(Below(x)) + 1
  <2>1. Upto(x) = Below(x) \cup {x} /\ x \notin Below(x)
    <3>1. ASSUME NEW y \in S PROVE y <= x <=> y < x \/ y = x
      BY <1>0
    <3>2. ~(x < x)
      BY <1>0
    <3>3. QED BY <3>1, <3>2
  <2>2. IsFiniteSet(Below(x))
    BY <1>1, FS_Subset
  <2> HIDE DEF Below
  <2>3. QED BY <2>1, <2>2, FS_AddElement, FS_CardinalityType
<1> DEFINE T == {x \in S : Cardinality(Upto(x)) >= k}
<1>3. T # {}
  <2>1. S # {}
    BY FS_EmptySet
  <2>2. Max(S) \in S /\ \A y \in S : Max(S) >= y
    <3>1. S \in SUBSET (0 .. n)
      OBVIOUS
    <3>2. QED BY <2>1, <3>1, MaxIsGreatest
  <2>3. Upto(Max(S)) = S
    BY <2>2
  <2>4. QED BY <1>1, <2>2, <2>3
<1>4. PICK x \in T : \A y \in T : x <= y
  <2>1. T \in SUBSET Nat
    BY <1>0
  <2> HIDE DEF T
  <2>2. QED BY <1>3, <2>1, LeastNat
<1>5. Cardinality(Below(x)) < k
  <2> SUFFICES ASSUME Cardinality(Below(x)) >= k PROVE FALSE
    BY <1>2, <1>4
  <2>1. Below(x) # {}
    BY FS_EmptySet
  <2>2. Below(x) \in SUBSET (0 .. n)
    BY <1>0
  <2> DEFINE z == Max(Below(x))
  <2>3. z \in Below(x) /\ \A y \in Below(x) : z >= y
    <3> HIDE DEF Below
    <3>1. QED BY <2>1, <2>2, MaxIsGreatest
  <2> HIDE DEF z
  <2>4. z \in S /\ z < x
    BY <2>3
  <2>7. Upto(z) = Below(x)
    <3>1. ASSUME NEW y \in S PROVE y <= z <=> y < x
      BY <1>0, <2>3, <2>4
    <3>2. QED BY <3>1
  <2>5. z \in T
    BY <2>4, <2>7, <1>2
  <2>6. QED BY <1>0, <1>4, <2>4, <2>5
<1>6. Cardinality(Upto(x)) >= k
  BY <1>4
<1>7. QED BY <1>2, <1>4, <1>5, <1>6

\* f folds every set of indices below n from its least member on: what FoldLeft does to
\* a sequence whose steps are step[1], step[2], ...
IsFold(f, base, step, n) ==
    \A t \in SUBSET (1 .. n) :
        f[t] = IF t = {} THEN base ELSE step[Max(t)][f[t \ {Max(t)}]]

\* The function FoldLeft chooses exists, for steps that stay in some set A.
LEMMA FoldExists ==
    ASSUME NEW A, NEW base \in A, NEW n \in Nat, NEW step \in [1 .. n -> [A -> A]]
    PROVE  \E f \in [SUBSET (1 .. n) -> A] : IsFold(f, base, step, n)
<1> USE DEF IsFold
<1> DEFINE Folds(f, m) == IsFold(f, base, step, m)
           Bad == {m \in 0 .. n : ~ \E f \in [SUBSET (1 .. m) -> A] : Folds(f, m)}
<1>1. ASSUME NEW m \in 0 .. n, NEW t \in SUBSET (1 .. m), t # {}
      PROVE  Max(t) \in t /\ \A y \in t : Max(t) >= y
  <2>1. t \in SUBSET (0 .. n)
    BY <1>1
  <2>2. QED BY <1>1, <2>1, MaxIsGreatest
<1>2. \E f \in [SUBSET (1 .. 0) -> A] : Folds(f, 0)
  <2>1. 1 .. 0 = {}
    OBVIOUS
  <2>2. [t \in SUBSET (1 .. 0) |-> base] \in [SUBSET (1 .. 0) -> A]
    OBVIOUS
  <2>3. Folds([t \in SUBSET (1 .. 0) |-> base], 0)
    BY <2>1
  <2>4. QED BY <2>2, <2>3
<1>3. ASSUME NEW m \in 1 .. n, NEW g \in [SUBSET (1 .. m - 1) -> A], Folds(g, m - 1)
      PROVE  \E f \in [SUBSET (1 .. m) -> A] : Folds(f, m)
  <2> USE <1>3
  <2> DEFINE f == [t \in SUBSET (1 .. m) |->
                     IF m \in t THEN step[m][g[t \ {m}]] ELSE g[t]]
  <2>1. \A t \in SUBSET (1 .. m) : t \ {m} \in SUBSET (1 .. m - 1)
    OBVIOUS
  <2>2. \A t \in SUBSET (1 .. m) : m \notin t => t \in SUBSET (1 .. m - 1)
    <3> SUFFICES ASSUME NEW t \in SUBSET (1 .. m), m \notin t
                 PROVE  t \in SUBSET (1 .. m - 1)
      OBVIOUS
    <3>1. t \ {m} = t
      OBVIOUS
    <3>2. QED BY <2>1, <3>1
  <2>3. f \in [SUBSET (1 .. m) -> A]
    <3> SUFFICES ASSUME NEW t \in SUBSET (1 .. m)
                 PROVE  (IF m \in t THEN step[m][g[t \ {m}]] ELSE g[t]) \in A
      OBVIOUS
    <3>1. CASE m \in t
      <4>1. g[t \ {m}] \in A
        BY <2>1
      <4>2. QED BY <3>1, <4>1
    <3>2. CASE m \notin t
      BY <2>2, <3>2
    <3>3. QED BY <3>1, <3>2
  <2>4. ASSUME NEW t \in SUBSET (1 .. m), t # {}, m \in t
        PROVE  f[t] = step[Max(t)][f[t \ {Max(t)}]]
    <3>1. Max(t) = m
      <4>1. m \in 0 .. n
        OBVIOUS
      <4>2. Max(t) \in t /\ Max(t) >= m
        BY <1>1, <2>4, <4>1
      <4>3. Max(t) \in 1 .. m
        BY <4>2
      <4>4. QED BY <4>2, <4>3
    <3>2. t \ {m} \in SUBSET (1 .. m) /\ m \notin t \ {m}
      OBVIOUS
    <3>3. f[t \ {m}] = g[t \ {m}]
      BY <3>2
    <3>4. QED BY <2>4, <3>1, <3>3
  <2>5. ASSUME NEW t \in SUBSET (1 .. m), t # {}, m \notin t
        PROVE  f[t] = step[Max(t)][f[t \ {Max(t)}]]
    <3>1. t \in SUBSET (1 .. m - 1) /\ t \ {Max(t)} \in SUBSET (1 .. m)
          /\ m \notin t \ {Max(t)}
      BY <2>2, <2>5
    <3>2. f[t] = g[t] /\ f[t \ {Max(t)}] = g[t \ {Max(t)}]
      BY <2>5, <3>1
    <3>3. QED BY <1>3, <2>5, <3>1, <3>2
  <2>6. f[{}] = base
    <3>1. {} \in SUBSET (1 .. m) /\ {} \in SUBSET (1 .. m - 1)
      OBVIOUS
    <3>2. g[{}] = base
      BY <1>3, <3>1
    <3>3. QED BY <3>1, <3>2
  <2> HIDE DEF f
  <2>7. Folds(f, m)
    BY <2>4, <2>5, <2>6
  <2>8. QED BY <2>3, <2>7
<1> HIDE DEF Folds
<1>4. Bad = {}
  <2> SUFFICES ASSUME Bad # {} PROVE FALSE
    OBVIOUS
  <2>1. PICK m \in Bad : \A k \in Bad : m <= k
    <3>1. Bad \in SUBSET Nat
      OBVIOUS
    <3> HIDE DEF Bad
    <3>2. QED BY <3>1, LeastNat
  <2>2. m # 0
    BY <1>2, <2>1
  <2>3. m \in 1 .. n /\ m - 1 \in 0 .. n /\ ~(m <= m - 1)
    BY <2>1, <2>2
  <2>7. m - 1 \notin Bad
    BY <2>1, <2>3
  <2>4. \E g \in [SUBSET (1 .. m - 1) -> A] : Folds(g, m - 1)
    BY <2>3, <2>7
  <2>5. \E f \in [SUBSET (1 .. m) -> A] : Folds(f, m)
    BY <1>3, <2>3, <2>4
  <2>6. QED BY <2>1, <2>5
<1>5. \E f \in [SUBSET (1 .. n) -> A] : Folds(f, n)
  <2>1. n \in 0 .. n
    OBVIOUS
  <2>2. n \notin Bad
    BY <1>4
  <2>3. QED BY <2>1, <2>2
<1>6. QED BY <1>5 DEF Folds

\* Only visits the queue from its head and keeps what belongs to S.
LEMMA OnlySteps ==
    ASSUME NEW X, NEW q \in Seq(X), NEW some
    PROVE  \E a : /\ a[0] = <<>>
                  /\ \A k \in 1 .. Len(q) :
                       a[k] = IF q[k] \in some THEN Append(a[k - 1], q[k]) ELSE a[k - 1]
                  /\ Only(q, some) = a[Len(q)]
<1> DEFINE n == Len(q)
           step == [i \in 1 .. n |-> [kept \in Seq(X) |->
                      IF q[i] \in some THEN Append(kept, q[i]) ELSE kept]]
           Body(f) == [t \in SUBSET (1 .. n) |->
                         IF t = {} THEN <<>>
                         ELSE IF q[Max(t)] \in some
                              THEN Append(f[t \ {Max(t)}], q[Max(t)])
                              ELSE f[t \ {Max(t)}]]
           iter == CHOOSE f : f = Body(f)
<1>1. n \in Nat /\ DOMAIN q = 1 .. n /\ \A i \in 1 .. n : q[i] \in X
  OBVIOUS
<1>2. Only(q, some) = iter[1 .. n]
  BY <1>1 DEF Only, FoldLeft, MapThenFoldSet, Max
<1>3. step \in [1 .. n -> [Seq(X) -> Seq(X)]]
  BY <1>1
<1>4. \E f : f = Body(f)
  <2> HIDE DEF step
  <2>1. PICK f \in [SUBSET (1 .. n) -> Seq(X)] : \A t \in SUBSET (1 .. n) :
              f[t] = IF t = {} THEN <<>> ELSE step[Max(t)][f[t \ {Max(t)}]]
    <3>1. <<>> \in Seq(X) /\ n \in Nat
      BY <1>1
    <3> DEFINE A == Seq(X)
               base == <<>>
    <3>2. base \in A /\ n \in Nat /\ step \in [1 .. n -> [A -> A]]
      BY <1>3, <3>1
    <3> HIDE DEF n, A, base
    <3>3. \E f \in [SUBSET (1 .. n) -> A] : IsFold(f, base, step, n)
      BY <3>2, FoldExists
    <3>4. QED BY <3>3 DEF A, base, IsFold
  <2>2. ASSUME NEW t \in SUBSET (1 .. n), t # {}
        PROVE  f[t] = IF q[Max(t)] \in some
                      THEN Append(f[t \ {Max(t)}], q[Max(t)]) ELSE f[t \ {Max(t)}]
    <3>1. Max(t) \in 1 .. n
      <4>1. t \in SUBSET (0 .. n)
        BY <1>1
      <4> HIDE DEF n
      <4>2. Max(t) \in t
        BY <1>1, <2>2, <4>1, MaxIsGreatest
      <4>3. QED BY <4>2
    <3>2. f[t \ {Max(t)}] \in Seq(X)
      OBVIOUS
    <3>3. QED BY <2>1, <2>2, <3>1, <3>2 DEF step
  <2>3. f[{}] = <<>>
    BY <2>1
  <2>4. f = Body(f)
    BY <2>2, <2>3
  <2>5. QED BY <2>4
<1>5. iter = Body(iter)
  BY <1>4
<1> HIDE DEF iter
<1>6. ASSUME NEW t \in SUBSET (1 .. n)
      PROVE  iter[t] = IF t = {} THEN <<>>
                       ELSE IF q[Max(t)] \in some
                            THEN Append(iter[t \ {Max(t)}], q[Max(t)])
                            ELSE iter[t \ {Max(t)}]
  BY <1>5
<1> DEFINE a == [k \in 0 .. n |-> iter[1 .. k]]
<1>7. a[0] = <<>>
  <2>1. 1 .. 0 = {} /\ 0 \in 0 .. n
    BY <1>1
  <2>2. QED BY <1>6, <2>1
<1>8. ASSUME NEW k \in 1 .. n
      PROVE  a[k] = IF q[k] \in some THEN Append(a[k - 1], q[k]) ELSE a[k - 1]
  <2> HIDE DEF n
  <2>1. /\ 1 .. k \in SUBSET (1 .. n) /\ 1 .. k \in SUBSET (0 .. n) /\ k \in 1 .. k
        /\ (1 .. k) \ {k} = 1 .. k - 1
    BY <1>1
  <2>2. Max(1 .. k) = k
    <3>1. Max(1 .. k) \in 1 .. k /\ \A y \in 1 .. k : Max(1 .. k) >= y
      BY <1>1, <2>1, MaxIsGreatest
    <3>2. QED BY <3>1
  <2>3. a[k] = iter[1 .. k] /\ a[k - 1] = iter[1 .. k - 1]
    BY <1>1
  <2>4. QED BY <1>6, <2>1, <2>2, <2>3
<1>9. Only(q, some) = a[n]
  BY <1>1, <1>2
<1>10. QED BY <1>7, <1>8, <1>9

\* Only keeps the requests of S that are queued, and lists nobody twice.
LEMMA OnlyElements ==
    ASSUME NEW X, NEW q \in Seq(X), NEW some
    PROVE  /\ Only(q, some) \in Seq(X)
           /\ ToSet(Only(q, some)) = ToSet(q) \cap some
           /\ NoDuplicates(q) => NoDuplicates(Only(q, some))
<1> DEFINE n == Len(q)
<1>1. n \in Nat /\ DOMAIN q = 1 .. n /\ \A i \in 1 .. n : q[i] \in X
  OBVIOUS
<1>2. PICK a : /\ a[0] = <<>>
               /\ \A k \in 1 .. n :
                    a[k] = IF q[k] \in some THEN Append(a[k - 1], q[k]) ELSE a[k - 1]
               /\ Only(q, some) = a[n]
  BY OnlySteps
<1> HIDE DEF n
<1> DEFINE Upto(k) == {q[j] : j \in 1 .. k}
           Good(k) == /\ a[k] \in Seq(X) /\ ToSet(a[k]) = Upto(k) \cap some
                      /\ NoDuplicates(q) => NoDuplicates(a[k])
           Bad == {k \in 0 .. n : ~Good(k)}
<1>3. Good(0)
  <2>1. 1 .. 0 = {}
    OBVIOUS
  <2>2. <<>> \in Seq(X) /\ ToSet(<<>>) = {} /\ NoDuplicates(<<>>)
    BY DEF ToSet, NoDuplicates
  <2>3. QED BY <1>2, <2>1, <2>2
<1>4. ASSUME NEW k \in 1 .. n, Good(k - 1) PROVE Good(k)
  <2>1. q[k] \in X /\ Upto(k) = Upto(k - 1) \cup {q[k]}
    <3>1. 1 .. k = (1 .. k - 1) \cup {k}
      BY <1>1
    <3>2. QED BY <1>1, <3>1
  <2>2. NoDuplicates(q) => q[k] \notin Upto(k - 1)
    BY <1>1 DEF NoDuplicates
  <2> HIDE DEF Upto
  <2>3. CASE q[k] \in some
    <3> DEFINE s == a[k - 1]
    <3>1. a[k] = Append(s, q[k])
      BY <1>2, <2>3
    <3>2. s \in Seq(X) /\ ToSet(s) = Upto(k - 1) \cap some
          /\ (NoDuplicates(q) => NoDuplicates(s))
      BY <1>4
    <3> HIDE DEF s
    <3>3. /\ Append(s, q[k]) \in Seq(X) /\ ToSet(Append(s, q[k])) = ToSet(s) \cup {q[k]}
          /\ NoDuplicates(s) /\ q[k] \notin ToSet(s) => NoDuplicates(Append(s, q[k]))
      BY <2>1, <3>2, AppendElements
    <3>4. QED BY <2>1, <2>2, <2>3, <3>1, <3>2, <3>3
  <2>4. CASE q[k] \notin some
    BY <1>2, <1>4, <2>1, <2>4
  <2>5. QED BY <2>3, <2>4
<1> HIDE DEF Good
<1>5. Bad = {}
  <2> SUFFICES ASSUME Bad # {} PROVE FALSE
    OBVIOUS
  <2>1. PICK m \in Bad : \A k \in Bad : m <= k
    <3>1. Bad \in SUBSET Nat
      OBVIOUS
    <3> HIDE DEF Bad
    <3>2. QED BY <3>1, LeastNat
  <2>2. m # 0
    BY <1>3, <2>1
  <2>3. m \in 1 .. n /\ m - 1 \in 0 .. n /\ ~(m <= m - 1)
    BY <1>1, <2>1, <2>2
  <2>4. m - 1 \notin Bad
    BY <2>1, <2>3
  <2>5. Good(m)
    BY <1>4, <2>3, <2>4
  <2>6. QED BY <2>1, <2>5
<1>6. Good(n)
  <2>1. n \in 0 .. n /\ n \notin Bad
    BY <1>1, <1>5
  <2>2. QED BY <2>1
<1>7. ToSet(q) = Upto(n)
  BY <1>1 DEF ToSet
<1>8. QED BY <1>2, <1>6, <1>7 DEF Good

\* The head of the second queue goes to the end of the first.
LEMMA TailMoves ==
    ASSUME NEW S, NEW s \in Seq(S), NEW t \in Seq(S), t # <<>>
    PROVE  /\ Tail(t) = RemoveAt(t, 1) /\ Head(t) = t[1] /\ Head(t) \in S
           /\ Tail(t) \in Seq(S)
           /\ Append(s, Head(t)) \o Tail(t) = s \o t
<1>1. Len(t) \in Nat /\ Len(t) > 0 /\ 1 \in 1 .. Len(t) /\ Head(t) = t[1] /\ t[1] \in S
  OBVIOUS
<1>2. Tail(t) \in Seq(S) /\ Len(Tail(t)) = Len(t) - 1
      /\ \A j \in 1 .. Len(t) - 1 : Tail(t)[j] = t[j + 1]
  BY HeadTailProperties
<1>3. RemoveAt(t, 1) \in Seq(S) /\ Len(RemoveAt(t, 1)) = Len(t) - 1
      /\ \A j \in 1 .. Len(t) - 1 : RemoveAt(t, 1)[j] = t[j + 1]
  BY <1>1, RemoveAtIsSeq
<1>4. Tail(t) = RemoveAt(t, 1)
  <2> DEFINE u == Tail(t)
             v == RemoveAt(t, 1)
  <2>1. u \in Seq(S) /\ v \in Seq(S) /\ Len(u) = Len(v) /\ \A j \in 1 .. Len(u) : u[j] = v[j]
    BY <1>1, <1>2, <1>3
  <2> HIDE DEF u, v
  <2>2. u = v
    BY <2>1, SeqEqual
  <2>3. QED BY <2>2 DEF u, v
<1>5. QED BY <1>1, <1>2, <1>4, HeadMoves

--------------------------------------------------------------------------------
(* Sums *)

LEMMA UnitsOfOne ==
    ASSUME NEW r, NEW n \in Nat
    PROVE  IsFiniteSet({r} \X (1 .. n)) /\ Cardinality({r} \X (1 .. n)) = n
<1>1. IsFiniteSet({r}) /\ Cardinality({r}) = 1
  BY FS_Singleton
<1>2. IsFiniteSet(1 .. n) /\ Cardinality(1 .. n) = n
  BY FS_Interval
<1> DEFINE T == 1 .. n
<1> HIDE DEF T
<1>3. IsFiniteSet({r} \X T) /\ Cardinality({r} \X T) = Cardinality({r}) * Cardinality(T)
  BY <1>1, <1>2, FS_Product DEF T
<1>4. QED BY <1>1, <1>2, <1>3 DEF T

LEMMA DisjointUnion ==
    ASSUME NEW A, NEW B, IsFiniteSet(A), IsFiniteSet(B), A \cap B = {}
    PROVE  /\ IsFiniteSet(A \cup B)
           /\ Cardinality(A \cup B) = Cardinality(A) + Cardinality(B)
<1>1. /\ IsFiniteSet(A \cup B)
      /\ Cardinality(A \cup B) = Cardinality(A) + Cardinality(B) - Cardinality(A \cap B)
  BY FS_Union
<1>2. Cardinality(A \cap B) = 0
  BY FS_EmptySet
<1>3. Cardinality(A) \in Nat /\ Cardinality(B) \in Nat
  BY FS_CardinalityType
<1>4. QED BY <1>1, <1>2, <1>3

\* A set of sets that a set enters as soon as all sets with one member less are there
\* has all subsets of a finite set.
LEMMA SubsetInduction ==
    ASSUME NEW S, IsFiniteSet(S), NEW P,
           \A T \in SUBSET S : (\A x \in T : T \ {x} \in P) => T \in P
    PROVE  SUBSET S \subseteq P
<1> DEFINE Bad == {n \in Nat : \E T \in SUBSET S : Cardinality(T) = n /\ T \notin P}
<1>1. \A T \in SUBSET S : IsFiniteSet(T) /\ Cardinality(T) \in Nat
  BY FS_Subset, FS_CardinalityType
<1>2. SUFFICES ASSUME Bad # {} PROVE FALSE
  <2>1. \A T \in SUBSET S : T \notin P => Cardinality(T) \in Bad
    BY <1>1
  <2> HIDE DEF Bad
  <2>2. QED BY <2>1
<1>3. PICK n \in Bad : \A m \in Bad : n <= m
  <2>1. Bad \in SUBSET Nat
    OBVIOUS
  <2> HIDE DEF Bad
  <2>2. QED BY <1>2, <2>1, LeastNat
<1>4. PICK T \in SUBSET S : Cardinality(T) = n /\ T \notin P
  BY <1>3
<1>5. ASSUME NEW x \in T PROVE T \ {x} \in P
  <2>1. Cardinality(T \ {x}) = n - 1
    BY <1>1, <1>4, FS_RemoveElement
  <2>2. T \ {x} \in SUBSET S /\ Cardinality(T \ {x}) \in Nat
    BY <1>1
  <2>3. ~(n <= n - 1)
    BY <1>3
  <2>4. Cardinality(T \ {x}) \notin Bad
    <3> HIDE DEF Bad
    <3>1. QED BY <1>3, <2>1, <2>3
  <2>5. QED BY <2>2, <2>4
<1>6. QED BY <1>4, <1>5

\* As many pairs as the values of f over S add up to.
UnitsOver(f, S) == {u \in S \X Nat : u[2] \in 1 .. f[u[1]]}

LEMMA UnitsWithout ==
    ASSUME NEW f, NEW T, NEW x \in T, f[x] \in Nat
    PROVE  /\ UnitsOver(f, T) = UnitsOver(f, T \ {x}) \cup ({x} \X (1 .. f[x]))
           /\ UnitsOver(f, T \ {x}) \cap ({x} \X (1 .. f[x])) = {}
<1>1. ASSUME NEW u \in UnitsOver(f, T)
      PROVE  u \in UnitsOver(f, T \ {x}) \cup ({x} \X (1 .. f[x]))
  <2>1. u \in T \X Nat /\ u[2] \in 1 .. f[u[1]]
    BY DEF UnitsOver
  <2>2. CASE u[1] = x
    BY <2>1, <2>2
  <2>3. CASE u[1] # x
    <3>1. u \in (T \ {x}) \X Nat
      BY <2>1, <2>3
    <3>2. QED BY <2>1, <3>1 DEF UnitsOver
  <2>4. QED BY <2>2, <2>3
<1>2. ASSUME NEW u \in UnitsOver(f, T \ {x}) PROVE u \in UnitsOver(f, T) /\ u[1] # x
  BY DEF UnitsOver
<1>3. ASSUME NEW u \in {x} \X (1 .. f[x]) PROVE u \in UnitsOver(f, T) /\ u[1] = x
  <2>1. u[1] = x /\ u[2] \in 1 .. f[x] /\ u = <<u[1], u[2]>>
    OBVIOUS
  <2>2. u \in T \X Nat
    BY <2>1
  <2>3. QED BY <2>1, <2>2 DEF UnitsOver
<1>4. QED BY <1>1, <1>2, <1>3

LEMMA UnitsFinite ==
    ASSUME NEW S, IsFiniteSet(S), NEW f, \A x \in S : f[x] \in Nat
    PROVE  IsFiniteSet(UnitsOver(f, S))
<1> DEFINE P == {T \in SUBSET S : IsFiniteSet(UnitsOver(f, T))}
<1>1. ASSUME NEW T \in SUBSET S, \A x \in T : T \ {x} \in P PROVE T \in P
  <2>1. CASE T = {}
    <3>1. UnitsOver(f, T) = {}
      BY <2>1 DEF UnitsOver
    <3>2. QED BY <3>1, FS_EmptySet
  <2>2. CASE T # {}
    <3>1. PICK x \in T : TRUE
      BY <2>2
    <3>2. IsFiniteSet(UnitsOver(f, T \ {x})) /\ IsFiniteSet({x} \X (1 .. f[x]))
      BY <1>1, UnitsOfOne
    <3>3. /\ UnitsOver(f, T) = UnitsOver(f, T \ {x}) \cup ({x} \X (1 .. f[x]))
          /\ UnitsOver(f, T \ {x}) \cap ({x} \X (1 .. f[x])) = {}
      BY UnitsWithout
    <3>4. PICK A, B : A = UnitsOver(f, T \ {x}) /\ B = {x} \X (1 .. f[x])
      OBVIOUS
    <3>5. /\ IsFiniteSet(A) /\ IsFiniteSet(B) /\ A \cap B = {}
          /\ UnitsOver(f, T) = A \cup B
      BY <3>2, <3>3, <3>4
    <3>6. IsFiniteSet(A \cup B)
      BY ONLY <3>5, DisjointUnion
    <3>7. QED BY <3>5, <3>6
  <2>3. QED BY <2>1, <2>2
<1>2. SUBSET S \subseteq P
  <2> HIDE DEF P
  <2>1. QED BY <1>1, SubsetInduction
<1>3. QED BY <1>2

\* A sum by folding counts these pairs, in whichever order it adds.
LEMMA FoldSum ==
    ASSUME NEW S, IsFiniteSet(S), NEW f, \A x \in S : f[x] \in Nat
    PROVE  FoldFunctionOnSet(+, 0, f, S) = Cardinality(UnitsOver(f, S))
<1> DEFINE Body(g) == [T \in SUBSET S |->
                         IF T = {} THEN 0
                         ELSE f[CHOOSE x \in T : TRUE] + g[T \ {CHOOSE x \in T : TRUE}]]
           iter == CHOOSE g : g = Body(g)
           sum == [T \in SUBSET S |-> Cardinality(UnitsOver(f, T))]
<1>1. FoldFunctionOnSet(+, 0, f, S) = iter[S]
  BY DEF FoldFunctionOnSet, MapThenFoldSet
<1>2. ASSUME NEW T \in SUBSET S, NEW x \in T
      PROVE  Cardinality(UnitsOver(f, T)) = f[x] + Cardinality(UnitsOver(f, T \ {x}))
  <2>1. IsFiniteSet(T \ {x})
    BY FS_Subset
  <2>2. IsFiniteSet(UnitsOver(f, T \ {x})) /\ IsFiniteSet({x} \X (1 .. f[x]))
    BY <2>1, UnitsFinite, UnitsOfOne
  <2>3. Cardinality(UnitsOver(f, T)) = Cardinality(UnitsOver(f, T \ {x})) + f[x]
    <3>1. /\ UnitsOver(f, T) = UnitsOver(f, T \ {x}) \cup ({x} \X (1 .. f[x]))
          /\ UnitsOver(f, T \ {x}) \cap ({x} \X (1 .. f[x])) = {}
      BY UnitsWithout
    <3>2. Cardinality({x} \X (1 .. f[x])) = f[x]
      BY UnitsOfOne
    <3>3. QED BY <2>2, <3>1, <3>2, DisjointUnion
  <2>4. QED BY <2>2, <2>3, FS_CardinalityType
<1>3. Cardinality(UnitsOver(f, {})) = 0
  <2>1. UnitsOver(f, {}) = {}
    BY DEF UnitsOver
  <2>2. QED BY <2>1, FS_EmptySet
<1>4. sum = Body(sum)
  <2>1. ASSUME NEW T \in SUBSET S, T # {}
        PROVE  sum[T] = f[CHOOSE x \in T : TRUE] + sum[T \ {CHOOSE x \in T : TRUE}]
    <3>1. PICK x : x = CHOOSE y \in T : TRUE
      OBVIOUS
    <3>2. x \in T /\ T \ {x} \in SUBSET S
      BY <2>1, <3>1
    <3>3. QED BY <1>2, <3>1, <3>2
  <2>2. QED BY <1>3, <2>1
<1> HIDE DEF sum
<1>5. iter = Body(iter)
  BY <1>4
<1> HIDE DEF iter
<1> DEFINE P == {T \in SUBSET S : iter[T] = Cardinality(UnitsOver(f, T))}
<1>6. ASSUME NEW T \in SUBSET S, \A x \in T : T \ {x} \in P PROVE T \in P
  <2>1. CASE T = {}
    BY <1>3, <1>5, <2>1
  <2>2. CASE T # {}
    <3>1. PICK x : x = CHOOSE y \in T : TRUE
      OBVIOUS
    <3>2. x \in T
      BY <2>2, <3>1
    <3>3. iter[T] = f[x] + iter[T \ {x}]
      BY <1>5, <2>2, <3>1
    <3>4. QED BY <1>2, <1>6, <3>2, <3>3
  <2>3. QED BY <2>1, <2>2
<1>7. SUBSET S \subseteq P
  <2> HIDE DEF P
  <2>1. QED BY <1>6, SubsetInduction
<1>8. QED BY <1>1, <1>7

LEMMA UnitsGrow ==
    ASSUME NEW S, IsFiniteSet(S), NEW f, \A x \in S : f[x] \in Nat,
           NEW T \in SUBSET S, NEW E \in SUBSET T, NEW x \in T, x \notin E
    PROVE  /\ Cardinality(UnitsOver(f, E)) \in Nat /\ Cardinality(UnitsOver(f, T)) \in Nat
           /\ Cardinality(UnitsOver(f, E)) + f[x] <= Cardinality(UnitsOver(f, T))
<1>1. PICK W : W = E \cup {x}
  OBVIOUS
<1>2. x \in W /\ W \ {x} = E /\ W \in SUBSET S /\ W \subseteq T
  BY <1>1
<1>3. PICK A, B, C, D : /\ A = UnitsOver(f, E) /\ B = {x} \X (1 .. f[x])
                        /\ C = UnitsOver(f, W) /\ D = UnitsOver(f, T)
  OBVIOUS
<1>4. f[x] \in Nat /\ C = A \cup B /\ A \cap B = {}
  BY <1>2, <1>3, UnitsWithout
<1>5. IsFiniteSet(A) /\ IsFiniteSet(D)
  <2>1. IsFiniteSet(E) /\ IsFiniteSet(T)
    BY FS_Subset
  <2>2. QED BY <1>3, <2>1, UnitsFinite
<1>6. IsFiniteSet(B) /\ Cardinality(B) = f[x]
  BY <1>3, <1>4, UnitsOfOne
<1>7. Cardinality(A \cup B) = Cardinality(A) + Cardinality(B)
  BY ONLY <1>4, <1>5, <1>6, DisjointUnion
<1>8. C \subseteq D
  BY <1>2, <1>3 DEF UnitsOver
<1>9. Cardinality(C) <= Cardinality(D) /\ Cardinality(A) \in Nat /\ Cardinality(D) \in Nat
  BY <1>5, <1>8, FS_Subset, FS_CardinalityType
<1>10. QED BY <1>3, <1>4, <1>6, <1>7, <1>9

--------------------------------------------------------------------------------
(* Division *)

\* a \div b is the number of whole b in a.
LEMMA DivBounds ==
    ASSUME NEW a \in Nat, NEW b \in Nat \ {0}
    PROVE  /\ a \div b \in Nat /\ (a \div b) * b <= a /\ a < (a \div b) * b + b
           /\ \A c \in Nat : c * b <= a => c <= a \div b
           /\ \A c \in Nat : a < c * b => a \div b < c
<1>1. PICK q \in Nat, m \in 0 .. b - 1 : a = q * b + m
  <2>1. a \div b \in Nat /\ a % b \in 0 .. b - 1 /\ a = b * (a \div b) + (a % b)
    BY SMT
  <2>2. PICK q, m : q = a \div b /\ m = a % b
    OBVIOUS
  <2>3. q \in Nat /\ m \in 0 .. b - 1 /\ a = q * b + m
    BY <2>1, <2>2
  <2>4. QED BY <2>3
<1>2. a \div b = q
  BY <1>1, SMT
<1>3. PICK p : p = q * b
  OBVIOUS
<1>4. p \in Nat /\ a = p + m /\ p <= a /\ a < p + b
  BY <1>1, <1>3
<1>5. ASSUME NEW c \in Nat, c * b <= a PROVE c <= q
  <2>1. CASE c > q
    <3>1. PICK d \in Nat : c = q + 1 + d
      <4>1. c - q - 1 \in Nat /\ c = q + 1 + (c - q - 1)
        BY <2>1
      <4>2. QED BY <4>1
    <3>2. c * b = q * b + b + d * b /\ d * b \in Nat
      BY <3>1
    <3>3. QED BY <1>3, <1>4, <1>5, <3>2
  <2>2. QED BY <2>1
<1>6. ASSUME NEW c \in Nat, a < c * b PROVE q < c
  <2>1. CASE c <= q
    <3>1. PICK d \in Nat : q = c + d
      <4>1. q - c \in Nat /\ q = c + (q - c)
        BY <2>1
      <4>2. QED BY <4>1
    <3>2. q * b = c * b + d * b /\ d * b \in Nat /\ c * b \in Nat
      BY <3>1
    <3>3. QED BY <1>3, <1>4, <1>6, <3>2
  <2>2. QED BY <2>1
<1>7. QED BY <1>2, <1>3, <1>4, <1>5, <1>6

LEMMA TimesGrows ==
    ASSUME NEW x \in Nat, NEW y \in Nat, NEW z \in Nat, x <= y
    PROVE  x * z <= y * z
<1>1. PICK d \in Nat : y = x + d
  <2>1. y - x \in Nat /\ y = x + (y - x)
    OBVIOUS
  <2>2. QED BY <2>1
<1>2. y * z = x * z + d * z /\ d * z \in Nat /\ x * z \in Nat
  BY <1>1
<1>3. QED BY <1>2

\* The same of the quotient rounded up.
LEMMA RoundedUp ==
    ASSUME NEW a \in Nat, NEW b \in Nat \ {0}
    PROVE  /\ ((a + b - 1) \div b) \in Nat /\ a <= ((a + b - 1) \div b) * b /\ (a > 0 => ((a + b - 1) \div b) > 0)
           /\ \A c \in Nat : a <= c * b => ((a + b - 1) \div b) <= c
           /\ \A c \in Nat : c < ((a + b - 1) \div b) => c * b < a
<1>1. PICK m : m = a + b - 1
  OBVIOUS
<1>2. m \in Nat /\ ((a + b - 1) \div b) = m \div b
  BY <1>1
<1>3. PICK q : q = m \div b
  OBVIOUS
<1>4. /\ q \in Nat /\ q * b <= m /\ m < q * b + b
      /\ \A c \in Nat : c * b <= m => c <= q
      /\ \A c \in Nat : m < c * b => q < c
  BY <1>2, <1>3, DivBounds
<1>5. PICK p : p = q * b
  OBVIOUS
<1>6. p \in Nat /\ a <= p
  BY <1>1, <1>4, <1>5
<1>7. a > 0 => q > 0
  <2>1. q = 0 => p = 0
    BY <1>5
  <2>2. QED BY <1>4, <1>6, <2>1
<1>8. ASSUME NEW c \in Nat, a <= c * b PROVE q <= c
  <2>1. PICK e, k : e = c + 1 /\ k = c * b
    OBVIOUS
  <2>2. e * b = k + b /\ k \in Nat /\ e \in Nat
    BY <2>1
  <2>3. m < e * b
    BY <1>1, <1>8, <2>1, <2>2
  <2>4. q < e
    BY <1>4, <2>2, <2>3
  <2>5. QED BY <1>4, <2>1, <2>4
<1>9. ASSUME NEW c \in Nat, c < q PROVE c * b < a
  <2>1. CASE a <= c * b
    BY <1>4, <1>8, <1>9, <2>1
  <2>2. c * b \in Nat
    OBVIOUS
  <2>3. QED BY <2>1, <2>2
<1>10. QED BY <1>2, <1>3, <1>5, <1>6, <1>7, <1>8, <1>9

================================================================================
