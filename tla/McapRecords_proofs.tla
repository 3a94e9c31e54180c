------------------------- MODULE McapRecords_proofs -------------------------
(***************************************************************************)
(* What the operators of McapRecords compute, for all files: lemmas about  *)
(* sequences of records, about the records of some kinds among them, and   *)
(* about the place of a chunk in a recording.                              *)
(*                                                                         *)
(* A sorted set of positions is characterised without induction: the ranks *)
(* of the members of a finite set are distinct, so by the pigeonhole       *)
(* principle they are all the numbers below its cardinality, and whatever  *)
(* lists the set in ascending order is therefore Sorted of it.             *)
(***************************************************************************)
EXTENDS McapRecords, SequenceTheorems, FiniteSetTheorems, WellFoundedInduction,
        NaturalsInduction, TLAPS

IsSeq(s) == s \in Seq(Elements(s))

-----------------------------------------------------------------------------
(* Sequences.                                                              *)

\* A sequence of records is a function on the numbers up to its length.
LEMMA AsFunction ==
  ASSUME NEW s, IsSeq(s)
  PROVE  /\ DOMAIN s = 1..Len(s) /\ Len(s) \in Nat
         /\ s = [k \in 1..Len(s) |-> s[k]]
         /\ \A i \in DOMAIN s : s[i] \in Elements(s)
<1>1. s \in Seq(Elements(s))
  BY DEF IsSeq
<1>2. DOMAIN s = 1..Len(s) /\ Len(s) \in Nat
  BY <1>1
<1>3. s \in [1..Len(s) -> Elements(s)]
  BY <1>1
<1>4. QED
  BY <1>2, <1>3

\* Sequences with the same elements at the same positions are the same.
LEMMA SameSeq ==
  ASSUME NEW s, NEW t, IsSeq(s), IsSeq(t), DOMAIN s = DOMAIN t,
         \A k \in DOMAIN s : s[k] = t[k]
  PROVE  s = t
<1>1. s = [k \in DOMAIN s |-> s[k]] /\ t = [k \in DOMAIN t |-> t[k]]
  BY AsFunction
<1>2. QED
  BY <1>1

\* A concatenation holds the elements of both, those of the second behind those of
\* the first.
LEMMA Concat ==
  ASSUME NEW s, NEW t, IsSeq(s), IsSeq(t)
  PROVE  /\ IsSeq(s \o t)
         /\ Elements(s \o t) = Elements(s) \cup Elements(t)
         /\ Len(s) \in Nat /\ Len(t) \in Nat
         /\ DOMAIN s = 1..Len(s) /\ DOMAIN t = 1..Len(t)
         /\ DOMAIN (s \o t) = 1..(Len(s) + Len(t))
         /\ \A i \in 1..Len(s) : (s \o t)[i] = s[i]
         /\ \A i \in 1..Len(t) : (s \o t)[Len(s) + i] = t[i]
<1> DEFINE S == Elements(s) \cup Elements(t)
<1>1. s \in Seq(S) /\ t \in Seq(S)
  BY DEF IsSeq
<1>2. /\ s \o t \in Seq(S)
      /\ Len(s) \in Nat /\ Len(t) \in Nat
      /\ DOMAIN s = 1..Len(s) /\ DOMAIN t = 1..Len(t)
      /\ DOMAIN (s \o t) = 1..(Len(s) + Len(t))
      /\ \A i \in 1..Len(s) : (s \o t)[i] = s[i]
      /\ \A i \in 1..Len(t) : (s \o t)[Len(s) + i] = t[i]
  BY <1>1
<1>3. \A i \in 1..(Len(s) + Len(t)) :
         i \in 1..Len(s) \/ \E j \in 1..Len(t) : i = Len(s) + j
  <2> TAKE i \in 1..(Len(s) + Len(t))
  <2>1. CASE i <= Len(s)
    BY <1>2, <2>1
  <2>2. CASE ~ (i <= Len(s))
    <3>1. i - Len(s) \in 1..Len(t) /\ i = Len(s) + (i - Len(s))
      BY <1>2, <2>2
    <3>2. QED
      BY <3>1
  <2>3. QED
    BY <2>1, <2>2
<1>4. \A i \in 1..Len(s) : i \in 1..(Len(s) + Len(t))
  BY <1>2
<1>5. \A i \in 1..Len(t) : Len(s) + i \in 1..(Len(s) + Len(t))
  BY <1>2
<1> DEFINE u == s \o t
<1>6. /\ DOMAIN u = 1..(Len(s) + Len(t))
      /\ \A i \in 1..Len(s) : u[i] = s[i]
      /\ \A i \in 1..Len(t) : u[Len(s) + i] = t[i]
  BY <1>2
<1> HIDE DEF u
<1>7. Elements(u) \subseteq S
  <2> SUFFICES ASSUME NEW i \in 1..(Len(s) + Len(t)) PROVE u[i] \in S
    BY <1>6 DEF Elements
  <2>1. CASE i \in 1..Len(s)
    BY <1>2, <1>6, <2>1 DEF Elements
  <2>2. CASE \E j \in 1..Len(t) : i = Len(s) + j
    BY <1>2, <1>6, <2>2 DEF Elements
  <2>3. QED
    BY <1>3, <2>1, <2>2
<1>8. S \subseteq Elements(u)
  BY <1>2, <1>4, <1>5, <1>6 DEF Elements
<1>9. u \in Seq(S)
  BY <1>2 DEF u
<1>10. QED
  BY <1>2, <1>7, <1>8, <1>9 DEF IsSeq, u

\* Every position of a concatenation is one of the first or of the second.
LEMMA ConcatSplit ==
  ASSUME NEW s, NEW t, IsSeq(s), IsSeq(t), NEW k \in DOMAIN (s \o t)
  PROVE  \/ k \in DOMAIN s /\ (s \o t)[k] = s[k]
         \/ \E i \in DOMAIN t : k = Len(s) + i /\ (s \o t)[k] = t[i]
<1>1. /\ Len(s) \in Nat /\ Len(t) \in Nat
      /\ DOMAIN s = 1..Len(s) /\ DOMAIN t = 1..Len(t)
      /\ k \in 1..(Len(s) + Len(t))
      /\ \A i \in 1..Len(s) : (s \o t)[i] = s[i]
      /\ \A i \in 1..Len(t) : (s \o t)[Len(s) + i] = t[i]
  BY Concat
<1>2. CASE k <= Len(s)
  BY <1>1, <1>2
<1>3. CASE ~ (k <= Len(s))
  <2>1. k - Len(s) \in 1..Len(t) /\ k = Len(s) + (k - Len(s))
    BY <1>1, <1>3
  <2>2. QED
    BY <1>1, <2>1
<1>4. QED
  BY <1>2, <1>3

\* A function on the numbers up to n is a sequence.
LEMMA OfFunction ==
  ASSUME NEW n \in Nat, NEW f, f \in [1..n -> Elements(f)]
  PROVE  IsSeq(f)
BY SeqDef DEF IsSeq

\* A record on its own.
LEMMA Single ==
  ASSUME NEW e
  PROVE  /\ IsSeq(<<e>>) /\ DOMAIN <<e>> = {1} /\ Len(<<e>>) = 1
         /\ <<e>>[1] = e /\ Elements(<<e>>) = {e}
<1>1. DOMAIN <<e>> = {1} /\ Len(<<e>>) = 1 /\ <<e>>[1] = e
  OBVIOUS
<1>2. Elements(<<e>>) = {e}
  BY <1>1 DEF Elements
<1>3. <<e>> \in Seq({e})
  OBVIOUS
<1>4. QED
  BY <1>1, <1>2, <1>3 DEF IsSeq

\* Two records.
LEMMA Pair ==
  ASSUME NEW e, NEW f
  PROVE  /\ IsSeq(<<e, f>>) /\ DOMAIN <<e, f>> = {1, 2}
         /\ <<e, f>>[1] = e /\ <<e, f>>[2] = f
<1>1. DOMAIN <<e, f>> = {1, 2} /\ <<e, f>>[1] = e /\ <<e, f>>[2] = f
  OBVIOUS
<1>2. Elements(<<e, f>>) = {e, f}
  BY <1>1 DEF Elements
<1>3. <<e, f>> \in Seq({e, f})
  OBVIOUS
<1>4. QED
  BY <1>1, <1>2, <1>3 DEF IsSeq

\* Appending a record is appending the sequence of it.
LEMMA AppendOne ==
  ASSUME NEW s, IsSeq(s), NEW e
  PROVE  Append(s, e) = s \o <<e>>
<1> DEFINE S == Elements(s) \cup {e}
<1>1. s \in Seq(S) /\ e \in S
  BY DEF IsSeq
<1> HIDE DEF S
<1>2. QED
  BY <1>1, AppendIsConcat

\* One record at the end.
LEMMA OneMore ==
  ASSUME NEW s, IsSeq(s), NEW e
  PROVE  /\ IsSeq(s \o <<e>>) /\ Len(s) \in Nat /\ Len(s \o <<e>>) = Len(s) + 1
         /\ DOMAIN s = 1..Len(s) /\ DOMAIN (s \o <<e>>) = 1..(Len(s) + 1)
         /\ \A i \in 1..Len(s) : (s \o <<e>>)[i] = s[i]
         /\ (s \o <<e>>)[Len(s) + 1] = e
         /\ Elements(s \o <<e>>) = Elements(s) \cup {e}
<1> DEFINE t == <<e>>
           u == s \o t
<1>1. IsSeq(t)
  BY Single
<1>2. Len(t) = 1 /\ t[1] = e /\ Elements(t) = {e}
  BY Single
<1> HIDE DEF t
<1>3. /\ IsSeq(u) /\ Elements(u) = Elements(s) \cup Elements(t)
      /\ Len(s) \in Nat /\ DOMAIN s = 1..Len(s) /\ DOMAIN u = 1..(Len(s) + Len(t))
      /\ \A i \in 1..Len(s) : u[i] = s[i]
      /\ \A i \in 1..Len(t) : u[Len(s) + i] = t[i]
  BY <1>1, Concat
<1>4. DOMAIN u = 1..Len(u) /\ Len(u) \in Nat
  BY <1>3, AsFunction
<1> HIDE DEF u
<1>5. u[Len(s) + 1] = e
  <2>1. 1 \in 1..Len(t)
    BY <1>2
  <2>2. QED
    BY <1>2, <1>3, <2>1
<1>6. Len(u) = Len(s) + 1
  BY <1>2, <1>3, <1>4
<1>7. DOMAIN u = 1..(Len(s) + 1) /\ Elements(u) = Elements(s) \cup {e}
  BY <1>2, <1>3
<1>8. QED
  BY <1>3, <1>5, <1>6, <1>7 DEF u, t

\* Two records are one behind the other.
LEMMA PairIsConcat ==
  ASSUME NEW e, NEW f
  PROVE  <<e>> \o <<f>> = <<e, f>>
<1> DEFINE s == <<e>>
           u == <<e, f>>
           v == s \o <<f>>
<1>1. IsSeq(s) /\ Len(s) = 1 /\ s[1] = e
  BY Single
<1>2. IsSeq(u) /\ DOMAIN u = {1, 2} /\ u[1] = e /\ u[2] = f
  BY Pair
<1> HIDE DEF s, u
<1>3. /\ IsSeq(v) /\ DOMAIN v = 1..(Len(s) + 1)
      /\ \A i \in 1..Len(s) : v[i] = s[i]
      /\ v[Len(s) + 1] = f
  <2>1. IsSeq(s)
    BY <1>1
  <2>2. QED
    BY <2>1, OneMore
<1> HIDE DEF v
<1>4. DOMAIN v = {1, 2} /\ v[1] = e /\ v[2] = f
  BY <1>1, <1>3
<1>5. v = u
  BY <1>2, <1>3, <1>4, SameSeq
<1>6. QED
  BY <1>5 DEF v, u, s

\* Parts of an output, grouped from either end.
LEMMA Grouped ==
  ASSUME NEW s, NEW t, NEW u, IsSeq(s), IsSeq(t), IsSeq(u)
  PROVE  (s \o t) \o u = s \o (t \o u)
<1> DEFINE S == Elements(s) \cup Elements(t) \cup Elements(u)
<1>1. s \in Seq(S) /\ t \in Seq(S) /\ u \in Seq(S)
  BY DEF IsSeq
<1> HIDE DEF S
<1>2. QED
  BY <1>1, ConcatAssociative

\* The length of a concatenation, and what the empty sequence adds: nothing.
LEMMA ConcatLen ==
  ASSUME NEW s, NEW t, IsSeq(s), IsSeq(t)
  PROVE  Len(s \o t) = Len(s) + Len(t) /\ s \o <<>> = s /\ <<>> \o s = s /\ IsSeq(<<>>)
<1> DEFINE S == Elements(s) \cup Elements(t)
<1>1. s \in Seq(S) /\ t \in Seq(S)
  BY DEF IsSeq
<1> HIDE DEF S
<1>2. Len(s \o t) = Len(s) + Len(t)
  BY <1>1, ConcatProperties
<1>3. s \o <<>> = s /\ <<>> \o s = s
  BY <1>1, ConcatEmptySeq
<1>4. IsSeq(<<>>)
  BY DEF IsSeq
<1>5. QED
  BY <1>2, <1>3, <1>4

-----------------------------------------------------------------------------
(* Sorted positions.                                                       *)

Rank(at, i) == Cardinality({j \in at : j < i})

\* q lists the members of at in ascending order.
Enumerates(q, n, at) ==
  /\ q \in [1..n -> at]
  /\ \A k, l \in 1..n : k < l => q[k] < q[l]
  /\ \A i \in at : \E k \in 1..n : q[k] = i

\* The k-th member of a set of positions.
Nth(at, k) == CHOOSE i \in at : Rank(at, i) = k - 1

\* The member of rank k - 1 stands at position k.
LEMMA SortedForm ==
  ASSUME NEW at
  PROVE  Sorted(at) = [k \in 1..Cardinality(at) |-> Nth(at, k)]
BY DEF Sorted, Rank, Nth

\* The member that is chosen for position k has rank k - 1.
LEMMA NthHasRank ==
  ASSUME NEW at, NEW k, NEW i \in at, Rank(at, i) = k - 1
  PROVE  Nth(at, k) \in at /\ Rank(at, Nth(at, k)) = k - 1
BY DEF Nth

\* Later members have greater ranks.
LEMMA RankGrows ==
  ASSUME NEW n \in Nat, NEW at \in SUBSET (1..n)
  PROVE  /\ IsFiniteSet(at) /\ Cardinality(at) \in Nat
         /\ \A i \in at : Rank(at, i) \in 0..(Cardinality(at) - 1)
         /\ \A i, j \in at : i < j => Rank(at, i) < Rank(at, j)
<1>1. IsFiniteSet(1..n)
  BY FS_Interval
<1>2. \A T \in SUBSET at : IsFiniteSet(T) /\ Cardinality(T) \in Nat
  BY <1>1, FS_Subset, FS_CardinalityType
<1>3. IsFiniteSet(at) /\ Cardinality(at) \in Nat
  BY <1>2
<1>4. \A i \in at : \A T \in SUBSET at :
         (\A j \in {k \in at : k < i} \cup {i} : j \in T) => Rank(at, i) < Cardinality(T)
  <2> SUFFICES ASSUME NEW i \in at, NEW T \in SUBSET at,
                      {k \in at : k < i} \cup {i} \subseteq T
               PROVE  Rank(at, i) < Cardinality(T)
    OBVIOUS
  <2> DEFINE B == {k \in at : k < i}
  <2>1. B \in SUBSET at /\ i \notin B
    OBVIOUS
  <2>2. Cardinality(B \cup {i}) = Cardinality(B) + 1 /\ IsFiniteSet(B)
    BY <1>2, <2>1, FS_AddElement
  <2>3. Cardinality(B \cup {i}) <= Cardinality(T)
    BY <1>2, FS_Subset
  <2>4. Cardinality(B) \in Nat /\ Cardinality(T) \in Nat
    BY <1>2, <2>1
  <2> HIDE DEF B
  <2>5. Cardinality(B) < Cardinality(T)
    BY <2>2, <2>3, <2>4
  <2>6. QED
    BY <2>5 DEF Rank, B
<1>5. \A i \in at : Rank(at, i) \in Nat
  BY <1>2 DEF Rank
<1>6. \A i \in at : Rank(at, i) \in 0..(Cardinality(at) - 1)
  <2> SUFFICES ASSUME NEW i \in at PROVE Rank(at, i) \in 0..(Cardinality(at) - 1)
    OBVIOUS
  <2>1. Rank(at, i) < Cardinality(at)
    BY <1>4
  <2>2. QED
    BY <1>3, <1>5, <2>1
<1>7. ASSUME NEW i \in at, NEW j \in at, i < j
      PROVE  Rank(at, i) < Rank(at, j)
  <2> DEFINE T == {k \in at : k < j}
  <2>1. \A k \in {k \in at : k < i} \cup {i} : k \in T
    BY <1>7
  <2>2. T \in SUBSET at
    OBVIOUS
  <2>3. Rank(at, i) < Cardinality(T)
    BY <1>4, <2>1, <2>2
  <2>4. QED
    BY <2>3 DEF Rank
<1>8. QED
  BY <1>3, <1>6, <1>7

\* Sorted(at) lists at.
LEMMA SortedLists ==
  ASSUME NEW n \in Nat, NEW at \in SUBSET (1..n)
  PROVE  /\ Cardinality(at) \in Nat
         /\ Enumerates(Sorted(at), Cardinality(at), at)
<1> DEFINE c == Cardinality(at)
           r == [i \in at |-> Rank(at, i)]
<1>1. /\ IsFiniteSet(at) /\ c \in Nat
      /\ \A i \in at : Rank(at, i) \in 0..(c - 1)
      /\ \A i, j \in at : i < j => Rank(at, i) < Rank(at, j)
  BY RankGrows
<1>2. \A i, j \in at : Rank(at, i) = Rank(at, j) => i = j
  <2> SUFFICES ASSUME NEW i \in at, NEW j \in at, Rank(at, i) = Rank(at, j), i # j
               PROVE  FALSE
    OBVIOUS
  <2>1. i < j \/ j < i
    OBVIOUS
  <2>2. Rank(at, i) \in Nat /\ Rank(at, j) \in Nat
    BY <1>1
  <2>3. QED
    BY <1>1, <2>1, <2>2
<1>3. r \in Injection(at, 0..(c - 1))
  BY <1>1, <1>2 DEF Injection, IsInjective
<1>4. IsFiniteSet(0..(c - 1)) /\ Cardinality(0..(c - 1)) = c
  <2>1. 0 \in Int /\ c - 1 \in Int /\ (IF 0 > c - 1 THEN 0 ELSE (c - 1) - 0 + 1) = c
    BY <1>1
  <2>2. ASSUME NEW d \in Int
        PROVE  /\ IsFiniteSet(0..d)
               /\ Cardinality(0..d) = IF 0 > d THEN 0 ELSE d - 0 + 1
    BY FS_Interval
  <2> HIDE DEF c
  <2>3. QED
    BY <2>1, <2>2
<1>5. r \in Surjection(at, 0..(c - 1))
  <2> DEFINE S == 0..(c - 1)
  <2>1. IsFiniteSet(at) /\ IsFiniteSet(S) /\ Cardinality(at) = Cardinality(S)
    BY <1>1, <1>4
  <2> HIDE DEF S, r, c
  <2>2. r \in Injection(at, S)
    BY <1>3 DEF S
  <2>3. r \in Surjection(at, S)
    BY <2>1, <2>2, FS_Injection
  <2>4. QED
    BY <2>3 DEF S
<1>6. \A m \in 0..(c - 1) : \E i \in at : Rank(at, i) = m
  BY <1>5 DEF Surjection
<1> DEFINE q == Sorted(at)
<1>7. q = [k \in 1..c |-> Nth(at, k)]
  BY SortedForm
<1> HIDE DEF c, q
<1>8. \A k \in 1..c : q[k] \in at /\ Rank(at, q[k]) = k - 1
  <2> SUFFICES ASSUME NEW k \in 1..c PROVE q[k] \in at /\ Rank(at, q[k]) = k - 1
    OBVIOUS
  <2>1. k - 1 \in 0..(c - 1)
    BY <1>1
  <2>2. QED
    <3>1. PICK i \in at : Rank(at, i) = k - 1
      BY <1>6, <2>1
    <3>2. Nth(at, k) \in at /\ Rank(at, Nth(at, k)) = k - 1
      BY <3>1, NthHasRank
    <3>3. QED
      BY <1>7, <3>2
<1>9. ASSUME NEW k \in 1..c, NEW l \in 1..c, k < l
      PROVE  q[k] < q[l]
  <2>1. q[k] \in 1..n /\ q[l] \in 1..n
    BY <1>8
  <2>2. /\ q[k] \in at /\ q[l] \in at
        /\ Rank(at, q[k]) = k - 1 /\ Rank(at, q[l]) = l - 1
    BY <1>8
  <2>3. ~ (q[k] = q[l])
    BY <1>1, <1>9, <2>2
  <2>4. ~ (q[l] < q[k])
    <3>1. SUFFICES ASSUME q[l] < q[k] PROVE FALSE
      OBVIOUS
    <3>2. Rank(at, q[l]) < Rank(at, q[k])
      BY <1>1, <2>2, <3>1
    <3>3. l - 1 < k - 1
      BY <2>2, <3>2
    <3>4. QED
      BY <1>1, <1>9, <3>3
  <2>5. QED
    BY <2>1, <2>3, <2>4
<1>10. ASSUME NEW i \in at
       PROVE  \E k \in 1..c : q[k] = i
  <2>1. Rank(at, i) + 1 \in 1..c /\ (Rank(at, i) + 1) - 1 = Rank(at, i)
    BY <1>1
  <2>2. QED
    BY <1>2, <1>8, <2>1
<1>11. q \in [1..c -> at]
  BY <1>7, <1>8
<1>12. QED
  BY <1>1, <1>9, <1>10, <1>11 DEF Enumerates, c, q

\* Nothing else lists it.
LEMMA SortedIsUnique ==
  ASSUME NEW n \in Nat, NEW at \in SUBSET (1..n), NEW m \in Nat, NEW q,
         Enumerates(q, m, at)
  PROVE  Sorted(at) = q /\ Cardinality(at) = m
<1>1. /\ q \in [1..m -> at]
      /\ \A k, l \in 1..m : k < l => q[k] < q[l]
      /\ \A i \in at : \E k \in 1..m : q[k] = i
  BY DEF Enumerates
<1>2. \A k, l \in 1..m : q[k] < q[l] => k < l
  <2> SUFFICES ASSUME NEW k \in 1..m, NEW l \in 1..m, q[k] < q[l], ~ (k < l) PROVE FALSE
    OBVIOUS
  <2>1. q[k] \in 1..n /\ q[l] \in 1..n
    BY <1>1
  <2>2. k = l \/ l < k
    OBVIOUS
  <2>3. QED
    BY <1>1, <2>1, <2>2
<1>3. \A k \in 1..m : Rank(at, q[k]) = k - 1
  <2> SUFFICES ASSUME NEW k \in 1..m PROVE Rank(at, q[k]) = k - 1
    OBVIOUS
  <2> DEFINE S == 1..(k - 1)
             T == {j \in at : j < q[k]}
             f == [l \in S |-> q[l]]
  <2>1. \A l \in S : l \in 1..m /\ q[l] \in T
    BY <1>1
  <2>2. \A j \in T : \E l \in S : q[l] = j
    <3> SUFFICES ASSUME NEW j \in at, j < q[k] PROVE \E l \in S : q[l] = j
      OBVIOUS
    <3>1. PICK l \in 1..m : q[l] = j
      BY <1>1
    <3>2. l < k
      BY <1>2, <3>1
    <3>3. QED
      BY <3>1, <3>2
  <2>3. \A l, p \in S : q[l] = q[p] => l = p
    <3> SUFFICES ASSUME NEW l \in S, NEW p \in S, q[l] = q[p], l # p PROVE FALSE
      OBVIOUS
    <3>0. l \in 1..m /\ p \in 1..m /\ q[l] \in at
      BY <1>1, <2>1
    <3>8. l < p \/ p < l
      BY <3>0
    <3>9. q[l] \in 1..n
      BY <3>0
    <3>1. l \in 1..m /\ p \in 1..m /\ (l < p \/ p < l) /\ q[l] \in 1..n
      BY <3>0, <3>8, <3>9
    <3>2. CASE l < p
      <4>1. q[l] < q[p]
        BY <1>1, <3>1, <3>2
      <4>2. QED
        BY <3>1, <4>1
    <3>3. CASE p < l
      <4>1. q[p] < q[l]
        BY <1>1, <3>1, <3>3
      <4>2. QED
        BY <3>1, <4>1
    <3>4. QED
      BY <3>1, <3>2, <3>3
  <2>4. f \in Injection(S, T) /\ f \in Surjection(S, T)
    BY <2>1, <2>2, <2>3 DEF Injection, IsInjective, Surjection
  <2>5. IsFiniteSet(S) /\ Cardinality(S) = k - 1
    BY FS_Interval
  <2> HIDE DEF S, T, f
  <2>6. Cardinality(T) = Cardinality(S)
    BY <2>4, <2>5, FS_Surjection
  <2>7. QED
    BY <2>5, <2>6 DEF Rank, T
<1> DEFINE c == Cardinality(at)
           z == Sorted(at)
<1>4. /\ c \in Nat /\ IsFiniteSet(at)
      /\ \A i \in at : Rank(at, i) \in 0..(c - 1)
      /\ \A i, j \in at : i < j => Rank(at, i) < Rank(at, j)
  BY RankGrows
<1>5. \A k \in 1..m : k \in 1..c
  <2> SUFFICES ASSUME NEW k \in 1..m PROVE k \in 1..c
    OBVIOUS
  <2>1. q[k] \in at /\ Rank(at, q[k]) = k - 1
    BY <1>1, <1>3
  <2>2. k - 1 \in 0..(c - 1)
    BY <1>4, <2>1
  <2>3. QED
    BY <1>4, <2>2
<1>6. \A k \in 1..c : k \in 1..m
  <2>1. Enumerates(z, c, at)
    BY SortedLists
  <2> SUFFICES ASSUME NEW k \in 1..c PROVE k \in 1..m
    OBVIOUS
  <2>2. c \in 1..c
    BY <1>4
  <2> DEFINE f == [l \in 1..m |-> q[l]]
  <2>3. f \in Surjection(1..m, at)
    BY <1>1 DEF Surjection
  <2>4. IsFiniteSet(1..m) /\ Cardinality(1..m) = m
    BY FS_Interval
  <2> HIDE DEF f
  <2>5. c <= m
    BY <2>3, <2>4, FS_Surjection
  <2>6. QED
    BY <1>4, <2>5
<1>7. c = m
  <2>1. c = 0 \/ c \in 1..c
    BY <1>4
  <2>2. m = 0 \/ m \in 1..m
    OBVIOUS
  <2>3. QED
    BY <1>4, <1>5, <1>6, <2>1, <2>2
<1>8. z = [k \in 1..c |-> Nth(at, k)]
  BY SortedForm
<1> HIDE DEF c, z
<1>9. \A k \in 1..c : z[k] = q[k]
  <2> SUFFICES ASSUME NEW k \in 1..c PROVE z[k] = q[k]
    OBVIOUS
  <2>1. q[k] \in at /\ Rank(at, q[k]) = k - 1
    BY <1>1, <1>3, <1>7
  <2>2. z[k] \in at /\ Rank(at, z[k]) = k - 1
    <3>1. Nth(at, k) \in at /\ Rank(at, Nth(at, k)) = k - 1
      BY <2>1, NthHasRank
    <3>2. QED
      BY <1>8, <3>1
  <2>3. ~ (Rank(at, z[k]) < Rank(at, q[k])) /\ ~ (Rank(at, q[k]) < Rank(at, z[k]))
    BY <1>4, <2>1, <2>2
  <2>4. ~ (z[k] < q[k]) /\ ~ (q[k] < z[k])
    BY <1>4, <2>1, <2>2, <2>3
  <2>5. z[k] \in 1..n /\ q[k] \in 1..n
    BY <2>1, <2>2
  <2>6. QED
    BY <2>4, <2>5
<1>10. q = [k \in 1..c |-> q[k]]
  BY <1>1, <1>7
<1>11. z = q
  BY <1>8, <1>9, <1>10
<1>12. QED
  BY <1>7, <1>11 DEF c, z

-----------------------------------------------------------------------------
(* Selected records.                                                       *)

\* What is at the positions that q lists.
LEMMA SelectedForm ==
  ASSUME NEW s, IsSeq(s), NEW at \in SUBSET DOMAIN s, NEW m \in Nat, NEW q,
         Enumerates(q, m, at)
  PROVE  Selected(s, at) = [k \in 1..m |-> s[q[k]]]
<1>1. DOMAIN s = 1..Len(s) /\ Len(s) \in Nat
  BY DEF IsSeq
<1>2. Sorted(at) = q
  BY <1>1, SortedIsUnique
<1>3. DOMAIN q = 1..m
  BY DEF Enumerates
<1>4. QED
  BY <1>2, <1>3 DEF Selected

\* Some sequence lists the positions, and it selects.
LEMMA SelectedBy ==
  ASSUME NEW s, IsSeq(s), NEW at \in SUBSET DOMAIN s
  PROVE  /\ Cardinality(at) \in Nat
         /\ Enumerates(Sorted(at), Cardinality(at), at)
         /\ Selected(s, at) = [k \in 1..Cardinality(at) |-> s[Sorted(at)[k]]]
<1>1. DOMAIN s = 1..Len(s) /\ Len(s) \in Nat
  BY DEF IsSeq
<1>2. Cardinality(at) \in Nat /\ Enumerates(Sorted(at), Cardinality(at), at)
  BY <1>1, SortedLists
<1>3. QED
  BY <1>2, SelectedForm

\* A selection is a sequence of the elements that were selected.
LEMMA SelectedIsSeq ==
  ASSUME NEW s, IsSeq(s), NEW at \in SUBSET DOMAIN s
  PROVE  /\ IsSeq(Selected(s, at))
         /\ Len(Selected(s, at)) = Cardinality(at) /\ Cardinality(at) \in Nat
         /\ DOMAIN Selected(s, at) = 1..Cardinality(at)
         /\ Elements(Selected(s, at)) = {s[i] : i \in at}
<1> DEFINE m == Cardinality(at)
           q == Sorted(at)
           f == Selected(s, at)
<1>1. /\ m \in Nat
      /\ q \in [1..m -> at]
      /\ \A i \in at : \E k \in 1..m : q[k] = i
      /\ f = [k \in 1..m |-> s[q[k]]]
  BY SelectedBy DEF Enumerates
<1> HIDE DEF m, q, f
<1>2. DOMAIN f = 1..m /\ \A k \in 1..m : q[k] \in at /\ f[k] = s[q[k]]
  BY <1>1
<1>3. Elements(f) = {s[i] : i \in at}
  <2>1. \A k \in 1..m : f[k] \in {s[i] : i \in at}
    BY <1>2
  <2>2. \A i \in at : s[i] \in Elements(f)
    BY <1>1, <1>2 DEF Elements
  <2>3. QED
    BY <1>2, <2>1, <2>2 DEF Elements
<1>4. f \in [1..m -> Elements(f)]
  BY <1>1, <1>2 DEF Elements
<1>5. IsSeq(f)
  BY <1>1, <1>4, OfFunction
<1>6. Len(f) = m
  BY <1>1, <1>2, <1>5 DEF IsSeq
<1>7. QED
  BY <1>1, <1>2, <1>3, <1>5, <1>6 DEF m, f

\* The positions at of n records and the positions bt behind them.
Joined(at, n, bt) == at \cup {n + i : i \in bt}

\* Selecting from a concatenation is selecting from both parts.
LEMMA SelectedConcat ==
  ASSUME NEW s, NEW t, IsSeq(s), IsSeq(t),
         NEW at \in SUBSET DOMAIN s, NEW bt \in SUBSET DOMAIN t
  PROVE  Selected(s \o t, Joined(at, Len(s), bt)) = Selected(s, at) \o Selected(t, bt)
<1> DEFINE m == Cardinality(at)
           l == Cardinality(bt)
           n == Len(s)
           q == Sorted(at)
           p == Sorted(bt)
           ct == Joined(at, n, bt)
           r == [k \in 1..(m + l) |-> IF k <= m THEN q[k] ELSE n + p[k - m]]
           u == s \o t
           f == Selected(s, at)
           g == Selected(t, bt)
<1>1. /\ m \in Nat /\ q \in [1..m -> at] /\ f = [k \in 1..m |-> s[q[k]]]
      /\ \A k, j \in 1..m : k < j => q[k] < q[j]
      /\ \A i \in at : \E k \in 1..m : q[k] = i
  BY SelectedBy DEF Enumerates
<1>2. /\ l \in Nat /\ p \in [1..l -> bt] /\ g = [k \in 1..l |-> t[p[k]]]
      /\ \A k, j \in 1..l : k < j => p[k] < p[j]
      /\ \A i \in bt : \E k \in 1..l : p[k] = i
  BY SelectedBy DEF Enumerates
<1>3. /\ n \in Nat /\ Len(t) \in Nat
      /\ DOMAIN s = 1..n /\ DOMAIN t = 1..Len(t)
      /\ DOMAIN u = 1..(n + Len(t))
      /\ \A i \in 1..n : u[i] = s[i]
      /\ \A i \in 1..Len(t) : u[n + i] = t[i]
      /\ IsSeq(u)
  BY Concat
<1>17. ct = at \cup {n + i : i \in bt}
  BY DEF Joined
<1>4. /\ IsSeq(f) /\ IsSeq(g) /\ Len(f) = m /\ Len(g) = l
  BY SelectedIsSeq
<1> HIDE DEF m, l, n, q, p, f, g, u, ct
<1>5. ct \in SUBSET DOMAIN u
  <2>1. at \in SUBSET (1..n) /\ bt \in SUBSET (1..Len(t))
    BY <1>3
  <2>2. \A i \in at : i \in DOMAIN u
    BY <1>3, <2>1
  <2>3. \A i \in bt : n + i \in DOMAIN u
    BY <1>3, <2>1
  <2>4. QED
    BY <2>2, <2>3, <1>17
<1>6. \A k \in 1..m : k \in 1..(m + l) /\ r[k] = q[k] /\ q[k] \in at /\ q[k] \in 1..n
  BY <1>1, <1>2, <1>3
<1>7. \A k \in 1..l : /\ m + k \in 1..(m + l) /\ r[m + k] = n + p[k]
                       /\ p[k] \in bt /\ p[k] \in 1..Len(t)
  <2> SUFFICES ASSUME NEW k \in 1..l
               PROVE  /\ m + k \in 1..(m + l) /\ r[m + k] = n + p[k]
                      /\ p[k] \in bt /\ p[k] \in 1..Len(t)
    OBVIOUS
  <2>1. m + k \in 1..(m + l) /\ ~ (m + k <= m) /\ (m + k) - m = k
    BY <1>1, <1>2
  <2>2. p[k] \in bt /\ p[k] \in 1..Len(t)
    BY <1>2, <1>3
  <2>3. QED
    BY <2>1, <2>2
<1>8. \A k \in 1..(m + l) : k \in 1..m \/ \E j \in 1..l : k = m + j
  <2> SUFFICES ASSUME NEW k \in 1..(m + l), ~ (k \in 1..m)
               PROVE  \E j \in 1..l : k = m + j
    OBVIOUS
  <2>1. k - m \in 1..l /\ k = m + (k - m)
    BY <1>1, <1>2
  <2>2. QED
    BY <2>1
<1>9. Enumerates(r, m + l, ct)
  <2>1. \A k \in 1..(m + l) : r[k] \in ct
    <3> SUFFICES ASSUME NEW k \in 1..(m + l) PROVE r[k] \in ct
      OBVIOUS
    <3>1. CASE k \in 1..m
      BY <1>6, <1>17, <3>1
    <3>2. CASE \E j \in 1..l : k = m + j
      <4>1. PICK j \in 1..l : k = m + j
        BY <3>2
      <4>2. p[j] \in bt /\ r[k] = n + p[j]
        BY <1>7, <4>1
      <4>3. QED
        BY <1>17, <4>2
    <3>3. QED
      BY <1>8, <3>1, <3>2
  <2>2. ASSUME NEW k \in 1..(m + l), NEW j \in 1..(m + l), k < j
        PROVE  r[k] < r[j]
    <3>1. CASE k \in 1..m /\ j \in 1..m
      BY <1>1, <1>6, <2>2, <3>1
    <3>2. CASE k \in 1..m /\ \E h \in 1..l : j = m + h
      <4>1. PICK h \in 1..l : j = m + h
        BY <3>2
      <4>2. r[k] \in 1..n /\ r[j] = n + p[h] /\ p[h] \in 1..Len(t)
        BY <1>6, <1>7, <3>2, <4>1
      <4>3. QED
        BY <1>3, <4>2
    <3>3. CASE (\E h \in 1..l : k = m + h) /\ (\E h \in 1..l : j = m + h)
      <4>1. PICK h \in 1..l : k = m + h
        BY <3>3
      <4>2. PICK i \in 1..l : j = m + i
        BY <3>3
      <4>3. h < i
        BY <1>1, <2>2, <4>1, <4>2
      <4>4. p[h] < p[i] /\ p[h] \in 1..Len(t) /\ p[i] \in 1..Len(t)
        BY <1>2, <1>7, <4>3
      <4>5. r[k] = n + p[h] /\ r[j] = n + p[i]
        BY <1>7, <4>1, <4>2
      <4>6. QED
        BY <1>3, <4>4, <4>5
    <3>4. CASE (\E h \in 1..l : k = m + h) /\ j \in 1..m
      BY <1>1, <2>2, <3>4
    <3>5. QED
      BY <1>8, <3>1, <3>2, <3>3, <3>4
  <2>3. ASSUME NEW i \in ct PROVE \E k \in 1..(m + l) : r[k] = i
    <3>1. CASE i \in at
      BY <1>1, <1>6, <3>1
    <3>2. CASE \E j \in bt : i = n + j
      <4>1. PICK j \in bt : i = n + j
        BY <3>2
      <4>2. PICK k \in 1..l : p[k] = j
        BY <1>2
      <4>3. QED
        BY <1>7, <4>1, <4>2
    <3>3. QED
      BY <2>3, <1>17, <3>1, <3>2
  <2>4. QED
    BY <2>1, <2>2, <2>3 DEF Enumerates
<1>10. m + l \in Nat
  BY <1>1, <1>2
<1> HIDE DEF r
<1>11. Selected(u, ct) = [k \in 1..(m + l) |-> u[r[k]]]
  BY <1>3, <1>5, <1>9, <1>10, SelectedForm
<1>12. /\ DOMAIN (f \o g) = 1..(m + l)
       /\ \A k \in 1..m : (f \o g)[k] = f[k]
       /\ \A k \in 1..l : (f \o g)[m + k] = g[k]
       /\ IsSeq(f \o g)
  BY <1>4, Concat
<1> DEFINE v == f \o g
           w == Selected(u, ct)
<1>13. v = [k \in DOMAIN v |-> v[k]] /\ DOMAIN v = 1..(m + l)
  BY <1>12, AsFunction
<1> HIDE DEF v, w
<1>14. \A k \in 1..(m + l) : u[r[k]] = v[k]
  <2> SUFFICES ASSUME NEW k \in 1..(m + l) PROVE u[r[k]] = v[k]
    OBVIOUS
  <2>1. CASE k \in 1..m
    <3>1. r[k] = q[k] /\ q[k] \in 1..n /\ v[k] = f[k] /\ f[k] = s[q[k]]
      BY <1>1, <1>6, <1>12, <2>1 DEF v
    <3>2. QED
      BY <1>3, <3>1
  <2>2. CASE \E j \in 1..l : k = m + j
    <3>1. PICK j \in 1..l : k = m + j
      BY <2>2
    <3>2. r[k] = n + p[j] /\ p[j] \in 1..Len(t) /\ v[k] = g[j] /\ g[j] = t[p[j]]
      BY <1>2, <1>7, <1>12, <3>1 DEF v
    <3>3. QED
      BY <1>3, <3>2
  <2>3. QED
    BY <1>8, <2>1, <2>2
<1>15. w = v
  BY <1>11, <1>13, <1>14 DEF w
<1>16. QED
  BY <1>15 DEF w, v, u, ct, n, f, g

\* Everything is selected: nothing changes.
LEMMA SelectedAll ==
  ASSUME NEW s, IsSeq(s)
  PROVE  Selected(s, DOMAIN s) = s
<1> DEFINE n == Len(s)
           q == [k \in 1..n |-> k]
<1>1. DOMAIN s = 1..n /\ n \in Nat /\ s = [k \in 1..n |-> s[k]]
  BY AsFunction
<1>2. Enumerates(q, n, 1..n)
  BY DEF Enumerates
<1>3. Selected(s, 1..n) = [k \in 1..n |-> s[q[k]]]
  BY <1>1, <1>2, SelectedForm
<1>4. [k \in 1..n |-> s[q[k]]] = [k \in 1..n |-> s[k]]
  OBVIOUS
<1>5. QED
  BY <1>1, <1>3, <1>4

\* Nothing is selected: nothing is left.
LEMMA SelectedNone ==
  ASSUME NEW s, IsSeq(s)
  PROVE  Selected(s, {}) = <<>>
<1>1. Cardinality({}) = 0
  BY FS_EmptySet
<1>2. DOMAIN Selected(s, {}) = 1..0
  BY <1>1, SelectedIsSeq
<1>3. IsSeq(Selected(s, {})) /\ IsSeq(<<>>)
  BY SelectedIsSeq DEF IsSeq
<1>4. DOMAIN Selected(s, {}) = {} /\ DOMAIN <<>> = {}
  BY <1>2
<1>5. QED
  BY <1>3, <1>4, SameSeq

\* The members of at whose places in the order of at are bt.
Through(at, bt) == {Sorted(at)[k] : k \in bt}
Listed(at, bt) == [k \in 1..Cardinality(bt) |-> Sorted(at)[Sorted(bt)[k]]]

\* What is listed at some positions of a sorted set is itself sorted.
LEMMA SortedTwice ==
  ASSUME NEW n \in Nat, NEW at \in SUBSET (1..n),
         NEW bt \in SUBSET (1..Cardinality(at))
  PROVE  /\ Through(at, bt) \in SUBSET at /\ Cardinality(bt) \in Nat
         /\ Enumerates(Listed(at, bt), Cardinality(bt), Through(at, bt))
<1> DEFINE m == Cardinality(at)
           l == Cardinality(bt)
           q == Sorted(at)
           p == Sorted(bt)
           r == [k \in 1..l |-> q[p[k]]]
           ct == {q[k] : k \in bt}
<1>1. m \in Nat /\ Enumerates(q, m, at)
  BY SortedLists
<1>2. l \in Nat /\ Enumerates(p, l, bt)
  BY <1>1, SortedLists
<1> HIDE DEF m, l, q, p
<1>3. /\ q \in [1..m -> at]
      /\ \A k, j \in 1..m : k < j => q[k] < q[j]
  BY <1>1 DEF Enumerates
<1>4. /\ p \in [1..l -> bt]
      /\ \A k, j \in 1..l : k < j => p[k] < p[j]
      /\ \A i \in bt : \E k \in 1..l : p[k] = i
  BY <1>2 DEF Enumerates
<1>5. bt \in SUBSET (1..m)
  BY DEF m
<1>6. \A k \in 1..l : p[k] \in bt /\ p[k] \in 1..m /\ q[p[k]] \in at /\ r[k] = q[p[k]]
  BY <1>3, <1>4, <1>5
<1>7. Enumerates(r, l, ct)
  <2>1. r \in [1..l -> ct]
    BY <1>6
  <2>2. \A k, j \in 1..l : k < j => r[k] < r[j]
    BY <1>3, <1>4, <1>6
  <2>3. \A i \in ct : \E k \in 1..l : r[k] = i
    BY <1>4, <1>6
  <2>4. QED
    BY <2>1, <2>2, <2>3 DEF Enumerates
<1>8. ct \in SUBSET at
  BY <1>3, <1>5
<1> HIDE DEF r, ct
<1>9. r = Listed(at, bt) /\ ct = Through(at, bt)
  BY DEF r, ct, l, q, p, Listed, Through
<1>10. QED
  BY <1>2, <1>7, <1>8, <1>9 DEF m, l

\* Selecting from a selection.
LEMMA SelectedTwice ==
  ASSUME NEW s, IsSeq(s), NEW at \in SUBSET DOMAIN s,
         NEW bt \in SUBSET DOMAIN Selected(s, at)
  PROVE  Selected(Selected(s, at), bt) = Selected(s, Through(at, bt))
<1> DEFINE m == Cardinality(at)
           l == Cardinality(bt)
           q == Sorted(at)
           p == Sorted(bt)
           f == Selected(s, at)
           r == Listed(at, bt)
           ct == Through(at, bt)
<1>1. f = [k \in 1..m |-> s[q[k]]]
  BY SelectedBy
<1>2. IsSeq(f) /\ DOMAIN f = 1..m
  BY SelectedIsSeq
<1>3. bt \in SUBSET (1..m)
  BY <1>2
<1>4. /\ l \in Nat /\ p \in [1..l -> bt] /\ Selected(f, bt) = [k \in 1..l |-> f[p[k]]]
  BY <1>2, SelectedBy DEF Enumerates
<1>5. ct \in SUBSET at /\ Enumerates(r, l, ct)
  <2>1. DOMAIN s = 1..Len(s) /\ Len(s) \in Nat
    BY AsFunction
  <2>2. QED
    BY <1>3, <2>1, SortedTwice
<1>6. ct \in SUBSET DOMAIN s
  BY <1>5
<1> HIDE DEF m, l, q, p, f, ct
<1>7. \A k \in 1..l : p[k] \in 1..m /\ r[k] = q[p[k]]
  BY <1>3, <1>4 DEF Listed, l, q, p
<1> HIDE DEF r
<1>8. Selected(s, ct) = [k \in 1..l |-> s[r[k]]]
  BY <1>4, <1>5, <1>6, SelectedForm
<1>9. \A k \in 1..l : f[p[k]] = s[r[k]]
  BY <1>1, <1>7
<1>10. Selected(f, bt) = Selected(s, ct)
  BY <1>4, <1>8, <1>9
<1>11. QED
  BY <1>10 DEF f, ct

-----------------------------------------------------------------------------
(* The records of some kinds.                                              *)

KindAt(s, K) == {i \in DOMAIN s : s[i].op \in K}

\* The records of some kinds are a selection.
LEMMA OfKindForm ==
  ASSUME NEW s, NEW K
  PROVE  OfKind(s, K) = Selected(s, KindAt(s, K)) /\ KindAt(s, K) \in SUBSET DOMAIN s
BY DEF OfKind, KindAt

\* They are a sequence, and they are the elements of these kinds.
LEMMA OfKindIsSeq ==
  ASSUME NEW s, IsSeq(s), NEW K
  PROVE  /\ IsSeq(OfKind(s, K))
         /\ Len(OfKind(s, K)) \in Nat
         /\ DOMAIN OfKind(s, K) = 1..Len(OfKind(s, K))
         /\ Elements(OfKind(s, K)) = {r \in Elements(s) : r.op \in K}
<1> DEFINE at == KindAt(s, K)
<1>1. OfKind(s, K) = Selected(s, at) /\ at \in SUBSET DOMAIN s
  BY OfKindForm
<1>2. {s[i] : i \in at} = {r \in Elements(s) : r.op \in K}
  BY DEF KindAt, Elements
<1> HIDE DEF at
<1>3. QED
  BY <1>1, <1>2, SelectedIsSeq

\* The records of some kinds of two files, one behind the other.
LEMMA OfKindConcat ==
  ASSUME NEW s, NEW t, IsSeq(s), IsSeq(t), NEW K
  PROVE  OfKind(s \o t, K) = OfKind(s, K) \o OfKind(t, K)
<1> DEFINE n == Len(s)
           u == s \o t
           at == KindAt(s, K)
           bt == KindAt(t, K)
<1>1. /\ n \in Nat /\ Len(t) \in Nat
      /\ DOMAIN s = 1..n /\ DOMAIN t = 1..Len(t)
      /\ DOMAIN u = 1..(n + Len(t))
      /\ \A i \in 1..n : u[i] = s[i]
      /\ \A i \in 1..Len(t) : u[n + i] = t[i]
  BY Concat
<1>2. \A k \in DOMAIN u : k \in DOMAIN s \/ \E i \in DOMAIN t : k = n + i
  BY ConcatSplit
<1> HIDE DEF n, u
<1>3. KindAt(u, K) = Joined(at, n, bt)
  <2>1. \A k \in KindAt(u, K) : k \in at \cup {n + i : i \in bt}
    BY <1>1, <1>2 DEF KindAt
  <2>2. \A k \in at : k \in KindAt(u, K)
    BY <1>1 DEF KindAt
  <2>3. \A i \in bt : n + i \in KindAt(u, K)
    BY <1>1 DEF KindAt
  <2>4. QED
    BY <2>1, <2>2, <2>3 DEF Joined
<1>4. at \in SUBSET DOMAIN s /\ bt \in SUBSET DOMAIN t
  BY DEF KindAt
<1> HIDE DEF at, bt
<1>5. Selected(u, Joined(at, n, bt)) = Selected(s, at) \o Selected(t, bt)
  BY <1>4, SelectedConcat DEF u, n
<1>6. /\ OfKind(u, K) = Selected(u, KindAt(u, K))
      /\ OfKind(s, K) = Selected(s, at) /\ OfKind(t, K) = Selected(t, bt)
  BY OfKindForm DEF at, bt
<1>7. OfKind(u, K) = OfKind(s, K) \o OfKind(t, K)
  BY <1>3, <1>5, <1>6
<1>8. QED
  BY <1>7 DEF u

\* There are none in a file without such records.
LEMMA OfKindNone ==
  ASSUME NEW s, IsSeq(s), NEW K, \A i \in DOMAIN s : s[i].op \notin K
  PROVE  OfKind(s, K) = <<>>
<1>1. KindAt(s, K) = {}
  BY DEF KindAt
<1>2. QED
  BY <1>1, OfKindForm, SelectedNone

\* A file of nothing else is what remains.
LEMMA OfKindAll ==
  ASSUME NEW s, IsSeq(s), NEW K, \A i \in DOMAIN s : s[i].op \in K
  PROVE  OfKind(s, K) = s
<1>1. KindAt(s, K) = DOMAIN s
  BY DEF KindAt
<1>2. QED
  BY <1>1, OfKindForm, SelectedAll

\* There are none only if there is none.
LEMMA OfKindEmpty ==
  ASSUME NEW s, IsSeq(s), NEW K, OfKind(s, K) = <<>>
  PROVE  \A i \in DOMAIN s : s[i].op \notin K
<1>1. Elements(OfKind(s, K)) = {r \in Elements(s) : r.op \in K}
  BY OfKindIsSeq
<1>2. Elements(<<>>) = {}
  BY DEF Elements
<1>3. QED
  BY <1>1, <1>2 DEF Elements

\* One record either is of these kinds or is not.
LEMMA OfKindSingle ==
  ASSUME NEW e, NEW K
  PROVE  OfKind(<<e>>, K) = IF e.op \in K THEN <<e>> ELSE <<>>
<1>1. IsSeq(<<e>>) /\ \A i \in DOMAIN <<e>> : <<e>>[i] = e
  BY Single
<1> DEFINE s == <<e>>
<1> HIDE DEF s
<1>2. CASE e.op \in K
  BY <1>1, <1>2, OfKindAll DEF s
<1>3. CASE e.op \notin K
  BY <1>1, <1>3, OfKindNone DEF s
<1>4. QED
  BY <1>2, <1>3 DEF s

\* The records of some kinds among those of some kinds.
LEMMA OfKindTwice ==
  ASSUME NEW s, IsSeq(s), NEW K, NEW L
  PROVE  OfKind(OfKind(s, K), L) = OfKind(s, K \cap L)
<1> DEFINE at == KindAt(s, K)
           f == Selected(s, at)
           q == Sorted(at)
           m == Cardinality(at)
           bt == KindAt(f, L)
<1>1. at \in SUBSET DOMAIN s
  BY OfKindForm
<1>2. /\ m \in Nat /\ q \in [1..m -> at] /\ f = [k \in 1..m |-> s[q[k]]]
      /\ \A i \in at : \E k \in 1..m : q[k] = i
  BY <1>1, SelectedBy DEF Enumerates
<1> HIDE DEF f, q, m, at
<1>3. Through(at, bt) = KindAt(s, K \cap L)
  <2>0. \A i : i \in at <=> i \in DOMAIN s /\ s[i].op \in K
    BY DEF KindAt, at
  <2>9. DOMAIN f = 1..m /\ \A k \in 1..m : f[k] = s[q[k]] /\ q[k] \in at
    BY <1>2
  <2>1. \A k \in bt : q[k] \in KindAt(s, K \cap L)
    BY <2>0, <2>9 DEF KindAt
  <2>2. ASSUME NEW i \in KindAt(s, K \cap L) PROVE i \in {q[k] : k \in bt}
    <3>1. i \in at /\ s[i].op \in L
      BY <2>0 DEF KindAt
    <3>2. PICK k \in 1..m : q[k] = i
      BY <1>2, <3>1
    <3>3. k \in bt
      BY <2>9, <3>1, <3>2 DEF KindAt
    <3>4. QED
      BY <3>2, <3>3
  <2>3. QED
    BY <2>1, <2>2 DEF Through, q
<1>4. bt \in SUBSET DOMAIN f
  BY DEF KindAt
<1> HIDE DEF bt
<1>5. Selected(f, bt) = Selected(s, Through(at, bt))
  BY <1>1, <1>4, SelectedTwice DEF f
<1>6. /\ OfKind(s, K) = f /\ OfKind(f, L) = Selected(f, bt)
      /\ OfKind(s, K \cap L) = Selected(s, KindAt(s, K \cap L))
  BY OfKindForm DEF f, at, bt
<1>7. QED
  BY <1>3, <1>5, <1>6

-----------------------------------------------------------------------------
(* Beginnings of files.                                                    *)

\* The first m records and the rest.
LEMMA FrontOf ==
  ASSUME NEW s, IsSeq(s), NEW m \in 0..Len(s)
  PROVE  /\ IsSeq(SubSeq(s, 1, m)) /\ Len(SubSeq(s, 1, m)) = m
         /\ DOMAIN SubSeq(s, 1, m) = 1..m
         /\ \A i \in 1..m : SubSeq(s, 1, m)[i] = s[i] /\ i \in DOMAIN s
<1> DEFINE f == SubSeq(s, 1, m)
           S == Elements(s)
<1>1. s \in Seq(S) /\ Len(s) \in Nat /\ DOMAIN s = 1..Len(s) /\ m \in Nat
  BY AsFunction DEF IsSeq
<1> HIDE DEF S
<1>2. f \in Seq(S) /\ Len(f) = m /\ \A i \in 1..m : f[i] = s[i]
  BY <1>1, SubSeqProperties
<1>3. DOMAIN f = 1..m
  BY <1>1, <1>2
<1> HIDE DEF f
<1>4. f \in [1..m -> Elements(f)]
  <2>1. f = [i \in 1..m |-> f[i]]
    BY <1>2, <1>3
  <2>2. QED
    BY <1>3, <2>1 DEF Elements
<1>5. IsSeq(f)
  BY <1>1, <1>4, OfFunction
<1>6. \A i \in 1..m : i \in DOMAIN s
  BY <1>1
<1>7. QED
  BY <1>2, <1>3, <1>5, <1>6 DEF f

\* The records behind the first m.
LEMMA BackOf ==
  ASSUME NEW s, IsSeq(s), NEW m \in 0..Len(s)
  PROVE  /\ IsSeq(SubSeq(s, m + 1, Len(s))) /\ Len(SubSeq(s, m + 1, Len(s))) = Len(s) - m
         /\ DOMAIN SubSeq(s, m + 1, Len(s)) = 1..(Len(s) - m)
         /\ \A i \in 1..(Len(s) - m) : /\ SubSeq(s, m + 1, Len(s))[i] = s[m + i]
                                       /\ m + i \in DOMAIN s
<1> DEFINE f == SubSeq(s, m + 1, Len(s))
           S == Elements(s)
           l == Len(s) - m
<1>1. s \in Seq(S) /\ Len(s) \in Nat /\ DOMAIN s = 1..Len(s) /\ m \in Nat /\ l \in Nat
  BY AsFunction DEF IsSeq
<1> HIDE DEF S
<1>2. f \in Seq(S) /\ Len(f) = l /\ \A i \in 1..l : f[i] = s[m + i]
  <2> DEFINE k == m + 1
             n == Len(s)
  <2>1. k \in Int /\ n \in Int /\ \A i \in k..n : s[i] \in S
    BY <1>1
  <2> DEFINE g == SubSeq(s, k, n)
  <2>2. /\ g \in Seq(S)
        /\ Len(g) = IF k <= n THEN n - k + 1 ELSE 0
        /\ \A i \in 1..(n - k + 1) : g[i] = s[k + i - 1]
    BY <2>1, SubSeqProperties
  <2>3. f = g
    OBVIOUS
  <2> HIDE DEF f, g
  <2>4. Len(g) = l
    <3>1. n \in Nat /\ m \in Nat /\ m <= n /\ k = m + 1 /\ l = n - m
      BY <1>1
    <3>2. CASE k <= n
      BY <2>2, <3>1, <3>2
    <3>3. CASE ~ (k <= n)
      <4>1. n - m = 0
        BY <3>1, <3>3
      <4>2. QED
        BY <2>2, <3>1, <3>3, <4>1
    <3>4. QED
      BY <3>2, <3>3
  <2>5. ASSUME NEW i \in 1..l PROVE g[i] = s[m + i]
    <3>1. i \in 1..(n - k + 1) /\ k + i - 1 = m + i
      BY <1>1
    <3>2. g[i] = s[k + i - 1]
      BY <2>2, <3>1
    <3>3. QED
      BY <3>1, <3>2
  <2>6. QED
    BY <2>2, <2>3, <2>4, <2>5
<1>3. \A i \in 1..l : m + i \in DOMAIN s
  BY <1>1
<1> HIDE DEF f, l
<1>4. DOMAIN f = 1..l
  BY <1>2
<1>5. f \in [1..l -> Elements(f)]
  <2>1. f = [i \in 1..l |-> f[i]]
    BY <1>2, <1>4
  <2>2. QED
    BY <1>4, <2>1 DEF Elements
<1>6. IsSeq(f)
  BY <1>1, <1>5, OfFunction
<1>7. QED
  BY <1>2, <1>3, <1>4, <1>6 DEF f, l

\* Both make up the file.
LEMMA FrontAndBack ==
  ASSUME NEW s, IsSeq(s), NEW m \in 0..Len(s)
  PROVE  s = SubSeq(s, 1, m) \o SubSeq(s, m + 1, Len(s))
<1> DEFINE S == Elements(s)
           n == Len(s)
<1>1. s \in Seq(S) /\ n \in Nat
  BY AsFunction DEF IsSeq
<1> HIDE DEF S
<1>2. SubSeq(s, 1, n) = s
  BY <1>1, SubSeqFull
<1>3. 1 \in 1..(n + 1) /\ m \in (1 - 1)..n /\ n \in m..n
  BY <1>1
<1>4. SubSeq(s, 1, m) \o SubSeq(s, m + 1, n) = SubSeq(s, 1, n)
  BY <1>1, <1>3, ConcatAdjacentSubSeq
<1>5. QED
  BY <1>2, <1>4

\* One record more.
LEMMA FrontGrows ==
  ASSUME NEW s, IsSeq(s), NEW m \in 0..Len(s), m < Len(s)
  PROVE  SubSeq(s, 1, m + 1) = SubSeq(s, 1, m) \o <<s[m + 1]>>
<1> DEFINE S == Elements(s)
           k == m + 1
<1>1. s \in Seq(S) /\ Len(s) \in Nat
  BY AsFunction DEF IsSeq
<1> HIDE DEF S
<1>2. 1 \in 1..Len(s) /\ k \in 1..Len(s) /\ k - 1 = m
  BY <1>1
<1> HIDE DEF k
<1>3. SubSeq(s, 1, k) = SubSeq(s, 1, k - 1) \o <<s[k]>>
  BY <1>1, <1>2, SubSeqRecursiveSecond
<1>4. QED
  BY <1>2, <1>3 DEF k

-----------------------------------------------------------------------------
(* Bodies.                                                                 *)

\* The bodies of the records of a kind.
LEMMA BodiesForm ==
  ASSUME NEW s, IsSeq(s), NEW op
  PROVE  /\ IsSeq(Bodies(s, op))
         /\ Len(Bodies(s, op)) = Len(OfKind(s, {op})) /\ Len(Bodies(s, op)) \in Nat
         /\ DOMAIN Bodies(s, op) = 1..Len(Bodies(s, op))
         /\ \A i \in 1..Len(Bodies(s, op)) : Bodies(s, op)[i] = OfKind(s, {op})[i].body
<1> DEFINE rs == OfKind(s, {op})
           n == Len(rs)
           b == Bodies(s, op)
<1>1. n \in Nat /\ DOMAIN rs = 1..n
  BY OfKindIsSeq
<1>2. b = [i \in DOMAIN rs |-> rs[i].body]
  BY DEF Bodies
<1> HIDE DEF rs, n, b
<1>3. DOMAIN b = 1..n /\ \A i \in 1..n : b[i] = rs[i].body
  BY <1>1, <1>2
<1>4. b \in [1..n -> Elements(b)]
  BY <1>1, <1>2, <1>3 DEF Elements
<1>5. IsSeq(b)
  BY <1>1, <1>4, OfFunction
<1>6. Len(b) = n
  BY <1>1, <1>3, <1>5 DEF IsSeq
<1>7. QED
  BY <1>1, <1>3, <1>5, <1>6 DEF rs, n, b

\* The bodies in two files, one behind the other.
LEMMA BodiesConcat ==
  ASSUME NEW s, NEW t, IsSeq(s), IsSeq(t), NEW op
  PROVE  Bodies(s \o t, op) = Bodies(s, op) \o Bodies(t, op)
<1> DEFINE a == OfKind(s, {op})
           b == OfKind(t, {op})
           u == s \o t
           c == OfKind(u, {op})
           x == Bodies(s, op)
           y == Bodies(t, op)
           z == Bodies(u, op)
           w == x \o y
<1>1. c = a \o b /\ IsSeq(u)
  BY OfKindConcat, Concat
<1>2. /\ IsSeq(x) /\ Len(x) = Len(a) /\ Len(x) \in Nat
      /\ \A i \in 1..Len(x) : x[i] = a[i].body
      /\ IsSeq(y) /\ Len(y) = Len(b) /\ Len(y) \in Nat
      /\ \A i \in 1..Len(y) : y[i] = b[i].body
  BY BodiesForm
<1> HIDE DEF u
<1>3. /\ IsSeq(z) /\ Len(z) = Len(c) /\ DOMAIN z = 1..Len(z)
      /\ \A i \in 1..Len(z) : z[i] = c[i].body
  BY <1>1, BodiesForm
<1>4. IsSeq(a) /\ IsSeq(b)
  BY OfKindIsSeq
<1> HIDE DEF a, b, c, x, y, z
<1>5. /\ DOMAIN (a \o b) = 1..(Len(a) + Len(b))
      /\ \A i \in 1..Len(a) : (a \o b)[i] = a[i]
      /\ \A i \in 1..Len(b) : (a \o b)[Len(a) + i] = b[i]
      /\ IsSeq(a \o b)
  BY <1>4, Concat
<1>6. /\ IsSeq(w) /\ DOMAIN w = 1..(Len(a) + Len(b))
      /\ \A i \in 1..Len(a) : w[i] = x[i]
      /\ \A i \in 1..Len(b) : w[Len(a) + i] = y[i]
  <2>1. /\ IsSeq(w) /\ DOMAIN w = 1..(Len(x) + Len(y))
        /\ \A i \in 1..Len(x) : w[i] = x[i]
        /\ \A i \in 1..Len(y) : w[Len(x) + i] = y[i]
    <3>1. IsSeq(x) /\ IsSeq(y)
      BY <1>2
    <3>2. QED
      BY <3>1, Concat
  <2> HIDE DEF w
  <2>2. QED
    BY <1>2, <2>1
<1> DEFINE d == a \o b
<1>7. c = d
  BY <1>1
<1>8. Len(d) = Len(a) + Len(b)
  BY <1>4, ConcatLen
<1> HIDE DEF d, w
<1>9. DOMAIN z = 1..(Len(a) + Len(b)) /\ \A i \in 1..(Len(a) + Len(b)) : z[i] = d[i].body
  BY <1>3, <1>7, <1>8
<1>10. ASSUME NEW k \in 1..(Len(a) + Len(b)) PROVE z[k] = w[k]
  <2>1. CASE k <= Len(a)
    BY <1>2, <1>5, <1>6, <1>9, <2>1 DEF d
  <2>2. CASE ~ (k <= Len(a))
    <3>1. k - Len(a) \in 1..Len(b) /\ Len(a) + (k - Len(a)) = k
      BY <1>2, <2>2
    <3>2. d[Len(a) + (k - Len(a))] = b[k - Len(a)] /\ w[Len(a) + (k - Len(a))] = y[k - Len(a)]
      BY <1>5, <1>6, <3>1 DEF d
    <3>3. y[k - Len(a)] = b[k - Len(a)].body
      BY <1>2, <3>1
    <3>4. QED
      BY <1>9, <3>1, <3>2, <3>3
  <2>3. QED
    BY <2>1, <2>2
<1>11. z = w
  BY <1>3, <1>6, <1>9, <1>10, SameSeq
<1>12. QED
  BY <1>11 DEF z, w, x, y, u

\* The body of one record.
LEMMA BodiesSingle ==
  ASSUME NEW e, NEW op
  PROVE  Bodies(<<e>>, op) = IF e.op = op THEN <<e.body>> ELSE <<>>
<1> DEFINE rs == OfKind(<<e>>, {op})
<1>1. rs = IF e.op = op THEN <<e>> ELSE <<>>
  BY OfKindSingle
<1>2. Bodies(<<e>>, op) = [i \in DOMAIN rs |-> rs[i].body]
  BY DEF Bodies
<1> HIDE DEF rs
<1>3. CASE e.op = op
  <2>1. rs = <<e>>
    BY <1>1, <1>3
  <2>2. QED
    BY <1>2, <1>3, <2>1
<1>4. CASE e.op # op
  <2>1. rs = <<>>
    BY <1>1, <1>4
  <2>2. QED
    BY <1>2, <1>4, <2>1
<1>5. QED
  BY <1>3, <1>4

-----------------------------------------------------------------------------
(* The chunks of a recording.                                              *)

\* One record more is its chunk more, if it is one.
LEMMA RecordedGrows ==
  ASSUME NEW s, IsSeq(s), NEW m \in 0..Len(s), m < Len(s)
  PROVE  Recorded(SubSeq(s, 1, m + 1))
           = Recorded(SubSeq(s, 1, m))
               \o (IF s[m + 1].op = "chunk" THEN <<s[m + 1].body>> ELSE <<>>)
<1> DEFINE f == SubSeq(s, 1, m)
           e == <<s[m + 1]>>
<1>1. SubSeq(s, 1, m + 1) = f \o e
  BY FrontGrows
<1>2. IsSeq(f) /\ IsSeq(e)
  BY FrontOf, Single
<1>3. Bodies(e, "chunk") = IF s[m + 1].op = "chunk" THEN <<s[m + 1].body>> ELSE <<>>
  BY BodiesSingle
<1> HIDE DEF f, e
<1>4. Bodies(f \o e, "chunk") = Bodies(f, "chunk") \o Bodies(e, "chunk")
  BY <1>2, BodiesConcat
<1>5. QED
  BY <1>1, <1>3, <1>4 DEF Recorded, f

\* The chunks of the first records are the first chunks.
LEMMA RecordedFront ==
  ASSUME NEW s, IsSeq(s), NEW m \in 0..Len(s)
  PROVE  LET r == Recorded(s)
             f == Recorded(SubSeq(s, 1, m))
         IN /\ IsSeq(r) /\ IsSeq(f) /\ Len(r) \in Nat /\ Len(f) \in Nat /\ Len(f) <= Len(r)
            /\ DOMAIN f = 1..Len(f) /\ DOMAIN r = 1..Len(r)
            /\ \A i \in 1..Len(f) : f[i] = r[i]
<1> DEFINE a == SubSeq(s, 1, m)
           b == SubSeq(s, m + 1, Len(s))
           r == Recorded(s)
           f == Recorded(a)
           g == Recorded(b)
<1>1. IsSeq(a) /\ IsSeq(b) /\ s = a \o b
  BY FrontOf, BackOf, FrontAndBack
<1> HIDE DEF a, b
<1>2. Bodies(a \o b, "chunk") = Bodies(a, "chunk") \o Bodies(b, "chunk")
  BY <1>1, BodiesConcat
<1>3. r = f \o g
  BY <1>1, <1>2 DEF Recorded
<1>4. IsSeq(f) /\ IsSeq(g) /\ IsSeq(r)
  BY <1>1, BodiesForm DEF Recorded
<1> HIDE DEF f, g, r
<1>5. /\ Len(f) \in Nat /\ Len(g) \in Nat /\ DOMAIN f = 1..Len(f)
      /\ \A i \in 1..Len(f) : (f \o g)[i] = f[i]
  BY <1>4, Concat
<1>6. Len(f \o g) = Len(f) + Len(g)
  BY <1>4, ConcatLen
<1>7. Len(r) \in Nat /\ Len(f) <= Len(r) /\ DOMAIN r = 1..Len(r)
  <2>1. Len(r) = Len(f) + Len(g)
    BY <1>3, <1>6
  <2>2. DOMAIN r = 1..Len(r)
    BY <1>4, AsFunction
  <2>3. QED
    BY <1>5, <2>1, <2>2
<1>8. \A i \in 1..Len(f) : f[i] = r[i]
  BY <1>3, <1>5
<1>9. QED
  BY <1>4, <1>5, <1>7, <1>8 DEF r, f, a

\* If there is no chunk among the rest, they are all.
LEMMA RecordedAll ==
  ASSUME NEW s, IsSeq(s), NEW m \in 0..Len(s),
         \A i \in DOMAIN s : s[i].op = "chunk" => i <= m
  PROVE  Recorded(SubSeq(s, 1, m)) = Recorded(s)
<1> DEFINE a == SubSeq(s, 1, m)
           b == SubSeq(s, m + 1, Len(s))
<1>1. IsSeq(a) /\ IsSeq(b) /\ s = a \o b
  BY FrontOf, BackOf, FrontAndBack
<1>2. \A i \in DOMAIN b : b[i].op \notin {"chunk"}
  <2>1. Len(s) \in Nat /\ m \in Nat
    BY AsFunction
  <2>2. \A i \in 1..(Len(s) - m) : b[i] = s[m + i] /\ m + i \in DOMAIN s
    BY BackOf
  <2>3. DOMAIN b = 1..(Len(s) - m)
    BY BackOf
  <2> HIDE DEF b
  <2>4. ASSUME NEW i \in 1..(Len(s) - m) PROVE b[i].op \notin {"chunk"}
    <3>1. b[i] = s[m + i] /\ m + i \in DOMAIN s /\ ~ (m + i <= m)
      BY <2>1, <2>2
    <3>2. s[m + i].op # "chunk"
      BY <3>1
    <3>3. QED
      BY <3>1, <3>2
  <2>5. QED
    BY <2>3, <2>4
<1> HIDE DEF a, b
<1>3. OfKind(b, {"chunk"}) = <<>>
  BY <1>1, <1>2, OfKindNone
<1>4. Bodies(b, "chunk") = <<>>
  BY <1>3 DEF Bodies
<1>5. Bodies(a \o b, "chunk") = Bodies(a, "chunk") \o Bodies(b, "chunk")
  BY <1>1, BodiesConcat
<1>6. IsSeq(Bodies(a, "chunk"))
  BY <1>1, BodiesForm
<1>7. Bodies(a, "chunk") \o <<>> = Bodies(a, "chunk")
  BY <1>6, ConcatLen
<1>8. Bodies(a \o b, "chunk") = Bodies(a, "chunk")
  BY <1>4, <1>5, <1>7
<1>9. Bodies(s, "chunk") = Bodies(a, "chunk")
  BY <1>1, <1>8
<1>10. QED
  BY <1>9 DEF Recorded, a

\* A chunk is in the recording, behind those ahead of it.
LEMMA RecordedAt ==
  ASSUME NEW s, IsSeq(s), NEW m \in 0..Len(s), m < Len(s), s[m + 1].op = "chunk"
  PROVE  LET n == Len(Recorded(SubSeq(s, 1, m)))
         IN /\ n \in Nat /\ n < Len(Recorded(s)) /\ Recorded(s)[n + 1] = s[m + 1].body
            /\ Len(Recorded(SubSeq(s, 1, m + 1))) = n + 1
            /\ Recorded(SubSeq(s, 1, m + 1))[n + 1] = s[m + 1].body
<1> DEFINE f == Recorded(SubSeq(s, 1, m))
           g == Recorded(SubSeq(s, 1, m + 1))
           r == Recorded(s)
           n == Len(f)
<1>1. m + 1 \in 0..Len(s) /\ Len(s) \in Nat /\ m \in Nat
  BY AsFunction
<1>2. g = f \o <<s[m + 1].body>>
  BY RecordedGrows
<1>3. IsSeq(f) /\ n \in Nat
  BY RecordedFront
<1>4. Len(g) = n + 1 /\ g[n + 1] = s[m + 1].body
  <2> DEFINE x == s[m + 1].body
  <2> HIDE DEF f, g, x
  <2>1. Len(f \o <<x>>) = n + 1 /\ (f \o <<x>>)[n + 1] = x
    BY <1>3, OneMore
  <2>2. QED
    BY <1>2, <2>1 DEF x
<1>5. /\ Len(g) <= Len(r) /\ Len(r) \in Nat /\ \A i \in 1..Len(g) : g[i] = r[i]
  BY <1>1, RecordedFront
<1> HIDE DEF f, g, r
<1>6. n < Len(r) /\ r[n + 1] = g[n + 1]
  BY <1>3, <1>4, <1>5
<1>7. QED
  BY <1>3, <1>4, <1>6 DEF n, f, g, r

-----------------------------------------------------------------------------
(* The chunks that yield messages.                                         *)

MessagesAt(s) == {i \in DOMAIN s : Yields(s[i])}

\* The chunks that yield messages of two recordings, one behind the other.
LEMMA MessagesConcat ==
  ASSUME NEW s, NEW t, IsSeq(s), IsSeq(t)
  PROVE  /\ Yielding(s \o t) = Yielding(s) \o Yielding(t)
         /\ IsSeq(Yielding(s)) /\ IsSeq(Yielding(t))
<1> DEFINE n == Len(s)
           u == s \o t
           at == MessagesAt(s)
           bt == MessagesAt(t)
<1>1. /\ n \in Nat /\ Len(t) \in Nat
      /\ DOMAIN s = 1..n /\ DOMAIN t = 1..Len(t)
      /\ DOMAIN u = 1..(n + Len(t))
      /\ \A i \in 1..n : u[i] = s[i]
      /\ \A i \in 1..Len(t) : u[n + i] = t[i]
  BY Concat
<1>2. \A k \in DOMAIN u : k \in DOMAIN s \/ \E i \in DOMAIN t : k = n + i
  BY ConcatSplit
<1> HIDE DEF n, u
<1>3. MessagesAt(u) = Joined(at, n, bt)
  <2>1. ASSUME NEW k \in MessagesAt(u) PROVE k \in at \cup {n + i : i \in bt}
    <3>1. k \in DOMAIN u /\ Yields(u[k])
      BY DEF MessagesAt
    <3>2. CASE k \in DOMAIN s
      BY <1>1, <3>1, <3>2 DEF MessagesAt
    <3>3. CASE \E i \in DOMAIN t : k = n + i
      <4>1. PICK i \in DOMAIN t : k = n + i
        BY <3>3
      <4>2. i \in bt
        BY <1>1, <3>1, <4>1 DEF MessagesAt
      <4>3. QED
        BY <4>1, <4>2
    <3>4. QED
      BY <1>2, <3>1, <3>2, <3>3
  <2>2. \A k \in at : k \in MessagesAt(u)
    BY <1>1 DEF MessagesAt
  <2>3. \A i \in bt : n + i \in MessagesAt(u)
    BY <1>1 DEF MessagesAt
  <2>4. QED
    BY <2>1, <2>2, <2>3 DEF Joined
<1>4. at \in SUBSET DOMAIN s /\ bt \in SUBSET DOMAIN t
  BY DEF MessagesAt
<1>5. /\ Yielding(u) = Selected(u, MessagesAt(u))
      /\ Yielding(s) = Selected(s, at) /\ Yielding(t) = Selected(t, bt)
  BY DEF Yielding, MessagesAt
<1> HIDE DEF at, bt
<1>6. Selected(u, Joined(at, n, bt)) = Selected(s, at) \o Selected(t, bt)
  BY <1>4, SelectedConcat DEF u, n
<1>7. Yielding(u) = Yielding(s) \o Yielding(t)
  BY <1>3, <1>5, <1>6
<1>8. IsSeq(Yielding(s)) /\ IsSeq(Yielding(t))
  BY <1>4, <1>5, SelectedIsSeq
<1>9. QED
  BY <1>7, <1>8 DEF u

\* One chunk either has messages or has none.
LEMMA MessagesSingle ==
  ASSUME NEW c
  PROVE  Yielding(<<c>>) = IF Yields(c) THEN <<c>> ELSE <<>>
<1> DEFINE s == <<c>>
<1>1. IsSeq(s) /\ DOMAIN s = {1} /\ s[1] = c
  BY Single
<1>2. Yielding(s) = Selected(s, MessagesAt(s))
  BY DEF Yielding, MessagesAt
<1> HIDE DEF s
<1>3. CASE ~ Yields(c)
  <2>1. MessagesAt(s) = {}
    BY <1>1, <1>3 DEF MessagesAt
  <2>2. Yielding(s) = <<>>
    BY <1>1, <1>2, <2>1, SelectedNone
  <2>3. QED
    BY <1>3, <2>2 DEF s
<1>4. CASE Yields(c)
  <2>1. MessagesAt(s) = DOMAIN s
    BY <1>1, <1>4 DEF MessagesAt
  <2>2. Yielding(s) = s
    BY <1>1, <1>2, <2>1, SelectedAll
  <2>3. QED
    BY <1>4, <2>2 DEF s
<1>5. QED
  BY <1>3, <1>4

\* The chunks that yield messages of a recording, found in one step or in two.
PlayedAt(s) == {i \in DOMAIN s : s[i].op = "chunk" /\ Yields(s[i].body)}

\* The chunks that yield messages of a file are those of its recording.
LEMMA MessagesOfFile ==
  ASSUME NEW s, IsSeq(s)
  PROVE  [k \in DOMAIN Sorted(PlayedAt(s)) |-> s[Sorted(PlayedAt(s))[k]].body]
           = Yielding(Recorded(s))
<1> DEFINE ct == PlayedAt(s)
           at == KindAt(s, {"chunk"})
           rs == Selected(s, at)
           m == Cardinality(at)
           q == Sorted(at)
           r == Recorded(s)
           bt == MessagesAt(r)
           l == Cardinality(bt)
           p == Sorted(bt)
           h == Listed(at, bt)
           jt == Through(at, bt)
<1>1. at \in SUBSET DOMAIN s /\ DOMAIN s = 1..Len(s) /\ Len(s) \in Nat
  BY AsFunction DEF KindAt
<1>2. /\ m \in Nat /\ q \in [1..m -> at] /\ rs = [k \in 1..m |-> s[q[k]]]
      /\ \A i \in at : \E k \in 1..m : q[k] = i
  <2>1. at \in SUBSET DOMAIN s
    BY DEF KindAt
  <2> HIDE DEF at
  <2>2. QED
    BY <2>1, SelectedBy DEF Enumerates
<1>3. r = [k \in DOMAIN rs |-> rs[k].body]
  BY OfKindForm DEF Recorded, Bodies
<1>4. IsSeq(r)
  BY BodiesForm DEF Recorded
<1>5. bt \in SUBSET DOMAIN r /\ Yielding(r) = Selected(r, bt)
  BY DEF Yielding, MessagesAt
<1> HIDE DEF rs, m, q, r, bt, at
<1>6. DOMAIN r = 1..m /\ \A k \in 1..m : r[k] = s[q[k]].body /\ q[k] \in at
  BY <1>2, <1>3
<1>7. l \in Nat /\ p \in [1..l -> bt] /\ Yielding(r) = [k \in 1..l |-> r[p[k]]]
  BY <1>4, <1>5, SelectedBy DEF Enumerates
<1>8. jt \in SUBSET at /\ Enumerates(h, l, jt)
  <2>1. bt \in SUBSET (1..m)
    BY <1>5, <1>6
  <2>2. at \in SUBSET (1..Len(s)) /\ Len(s) \in Nat
    BY <1>1
  <2>3. QED
    BY <2>1, <2>2, SortedTwice DEF m
<1>9. ct = jt
  <2>1. \A i \in ct : i \in {q[k] : k \in bt}
    <3> SUFFICES ASSUME NEW i \in ct PROVE \E k \in bt : q[k] = i
      OBVIOUS
    <3>1. i \in at /\ Yields(s[i].body)
      BY DEF at, KindAt, PlayedAt
    <3>2. PICK k \in 1..m : q[k] = i
      BY <1>2, <3>1
    <3>3. k \in bt
      BY <1>6, <3>1, <3>2 DEF bt, MessagesAt
    <3>4. QED
      BY <3>2, <3>3
  <2>2. \A k \in bt : q[k] \in ct
    <3> SUFFICES ASSUME NEW k \in bt PROVE q[k] \in ct
      OBVIOUS
    <3>1. k \in 1..m /\ Yields(r[k])
      BY <1>6 DEF bt, MessagesAt
    <3>2. q[k] \in DOMAIN s /\ s[q[k]].op = "chunk" /\ Yields(s[q[k]].body)
      BY <1>6, <3>1 DEF at, KindAt
    <3>3. QED
      BY <3>2 DEF PlayedAt
  <2>3. QED
    BY <2>1, <2>2 DEF Through, q
<1>10. Sorted(ct) = h
  <2>1. jt \in SUBSET (1..Len(s)) /\ Len(s) \in Nat /\ l \in Nat
    BY <1>1, <1>7, <1>8
  <2> HIDE DEF ct, jt, h, l
  <2>2. Sorted(jt) = h
    BY <1>8, <2>1, SortedIsUnique
  <2>3. QED
    BY <1>9, <2>2
<1>11. \A k \in 1..l : p[k] \in 1..m
  BY <1>5, <1>6, <1>7
<1>12. DOMAIN h = 1..l /\ \A k \in 1..l : h[k] = q[p[k]]
  BY DEF Listed, q
<1> HIDE DEF h, l, p, ct
<1>13. \A k \in 1..l : s[h[k]].body = r[p[k]]
  BY <1>6, <1>11, <1>12
<1>14. [k \in DOMAIN h |-> s[h[k]].body] = Yielding(r)
  BY <1>7, <1>12, <1>13
<1>15. QED
  BY <1>10, <1>14 DEF r, ct

-----------------------------------------------------------------------------
(* Parts of an encrypted file.                                             *)

\* What ends the data of a file, behind its leading magic.
Ends == {"dataEnd", "footer", "torn", "magic"}

\* A record has the fields of its kind, as far as anyone replaces them.
HasShape(r) ==
  /\ "op" \in DOMAIN r
  /\ r.op = "encChunk" => DOMAIN r = {"op", "body", "key", "idx"}
  /\ r.op = "slot" => DOMAIN r = {"op", "to", "key", "version"}
  /\ r.op = "manifest" => DOMAIN r = {"op", "key", "count"}

\* An encrypted chunk is the one of the recording rec that its index says, and
\* a slot gives one of the recipients a key: to says which key whom.
Genuine(r, rec, to) ==
  /\ HasShape(r)
  /\ r.op = "encChunk" => r.idx \in Nat /\ r.idx < Len(rec) /\ r.body = rec[r.idx + 1]
  /\ r.op = "slot" => <<r.to, r.key>> \in to

Part(s, rec, to) == IsSeq(s) /\ \A i \in DOMAIN s : Genuine(s[i], rec, to)

\* A manifest that was filled in counts n chunks, and no slot does without it.
Vouches(s, n) ==
  \A i \in DOMAIN s :
    /\ s[i].op = "manifest" => s[i] = Placeholder \/ s[i].count = n
    /\ s[i].op = "slot" => s[i].version # LegacyVersion

Chunkless(s) == \A i \in DOMAIN s : s[i].op # "encChunk"

\* Neither chunks nor keys.
Quiet(s) ==
  /\ IsSeq(s)
  /\ \A i \in DOMAIN s : "op" \in DOMAIN s[i] /\ s[i].op \notin {"encChunk", "slot", "manifest"}

Unended(s) == \A i \in DOMAIN s : s[i].op \notin Ends

\* The data has not ended yet; or it has, behind the last chunk.
Open(s) == \A i \in DOMAIN s : i > 1 => s[i].op \notin Ends
Ahead(s) ==
  \A i, j \in DOMAIN s : s[i].op = "encChunk" /\ j > 1 /\ s[j].op \in Ends => i < j

Tally(s) == Len(OfKind(s, {"encChunk"}))

\* A file without encrypted chunks is one in which none is counted.
LEMMA TallyNone ==
  ASSUME NEW s, IsSeq(s)
  PROVE  Tally(s) \in Nat /\ (Chunkless(s) <=> Tally(s) = 0)
<1> DEFINE cs == OfKind(s, {"encChunk"})
<1>1. IsSeq(cs) /\ Len(cs) \in Nat /\ DOMAIN cs = 1..Len(cs)
  BY OfKindIsSeq
<1>2. ASSUME Chunkless(s) PROVE Tally(s) = 0
  <2>1. cs = <<>>
    BY <1>2, OfKindNone DEF Chunkless
  <2>2. QED
    BY <2>1 DEF Tally
<1>3. ASSUME Tally(s) = 0 PROVE Chunkless(s)
  <2>1. DOMAIN cs = {} /\ DOMAIN <<>> = {}
    BY <1>1, <1>3 DEF Tally
  <2>2. cs = <<>>
    BY <1>1, <2>1, SameSeq, ConcatLen
  <2>3. QED
    BY <2>2, OfKindEmpty DEF Chunkless
<1>4. QED
  BY <1>1, <1>2, <1>3 DEF Tally

\* One record counts if it is an encrypted chunk.
LEMMA TallySingle ==
  ASSUME NEW e
  PROVE  Tally(<<e>>) = IF e.op = "encChunk" THEN 1 ELSE 0
<1>1. OfKind(<<e>>, {"encChunk"}) = IF e.op = "encChunk" THEN <<e>> ELSE <<>>
  BY OfKindSingle
<1>2. Len(<<e>>) = 1 /\ Len(<<>>) = 0
  OBVIOUS
<1>3. QED
  BY <1>1, <1>2 DEF Tally

\* What a file keeps when records are written behind it.
LEMMA Joining ==
  ASSUME NEW s, NEW t, IsSeq(s), IsSeq(t)
  PROVE  /\ IsSeq(s \o t)
         /\ Tally(s \o t) = Tally(s) + Tally(t) /\ Tally(s) \in Nat /\ Tally(t) \in Nat
         /\ \A rec, to : Part(s, rec, to) /\ Part(t, rec, to) => Part(s \o t, rec, to)
         /\ \A n : Vouches(s, n) /\ Vouches(t, n) => Vouches(s \o t, n)
         /\ Quiet(s) /\ Quiet(t) => Quiet(s \o t)
         /\ Chunkless(s) /\ Chunkless(t) => Chunkless(s \o t)
         /\ Unended(s) /\ Unended(t) => Unended(s \o t)
         /\ Open(s) /\ Unended(t) => Open(s \o t)
         /\ Ahead(s) /\ Chunkless(t) => Ahead(s \o t)
<1> DEFINE u == s \o t
<1>1. IsSeq(u) /\ Len(s) \in Nat /\ DOMAIN s = 1..Len(s) /\ DOMAIN t = 1..Len(t)
      /\ Len(t) \in Nat
  BY Concat
<1>2. ASSUME NEW k \in DOMAIN u
      PROVE  \/ k \in DOMAIN s /\ u[k] = s[k]
             \/ \E i \in DOMAIN t : k = Len(s) + i /\ u[k] = t[i]
  BY <1>2, ConcatSplit
<1>3. Tally(u) = Tally(s) + Tally(t)
  <2>1. OfKind(u, {"encChunk"}) = OfKind(s, {"encChunk"}) \o OfKind(t, {"encChunk"})
    BY OfKindConcat
  <2>2. IsSeq(OfKind(s, {"encChunk"})) /\ IsSeq(OfKind(t, {"encChunk"}))
    BY OfKindIsSeq
  <2> HIDE DEF u
  <2>3. QED
    BY <2>1, <2>2, ConcatLen DEF Tally
<1>4. Tally(s) \in Nat /\ Tally(t) \in Nat
  BY TallyNone
<1> HIDE DEF u
<1>5. ASSUME NEW rec, NEW to, Part(s, rec, to), Part(t, rec, to) PROVE Part(u, rec, to)
  BY <1>1, <1>2, <1>5 DEF Part
<1>6. ASSUME NEW n, Vouches(s, n), Vouches(t, n) PROVE Vouches(u, n)
  <2> SUFFICES ASSUME NEW k \in DOMAIN u
               PROVE  /\ u[k].op = "manifest" => u[k] = Placeholder \/ u[k].count = n
                      /\ u[k].op = "slot" => u[k].version # LegacyVersion
    BY DEF Vouches
  <2>1. CASE k \in DOMAIN s /\ u[k] = s[k]
    BY <1>6, <2>1 DEF Vouches
  <2>2. CASE \E i \in DOMAIN t : k = Len(s) + i /\ u[k] = t[i]
    BY <1>6, <2>2 DEF Vouches
  <2>3. QED
    BY <1>2, <2>1, <2>2
<1>7. ASSUME Quiet(s), Quiet(t) PROVE Quiet(u)
  BY <1>1, <1>2, <1>7 DEF Quiet
<1>8. ASSUME Chunkless(s), Chunkless(t) PROVE Chunkless(u)
  BY <1>2, <1>8 DEF Chunkless
<1>9. ASSUME Unended(s), Unended(t) PROVE Unended(u)
  BY <1>2, <1>9 DEF Unended
<1>10. ASSUME Open(s), Unended(t) PROVE Open(u)
  BY <1>2, <1>10 DEF Unended, Open
<1>11. ASSUME Ahead(s), Chunkless(t) PROVE Ahead(u)
  <2> SUFFICES ASSUME NEW i \in DOMAIN u, NEW j \in DOMAIN u, u[i].op = "encChunk",
                      j > 1, u[j].op \in Ends
               PROVE  i < j
    BY DEF Ahead
  <2>1. i \in DOMAIN s /\ u[i] = s[i]
    BY <1>2, <1>11 DEF Chunkless
  <2>2. CASE j \in DOMAIN s /\ u[j] = s[j]
    BY <1>11, <2>1, <2>2 DEF Ahead
  <2>3. CASE \E l \in DOMAIN t : j = Len(s) + l
    BY <1>1, <2>1, <2>3
  <2>4. QED
    BY <1>2, <2>2, <2>3
<1>12. QED
  BY <1>1, <1>3, <1>4, <1>5, <1>6, <1>7, <1>8, <1>9, <1>10, <1>11 DEF u

\* A quiet part changes nothing that is said of a file.
LEMMA QuietIs ==
  ASSUME NEW t, Quiet(t)
  PROVE  /\ IsSeq(t) /\ Chunkless(t) /\ Tally(t) = 0
         /\ \A rec, to : Part(t, rec, to)
         /\ \A n : Vouches(t, n)
<1>1. IsSeq(t) /\ Chunkless(t)
  BY DEF Quiet, Chunkless
<1>2. Tally(t) = 0
  BY <1>1, TallyNone
<1>3. \A rec, to : Part(t, rec, to)
  BY DEF Quiet, Part, Genuine, HasShape
<1>4. \A n : Vouches(t, n)
  BY DEF Quiet, Vouches
<1>5. QED
  BY <1>1, <1>2, <1>3, <1>4

\* A file that may still grow has its slots ahead of its chunks.
LEMMA OpenIsAhead == ASSUME NEW s, Open(s) PROVE Ahead(s)
BY DEF Open, Ahead

\* So has one that nothing ends.
LEMMA UnendedIsOpen == ASSUME NEW s, Unended(s) PROVE Open(s)
BY DEF Open, Unended

-----------------------------------------------------------------------------
(* Induction.                                                              *)

\* A set of numbers that is not empty has a least member.
LEMMA Least ==
  ASSUME NEW T \in SUBSET Nat, T # {}
  PROVE  \E n \in T : \A m \in T : n <= m
<1>1. IsWellFoundedOn(OpToRel(<, Nat), Nat)
  BY NatLessThanWellFounded
<1>2. PICK n \in T : \A y \in T : ~ (<<y, n>> \in OpToRel(<, Nat))
  BY <1>1, WFMin
<1>3. OpToRel(<, Nat) = {ss \in Nat \X Nat : ss[1] < ss[2]}
  BY Zenon DEF OpToRel
<1>4. \A y \in Nat : y < n => <<y, n>> \in {ss \in Nat \X Nat : ss[1] < ss[2]}
  OBVIOUS
<1>5. ASSUME NEW y \in T, y < n PROVE FALSE
  <2>1. <<y, n>> \in OpToRel(<, Nat)
    BY <1>3, <1>4, <1>5, Zenon
  <2>2. QED
    BY <1>2, <2>1, Zenon
<1>6. QED
  BY <1>5

\* A set of numbers that holds 0, and with a number below N the next, holds
\* all of them up to N: induction with a set in the place of a predicate.
LEMMA Induction ==
  ASSUME NEW N \in Nat, NEW T, 0 \in T, \A n \in 0..(N - 1) : n \in T => n + 1 \in T
  PROVE  \A n \in 0..N : n \in T
<1> SUFFICES ASSUME (0..N) \ T # {} PROVE FALSE
  OBVIOUS
<1>1. PICK n \in (0..N) \ T : \A m \in (0..N) \ T : n <= m
  <2>1. (0..N) \ T \in SUBSET Nat
    OBVIOUS
  <2>2. QED
    BY <2>1, Least
<1>2. n # 0 /\ n - 1 \in 0..(N - 1) /\ ~ (n <= n - 1)
  BY <1>1
<1>3. n - 1 \in T
  BY <1>1, <1>2
<1>4. QED
  BY <1>1, <1>2, <1>3

\* A function of numbers whose value at each depends on the one before.
Steps(f, N, a, step) == f = [i \in 0..N |-> IF i = 0 THEN a ELSE step[<<f[i - 1], i>>]]

\* There is one.
LEMMA Recursion ==
  ASSUME NEW N \in Nat, NEW T, NEW a \in T, NEW step \in [T \X (1..N) -> T]
  PROVE  \E f \in [0..N -> T] : Steps(f, N, a, step)
<1> DEFINE Upto(n, f) == /\ f \in [0..n -> T] /\ f[0] = a
                         /\ \A i \in 1..n : f[i] = step[<<f[i - 1], i>>]
           G == {n \in 0..N : \E f : Upto(n, f)}
<1>1. 0 \in G
  <2>1. Upto(0, [i \in 0..0 |-> a])
    OBVIOUS
  <2>2. 0 \in 0..N
    OBVIOUS
  <2> HIDE DEF Upto
  <2>3. QED
    BY <2>1, <2>2
<1>2. ASSUME NEW n \in 0..(N - 1), n \in G PROVE n + 1 \in G
  <2>1. PICK g : Upto(n, g)
    BY <1>2
  <2> DEFINE last == step[<<g[n], n + 1>>]
             f == [i \in 0..(n + 1) |-> IF i = n + 1 THEN last ELSE g[i]]
  <2>2. last \in T
    BY <2>1
  <2>3. f \in [0..(n + 1) -> T]
    BY <2>1, <2>2
  <2>4. f[0] = a
    BY <2>1
  <2>5. ASSUME NEW i \in 1..(n + 1) PROVE f[i] = step[<<f[i - 1], i>>]
    <3>1. i - 1 \in 0..n /\ i - 1 # n + 1
      OBVIOUS
    <3>2. f[i - 1] = g[i - 1]
      BY <3>1
    <3>3. CASE i = n + 1
      <4>1. i - 1 = n /\ f[i] = last
        BY <3>3
      <4>2. f[i - 1] = g[n]
        BY <3>2, <4>1
      <4> HIDE DEF f
      <4>3. QED
        BY <3>3, <4>1, <4>2
    <3>4. CASE i # n + 1
      <4>1. i \in 1..n
        BY <3>4
      <4>2. f[i] = g[i]
        BY <3>4
      <4>3. QED
        BY <2>1, <3>2, <4>1, <4>2
    <3>5. QED
      BY <3>3, <3>4
  <2>6. Upto(n + 1, f)
    BY <2>3, <2>4, <2>5
  <2>7. n + 1 \in 0..N
    OBVIOUS
  <2>8. QED
    BY <2>6, <2>7
<1> HIDE DEF Upto
<1>3. \A n \in 0..N : n \in G
  BY <1>1, <1>2, Induction
<1>4. PICK f : Upto(N, f)
  <2>1. N \in 0..N
    OBVIOUS
  <2>2. QED
    BY <1>3, <2>1
<1>5. f \in [0..N -> T] /\ f[0] = a /\ \A i \in 1..N : f[i] = step[<<f[i - 1], i>>]
  BY <1>4 DEF Upto
<1>6. f = [i \in 0..N |-> IF i = 0 THEN a ELSE step[<<f[i - 1], i>>]]
  BY <1>5
<1>7. QED
  BY <1>5, <1>6 DEF Steps

\* A file built piece by piece.
Built(f, N, a, piece) == f = [i \in 0..N |-> IF i = 0 THEN a ELSE f[i - 1] \o piece[i]]

\* A loop that adds one piece after the other has a result after every step.
LEMMA Building ==
  ASSUME NEW N \in Nat, NEW a, IsSeq(a), NEW piece, \A i \in 1..N : IsSeq(piece[i])
  PROVE  \E f : Built(f, N, a, piece)
<1> DEFINE S == Elements(a) \cup UNION {Elements(piece[i]) : i \in 1..N}
           T == Seq(S)
           step == [x \in T \X (1..N) |-> x[1] \o piece[x[2]]]
<1>1. a \in T
  <2>1. a \in Seq(Elements(a)) /\ Elements(a) \subseteq S
    BY DEF IsSeq
  <2> HIDE DEF S
  <2>2. QED
    BY <2>1
<1>2. \A i \in 1..N : piece[i] \in T
  <2>1. SUFFICES ASSUME NEW i \in 1..N PROVE piece[i] \in T
    OBVIOUS
  <2>2. piece[i] \in Seq(Elements(piece[i])) /\ Elements(piece[i]) \subseteq S
    BY DEF IsSeq
  <2> HIDE DEF S
  <2>3. QED
    BY <2>2
<1>3. \A s, t \in T : s \o t \in T
  <2> HIDE DEF S
  <2>1. QED
    OBVIOUS
<1> HIDE DEF T
<1>4. step \in [T \X (1..N) -> T]
  BY <1>2, <1>3
<1>5. \A s \in T : \A i \in 1..N : step[<<s, i>>] = s \o piece[i]
  OBVIOUS
<1> HIDE DEF step
<1>6. PICK g \in [0..N -> T] : Steps(g, N, a, step)
  BY <1>1, <1>4, Recursion
<1>7. g = [i \in 0..N |-> IF i = 0 THEN a ELSE step[<<g[i - 1], i>>]]
  BY <1>6 DEF Steps
<1>8. ASSUME NEW i \in 0..N, i # 0
      PROVE  step[<<g[i - 1], i>>] = g[i - 1] \o piece[i]
  <2>1. i - 1 \in 0..N /\ i \in 1..N
    BY <1>8
  <2>2. g[i - 1] \in T
    BY <1>6, <2>1
  <2>3. QED
    BY <1>5, <2>1, <2>2
<1>9. g = [i \in 0..N |-> IF i = 0 THEN a ELSE g[i - 1] \o piece[i]]
  BY <1>7, <1>8
<1>10. QED
  BY <1>9 DEF Built

\* A sequence of members of a set is a sequence of its elements.
LEMMA OfSeq ==
  ASSUME NEW S, NEW t \in Seq(S)
  PROVE  IsSeq(t) /\ Elements(t) \subseteq S
<1>1. /\ DOMAIN t = 1..Len(t) /\ Len(t) \in Nat
      /\ t = [k \in 1..Len(t) |-> t[k]] /\ \A k \in 1..Len(t) : t[k] \in S
  OBVIOUS
<1>2. Elements(t) \subseteq S /\ \A k \in 1..Len(t) : t[k] \in Elements(t)
  BY <1>1 DEF Elements
<1>3. t \in [1..Len(t) -> Elements(t)]
  BY <1>1, <1>2
<1>4. QED
  BY <1>1, <1>2, <1>3, OfFunction

-----------------------------------------------------------------------------
(* Definitions.                                                            *)

\* The definitions of s that are not among those before.
NewIn(before, s) == Selected(s, {i \in DOMAIN s : s[i] \notin Elements(before)})

SeenBy(file, f) ==
  [n \in 0..Len(file) |->
     IF n = 0 THEN <<>> ELSE f[n - 1] \o NewIn(f[n - 1], DefsIn(file[n]))]

\* The first pass of the encryptors yields a sequence of definitions.
LEMMA DefinitionsAreSeq ==
  ASSUME NEW file, IsSeq(file), \A i \in DOMAIN file : IsSeq(DefsIn(file[i]))
  PROVE  IsSeq(Definitions(file))
<1> DEFINE N == Len(file)
           S == UNION {Elements(DefsIn(file[i])) : i \in DOMAIN file}
           T == Seq(S)
           step == [x \in T \X (1..N) |-> x[1] \o NewIn(x[1], DefsIn(file[x[2]]))]
           seen == CHOOSE f : f = SeenBy(file, f)
<1>1. N \in Nat /\ DOMAIN file = 1..N
  BY AsFunction
<1>2. ASSUME NEW b \in T, NEW i \in 1..N PROVE b \o NewIn(b, DefsIn(file[i])) \in T
  <2> DEFINE s == DefsIn(file[i])
             at == {j \in DOMAIN s : s[j] \notin Elements(b)}
  <2>1. IsSeq(s) /\ at \in SUBSET DOMAIN s
    BY <1>1
  <2>2. Elements(s) \subseteq S
    BY <1>1
  <2> HIDE DEF s, at
  <2>3. IsSeq(Selected(s, at)) /\ Elements(Selected(s, at)) = {s[j] : j \in at}
    BY <2>1, SelectedIsSeq
  <2>4. {s[j] : j \in at} \subseteq S
    BY <2>1, <2>2 DEF Elements
  <2>5. Selected(s, at) \in Seq(Elements(Selected(s, at)))
    BY <2>3 DEF IsSeq
  <2>6. Elements(Selected(s, at)) \subseteq S
    BY <2>3, <2>4
  <2> HIDE DEF S
  <2>7. Selected(s, at) \in Seq(S)
    BY <2>5, <2>6
  <2>8. b \o Selected(s, at) \in Seq(S)
    BY <2>7
  <2>9. QED
    BY <2>8 DEF NewIn, s, at
<1>3. <<>> \in T
  OBVIOUS
<1> HIDE DEF N, T
<1>4. step \in [T \X (1..N) -> T]
  <2>1. ASSUME NEW x \in T \X (1..N) PROVE x[1] \o NewIn(x[1], DefsIn(file[x[2]])) \in T
    BY <1>2
  <2>2. QED
    BY <2>1
<1>5. \A b \in T : \A i \in 1..N : step[<<b, i>>] = b \o NewIn(b, DefsIn(file[i]))
  OBVIOUS
<1> HIDE DEF step
<1>6. PICK g \in [0..N -> T] : Steps(g, N, <<>>, step)
  BY <1>1, <1>3, <1>4, Recursion
<1>7. g = SeenBy(file, g)
  <2>1. g = [i \in 0..N |-> IF i = 0 THEN <<>> ELSE step[<<g[i - 1], i>>]]
    BY <1>6 DEF Steps
  <2>2. ASSUME NEW i \in 0..N, i # 0
        PROVE  step[<<g[i - 1], i>>] = g[i - 1] \o NewIn(g[i - 1], DefsIn(file[i]))
    <3>1. i - 1 \in 0..N /\ i \in 1..N
      BY <1>1, <2>2
    <3>2. g[i - 1] \in T
      BY <1>6, <3>1
    <3>3. QED
      BY <1>5, <3>1, <3>2
  <2>3. g = [i \in 0..N |-> IF i = 0 THEN <<>>
                            ELSE g[i - 1] \o NewIn(g[i - 1], DefsIn(file[i]))]
    BY <2>1, <2>2
  <2>4. QED
    BY <2>3 DEF SeenBy, N
<1>8. seen = SeenBy(file, seen)
  BY <1>7, Zenon
<1>9. Definitions(file) = seen[N]
  BY DEF Definitions, SeenBy, NewIn, N
<1> HIDE DEF seen
<1>10. seen = [n \in 0..N |-> IF n = 0 THEN <<>>
                             ELSE seen[n - 1] \o NewIn(seen[n - 1], DefsIn(file[n]))]
  BY <1>8 DEF SeenBy, N
<1> DEFINE G == {n \in 0..N : seen[n] \in T}
<1>11. 0 \in G
  <2>1. 0 \in 0..N
    BY <1>1
  <2>2. seen[0] = <<>>
    BY <1>10, <2>1
  <2>3. QED
    BY <1>3, <2>1, <2>2
<1>12. ASSUME NEW n \in 0..(N - 1), n \in G PROVE n + 1 \in G
  <2>1. n + 1 \in 0..N /\ n + 1 # 0 /\ (n + 1) - 1 = n /\ n + 1 \in 1..N
    BY <1>1
  <2>2. seen[n + 1] = seen[n] \o NewIn(seen[n], DefsIn(file[n + 1]))
    BY <1>10, <2>1
  <2>3. seen[n] \in T
    BY <1>12
  <2>4. seen[n + 1] \in T
    BY <1>2, <2>1, <2>2, <2>3
  <2>5. QED
    BY <2>1, <2>4
<1>13. N \in G
  <2> HIDE DEF G
  <2>1. \A n \in 0..N : n \in G
    BY <1>1, <1>11, <1>12, Induction
  <2>2. N \in 0..N
    BY <1>1
  <2>3. QED
    BY <2>1, <2>2
<1>14. Definitions(file) \in Seq(S)
  BY <1>9, <1>13 DEF T
<1> HIDE DEF S
<1>15. QED
  BY <1>14, OfSeq

\* Those of a file with known chunks are.
LEMMA CollectedAreSeq ==
  ASSUME NEW file, IsSeq(file),
         \A i \in DOMAIN file : file[i].op = "chunk" => file[i].body \in DOMAIN Uses
  PROVE  IsSeq(Definitions(file))
<1>1. ASSUME NEW i \in DOMAIN file PROVE IsSeq(DefsIn(file[i]))
  <2>1. CASE file[i].op = "def"
    <3>1. DefsIn(file[i]) = <<file[i].id>>
      BY <2>1 DEF DefsIn
    <3>2. QED
      BY <3>1, Single
  <2>2. CASE file[i].op = "chunk"
    <3>1. DefsIn(file[i]) = Inner[file[i].body]
      BY <2>2 DEF DefsIn
    <3>2. file[i].body \in DOMAIN Inner
      BY <2>2, InnerAssumption
    <3>3. QED
      BY <3>1, <3>2, InnerAssumption DEF IsSeq
  <2>3. CASE file[i].op # "def" /\ file[i].op # "chunk"
    <3>1. DefsIn(file[i]) = <<>>
      BY <2>3 DEF DefsIn
    <3>2. IsSeq(<<>>)
      BY DEF IsSeq
    <3>3. QED
      BY <3>1, <3>2
  <2>4. QED
    BY <2>1, <2>2, <2>3
<1>2. QED
  BY <1>1, DefinitionsAreSeq

-----------------------------------------------------------------------------
\* A function of the positions of a sequence is a sequence.
LEMMA OfPositions ==
  ASSUME NEW s, IsSeq(s), NEW f, DOMAIN f = DOMAIN s, f = [i \in DOMAIN s |-> f[i]]
  PROVE  IsSeq(f) /\ Len(f) = Len(s) /\ Elements(f) = {f[i] : i \in DOMAIN s}
<1>1. DOMAIN s = 1..Len(s) /\ Len(s) \in Nat
  BY AsFunction
<1>2. Elements(f) = {f[i] : i \in DOMAIN s}
  BY DEF Elements
<1>3. f \in [1..Len(s) -> Elements(f)]
  BY <1>1, <1>2
<1>4. IsSeq(f)
  BY <1>1, <1>3, OfFunction
<1>5. DOMAIN f = 1..Len(f) /\ Len(f) \in Nat
  BY <1>4, AsFunction
<1>6. Len(f) = Len(s)
  BY <1>1, <1>5
<1>7. QED
  BY <1>2, <1>4, <1>6

\* The identifiers of the definitions of a file are a sequence.
LEMMA DefIdsAreSeq ==
  ASSUME NEW s, IsSeq(s)
  PROVE  IsSeq(DefIds(s))
<1> DEFINE ds == OfKind(s, {"def"})
<1>1. IsSeq(ds)
  BY OfKindIsSeq
<1> HIDE DEF ds
<1>2. IsSeq([i \in DOMAIN ds |-> ds[i].id])
  BY <1>1, OfPositions
<1>3. QED
  BY <1>2 DEF DefIds, ds

\* Cutting a file off in front of the first record of some kinds.
LEMMA UpToIsFront ==
  ASSUME NEW file, IsSeq(file), NEW ops
  PROVE  \E m \in 0..Len(file) :
           /\ UpTo(file, ops) = SubSeq(file, 1, m)
           /\ \A i \in 1..m : file[i].op \notin ops
           /\ m < Len(file) => file[m + 1].op \in ops
<1> DEFINE at == {i \in DOMAIN file : file[i].op \in ops}
<1>1. DOMAIN file = 1..Len(file) /\ Len(file) \in Nat
  BY AsFunction
<1>2. UpTo(file, ops) = IF at = {} THEN file ELSE SubSeq(file, 1, First(at) - 1)
  BY DEF UpTo
<1>3. CASE at = {}
  <2>1. SubSeq(file, 1, Len(file)) = file
    BY SubSeqFull DEF IsSeq
  <2>2. Len(file) \in 0..Len(file) /\ ~ (Len(file) < Len(file))
    BY <1>1
  <2>3. \A i \in 1..Len(file) : file[i].op \notin ops
    BY <1>1, <1>3
  <2>4. QED
    BY <1>2, <1>3, <2>1, <2>2, <2>3
<1>4. CASE at # {}
  <2>1. at \in SUBSET Nat
    BY <1>1
  <2>2. \E i \in at : \A j \in at : i <= j
    BY <1>4, <2>1, Least
  <2>3. First(at) \in at /\ \A j \in at : First(at) <= j
    BY <2>2 DEF First
  <2> DEFINE p == First(at)
  <2>4. p \in 1..Len(file) /\ file[p].op \in ops /\ \A j \in at : p <= j
    BY <1>1, <2>3
  <2>5. \A i \in 1..Len(file) : file[i].op \in ops => p <= i
    BY <1>1, <2>4
  <2>6. UpTo(file, ops) = SubSeq(file, 1, p - 1)
    BY <1>2, <1>4
  <2> HIDE DEF p
  <2>7. p - 1 \in 0..Len(file) /\ (p - 1) + 1 = p /\ \A i \in 1..(p - 1) : i \in 1..Len(file) /\ ~ (p <= i)
    BY <1>1, <2>4
  <2>8. \A i \in 1..(p - 1) : file[i].op \notin ops
    BY <2>5, <2>7
  <2>9. QED
    BY <2>4, <2>6, <2>7, <2>8
<1>5. QED
  BY <1>3, <1>4

\* What is behind the end of the data is not a chunk.
LEMMA TallyFront ==
  ASSUME NEW s, IsSeq(s), NEW m \in 0..Len(s),
         \A i \in DOMAIN s : i > m => s[i].op # "encChunk"
  PROVE  Tally(SubSeq(s, 1, m)) = Tally(s)
<1> DEFINE a == SubSeq(s, 1, m)
           b == SubSeq(s, m + 1, Len(s))
<1>1. IsSeq(a) /\ IsSeq(b) /\ s = a \o b
  BY FrontOf, BackOf, FrontAndBack
<1>2. Chunkless(b)
  <2>1. DOMAIN b = 1..(Len(s) - m) /\ \A i \in 1..(Len(s) - m) : b[i] = s[m + i] /\ m + i \in DOMAIN s
    BY BackOf
  <2> HIDE DEF b
  <2>2. \A i \in 1..(Len(s) - m) : m + i > m
    BY AsFunction
  <2>3. QED
    BY <2>1, <2>2 DEF Chunkless
<1> HIDE DEF a, b
<1>3. Tally(a \o b) = Tally(a) + Tally(b) /\ Tally(a) \in Nat
  BY <1>1, Joining
<1>4. Tally(b) = 0
  BY <1>1, <1>2, TallyNone
<1>5. Tally(a \o b) = Tally(a)
  BY <1>3, <1>4
<1>6. Tally(s) = Tally(a)
  BY <1>1, <1>5
<1>7. QED
  BY <1>6 DEF a

\* What is said of every record of a file is a matter of its elements.
LEMMA ByElement ==
  ASSUME NEW s, NEW t, IsSeq(t), Elements(t) \subseteq Elements(s)
  PROVE  /\ \A rec, to : Part(s, rec, to) => Part(t, rec, to)
         /\ \A n : Vouches(s, n) => Vouches(t, n)
         /\ Unended(s) => Unended(t)
         /\ Chunkless(s) => Chunkless(t)
         /\ Quiet(s) => Quiet(t)
<1>1. \A i \in DOMAIN t : \E j \in DOMAIN s : t[i] = s[j]
  BY DEF Elements
<1>2. \A rec, to : Part(s, rec, to) => Part(t, rec, to)
  BY <1>1 DEF Part
<1>3. \A n : Vouches(s, n) => Vouches(t, n)
  <2> SUFFICES ASSUME NEW n, Vouches(s, n), NEW i \in DOMAIN t
               PROVE  /\ t[i].op = "manifest" => t[i] = Placeholder \/ t[i].count = n
                      /\ t[i].op = "slot" => t[i].version # LegacyVersion
    BY DEF Vouches
  <2>1. PICK j \in DOMAIN s : t[i] = s[j]
    BY <1>1
  <2>2. QED
    BY <2>1 DEF Vouches
<1>4. Unended(s) => Unended(t)
  BY <1>1 DEF Unended
<1>5. Chunkless(s) => Chunkless(t)
  BY <1>1 DEF Chunkless
<1>6. Quiet(s) => Quiet(t)
  BY <1>1 DEF Quiet
<1>7. QED
  BY <1>2, <1>3, <1>4, <1>5, <1>6

\* The slots an encryption or rotation makes.
MadeSlots(list, k) == Records(list, LAMBDA r : Slot(r, k))

\* Slots for a list of recipients belong to every recording, for these recipients.
LEMMA SlotsArePart ==
  ASSUME NEW list, IsSeq(list), NEW k, NEW to, \A h \in Elements(list) : <<h, k>> \in to
  PROVE  LET s == MadeSlots(list, k)
         IN /\ IsSeq(s) /\ Chunkless(s) /\ Unended(s)
            /\ \A rec : Part(s, rec, to)
            /\ \A n : Vouches(s, n)
<1> DEFINE s == MadeSlots(list, k)
<1>1. s = [i \in DOMAIN list |-> Slot(list[i], k)]
  BY DEF MadeSlots, Records
<1> HIDE DEF s
<1>2. IsSeq(s)
  BY <1>1, OfPositions
<1>3. DOMAIN s = DOMAIN list /\ \A i \in DOMAIN list : s[i] = Slot(list[i], k) /\ list[i] \in Elements(list)
  BY <1>1 DEF Elements
<1>4. Chunkless(s) /\ Unended(s)
  BY <1>3 DEF Chunkless, Unended, Slot, Ends
<1>5. \A rec : Part(s, rec, to)
  BY <1>2, <1>3 DEF Part, Genuine, HasShape, Slot
<1>6. \A n : Vouches(s, n)
  BY <1>3 DEF Vouches, Slot, WrappedKeyVersion, LegacyVersion
<1>7. QED
  BY <1>2, <1>4, <1>5, <1>6 DEF s

\* Definitions say nothing about chunks or recipients.
LEMMA DefsAreQuiet ==
  ASSUME NEW ds, IsSeq(ds)
  PROVE  Quiet(Records(ds, Def)) /\ Unended(Records(ds, Def))
<1> DEFINE s == Records(ds, Def)
<1>1. s = [i \in DOMAIN ds |-> Def(ds[i])]
  BY DEF Records
<1> HIDE DEF s
<1>2. IsSeq(s)
  BY <1>1, OfPositions
<1>3. \A i \in DOMAIN s : s[i] = Def(ds[i])
  BY <1>1
<1>4. Quiet(s) /\ Unended(s)
  BY <1>2, <1>3 DEF Quiet, Unended, Def, Ends
<1>5. QED
  BY <1>4 DEF s

\* DataEnd, summary, footer and magic hold neither chunks nor keys.
LEMMA SummaryIsQuiet ==
  ASSUME NEW ds, IsSeq(ds), NEW ps, IsSeq(ps)
  PROVE  Quiet(Summary(ds, ps))
<1> DEFINE a == Records(ds, Def)
           b == <<Statistics(Len(ps))>>
           c == Records(ps, ChunkIndex)
<1>1. Quiet(a)
  BY DefsAreQuiet
<1>2. Quiet(b)
  <2> DEFINE e == Statistics(Len(ps))
  <2>1. e.op = "statistics" /\ "op" \in DOMAIN e
    BY DEF Statistics
  <2> HIDE DEF e
  <2>2. IsSeq(<<e>>) /\ DOMAIN <<e>> = {1} /\ <<e>>[1] = e
    BY Single
  <2>3. QED
    BY <2>1, <2>2 DEF Quiet, e
<1>3. Quiet(c)
  <2>1. c = [i \in DOMAIN ps |-> ChunkIndex(ps[i])]
    BY DEF Records
  <2> HIDE DEF c
  <2>2. IsSeq(c)
    BY <2>1, OfPositions
  <2>3. \A i \in DOMAIN c : c[i] = ChunkIndex(ps[i])
    BY <2>1
  <2>4. QED
    BY <2>2, <2>3 DEF Quiet, ChunkIndex
<1> HIDE DEF a, b, c
<1>4. IsSeq(a) /\ IsSeq(b) /\ IsSeq(c)
  BY <1>1, <1>2, <1>3 DEF Quiet
<1>5. Quiet(a \o b) /\ IsSeq(a \o b)
  BY <1>1, <1>2, <1>4, Joining
<1>6. Quiet((a \o b) \o c)
  BY <1>3, <1>4, <1>5, Joining
<1>7. QED
  BY <1>6 DEF Summary, a, b, c

-----------------------------------------------------------------------------
(* Rotated files.                                                          *)

\* What a rotation keeps, in front of the new slots or behind them.
Kept(s) == \A i \in DOMAIN s : s[i].op \notin Ends \cup {"slot", "manifest"}

\* What is kept of two files.
LEMMA KeptConcat ==
  ASSUME NEW s, NEW t, IsSeq(s), IsSeq(t), Kept(s), Kept(t)
  PROVE  Kept(s \o t)
<1> DEFINE u == s \o t
<1>1. ASSUME NEW k \in DOMAIN u
      PROVE  \/ k \in DOMAIN s /\ u[k] = s[k]
             \/ \E i \in DOMAIN t : k = Len(s) + i /\ u[k] = t[i]
  BY <1>1, ConcatSplit
<1> HIDE DEF u
<1>2. Kept(u)
  BY <1>1 DEF Kept
<1>3. QED
  BY <1>2 DEF u

\* Of what is kept, nothing depends on recipients.
LEMMA KeptIs ==
  ASSUME NEW s, Kept(s)
  PROVE  /\ Unended(s)
         /\ \A n : Vouches(s, n)
         /\ \A rec, from, to : Part(s, rec, from) => Part(s, rec, to)
<1>1. Unended(s)
  BY DEF Kept, Unended
<1>2. \A n : Vouches(s, n)
  BY DEF Kept, Vouches
<1>3. \A rec, from, to : Part(s, rec, from) => Part(s, rec, to)
  BY DEF Kept, Part, Genuine
<1>4. QED
  BY <1>1, <1>2, <1>3

\* Records of the frame of a file.
LEMMA FrameIsQuiet ==
  ASSUME NEW e \in {Magic, Header, DataEnd, Footer, Attachment("note"), Torn}
  PROVE  Quiet(<<e>>)
<1>1. "op" \in DOMAIN e /\ e.op \notin {"encChunk", "slot", "manifest"}
  BY DEF Magic, Header, DataEnd, Footer, Attachment, Torn
<1>2. IsSeq(<<e>>) /\ DOMAIN <<e>> = {1} /\ <<e>>[1] = e
  BY Single
<1>3. QED
  BY <1>1, <1>2 DEF Quiet

\* Neither does the end of a file.
LEMMA EndingIsQuiet == Quiet(<<Footer, Magic>>)
<1> DEFINE e == Footer
           f == Magic
<1>1. /\ "op" \in DOMAIN e /\ e.op \notin {"encChunk", "slot", "manifest"}
      /\ "op" \in DOMAIN f /\ f.op \notin {"encChunk", "slot", "manifest"}
  BY DEF Magic, Footer
<1> HIDE DEF e, f
<1>2. IsSeq(<<e, f>>) /\ DOMAIN <<e, f>> = {1, 2} /\ <<e, f>>[1] = e /\ <<e, f>>[2] = f
  BY Pair
<1>3. Quiet(<<e, f>>)
  BY <1>1, <1>2 DEF Quiet
<1>4. QED
  BY <1>3 DEF e, f

\* A manifest by itself.
LEMMA ManifestAlone ==
  ASSUME NEW k, NEW n
  PROVE  LET s == <<Manifest(k, n)>>
         IN /\ IsSeq(s) /\ Chunkless(s) /\ Unended(s)
            /\ \A rec, to : Part(s, rec, to)
            /\ Vouches(s, n)
            /\ DOMAIN s = {1} /\ s[1] = Manifest(k, n)
<1> DEFINE e == Manifest(k, n)
<1>1. e.op = "manifest" /\ e.count = n /\ DOMAIN e = {"op", "key", "count"}
  BY DEF Manifest
<1> HIDE DEF e
<1>2. IsSeq(<<e>>) /\ DOMAIN <<e>> = {1} /\ <<e>>[1] = e
  BY Single
<1> DEFINE s == <<e>>
<1> HIDE DEF s
<1>3. Chunkless(s) /\ Unended(s) /\ Vouches(s, n)
  BY <1>1, <1>2 DEF Chunkless, Unended, Ends, Vouches, s
<1>4. \A rec, to : Part(s, rec, to)
  BY <1>1, <1>2 DEF Part, Genuine, HasShape, s
<1>5. QED
  BY <1>2, <1>3, <1>4 DEF s, e

\* The data has not ended behind a leading magic.
LEMMA OpenConcat ==
  ASSUME NEW t, IsSeq(t), Unended(t)
  PROVE  Open(<<Magic>> \o t)
<1> DEFINE s == <<Magic>>
<1>1. IsSeq(s) /\ DOMAIN s = {1}
  BY Single
<1> HIDE DEF s
<1>2. Open(s)
  BY <1>1 DEF Open
<1>3. Open(s \o t)
  BY <1>1, <1>2, Joining
<1>4. QED
  BY <1>3 DEF s

\* The layout of a rotated file, and of one the Python package encrypts.
Lead(head, list, k, n) ==
  <<Magic>> \o head \o MadeSlots(list, k) \o <<Manifest(k, n)>>
Laid(head, list, k, n, data, ds, ps) ==
  Lead(head, list, k, n) \o data \o <<DataEnd>> \o Summary(ds, ps) \o <<Footer, Magic>>

\* A file laid out in this way has the chunks of its data and slots for the new
\* recipients ahead of them.
LEMMA LaidOut ==
  ASSUME NEW head, IsSeq(head), Kept(head), NEW list, IsSeq(list), NEW k, NEW n,
         NEW data, IsSeq(data), Kept(data), NEW ds, IsSeq(ds), NEW ps, IsSeq(ps),
         Chunkless(head), NEW to, \A h \in Elements(list) : <<h, k>> \in to
  PROVE  LET s == Laid(head, list, k, n, data, ds, ps)
         IN /\ IsSeq(s)
            /\ \A rec : Part(head, rec, {}) /\ Part(data, rec, {}) => Part(s, rec, to)
            /\ Vouches(s, n) /\ Ahead(s) /\ Tally(s) = Tally(data)
<1> DEFINE a == <<Magic>>
           b == a \o head
           c == MadeSlots(list, k)
           d == b \o c
           e == <<Manifest(k, n)>>
           f == d \o e
           g == f \o data
           h == <<DataEnd>>
           i == g \o h
           j == Summary(ds, ps)
           l == i \o j
           o == <<Footer, Magic>>
<1>1. IsSeq(a) /\ Chunkless(a) /\ Tally(a) = 0 /\ (\A r : Part(a, r, to)) /\ Vouches(a, n) /\ Open(a)
  <2>1. Quiet(a)
    BY FrameIsQuiet
  <2>2. DOMAIN a = {1}
    BY Single
  <2> HIDE DEF a
  <2>3. Open(a)
    BY <2>2 DEF Open
  <2>4. QED
    BY <2>1, <2>3, QuietIs
<1>2. /\ IsSeq(c) /\ Chunkless(c) /\ Unended(c) /\ Vouches(c, n)
      /\ \A r : Part(c, r, to)
  BY SlotsArePart
<1>3. /\ IsSeq(e) /\ Chunkless(e) /\ Unended(e) /\ Vouches(e, n)
      /\ \A r : Part(e, r, to)
  BY ManifestAlone
<1>4. /\ IsSeq(h) /\ Chunkless(h) /\ Tally(h) = 0 /\ Vouches(h, n) /\ (\A r : Part(h, r, to))
      /\ IsSeq(j) /\ Chunkless(j) /\ Tally(j) = 0 /\ Vouches(j, n) /\ (\A r : Part(j, r, to))
      /\ IsSeq(o) /\ Chunkless(o) /\ Tally(o) = 0 /\ Vouches(o, n) /\ (\A r : Part(o, r, to))
  <2>1. Quiet(h) /\ Quiet(j) /\ Quiet(o)
    BY FrameIsQuiet, SummaryIsQuiet, EndingIsQuiet
  <2> HIDE DEF h, j, o
  <2>2. QED
    BY <2>1, QuietIs
<1>5. /\ Unended(head) /\ Vouches(head, n) /\ Unended(data) /\ Vouches(data, n)
      /\ \A r : Part(head, r, {}) => Part(head, r, to)
      /\ \A r : Part(data, r, {}) => Part(data, r, to)
  BY KeptIs
<1>6. Tally(head) = 0 /\ Tally(c) = 0 /\ Tally(e) = 0 /\ Tally(data) \in Nat
  BY <1>2, <1>3, TallyNone
<1> DEFINE P(s) == \A r : Part(head, r, to) /\ Part(data, r, to) => Part(s, r, to)
<1> HIDE DEF a, c, e, h, j, o
<1>7. IsSeq(b) /\ Vouches(b, n) /\ P(b) /\ Open(b) /\ Tally(b) = 0
  <2>1. IsSeq(b) /\ Vouches(b, n) /\ Open(b) /\ Tally(b) = Tally(a) + Tally(head)
    BY <1>1, <1>5, Joining
  <2>2. P(b)
    BY <1>1, Joining
  <2>3. QED
    BY <1>1, <1>6, <2>1, <2>2
<1> HIDE DEF b
<1>8. IsSeq(d) /\ Vouches(d, n) /\ P(d) /\ Open(d) /\ Tally(d) = 0
  <2>1. IsSeq(d) /\ Vouches(d, n) /\ Open(d) /\ Tally(d) = Tally(b) + Tally(c)
    BY <1>2, <1>7, Joining
  <2>2. P(d)
    BY <1>2, <1>7, Joining
  <2>3. QED
    BY <1>6, <1>7, <2>1, <2>2
<1> HIDE DEF d
<1>9. IsSeq(f) /\ Vouches(f, n) /\ P(f) /\ Open(f) /\ Tally(f) = 0
  <2>1. IsSeq(f) /\ Vouches(f, n) /\ Open(f) /\ Tally(f) = Tally(d) + Tally(e)
    BY <1>3, <1>8, Joining
  <2>2. P(f)
    BY <1>3, <1>8, Joining
  <2>3. QED
    BY <1>6, <1>8, <2>1, <2>2
<1> HIDE DEF f
<1>10. IsSeq(g) /\ Vouches(g, n) /\ P(g) /\ Ahead(g) /\ Tally(g) = Tally(data)
  <2>1. IsSeq(g) /\ Vouches(g, n) /\ Open(g) /\ Tally(g) = Tally(f) + Tally(data)
    BY <1>5, <1>9, Joining
  <2>2. P(g)
    BY <1>9, Joining
  <2>3. Ahead(g)
    BY <2>1, OpenIsAhead
  <2>4. QED
    BY <1>6, <1>9, <2>1, <2>2, <2>3
<1> HIDE DEF g
<1>11. IsSeq(i) /\ Vouches(i, n) /\ P(i) /\ Ahead(i) /\ Tally(i) = Tally(data)
  <2>1. IsSeq(i) /\ Vouches(i, n) /\ Ahead(i) /\ Tally(i) = Tally(g) + Tally(h)
    BY <1>4, <1>10, Joining
  <2>2. P(i)
    BY <1>4, <1>10, Joining
  <2>3. QED
    BY <1>4, <1>6, <1>10, <2>1, <2>2
<1> HIDE DEF i
<1>12. IsSeq(l) /\ Vouches(l, n) /\ P(l) /\ Ahead(l) /\ Tally(l) = Tally(data)
  <2>1. IsSeq(l) /\ Vouches(l, n) /\ Ahead(l) /\ Tally(l) = Tally(i) + Tally(j)
    BY <1>4, <1>11, Joining
  <2>2. P(l)
    BY <1>4, <1>11, Joining
  <2>3. QED
    BY <1>4, <1>6, <1>11, <2>1, <2>2
<1> HIDE DEF l
<1> DEFINE u == l \o o
<1>13. IsSeq(u) /\ Vouches(u, n) /\ P(u) /\ Ahead(u) /\ Tally(u) = Tally(data)
  <2>1. IsSeq(u) /\ Vouches(u, n) /\ Ahead(u) /\ Tally(u) = Tally(l) + Tally(o)
    BY <1>4, <1>12, Joining
  <2>2. P(u)
    BY <1>4, <1>12, Joining
  <2>3. QED
    BY <1>4, <1>6, <1>12, <2>1, <2>2
<1>14. Laid(head, list, k, n, data, ds, ps) = u
  BY DEF Laid, Lead, a, b, c, d, e, f, g, h, i, j, l, o
<1> HIDE DEF u
<1>15. \A rec : Part(head, rec, {}) /\ Part(data, rec, {}) => Part(u, rec, to)
  BY <1>5, <1>13
<1>16. QED
  BY <1>13, <1>14, <1>15

-----------------------------------------------------------------------------
(* Undisturbed files.                                                      *)

\* What a decryption can only open with a key that it has met, all records
\* with content of the recording, and all that a rotation has to find.
Late == {"encChunk", "encAttachment"}
Loads == Late \cup {"encMetadata", "attachment", "metadata"}
Sought == Loads \cup {"slot"}

\* All definitions of s are among W; all of W are defined in s.
Within(s, W) == \A i \in DOMAIN s : s[i].op = "def" => s[i].id \in W
Defined(s, W) == \A d \in W : \E j \in DOMAIN s : s[j].op = "def" /\ s[j].id = d

\* Everything is where a reader will look for it: content and slots ahead of
\* the end of the data, slots ahead of what they open, and the definitions of
\* W, and no others, ahead of the slots.
Settled(s, W) ==
  /\ Within(s, W)
  /\ \A i, j \in DOMAIN s : s[i].op \in Sought /\ j > 1 /\ s[j].op \in Ends => i < j
  /\ \A i, j \in DOMAIN s : s[i].op = "slot" /\ s[j].op \in Late => i < j
  /\ \A i \in DOMAIN s : s[i].op = "slot" =>
       \A d \in W : \E j \in DOMAIN s : j < i /\ s[j].op = "def" /\ s[j].id = d

Hollow(s) == \A i \in DOMAIN s : s[i].op \notin Sought
Slotless(s) == \A i \in DOMAIN s : s[i].op # "slot"
Lateless(s) == \A i \in DOMAIN s : s[i].op \notin Late

\* A file that begins with a record still does when more are added.
LEMMA StaysFilled ==
  ASSUME NEW s, NEW t, IsSeq(s), IsSeq(t), s # <<>>
  PROVE  1 \in DOMAIN s /\ s \o t # <<>> /\ (s \o t)[1] = s[1]
<1> DEFINE u == s \o t
<1>1. /\ Len(s) \in Nat /\ Len(t) \in Nat /\ DOMAIN s = 1..Len(s)
      /\ DOMAIN u = 1..(Len(s) + Len(t)) /\ \A i \in 1..Len(s) : u[i] = s[i]
  BY Concat
<1>2. Len(s) # 0
  <2> DEFINE S == Elements(s)
  <2>1. s \in Seq(S)
    BY DEF IsSeq
  <2> HIDE DEF S
  <2>2. QED
    BY <2>1
<1>3. 1 \in 1..Len(s) /\ 1 \in DOMAIN u
  BY <1>1, <1>2
<1> HIDE DEF u
<1>4. u # <<>>
  <2>1. DOMAIN <<>> = {}
    OBVIOUS
  <2>2. QED
    BY <1>3, <2>1
<1>5. QED
  BY <1>1, <1>3, <1>4 DEF u

\* More records are added in their place.
LEMMA SettledMore ==
  ASSUME NEW s, NEW t, IsSeq(s), IsSeq(t), s # <<>>, NEW W, Settled(s, W), Within(t, W),
         (Open(s) /\ Unended(t)) \/ Hollow(t),
         Slotless(t) \/ (Defined(s, W) /\ Lateless(s) /\ Lateless(t))
  PROVE  Settled(s \o t, W)
<1> DEFINE u == s \o t
           n == Len(s)
<1>1. /\ n \in Nat /\ DOMAIN s = 1..n /\ DOMAIN t = 1..Len(t) /\ Len(t) \in Nat
      /\ DOMAIN u = 1..(n + Len(t))
      /\ \A i \in 1..n : u[i] = s[i]
  BY Concat
<1>2. \A i \in 1..Len(t) : u[n + i] = t[i]
  BY Concat
<1>3. \A k \in DOMAIN u : \/ k \in DOMAIN s /\ u[k] = s[k]
                          \/ \E i \in DOMAIN t : k = n + i /\ u[k] = t[i]
  BY ConcatSplit
<1>4. n > 0
  BY <1>1, StaysFilled
<1> HIDE DEF u, n
<1>5. Within(u, W)
  BY <1>3 DEF Within, Settled
<1>6. ASSUME NEW i \in DOMAIN u, NEW j \in DOMAIN u,
             u[i].op \in Sought, j > 1, u[j].op \in Ends
      PROVE  i < j
  <2>1. CASE i \in DOMAIN s /\ u[i] = s[i]
    <3>1. CASE j \in DOMAIN s /\ u[j] = s[j]
      BY <1>6, <2>1, <3>1 DEF Settled
    <3>2. CASE \E l \in DOMAIN t : j = n + l
      BY <1>1, <2>1, <3>2
    <3>3. QED
      BY <1>3, <3>1, <3>2
  <2>2. ASSUME NEW k \in DOMAIN t, i = n + k, u[i] = t[k]
        PROVE  i < j
    <3>1. ~ Hollow(t)
      BY <1>6, <2>2 DEF Hollow
    <3>2. Open(s) /\ Unended(t)
      BY <3>1
    <3>3. CASE j \in DOMAIN s /\ u[j] = s[j]
      BY <1>6, <3>2, <3>3 DEF Open
    <3>4. CASE \E l \in DOMAIN t : u[j] = t[l]
      BY <1>6, <3>2, <3>4 DEF Unended
    <3>5. QED
      BY <1>3, <3>3, <3>4
  <2>3. QED
    BY <1>3, <2>1, <2>2
<1>7. ASSUME NEW i \in DOMAIN u, NEW j \in DOMAIN u, u[i].op = "slot", u[j].op \in Late
      PROVE  i < j
  <2>1. CASE i \in DOMAIN s /\ u[i] = s[i]
    <3>1. CASE j \in DOMAIN s /\ u[j] = s[j]
      BY <1>7, <2>1, <3>1 DEF Settled
    <3>2. CASE \E l \in DOMAIN t : j = n + l
      BY <1>1, <2>1, <3>2
    <3>3. QED
      BY <1>3, <3>1, <3>2
  <2>2. ASSUME NEW k \in DOMAIN t, u[i] = t[k]
        PROVE  FALSE
    <3>1. Lateless(s) /\ Lateless(t)
      BY <1>7, <2>2 DEF Slotless
    <3>2. QED
      BY <1>3, <1>7, <3>1 DEF Lateless
  <2>3. QED
    BY <1>3, <2>1, <2>2
<1>8. ASSUME NEW i \in DOMAIN u, u[i].op = "slot", NEW d \in W
      PROVE  \E j \in DOMAIN u : j < i /\ u[j].op = "def" /\ u[j].id = d
  <2>1. \A j \in DOMAIN s : j \in DOMAIN u /\ u[j] = s[j]
    BY <1>1
  <2>2. CASE i \in DOMAIN s /\ u[i] = s[i]
    <3>1. \E j \in DOMAIN s : j < i /\ s[j].op = "def" /\ s[j].id = d
      BY <1>8, <2>2 DEF Settled
    <3>2. QED
      BY <2>1, <3>1
  <2>3. ASSUME NEW k \in DOMAIN t, i = n + k, u[i] = t[k]
        PROVE  \E j \in DOMAIN u : j < i /\ u[j].op = "def" /\ u[j].id = d
    <3>1. Defined(s, W)
      BY <1>8, <2>3 DEF Slotless
    <3>2. PICK j \in DOMAIN s : s[j].op = "def" /\ s[j].id = d
      BY <3>1 DEF Defined
    <3>3. j < i
      BY <1>1, <2>3, <3>2
    <3>4. QED
      BY <2>1, <3>2, <3>3
  <2>4. QED
    BY <1>3, <2>2, <2>3
<1>9. Settled(u, W)
  BY <1>5, <1>6, <1>7, <1>8 DEF Settled
<1>10. QED
  BY <1>9 DEF u

\* A record is replaced by another of its kind that is no definition.
LEMMA SettledSame ==
  ASSUME NEW s, NEW t, NEW W, Settled(s, W), DOMAIN t = DOMAIN s,
         \A i \in DOMAIN s : t[i].op = s[i].op /\ (s[i].op = "def" => t[i] = s[i])
  PROVE  Settled(t, W)
<1>1. Within(t, W)
  BY DEF Settled, Within
<1>2. \A i \in DOMAIN t : t[i].op = "slot" =>
        \A d \in W : \E j \in DOMAIN t : j < i /\ t[j].op = "def" /\ t[j].id = d
  BY DEF Settled
<1>3. QED
  BY <1>1, <1>2 DEF Settled

\* What holds of two lists of records holds of both together.
LEMMA SettledParts ==
  ASSUME NEW s, NEW t, IsSeq(s), IsSeq(t)
  PROVE  /\ \A W : Within(s, W) /\ Within(t, W) => Within(s \o t, W)
         /\ Hollow(s) /\ Hollow(t) => Hollow(s \o t)
         /\ Slotless(s) /\ Slotless(t) => Slotless(s \o t)
         /\ Lateless(s) /\ Lateless(t) => Lateless(s \o t)
         /\ \A W : Defined(s, W) \/ Defined(t, W) => Defined(s \o t, W)
<1> DEFINE u == s \o t
<1>1. \A k \in DOMAIN u : \/ k \in DOMAIN s /\ u[k] = s[k]
                          \/ \E i \in DOMAIN t : u[k] = t[i]
  BY ConcatSplit
<1>2. /\ \A i \in DOMAIN s : i \in DOMAIN u /\ u[i] = s[i]
      /\ \A i \in DOMAIN t : Len(s) + i \in DOMAIN u /\ u[Len(s) + i] = t[i]
  <2>1. /\ Len(s) \in Nat /\ Len(t) \in Nat
        /\ DOMAIN s = 1..Len(s) /\ DOMAIN t = 1..Len(t)
        /\ DOMAIN u = 1..(Len(s) + Len(t))
        /\ \A i \in 1..Len(s) : u[i] = s[i]
        /\ \A i \in 1..Len(t) : u[Len(s) + i] = t[i]
    BY Concat
  <2> HIDE DEF u
  <2>2. QED
    BY <2>1
<1> HIDE DEF u
<1>3. \A W : Within(s, W) /\ Within(t, W) => Within(u, W)
  BY <1>1 DEF Within
<1>4. Hollow(s) /\ Hollow(t) => Hollow(u)
  BY <1>1 DEF Hollow
<1>5. Slotless(s) /\ Slotless(t) => Slotless(u)
  BY <1>1 DEF Slotless
<1>6. Lateless(s) /\ Lateless(t) => Lateless(u)
  BY <1>1 DEF Lateless
<1>7. ASSUME NEW W, Defined(s, W) \/ Defined(t, W) PROVE Defined(u, W)
  BY <1>2, <1>7 DEF Defined
<1>8. QED
  BY <1>3, <1>4, <1>5, <1>6, <1>7 DEF u

\* A file of the magic alone is settled.
LEMMA SettledMagic ==
  ASSUME NEW W
  PROVE  /\ Settled(<<Magic>>, W) /\ Open(<<Magic>>) /\ Slotless(<<Magic>>)
         /\ Lateless(<<Magic>>) /\ <<Magic>> # <<>> /\ IsSeq(<<Magic>>)
<1> DEFINE e == Magic
           s == <<e>>
<1>1. e.op = "magic"
  BY DEF Magic
<1> HIDE DEF e
<1>2. IsSeq(s) /\ DOMAIN s = {1} /\ s[1] = e
  BY Single
<1>3. s # <<>>
  OBVIOUS
<1> HIDE DEF s
<1>4. \A i \in DOMAIN s : i = 1 /\ s[i].op = "magic"
  BY <1>1, <1>2
<1>5. Settled(s, W) /\ Open(s) /\ Slotless(s) /\ Lateless(s)
  BY <1>4 DEF Settled, Open, Slotless, Lateless, Within, Sought, Loads, Late
<1>6. QED
  BY <1>2, <1>3, <1>5 DEF s, e

\* The definitions of W as records.
LEMMA DefRecords ==
  ASSUME NEW ds, IsSeq(ds), NEW W, Elements(ds) \subseteq W
  PROVE  LET t == Records(ds, Def)
         IN /\ IsSeq(t) /\ Within(t, W) /\ Hollow(t) /\ Slotless(t) /\ Lateless(t)
            /\ Unended(t)
            /\ Elements(ds) = W => Defined(t, W)
<1> DEFINE t == Records(ds, Def)
<1>1. DOMAIN t = DOMAIN ds /\ \A i \in DOMAIN ds : t[i] = Def(ds[i])
  BY DEF Records
<1>2. IsSeq(t) /\ Unended(t)
  BY DefsAreQuiet DEF Quiet
<1> HIDE DEF t
<1>3. \A i \in DOMAIN t : t[i].op = "def" /\ t[i].id = ds[i]
  BY <1>1 DEF Def
<1>4. Within(t, W)
  BY <1>1, <1>3 DEF Within, Elements
<1>5. Hollow(t) /\ Slotless(t) /\ Lateless(t)
  BY <1>3 DEF Hollow, Slotless, Lateless, Sought, Loads, Late
<1>6. ASSUME Elements(ds) = W PROVE Defined(t, W)
  BY <1>1, <1>3, <1>6 DEF Defined, Elements
<1>7. QED
  BY <1>2, <1>4, <1>5, <1>6 DEF t

\* Neither definitions nor anything that is looked for.
Mute(s) == \A i \in DOMAIN s : s[i].op \notin Sought \cup {"def"}

LEMMA MuteIs ==
  ASSUME NEW s, Mute(s)
  PROVE  Hollow(s) /\ Slotless(s) /\ Lateless(s) /\ \A W : Within(s, W)
BY DEF Mute, Hollow, Slotless, Lateless, Within, Sought, Loads

\* A summary says nothing of content or keys.
LEMMA SummaryIsHollow ==
  ASSUME NEW ds, IsSeq(ds), NEW W, Elements(ds) \subseteq W, NEW ps, IsSeq(ps)
  PROVE  LET t == Summary(ds, ps)
         IN IsSeq(t) /\ Within(t, W) /\ Hollow(t) /\ Slotless(t)
<1> DEFINE a == Records(ds, Def)
           e == Statistics(Len(ps))
           b == <<e>>
           c == Records(ps, ChunkIndex)
<1>1. IsSeq(a) /\ Within(a, W) /\ Hollow(a) /\ Slotless(a)
  BY DefRecords
<1>2. IsSeq(b) /\ Mute(b)
  <2>1. e.op = "statistics"
    BY DEF Statistics
  <2> HIDE DEF e
  <2>2. IsSeq(b) /\ DOMAIN b = {1} /\ b[1] = e
    BY Single
  <2> HIDE DEF b
  <2>3. QED
    BY <2>1, <2>2 DEF Mute, Sought, Loads, Late
<1>3. IsSeq(c) /\ Mute(c)
  <2>1. DOMAIN c = DOMAIN ps /\ \A i \in DOMAIN ps : c[i] = ChunkIndex(ps[i])
    BY DEF Records
  <2>2. c = [i \in DOMAIN ps |-> c[i]]
    BY DEF Records
  <2> HIDE DEF c
  <2>3. IsSeq(c)
    BY <2>1, <2>2, OfPositions
  <2>4. \A i \in DOMAIN c : c[i].op = "chunkIndex"
    BY <2>1 DEF ChunkIndex
  <2>5. QED
    BY <2>3, <2>4 DEF Mute, Sought, Loads, Late
<1>4. Summary(ds, ps) = (a \o b) \o c
  BY DEF Summary
<1> HIDE DEF a, b, c, e
<1>5. Hollow(b) /\ Slotless(b) /\ Within(b, W) /\ Hollow(c) /\ Slotless(c) /\ Within(c, W)
  BY <1>2, <1>3, MuteIs
<1> DEFINE d == a \o b
<1>6. IsSeq(d) /\ Hollow(d) /\ Slotless(d) /\ Within(d, W)
  BY <1>1, <1>2, <1>5, Concat, SettledParts
<1> HIDE DEF d
<1>7. IsSeq(d \o c) /\ Hollow(d \o c) /\ Slotless(d \o c) /\ Within(d \o c, W)
  BY <1>3, <1>5, <1>6, Concat, SettledParts
<1>8. QED
  BY <1>4, <1>7 DEF d

\* Slots are nothing but slots.
LEMMA SlotsOnly ==
  ASSUME NEW t, \A i \in DOMAIN t : t[i].op = "slot"
  PROVE  Lateless(t) /\ Unended(t) /\ \A W : Within(t, W)
BY DEF Lateless, Unended, Within, Late, Ends

\* Definitions and other records in front, and the slots behind them.
LEMMA SettledOpening ==
  ASSUME NEW s, NEW a, NEW b, IsSeq(s), IsSeq(a), IsSeq(b), s # <<>>, NEW W,
         Settled(s, W), Open(s), Lateless(s),
         Within(a, W), Unended(a), Slotless(a), Lateless(a), Defined(a, W),
         \A i \in DOMAIN b : b[i].op = "slot"
  PROVE  LET u == (s \o a) \o b
         IN IsSeq(u) /\ u # <<>> /\ Settled(u, W) /\ Open(u) /\ Lateless(u) /\ u[1] = s[1]
<1> DEFINE c == s \o a
           u == c \o b
<1>1. IsSeq(c) /\ Settled(c, W) /\ Open(c) /\ Lateless(c) /\ Defined(c, W)
  BY Concat, SettledMore, SettledParts, Joining
<1>2. 1 \in DOMAIN s /\ c # <<>> /\ c[1] = s[1]
  BY StaysFilled
<1> HIDE DEF c
<1>3. Lateless(b) /\ Unended(b) /\ Within(b, W)
  BY SlotsOnly
<1>4. IsSeq(u) /\ Settled(u, W) /\ Open(u) /\ Lateless(u)
  BY <1>1, <1>2, <1>3, Concat, SettledMore, SettledParts, Joining
<1>5. u # <<>> /\ u[1] = c[1]
  BY <1>1, <1>2, StaysFilled
<1>6. QED
  BY <1>2, <1>4, <1>5 DEF c

\* There are no bodies where there are no records.
LEMMA BodiesNone ==
  ASSUME NEW s, IsSeq(s), NEW op, \A i \in DOMAIN s : s[i].op # op
  PROVE  Bodies(s, op) = <<>>
<1>1. OfKind(s, {op}) = <<>>
  BY OfKindNone
<1>2. Len(Bodies(s, op)) = Len(OfKind(s, {op})) /\ IsSeq(Bodies(s, op))
  BY BodiesForm
<1>3. Len(<<>>) = 0
  OBVIOUS
<1> DEFINE b == Bodies(s, op)
           S == Elements(b)
<1>4. b \in Seq(S) /\ Len(b) = 0
  BY <1>1, <1>2, <1>3 DEF IsSeq
<1> HIDE DEF b, S
<1>5. b = <<>>
  BY <1>4
<1>6. QED
  BY <1>5 DEF b

\* One more record, which is no slot.
LEMMA LaysOne ==
  ASSUME NEW s, IsSeq(s), s # <<>>, NEW W, Settled(s, W), NEW e, e.op \notin {"def", "slot"},
         (Open(s) /\ e.op \notin Ends) \/ e.op \notin Loads
  PROVE  LET u == s \o <<e>>
         IN /\ IsSeq(u) /\ u # <<>> /\ Settled(u, W) /\ u[1] = s[1]
            /\ Open(s) /\ e.op \notin Ends => Open(u)
            /\ Slotless(s) => Slotless(u)
<1> DEFINE t == <<e>>
<1>1. IsSeq(t) /\ DOMAIN t = {1} /\ t[1] = e
  BY Single
<1> HIDE DEF t
<1>2. Within(t, W) /\ Slotless(t)
  BY <1>1 DEF Within, Slotless
<1>3. e.op \notin Ends => Unended(t)
  BY <1>1 DEF Unended
<1>4. e.op \notin Loads => Hollow(t)
  BY <1>1 DEF Hollow, Sought
<1>5. Settled(s \o t, W)
  BY <1>1, <1>2, <1>3, <1>4, SettledMore
<1>6. IsSeq(s \o t) /\ s \o t # <<>> /\ (s \o t)[1] = s[1]
  BY <1>1, Concat, StaysFilled
<1>7. Open(s) /\ e.op \notin Ends => Open(s \o t)
  BY <1>1, <1>3, Joining
<1>8. Slotless(s) => Slotless(s \o t)
  BY <1>1, <1>2, SettledParts
<1>9. QED
  BY <1>5, <1>6, <1>7, <1>8 DEF t

\* No file at all is settled.
LEMMA NothingIsSettled == \A W : Settled(<<>>, W) /\ Slotless(<<>>)
<1>1. DOMAIN <<>> = {}
  OBVIOUS
<1> DEFINE s == <<>>
<1> HIDE DEF s
<1>2. ASSUME DOMAIN s = {} PROVE \A W : Settled(s, W) /\ Slotless(s)
  BY <1>2 DEF Settled, Slotless, Within
<1>3. QED
  BY <1>1, <1>2 DEF s

-----------------------------------------------------------------------------
(* What a file holds besides chunks, through a new layout.                 *)

Contents == {"attachment", "encAttachment", "metadata", "encMetadata"}

\* What has no record of a kind adds no body of that kind.
LEMMA NoneAdded ==
  ASSUME NEW s, NEW t, IsSeq(s), IsSeq(t), NEW op, \A i \in DOMAIN t : t[i].op # op
  PROVE  Bodies(s \o t, op) = Bodies(s, op) /\ Bodies(t \o s, op) = Bodies(s, op)
<1>1. Bodies(t, op) = <<>>
  BY BodiesNone
<1>2. /\ Bodies(s \o t, op) = Bodies(s, op) \o Bodies(t, op)
      /\ Bodies(t \o s, op) = Bodies(t, op) \o Bodies(s, op)
  BY BodiesConcat
<1>3. IsSeq(Bodies(s, op))
  BY BodiesForm
<1> HIDE DEF IsSeq
<1>4. Bodies(s, op) \o <<>> = Bodies(s, op) /\ <<>> \o Bodies(s, op) = Bodies(s, op)
  BY <1>1, <1>3, ConcatLen
<1>5. QED
  BY <1>1, <1>2, <1>4

\* Records that carry no contents.
Blank(s) == \A i \in DOMAIN s : s[i].op \notin Contents

\* They add nothing to the contents.
LEMMA BlankAdds ==
  ASSUME NEW s, NEW t, IsSeq(s), IsSeq(t), Blank(t)
  PROVE  \A op \in Contents : Bodies(s \o t, op) = Bodies(s, op)
                              /\ Bodies(t \o s, op) = Bodies(s, op)
<1>1. TAKE op \in Contents
<1>2. \A i \in DOMAIN t : t[i].op # op
  BY <1>1 DEF Blank
<1>3. QED
  BY <1>2, NoneAdded

\* The front of a file that has all of a kind of records has their bodies.
LEMMA FrontHasAll ==
  ASSUME NEW s, IsSeq(s), NEW m \in 0..Len(s), NEW op,
         \A i \in DOMAIN s : s[i].op = op => i <= m
  PROVE  Bodies(SubSeq(s, 1, m), op) = Bodies(s, op)
<1> DEFINE a == SubSeq(s, 1, m)
           b == SubSeq(s, m + 1, Len(s))
<1>1. IsSeq(a)
  BY FrontOf
<1>2. IsSeq(b) /\ \A i \in DOMAIN b : b[i].op # op
  <2>1. /\ IsSeq(b) /\ DOMAIN b = 1..(Len(s) - m)
        /\ \A i \in 1..(Len(s) - m) : b[i] = s[m + i] /\ m + i \in DOMAIN s
    BY BackOf
  <2>2. Len(s) \in Nat
    BY AsFunction
  <2> HIDE DEF b
  <2>3. ASSUME NEW i \in DOMAIN b PROVE b[i].op # op
    <3>1. i >= 1 /\ i \in Nat /\ ~ (m + i <= m)
      BY <2>1, <2>2
    <3>2. QED
      BY <2>1, <3>1
  <2>4. QED
    BY <2>1, <2>3
<1>3. s = a \o b
  BY FrontAndBack
<1> HIDE DEF a, b
<1>4. Bodies(a \o b, op) = Bodies(a, op)
  BY <1>1, <1>2, NoneAdded
<1>5. QED
  BY <1>3, <1>4 DEF a

\* Two files that match in their places, one kind for another, have the same
\* bodies there.
LEMMA BodiesMatch ==
  ASSUME NEW s, NEW t, IsSeq(s), IsSeq(t), DOMAIN s = DOMAIN t, NEW op, NEW or,
         \A i \in DOMAIN s : s[i].op = op <=> t[i].op = or,
         \A i \in DOMAIN s : s[i].op = op => s[i].body = t[i].body
  PROVE  Bodies(s, op) = Bodies(t, or)
<1> DEFINE at == KindAt(s, {op})
<1>1. at \in SUBSET DOMAIN s /\ at = KindAt(t, {or}) /\ at \in SUBSET DOMAIN t
  BY DEF KindAt
<1>2. \A i \in at : s[i].op = op
  BY DEF KindAt
<1>3. OfKind(s, {op}) = Selected(s, at) /\ OfKind(t, {or}) = Selected(t, at)
  BY <1>1, OfKindForm
<1> HIDE DEF at
<1> DEFINE n == Cardinality(at)
           is == Sorted(at)
<1>4. /\ n \in Nat /\ Enumerates(is, n, at)
      /\ Selected(s, at) = [k \in 1..n |-> s[is[k]]]
  BY <1>1, SelectedBy
<1>5. Selected(t, at) = [k \in 1..n |-> t[is[k]]]
  BY <1>1, SelectedBy
<1>6. \A k \in 1..n : is[k] \in at
  BY <1>4 DEF Enumerates
<1> HIDE DEF n, is
<1>7. Bodies(s, op) = [k \in 1..n |-> s[is[k]].body]
  BY <1>3, <1>4 DEF Bodies
<1>8. Bodies(t, or) = [k \in 1..n |-> t[is[k]].body]
  BY <1>3, <1>5 DEF Bodies
<1>9. \A k \in 1..n : s[is[k]].body = t[is[k]].body
  BY <1>1, <1>2, <1>6
<1>10. QED
  BY <1>7, <1>8, <1>9

\* A file that begins with its magic and is in order.
Sound(s, W) == IsSeq(s) /\ s # <<>> /\ s[1] = Magic /\ Settled(s, W)

\* The contents of s are those of t, and behind them those of u.
Combines(s, t, u) == \A op \in Contents : Bodies(s, op) = Bodies(t, op) \o Bodies(u, op)

\* The new layout of a rotation, or of a Python encryption: in order, and
\* with the contents of what it was made from.
LEMMA LaidSettles ==
  ASSUME NEW W,
         NEW head, IsSeq(head), Within(head, W), Unended(head), Slotless(head),
         Lateless(head), Defined(head, W),
         NEW data, IsSeq(data), Within(data, W), Unended(data), Slotless(data),
         NEW list, IsSeq(list), NEW k, NEW n,
         NEW ds, IsSeq(ds), Elements(ds) \subseteq W, NEW ps, IsSeq(ps)
  PROVE  LET s == Laid(head, list, k, n, data, ds, ps)
         IN Sound(s, W) /\ Combines(s, head, data)
<1> DEFINE a == <<Magic>>
           c == MadeSlots(list, k)
           e == Manifest(k, n)
           j == Summary(ds, ps)
           o == <<Footer, Magic>>
           u1 == (a \o head) \o c
           u2 == u1 \o <<e>>
           u3 == u2 \o data
           u4 == u3 \o <<DataEnd>>
           u5 == u4 \o j
           u6 == u5 \o o
           Has(u, s) == \A op \in Contents : Bodies(u, op) = Bodies(s, op)
           Both(u) == \A op \in Contents : Bodies(u, op) = Bodies(head, op) \o Bodies(data, op)
<1>1. /\ Settled(a, W) /\ Open(a) /\ Slotless(a) /\ Lateless(a) /\ a # <<>> /\ IsSeq(a)
      /\ a[1] = Magic
  BY SettledMagic, Single
<1>2. IsSeq(c) /\ \A i \in DOMAIN c : c[i].op = "slot"
  <2>1. c = [i \in DOMAIN list |-> Slot(list[i], k)] /\ DOMAIN list = 1..Len(list) /\ Len(list) \in Nat
    BY AsFunction DEF MadeSlots, Records
  <2>2. \A i \in DOMAIN list : Slot(list[i], k).op = "slot"
    BY DEF Slot
  <2> HIDE DEF c
  <2>3. c \in [1..Len(list) -> Elements(c)]
    BY <2>1 DEF Elements
  <2>4. IsSeq(c)
    BY <2>1, <2>3, OfFunction
  <2>5. QED
    BY <2>1, <2>2, <2>4
<1>3. e.op = "manifest" /\ DataEnd.op = "dataEnd" /\ Magic.op = "magic" /\ Footer.op = "footer"
  BY DEF Manifest, DataEnd, Magic, Footer
<1>4. IsSeq(j) /\ Within(j, W) /\ Hollow(j) /\ Slotless(j)
  BY SummaryIsHollow
<1>5. IsSeq(o) /\ Within(o, W) /\ Hollow(o) /\ Slotless(o)
  <2>1. /\ IsSeq(o) /\ DOMAIN o = {1, 2} /\ o[1] = Footer /\ o[2] = Magic
    BY Pair
  <2> HIDE DEF o
  <2>2. Mute(o)
    BY <1>3, <2>1 DEF Mute, Sought, Loads, Late
  <2>3. QED
    BY <2>1, <2>2, MuteIs
<1>6. Blank(a) /\ Blank(c) /\ Blank(<<e>>) /\ Blank(<<DataEnd>>) /\ Blank(j) /\ Blank(o)
  <2>1. DOMAIN a = {1} /\ a[1] = Magic
    BY Single
  <2>2. Blank(a) /\ Blank(c)
    BY <1>2, <1>3, <2>1 DEF Blank, Contents
  <2>3. \A r : DOMAIN <<r>> = {1} /\ <<r>>[1] = r
    BY Single
  <2>4. Blank(<<e>>) /\ Blank(<<DataEnd>>)
    <3> HIDE DEF e
    <3>1. QED
      BY <1>3, <2>3 DEF Blank, Contents
  <2>5. Blank(j) /\ Blank(o)
    <3> HIDE DEF j, o
    <3>1. QED
      BY <1>4, <1>5 DEF Blank, Hollow, Contents, Sought, Loads, Late
  <2>6. QED
    BY <2>2, <2>4, <2>5
<1>7. IsSeq(<<e>>) /\ IsSeq(<<DataEnd>>)
  BY Single
<1> HIDE DEF a, c, e, j, o
<1>8. IsSeq(u1) /\ u1 # <<>> /\ Settled(u1, W) /\ Open(u1) /\ u1[1] = Magic /\ Has(u1, head)
  <2>1. IsSeq(u1) /\ u1 # <<>> /\ Settled(u1, W) /\ Open(u1) /\ u1[1] = Magic
    BY <1>1, <1>2, SettledOpening
  <2>2. IsSeq(a \o head)
    BY <1>1, Concat
  <2>3. Has(u1, a \o head) /\ Has(a \o head, head)
    BY <1>1, <1>2, <1>6, <2>2, BlankAdds
  <2> HIDE DEF u1
  <2>4. QED
    BY <2>1, <2>3
<1> HIDE DEF u1
<1>9. IsSeq(u2) /\ u2 # <<>> /\ Settled(u2, W) /\ Open(u2) /\ u2[1] = Magic /\ Has(u2, head)
  <2>1. e.op \notin {"def", "slot"} /\ e.op \notin Ends
    BY <1>3 DEF Ends
  <2>2. IsSeq(u2) /\ u2 # <<>> /\ Settled(u2, W) /\ Open(u2) /\ u2[1] = Magic
    BY <1>8, <2>1, LaysOne
  <2>3. Has(u2, u1)
    BY <1>6, <1>7, <1>8, BlankAdds
  <2> HIDE DEF u2
  <2>4. QED
    BY <1>8, <2>2, <2>3
<1> HIDE DEF u2
<1>10. IsSeq(u3) /\ u3 # <<>> /\ Settled(u3, W) /\ u3[1] = Magic /\ Both(u3)
  <2>1. Settled(u3, W)
    BY <1>9, SettledMore
  <2>2. IsSeq(u3)
    BY <1>9, Concat
  <2>3. u3 # <<>> /\ u3[1] = Magic
    BY <1>9, StaysFilled
  <2>4. \A op \in Contents : Bodies(u3, op) = Bodies(u2, op) \o Bodies(data, op)
    BY <1>9, BodiesConcat
  <2> HIDE DEF u3
  <2>5. QED
    BY <1>9, <2>1, <2>2, <2>3, <2>4
<1> HIDE DEF u3
<1>11. IsSeq(u4) /\ u4 # <<>> /\ Settled(u4, W) /\ u4[1] = Magic /\ Both(u4)
  <2>1. DataEnd.op \notin {"def", "slot"} /\ DataEnd.op \notin Loads
    BY <1>3 DEF Loads, Late
  <2>2. IsSeq(u4) /\ u4 # <<>> /\ Settled(u4, W) /\ u4[1] = Magic
    BY <1>10, <2>1, LaysOne
  <2>3. Has(u4, u3)
    BY <1>6, <1>7, <1>10, BlankAdds
  <2> HIDE DEF u4
  <2>4. QED
    BY <1>10, <2>2, <2>3
<1> HIDE DEF u4
<1>12. IsSeq(u5) /\ u5 # <<>> /\ Settled(u5, W) /\ u5[1] = Magic /\ Both(u5)
  <2>1. Settled(u5, W)
    BY <1>4, <1>11, SettledMore
  <2>2. IsSeq(u5) /\ u5 # <<>> /\ u5[1] = Magic
    BY <1>4, <1>11, Concat, StaysFilled
  <2>3. Has(u5, u4)
    BY <1>4, <1>6, <1>11, BlankAdds
  <2> HIDE DEF u5
  <2>4. QED
    BY <1>11, <2>1, <2>2, <2>3
<1> HIDE DEF u5
<1>13. IsSeq(u6) /\ u6 # <<>> /\ Settled(u6, W) /\ u6[1] = Magic /\ Both(u6)
  <2>1. Settled(u6, W)
    BY <1>5, <1>12, SettledMore
  <2>2. IsSeq(u6) /\ u6 # <<>> /\ u6[1] = Magic
    BY <1>5, <1>12, Concat, StaysFilled
  <2>3. Has(u6, u5)
    BY <1>5, <1>6, <1>12, BlankAdds
  <2> HIDE DEF u6
  <2>4. QED
    BY <1>12, <2>1, <2>2, <2>3
<1>14. Laid(head, list, k, n, data, ds, ps) = u6
  BY DEF Laid, Lead, u6, u5, u4, u3, u2, u1, a, c, e, j, o
<1> HIDE DEF u6
<1>15. QED
  BY <1>13, <1>14 DEF Sound, Combines

\* The records of a kind in a selection.
LEMMA KindOfSelected ==
  ASSUME NEW s, IsSeq(s), NEW at \in SUBSET DOMAIN s, NEW K
  PROVE  OfKind(Selected(s, at), K) = Selected(s, at \cap KindAt(s, K))
<1> DEFINE t == Selected(s, at)
           q == Sorted(at)
           c == Cardinality(at)
           bt == KindAt(t, K)
<1>1. /\ c \in Nat /\ Enumerates(q, c, at)
      /\ t = [k \in 1..c |-> s[q[k]]]
  BY SelectedBy
<1>2. \A i \in at : \E k \in 1..c : q[k] = i
  BY <1>1 DEF Enumerates
<1> HIDE DEF t, q, c
<1>3. DOMAIN t = 1..c /\ \A k \in 1..c : t[k] = s[q[k]]
  BY <1>1
<1>4. \A k \in 1..c : q[k] \in at
  BY <1>1 DEF Enumerates
<1>5. OfKind(t, K) = Selected(t, bt) /\ bt \in SUBSET DOMAIN t
  BY OfKindForm
<1>6. Selected(t, bt) = Selected(s, Through(at, bt))
  BY <1>5, SelectedTwice DEF t
<1>7. Through(at, bt) = at \cap KindAt(s, K)
  <2>1. \A i : i \in Through(at, bt) <=> \E k \in bt : q[k] = i
    BY DEF Through, q
  <2>2. ASSUME NEW k \in bt PROVE q[k] \in at \cap KindAt(s, K)
    BY <1>3, <1>4 DEF KindAt
  <2>3. ASSUME NEW i \in at \cap KindAt(s, K) PROVE \E k \in bt : q[k] = i
    <3>1. i \in at
      OBVIOUS
    <3>2. PICK k \in 1..c : q[k] = i
      BY <1>2, <3>1
    <3>3. k \in bt
      BY <1>3, <3>2 DEF KindAt
    <3>4. QED
      BY <3>2, <3>3
  <2>4. QED
    BY <2>1, <2>2, <2>3
<1>8. QED
  BY <1>5, <1>6, <1>7 DEF t

\* Two selections of a file, one with the records of a kind up to a place and
\* one with those behind it, have the bodies of that kind between them.
LEMMA SplitBodies ==
  ASSUME NEW s, IsSeq(s), NEW m \in 0..Len(s), NEW op,
         NEW at \in SUBSET DOMAIN s, NEW bt \in SUBSET DOMAIN s,
         \A i \in KindAt(s, {op}) : (i \in at <=> i <= m) /\ (i \in bt <=> i > m)
  PROVE  Bodies(s, op) = Bodies(Selected(s, at), op) \o Bodies(Selected(s, bt), op)
<1> DEFINE a == SubSeq(s, 1, m)
           b == SubSeq(s, m + 1, Len(s))
           x == KindAt(a, {op})
           y == KindAt(b, {op})
<1>1. /\ IsSeq(a) /\ Len(a) = m /\ DOMAIN a = 1..m
      /\ \A i \in 1..m : a[i] = s[i] /\ i \in DOMAIN s
  BY FrontOf
<1>2. /\ IsSeq(b) /\ DOMAIN b = 1..(Len(s) - m)
      /\ \A i \in 1..(Len(s) - m) : b[i] = s[m + i] /\ m + i \in DOMAIN s
  BY BackOf
<1>3. s = a \o b
  BY FrontAndBack
<1>4. DOMAIN s = 1..Len(s) /\ Len(s) \in Nat
  BY AsFunction
<1> HIDE DEF a, b
<1>5. x \in SUBSET DOMAIN a /\ y \in SUBSET DOMAIN b
  BY DEF KindAt
<1>6. at \cap KindAt(s, {op}) = Joined(x, Len(a), {})
  <2>1. Joined(x, Len(a), {}) = x
    BY DEF Joined
  <2>2. ASSUME NEW i \in at \cap KindAt(s, {op}) PROVE i \in x
    <3>1. i <= m /\ i \in 1..Len(s) /\ s[i].op = op
      BY <1>4 DEF KindAt
    <3>2. i \in 1..m
      BY <1>4, <3>1
    <3>3. QED
      BY <1>1, <3>1, <3>2 DEF KindAt
  <2>3. ASSUME NEW i \in x PROVE i \in at \cap KindAt(s, {op})
    <3>1. i \in 1..m /\ a[i].op = op
      BY <1>1 DEF KindAt
    <3>2. i \in KindAt(s, {op}) /\ i <= m
      BY <1>1, <3>1 DEF KindAt
    <3>3. QED
      BY <3>2
  <2>4. QED
    BY <2>1, <2>2, <2>3
<1>7. bt \cap KindAt(s, {op}) = Joined({}, Len(a), y)
  <2>1. Joined({}, Len(a), y) = {m + i : i \in y}
    BY <1>1 DEF Joined
  <2>2. ASSUME NEW i \in bt \cap KindAt(s, {op}) PROVE \E l \in y : i = m + l
    <3>1. i > m /\ i \in 1..Len(s) /\ s[i].op = op
      BY <1>4 DEF KindAt
    <3>2. i - m \in 1..(Len(s) - m) /\ i = m + (i - m)
      BY <1>4, <3>1
    <3>3. i - m \in y
      BY <1>2, <3>1, <3>2 DEF KindAt
    <3>4. QED
      BY <3>2, <3>3
  <2>3. ASSUME NEW l \in y PROVE m + l \in bt \cap KindAt(s, {op})
    <3>1. l \in 1..(Len(s) - m) /\ b[l].op = op
      BY <1>2 DEF KindAt
    <3>2. m + l \in KindAt(s, {op})
      BY <1>2, <3>1 DEF KindAt
    <3>3. m + l > m
      BY <1>4, <3>1
    <3>4. QED
      BY <3>2, <3>3
  <2> HIDE DEF y
  <2>4. QED
    BY <2>1, <2>2, <2>3
<1> HIDE DEF x, y
<1>8. IsSeq(Selected(b, y)) /\ IsSeq(Selected(a, x))
  BY <1>1, <1>2, <1>5, SelectedIsSeq
<1>0. ASSUME NEW v \in SUBSET DOMAIN a, NEW w \in SUBSET DOMAIN b
      PROVE  Selected(a \o b, Joined(v, Len(a), w)) = Selected(a, v) \o Selected(b, w)
  <2>1. IsSeq(a) /\ IsSeq(b)
    BY <1>1, <1>2
  <2>2. QED
    BY <2>1, SelectedConcat
<1>9. Selected(s, at \cap KindAt(s, {op})) = OfKind(a, {op})
  <2>1. Selected(a \o b, Joined(x, Len(a), {})) = Selected(a, x) \o Selected(b, {})
    <3>1. {} \in SUBSET DOMAIN b
      OBVIOUS
    <3>2. QED
      BY <1>0, <1>5, <3>1, Zenon
  <2>2. Selected(b, {}) = <<>>
    BY <1>2, SelectedNone
  <2>3. Selected(a, x) \o <<>> = Selected(a, x)
    BY <1>8, ConcatLen
  <2>4. Selected(a, x) = OfKind(a, {op})
    BY OfKindForm DEF x
  <2> DEFINE z == at \cap KindAt(s, {op})
             w == Joined(x, Len(a), {})
             c == a \o b
  <2>5. Selected(c, w) = OfKind(a, {op})
    BY <2>1, <2>2, <2>3, <2>4
  <2>6. z = w /\ s = c
    BY <1>3, <1>6
  <2> HIDE DEF z, w, c
  <2>7. Selected(s, z) = Selected(c, w)
    BY <2>6
  <2>8. QED
    BY <2>5, <2>7 DEF z
<1>10. Selected(s, bt \cap KindAt(s, {op})) = OfKind(b, {op})
  <2>1. Selected(a \o b, Joined({}, Len(a), y)) = Selected(a, {}) \o Selected(b, y)
    <3>1. {} \in SUBSET DOMAIN a
      OBVIOUS
    <3>2. QED
      BY <1>0, <1>5, <3>1, Zenon
  <2>2. Selected(a, {}) = <<>>
    BY <1>1, SelectedNone
  <2>3. <<>> \o Selected(b, y) = Selected(b, y)
    BY <1>8, ConcatLen
  <2>4. Selected(b, y) = OfKind(b, {op})
    BY OfKindForm DEF y
  <2> DEFINE z == bt \cap KindAt(s, {op})
             w == Joined({}, Len(a), y)
             c == a \o b
  <2>5. Selected(c, w) = OfKind(b, {op})
    BY <2>1, <2>2, <2>3, <2>4
  <2>6. z = w /\ s = c
    BY <1>3, <1>7
  <2> HIDE DEF z, w, c
  <2>7. Selected(s, z) = Selected(c, w)
    BY <2>6
  <2>8. QED
    BY <2>5, <2>7 DEF z
<1>11. /\ OfKind(Selected(s, at), {op}) = OfKind(a, {op})
       /\ OfKind(Selected(s, bt), {op}) = OfKind(b, {op})
  BY <1>9, <1>10, KindOfSelected
<1>12. /\ Bodies(Selected(s, at), op) = Bodies(a, op)
       /\ Bodies(Selected(s, bt), op) = Bodies(b, op)
  BY <1>11 DEF Bodies
<1>13. Bodies(s, op) = Bodies(a, op) \o Bodies(b, op)
  BY <1>1, <1>2, <1>3, BodiesConcat
<1>14. QED
  BY <1>12, <1>13

\* The records of a kind among several kinds.
LEMMA BodiesOfKind ==
  ASSUME NEW s, IsSeq(s), NEW K, NEW op \in K
  PROVE  Bodies(OfKind(s, K), op) = Bodies(s, op)
<1>1. OfKind(OfKind(s, K), {op}) = OfKind(s, K \cap {op}) /\ K \cap {op} = {op}
  BY OfKindTwice
<1>2. QED
  BY <1>1 DEF Bodies

\* What is made of some records of a file has no others.
LEMMA AmongThose ==
  ASSUME NEW s, NEW t, \A i \in DOMAIN t : \E j \in DOMAIN s : t[i] = s[j]
  PROVE  /\ \A W : Within(s, W) => Within(t, W)
         /\ Unended(s) => Unended(t)
         /\ Slotless(s) => Slotless(t)
         /\ Lateless(s) => Lateless(t)
         /\ \A op : (\A i \in DOMAIN s : s[i].op # op) => \A i \in DOMAIN t : t[i].op # op
<1>1. \A W : Within(s, W) => Within(t, W)
  BY DEF Within
<1>2. (Unended(s) => Unended(t)) /\ (Slotless(s) => Slotless(t)) /\ (Lateless(s) => Lateless(t))
  BY DEF Unended, Slotless, Lateless
<1>3. \A op : (\A i \in DOMAIN s : s[i].op # op) => \A i \in DOMAIN t : t[i].op # op
  OBVIOUS
<1>4. QED
  BY <1>1, <1>2, <1>3

-----------------------------------------------------------------------------
(* The first and the last of a set of positions, beginnings of files.      *)

\* A set of positions has a first one,
LEMMA FirstIs ==
  ASSUME NEW at \in SUBSET Nat, at # {}
  PROVE  First(at) \in at /\ \A i \in at : First(at) <= i
<1>1. PICK n \in at : \A m \in at : n <= m
  BY Least
<1>2. QED
  BY <1>1 DEF First

\* which is the only one that has none ahead of it;
LEMMA FirstIsOnly ==
  ASSUME NEW at \in SUBSET Nat, NEW n \in at, \A i \in at : n <= i
  PROVE  First(at) = n
<1>1. First(at) \in at /\ First(at) <= n /\ n <= First(at)
  BY FirstIs
<1> DEFINE f == First(at)
<1>2. f \in Nat /\ n \in Nat /\ f <= n /\ n <= f
  BY <1>1
<1> HIDE DEF f
<1>3. f = n
  BY <1>2
<1>4. QED
  BY <1>3 DEF f

\* and, if it is bounded, a last one,
LEMMA LastIs ==
  ASSUME NEW n \in Nat, NEW at \in SUBSET (1..n), at # {}
  PROVE  Last(at) \in at /\ \A i \in at : i <= Last(at)
<1> DEFINE T == {n - i : i \in at}
<1>1. T \in SUBSET Nat /\ T # {}
  <2>1. \A i \in at : n - i \in Nat
    OBVIOUS
  <2>2. QED
    BY <2>1
<1>2. PICK m \in T : \A k \in T : m <= k
  BY <1>1, Least
<1>3. PICK j \in at : m = n - j
  BY <1>2
<1>4. ASSUME NEW i \in at PROVE i <= j
  <2>1. m <= n - i
    BY <1>2
  <2>2. QED
    BY <1>3, <2>1
<1>5. \E l \in at : \A i \in at : i <= l
  BY <1>4
<1>6. QED
  BY <1>5 DEF Last

\* which is the only one that has none behind it.
LEMMA LastIsOnly ==
  ASSUME NEW n \in Nat, NEW at \in SUBSET (1..n), NEW l \in at, \A i \in at : i <= l
  PROVE  Last(at) = l
<1>1. Last(at) \in at /\ Last(at) <= l /\ l <= Last(at)
  BY LastIs
<1> DEFINE f == Last(at)
<1>2. f \in Nat /\ l \in Nat /\ f <= l /\ l <= f
  <2>1. \A i \in at : i \in Nat
    OBVIOUS
  <2>2. QED
    BY <1>1, <2>1
<1> HIDE DEF f
<1>3. f = l
  BY <1>2
<1>4. QED
  BY <1>3 DEF f

\* What is in front does not depend on what follows.
LEMMA FrontOfConcat ==
  ASSUME NEW s, NEW t, IsSeq(s), IsSeq(t), NEW m \in 0..Len(s)
  PROVE  SubSeq(s \o t, 1, m) = SubSeq(s, 1, m)
<1> DEFINE u == s \o t
           f == SubSeq(u, 1, m)
           g == SubSeq(s, 1, m)
<1>1. /\ IsSeq(u) /\ Len(u) = Len(s) + Len(t) /\ Len(s) \in Nat /\ Len(t) \in Nat
      /\ \A i \in 1..Len(s) : u[i] = s[i]
  BY Concat, ConcatLen
<1> HIDE DEF u
<1>2. m \in 0..Len(u)
  BY <1>1
<1>3. IsSeq(f) /\ DOMAIN f = 1..m /\ \A i \in 1..m : f[i] = u[i]
  BY <1>1, <1>2, FrontOf
<1>4. IsSeq(g) /\ DOMAIN g = 1..m /\ \A i \in 1..m : g[i] = s[i]
  BY FrontOf
<1> HIDE DEF f, g
<1>5. \A i \in DOMAIN f : f[i] = g[i]
  BY <1>1, <1>3, <1>4
<1>6. f = g
  BY <1>3, <1>4, <1>5, SameSeq
<1>7. QED
  BY <1>6 DEF u, f, g

\* All of it is in front of nothing.
LEMMA FrontIsAll ==
  ASSUME NEW s, IsSeq(s) PROVE SubSeq(s, 1, Len(s)) = s
<1>1. Len(s) \in 0..Len(s) /\ DOMAIN s = 1..Len(s)
  BY AsFunction
<1> DEFINE f == SubSeq(s, 1, Len(s))
<1>2. IsSeq(f) /\ DOMAIN f = 1..Len(s) /\ \A i \in 1..Len(s) : f[i] = s[i]
  BY <1>1, FrontOf
<1> HIDE DEF f
<1>3. f = s
  BY <1>1, <1>2, SameSeq
<1>4. QED
  BY <1>3 DEF f

\* A record of a file and the one that is added behind it, each with what is
\* ahead of it.
LEMMA OneMoreFront ==
  ASSUME NEW s, IsSeq(s), NEW e
  PROVE  LET u == s \o <<e>>
         IN /\ DOMAIN u = 1..(Len(s) + 1) /\ DOMAIN s = 1..Len(s) /\ Len(s) \in Nat
            /\ \A i \in 1..Len(s) : u[i] = s[i] /\ SubSeq(u, 1, i - 1) = SubSeq(s, 1, i - 1)
            /\ u[Len(s) + 1] = e /\ SubSeq(u, 1, (Len(s) + 1) - 1) = s
<1> DEFINE t == <<e>>
           u == s \o t
<1>1. IsSeq(t)
  BY Single
<1>2. /\ DOMAIN u = 1..(Len(s) + 1) /\ DOMAIN s = 1..Len(s) /\ Len(s) \in Nat
      /\ \A i \in 1..Len(s) : u[i] = s[i]
      /\ u[Len(s) + 1] = e
  BY OneMore
<1> HIDE DEF t
<1>3. ASSUME NEW i \in 1..Len(s) PROVE SubSeq(u, 1, i - 1) = SubSeq(s, 1, i - 1)
  <2>1. i - 1 \in 0..Len(s)
    BY <1>2
  <2>2. QED
    BY <1>1, <2>1, FrontOfConcat
<1>4. SubSeq(u, 1, Len(s)) = s
  <2>1. Len(s) \in 0..Len(s)
    BY <1>2
  <2>2. QED
    BY <1>1, <2>1, FrontOfConcat, FrontIsAll
<1>5. (Len(s) + 1) - 1 = Len(s)
  BY <1>2
<1> HIDE DEF u
<1>6. QED
  BY <1>2, <1>3, <1>4, <1>5 DEF u, t

-----------------------------------------------------------------------------
(* What records give the holder of a key, and what one more record adds.   *)

\* The slots of a file that open for h.
Own(s, h) == {i \in DOMAIN s : s[i].op = "slot" /\ OpensFor(s[i], h)}

\* Every slot has a key.
Keyed(s) == \A i \in DOMAIN s : s[i].op = "slot" => s[i].key # NoKey

\* There is a key if a slot opens, and it is that of the first one.
LEMMA KeyIs ==
  ASSUME NEW s, IsSeq(s), Keyed(s), NEW h
  PROVE  /\ Own(s, h) \in SUBSET DOMAIN s /\ Own(s, h) \in SUBSET Nat
         /\ KeyFor(s, h) = NoKey <=> Own(s, h) = {}
         /\ Own(s, h) # {} => /\ First(Own(s, h)) \in Own(s, h)
                              /\ KeyFor(s, h) = s[First(Own(s, h))].key
<1>1. Own(s, h) \in SUBSET DOMAIN s /\ Own(s, h) \in SUBSET Nat
  BY AsFunction DEF Own
<1>2. KeyFor(s, h) = IF Own(s, h) = {} THEN NoKey ELSE s[First(Own(s, h))].key
  BY DEF KeyFor, Own
<1>3. ASSUME Own(s, h) # {} PROVE First(Own(s, h)) \in Own(s, h)
  BY <1>1, <1>3, FirstIs
<1>4. \A i \in Own(s, h) : s[i].key # NoKey
  BY DEF Own, Keyed
<1>5. QED
  BY <1>1, <1>2, <1>3, <1>4

\* The key comes from what is in front, if a slot opens there, and else from
\* what follows.
LEMMA KeyForConcat ==
  ASSUME NEW s, NEW t, IsSeq(s), IsSeq(t), Keyed(s), Keyed(t), NEW h
  PROVE  /\ Keyed(s \o t)
         /\ KeyFor(s \o t, h) = IF KeyFor(s, h) # NoKey THEN KeyFor(s, h) ELSE KeyFor(t, h)
<1> DEFINE u == s \o t
           n == Len(s)
<1>1. /\ IsSeq(u) /\ n \in Nat /\ DOMAIN s = 1..n /\ DOMAIN t = 1..Len(t) /\ Len(t) \in Nat
      /\ DOMAIN u = 1..(n + Len(t))
      /\ \A i \in 1..n : u[i] = s[i]
      /\ \A i \in 1..Len(t) : u[n + i] = t[i]
  BY Concat
<1>2. ASSUME NEW k \in DOMAIN u
      PROVE  \/ k \in DOMAIN s /\ u[k] = s[k]
             \/ \E i \in DOMAIN t : k = n + i /\ u[k] = t[i]
  BY <1>2, ConcatSplit
<1> HIDE DEF u, n
<1>3. Keyed(u)
  BY <1>2 DEF Keyed
<1>4. CASE Own(s, h) # {}
  <2> DEFINE f == First(Own(s, h))
  <2>1. f \in Own(s, h) /\ \A i \in Own(s, h) : f <= i
    BY <1>4, KeyIs, FirstIs
  <2> HIDE DEF f
  <2>2. f \in DOMAIN s /\ s[f].op = "slot" /\ OpensFor(s[f], h)
    BY <2>1 DEF Own
  <2>3. f \in Own(u, h) /\ u[f] = s[f]
    <3>1. f \in DOMAIN u /\ u[f] = s[f]
      BY <1>1, <2>2
    <3>2. QED
      BY <2>2, <3>1 DEF Own
  <2>4. ASSUME NEW k \in Own(u, h) PROVE f <= k
    <3>1. k \in DOMAIN u /\ u[k].op = "slot" /\ OpensFor(u[k], h)
      BY DEF Own
    <3>2. CASE k \in DOMAIN s /\ u[k] = s[k]
      <4>1. k \in Own(s, h)
        BY <3>1, <3>2 DEF Own
      <4>2. QED
        BY <2>1, <4>1
    <3>3. CASE \E i \in DOMAIN t : k = n + i /\ u[k] = t[i]
      BY <1>1, <2>2, <3>3
    <3>4. QED
      BY <1>2, <3>1, <3>2, <3>3
  <2>5. First(Own(u, h)) = f
    BY <1>1, <1>3, <2>3, <2>4, KeyIs, FirstIsOnly
  <2>6. KeyFor(u, h) = u[f].key /\ KeyFor(s, h) = s[f].key /\ KeyFor(s, h) # NoKey
    <3>1. Own(u, h) # {}
      BY <2>3
    <3>2. KeyFor(u, h) = u[f].key
      BY <1>1, <1>3, <2>5, <3>1, KeyIs
    <3>3. KeyFor(s, h) = s[f].key /\ KeyFor(s, h) # NoKey
      BY <1>4, KeyIs DEF f
    <3>4. QED
      BY <3>2, <3>3
  <2>7. QED
    BY <1>3, <2>3, <2>6 DEF u
<1>5. CASE Own(s, h) = {}
  <2>1. KeyFor(s, h) = NoKey
    BY <1>5, KeyIs
  <2>2. ASSUME NEW i \in Own(t, h) PROVE n + i \in Own(u, h) /\ u[n + i] = t[i]
    <3>1. i \in DOMAIN t /\ t[i].op = "slot" /\ OpensFor(t[i], h)
      BY DEF Own
    <3>2. n + i \in DOMAIN u /\ u[n + i] = t[i]
      BY <1>1, <3>1
    <3>3. QED
      BY <3>1, <3>2 DEF Own
  <2>3. ASSUME NEW k \in Own(u, h) PROVE \E i \in Own(t, h) : k = n + i
    <3>1. k \in DOMAIN u /\ u[k].op = "slot" /\ OpensFor(u[k], h)
      BY DEF Own
    <3>2. ~ (k \in DOMAIN s /\ u[k] = s[k])
      BY <1>5, <3>1 DEF Own
    <3>3. PICK i \in DOMAIN t : k = n + i /\ u[k] = t[i]
      BY <1>2, <3>1, <3>2
    <3>4. QED
      BY <3>1, <3>3 DEF Own
  <2>4. CASE Own(t, h) = {}
    <3>1. Own(u, h) = {}
      BY <2>3, <2>4
    <3>2. KeyFor(u, h) = NoKey /\ KeyFor(t, h) = NoKey
      BY <1>1, <1>3, <2>4, <3>1, KeyIs
    <3>3. QED
      BY <1>3, <2>1, <3>2 DEF u
  <2>5. CASE Own(t, h) # {}
    <3> DEFINE f == First(Own(t, h))
    <3>1. f \in Own(t, h) /\ (\A i \in Own(t, h) : f <= i) /\ KeyFor(t, h) = t[f].key
          /\ Own(t, h) \in SUBSET DOMAIN t
      BY <2>5, KeyIs, FirstIs
    <3> HIDE DEF f
    <3>2. n + f \in Own(u, h) /\ u[n + f] = t[f]
      BY <2>2, <3>1
    <3>3. ASSUME NEW k \in Own(u, h) PROVE n + f <= k
      <4>1. PICK i \in Own(t, h) : k = n + i
        BY <2>3
      <4>2. f <= i /\ f \in Nat /\ i \in Nat
        BY <1>1, <3>1
      <4>3. QED
        BY <1>1, <4>1, <4>2
    <3>4. First(Own(u, h)) = n + f
      BY <1>1, <1>3, <3>2, <3>3, KeyIs, FirstIsOnly
    <3>5. KeyFor(u, h) = t[f].key
      <4>1. Own(u, h) # {}
        BY <3>2
      <4>2. KeyFor(u, h) = u[n + f].key
        BY <1>1, <1>3, <3>4, <4>1, KeyIs
      <4>3. QED
        BY <3>2, <4>2
    <3>6. QED
      BY <1>3, <2>1, <3>1, <3>5 DEF u
  <2>6. QED
    BY <2>4, <2>5
<1>6. QED
  BY <1>4, <1>5

\* One record has the key of a slot that opens.
LEMMA KeyForSingle ==
  ASSUME NEW e, NEW h
  PROVE  KeyFor(<<e>>, h) = IF e.op = "slot" /\ OpensFor(e, h) THEN e.key ELSE NoKey
<1> DEFINE t == <<e>>
<1>1. IsSeq(t) /\ DOMAIN t = {1} /\ t[1] = e
  BY Single
<1> HIDE DEF t
<1>2. KeyFor(t, h) = IF Own(t, h) = {} THEN NoKey ELSE t[First(Own(t, h))].key
  BY DEF KeyFor, Own
<1>3. CASE e.op = "slot" /\ OpensFor(e, h)
  <2>1. Own(t, h) = {1}
    BY <1>1, <1>3 DEF Own
  <2>2. First({1}) = 1
    <3>1. {1} \in SUBSET Nat /\ {1} # {}
      OBVIOUS
    <3>2. First({1}) \in {1}
      BY <3>1, FirstIs
    <3>3. QED
      BY <3>2
  <2>3. QED
    BY <1>1, <1>2, <1>3, <2>1, <2>2 DEF t
<1>4. CASE ~ (e.op = "slot" /\ OpensFor(e, h))
  <2>1. Own(t, h) = {}
    BY <1>1, <1>4 DEF Own
  <2>2. QED
    BY <1>2, <1>4, <2>1 DEF t
<1>5. QED
  BY <1>3, <1>4

\* The key at one place is the key from there on.
LEMMA KeyStays ==
  ASSUME NEW s, IsSeq(s), Keyed(s), NEW m \in 0..Len(s), NEW h
  PROVE  KeyFor(SubSeq(s, 1, m), h) \in {NoKey, KeyFor(s, h)}
<1> DEFINE f == SubSeq(s, 1, m)
           g == SubSeq(s, m + 1, Len(s))
<1>1. /\ IsSeq(f) /\ DOMAIN f = 1..m /\ \A i \in 1..m : f[i] = s[i] /\ i \in DOMAIN s
  BY FrontOf
<1>2. /\ IsSeq(g) /\ DOMAIN g = 1..(Len(s) - m)
      /\ \A i \in 1..(Len(s) - m) : g[i] = s[m + i] /\ m + i \in DOMAIN s
  BY BackOf
<1>3. s = f \o g
  BY FrontAndBack
<1> HIDE DEF f, g
<1>4. Keyed(f) /\ Keyed(g)
  BY <1>1, <1>2 DEF Keyed
<1>5. KeyFor(f \o g, h) = IF KeyFor(f, h) # NoKey THEN KeyFor(f, h) ELSE KeyFor(g, h)
  BY <1>1, <1>2, <1>4, KeyForConcat
<1>6. KeyFor(f, h) \in {NoKey, KeyFor(s, h)}
  BY <1>3, <1>5
<1>7. QED
  BY <1>6 DEF f

\* The bodies of some records.
Payloads(s) == [i \in DOMAIN s |-> s[i].body]

\* The attachments a reader with the key of h takes: plain ones, and encrypted
\* ones behind the key.
AttachedAt(s, h) ==
  {i \in DOMAIN s : \/ s[i].op = "attachment"
                    \/ s[i].op = "encAttachment" /\ KeyFor(SubSeq(s, 1, i - 1), h) # NoKey}

Attached(s, h) == Payloads(Selected(s, AttachedAt(s, h)))

\* The last of some records, if there is one.
Latest(rs) == IF rs = <<>> THEN <<>> ELSE <<rs[Len(rs)]>>

\* Records have their bodies in their order.
LEMMA PayloadsAre ==
  ASSUME NEW s, IsSeq(s)
  PROVE  IsSeq(Payloads(s)) /\ Len(Payloads(s)) = Len(s)
<1> DEFINE f == Payloads(s)
<1>1. DOMAIN f = DOMAIN s /\ f = [i \in DOMAIN s |-> f[i]]
  BY DEF Payloads
<1> HIDE DEF f
<1>2. IsSeq(f) /\ Len(f) = Len(s)
  BY <1>1, OfPositions
<1>3. QED
  BY <1>2 DEF f

\* One more record has one more body.
LEMMA PayloadsNext ==
  ASSUME NEW s, IsSeq(s), NEW e
  PROVE  Payloads(s \o <<e>>) = Append(Payloads(s), e.body)
<1> DEFINE u == s \o <<e>>
           x == Payloads(s)
           b == e.body
           y == x \o <<b>>
           z == Payloads(u)
<1>1. /\ IsSeq(u) /\ Len(s) \in Nat /\ DOMAIN s = 1..Len(s) /\ DOMAIN u = 1..(Len(s) + 1)
      /\ \A i \in 1..Len(s) : u[i] = s[i]
      /\ u[Len(s) + 1] = e
  BY OneMore
<1> HIDE DEF u
<1>2. DOMAIN z = DOMAIN u /\ \A i \in DOMAIN u : z[i] = u[i].body
  BY DEF Payloads
<1>3. IsSeq(x) /\ Len(x) = Len(s) /\ DOMAIN x = DOMAIN s /\ \A i \in DOMAIN s : x[i] = s[i].body
  BY PayloadsAre DEF Payloads
<1>4. IsSeq(z)
  BY <1>1, PayloadsAre
<1> HIDE DEF x, z
<1>5. Append(x, b) = y
  BY <1>3, AppendOne
<1>6. /\ IsSeq(y) /\ DOMAIN y = 1..(Len(s) + 1) /\ y[Len(s) + 1] = b
      /\ \A i \in 1..Len(s) : y[i] = x[i]
  <2> HIDE DEF b, y
  <2>1. ASSUME NEW q, IsSeq(q), NEW c
        PROVE  /\ IsSeq(q \o <<c>>) /\ DOMAIN (q \o <<c>>) = 1..(Len(q) + 1)
               /\ (q \o <<c>>)[Len(q) + 1] = c
               /\ \A i \in 1..Len(q) : (q \o <<c>>)[i] = q[i]
    BY ONLY OneMore, IsSeq(q), SMTT(60)
  <2>2. /\ IsSeq(y) /\ DOMAIN y = 1..(Len(x) + 1) /\ y[Len(x) + 1] = b
        /\ \A i \in 1..Len(x) : y[i] = x[i]
    BY <1>3, <2>1 DEF y
  <2>3. QED
    BY <1>3, <2>2
<1> HIDE DEF y
<1>7. ASSUME NEW i \in DOMAIN y PROVE y[i] = z[i]
  <2>1. CASE i \in 1..Len(s)
    BY <1>1, <1>2, <1>3, <1>6, <2>1
  <2>2. CASE i = Len(s) + 1
    BY <1>1, <1>2, <1>6, <2>2
  <2>3. QED
    BY <1>1, <1>6, <2>1, <2>2
<1>8. z = y
  BY <1>1, <1>2, <1>4, <1>6, <1>7, SameSeq
<1>9. QED
  BY <1>5, <1>8 DEF u, x, z

\* One more record of some kinds, or not.
LEMMA OfKindNext ==
  ASSUME NEW s, IsSeq(s), NEW e, NEW K
  PROVE  OfKind(s \o <<e>>, K) = IF e.op \in K THEN Append(OfKind(s, K), e) ELSE OfKind(s, K)
<1> DEFINE t == <<e>>
           x == OfKind(s, K)
<1>1. IsSeq(t) /\ OfKind(t, K) = IF e.op \in K THEN t ELSE <<>>
  BY Single, OfKindSingle
<1>2. IsSeq(x)
  BY OfKindIsSeq
<1>3. Append(x, e) = x \o t /\ x \o <<>> = x
  <2> HIDE DEF x
  <2>1. IsSeq(<<>>)
    BY DEF IsSeq, Elements
  <2>2. QED
    BY <1>2, <2>1, AppendOne, ConcatLen
<1> HIDE DEF t
<1>4. OfKind(s \o t, K) = x \o OfKind(t, K)
  BY <1>1, OfKindConcat
<1>5. QED
  BY <1>1, <1>3, <1>4 DEF t

\* One more body of a kind, or not.
LEMMA BodiesNext ==
  ASSUME NEW s, IsSeq(s), NEW e, NEW op
  PROVE  Bodies(s \o <<e>>, op)
           = IF e.op = op THEN Append(Bodies(s, op), e.body) ELSE Bodies(s, op)
<1> DEFINE x == OfKind(s, {op})
<1>1. IsSeq(x)
  BY OfKindIsSeq
<1>2. OfKind(s \o <<e>>, {op}) = IF e.op = op THEN x \o <<e>> ELSE x
  <2>1. OfKind(s \o <<e>>, {op}) = IF e.op \in {op} THEN Append(x, e) ELSE x
    BY OfKindNext
  <2> HIDE DEF x
  <2>2. Append(x, e) = x \o <<e>>
    BY <1>1, AppendOne
  <2>3. QED
    BY <2>1, <2>2
<1>3. \A r : Bodies(r, op) = Payloads(OfKind(r, {op}))
  BY DEF Bodies, Payloads
<1> HIDE DEF x
<1>4. Payloads(x \o <<e>>) = Append(Payloads(x), e.body)
  BY <1>1, PayloadsNext
<1>5. QED
  BY <1>2, <1>3, <1>4 DEF x

\* Chunks that open, and one more record.
LEMMA ChunksOpenNext ==
  ASSUME NEW s, IsSeq(s), NEW e, NEW h
  PROVE  ChunksOpen(s \o <<e>>, h) <=>
           /\ ChunksOpen(s, h)
           /\ e.op = "encChunk" => KeyFor(s, h) # NoKey /\ Opens(e, KeyFor(s, h), Tally(s))
<1> DEFINE u == s \o <<e>>
           P(r, i) == r[i].op = "encChunk" =>
                        /\ KeyFor(SubSeq(r, 1, i - 1), h) # NoKey
                        /\ Opens(r[i], KeyFor(SubSeq(r, 1, i - 1), h), Tally(SubSeq(r, 1, i - 1)))
<1>1. /\ DOMAIN u = 1..(Len(s) + 1) /\ DOMAIN s = 1..Len(s) /\ Len(s) \in Nat
      /\ \A i \in 1..Len(s) : u[i] = s[i] /\ SubSeq(u, 1, i - 1) = SubSeq(s, 1, i - 1)
      /\ u[Len(s) + 1] = e /\ SubSeq(u, 1, (Len(s) + 1) - 1) = s
  BY OneMoreFront
<1>2. \A r : ChunksOpen(r, h) <=> \A i \in DOMAIN r : P(r, i)
  BY DEF ChunksOpen, CountBefore, Tally
<1> HIDE DEF u
<1>3. \A i \in 1..Len(s) : P(u, i) <=> P(s, i)
  BY <1>1
<1>4. P(u, Len(s) + 1) <=>
        (e.op = "encChunk" => KeyFor(s, h) # NoKey /\ Opens(e, KeyFor(s, h), Tally(s)))
  BY <1>1
<1> HIDE DEF P
<1>5. (\A i \in DOMAIN u : P(u, i)) <=> (\A i \in DOMAIN s : P(s, i)) /\ P(u, Len(s) + 1)
  BY <1>1, <1>3
<1>6. QED
  BY <1>2, <1>4, <1>5 DEF u

\* Records behind the key that open, and one more.
LEMMA LaterNext ==
  ASSUME NEW s, IsSeq(s), NEW e, NEW h, NEW K
  PROVE  LaterOnesOpen(s \o <<e>>, h, K) <=>
           /\ LaterOnesOpen(s, h, K)
           /\ e.op \in K => KeyFor(s, h) \in {NoKey, e.key}
<1> DEFINE u == s \o <<e>>
           P(r, i) == r[i].op \in K => KeyFor(SubSeq(r, 1, i - 1), h) \in {NoKey, r[i].key}
<1>1. /\ DOMAIN u = 1..(Len(s) + 1) /\ DOMAIN s = 1..Len(s) /\ Len(s) \in Nat
      /\ \A i \in 1..Len(s) : u[i] = s[i] /\ SubSeq(u, 1, i - 1) = SubSeq(s, 1, i - 1)
      /\ u[Len(s) + 1] = e /\ SubSeq(u, 1, (Len(s) + 1) - 1) = s
  BY OneMoreFront
<1>2. \A r : LaterOnesOpen(r, h, K) <=> \A i \in DOMAIN r : P(r, i)
  BY DEF LaterOnesOpen
<1> HIDE DEF u
<1>3. \A i \in 1..Len(s) : P(u, i) <=> P(s, i)
  BY <1>1
<1>4. P(u, Len(s) + 1) <=> (e.op \in K => KeyFor(s, h) \in {NoKey, e.key})
  BY <1>1
<1> HIDE DEF P
<1>5. (\A i \in DOMAIN u : P(u, i)) <=> (\A i \in DOMAIN s : P(s, i)) /\ P(u, Len(s) + 1)
  BY <1>1, <1>3
<1>6. QED
  BY <1>2, <1>4, <1>5 DEF u

\* The attachments taken, and one more record.
LEMMA AttachedNext ==
  ASSUME NEW s, IsSeq(s), NEW e, NEW h
  PROVE  Attached(s \o <<e>>, h) =
           IF \/ e.op = "attachment"
              \/ e.op = "encAttachment" /\ KeyFor(s, h) # NoKey
           THEN Append(Attached(s, h), e.body) ELSE Attached(s, h)
<1> DEFINE t == <<e>>
           u == s \o t
           n == Len(s)
           P(r, i) == \/ r[i].op = "attachment"
                      \/ r[i].op = "encAttachment" /\ KeyFor(SubSeq(r, 1, i - 1), h) # NoKey
           takes == e.op = "attachment" \/ (e.op = "encAttachment" /\ KeyFor(s, h) # NoKey)
           at == AttachedAt(s, h)
           bt == IF takes THEN {1} ELSE {}
<1>1. /\ DOMAIN u = 1..(n + 1) /\ DOMAIN s = 1..n /\ n \in Nat
      /\ \A i \in 1..n : u[i] = s[i] /\ SubSeq(u, 1, i - 1) = SubSeq(s, 1, i - 1)
      /\ u[n + 1] = e /\ SubSeq(u, 1, (n + 1) - 1) = s
  BY OneMoreFront
<1>2. \A r : AttachedAt(r, h) = {i \in DOMAIN r : P(r, i)}
  BY DEF AttachedAt
<1>3. IsSeq(t) /\ DOMAIN t = {1} /\ t[1] = e
  BY Single
<1> HIDE DEF u, n, t
<1>4. \A i \in 1..n : P(u, i) <=> P(s, i)
  BY <1>1
<1>5. P(u, n + 1) <=> takes
  BY <1>1
<1> HIDE DEF P, takes
<1>6. at \in SUBSET DOMAIN s /\ bt \in SUBSET DOMAIN t
  BY <1>2, <1>3
<1>7. AttachedAt(u, h) = Joined(at, n, bt)
  <2>1. \A i : i \in AttachedAt(u, h) <=> i \in 1..(n + 1) /\ P(u, i)
    BY <1>1, <1>2
  <2>2. \A i : i \in at <=> i \in 1..n /\ P(s, i)
    BY <1>1, <1>2
  <2>3. \A i : i \in Joined(at, n, bt) <=> i \in at \/ (takes /\ i = n + 1)
    BY DEF Joined
  <2>4. \A i : i \in 1..(n + 1) <=> i \in 1..n \/ i = n + 1
    BY <1>1
  <2>5. \A i : i \in AttachedAt(u, h) <=> i \in Joined(at, n, bt)
    <3> HIDE DEF at, bt
    <3>1. QED
      BY <1>4, <1>5, <2>1, <2>2, <2>3, <2>4
  <2>6. QED
    BY <2>5 DEF Joined, AttachedAt
<1> DEFINE x == Selected(s, at)
<1>8. Selected(u, AttachedAt(u, h)) = x \o Selected(t, bt) /\ IsSeq(x)
  <2> HIDE DEF at, bt
  <2>1. QED
    BY <1>3, <1>6, <1>7, SelectedConcat, SelectedIsSeq DEF u, n
<1>9. Selected(t, bt) = IF takes THEN t ELSE <<>>
  <2>1. DOMAIN t = {1}
    BY <1>3
  <2>2. QED
    BY <1>3, <2>1, SelectedAll, SelectedNone
<1>10. x \o <<>> = x
  <2> HIDE DEF x
  <2>1. IsSeq(<<>>)
    BY DEF IsSeq, Elements
  <2>2. QED
    BY <1>8, <2>1, ConcatLen
<1> HIDE DEF x
<1>11. Payloads(x \o <<e>>) = Append(Payloads(x), e.body)
  BY <1>8, PayloadsNext
<1> HIDE DEF at, bt
<1>12. Attached(u, h) = IF takes THEN Append(Attached(s, h), e.body) ELSE Attached(s, h)
  BY <1>8, <1>9, <1>10, <1>11 DEF Attached, t, x, at
<1>13. QED
  BY <1>12 DEF u, t, takes

\* One more definition, or not.
LEMMA DefIdsNext ==
  ASSUME NEW s, IsSeq(s), NEW e
  PROVE  DefIds(s \o <<e>>) = IF e.op = "def" THEN Append(DefIds(s), e.id) ELSE DefIds(s)
<1> DEFINE x == OfKind(s, {"def"})
           y == DefIds(s)
           u == x \o <<e>>
           d == e.id
           z == y \o <<d>>
<1>1. IsSeq(x) /\ IsSeq(y)
  BY OfKindIsSeq, DefIdsAreSeq
<1>2. \A r : DefIds(r) = [i \in DOMAIN OfKind(r, {"def"}) |-> OfKind(r, {"def"})[i].id]
  BY DEF DefIds
<1>3. OfKind(s \o <<e>>, {"def"}) = IF e.op = "def" THEN u ELSE x
  <2>1. OfKind(s \o <<e>>, {"def"}) = IF e.op \in {"def"} THEN Append(x, e) ELSE x
    BY OfKindNext
  <2> HIDE DEF x
  <2>2. Append(x, e) = x \o <<e>>
    BY <1>1, AppendOne
  <2>3. QED
    BY <2>1, <2>2
<1>4. y = [i \in DOMAIN x |-> x[i].id]
  BY <1>2
<1> HIDE DEF x, y
<1>5. Len(y) = Len(x) /\ DOMAIN y = DOMAIN x
  BY <1>1, <1>4, AsFunction
<1>6. /\ DOMAIN u = 1..(Len(x) + 1) /\ u[Len(x) + 1] = e /\ Len(x) \in Nat
      /\ \A i \in 1..Len(x) : u[i] = x[i]
  BY ONLY <1>1, OneMore DEF u
<1>7. /\ IsSeq(z) /\ DOMAIN z = 1..(Len(y) + 1) /\ z[Len(y) + 1] = d
      /\ \A i \in 1..Len(y) : z[i] = y[i]
  <2> HIDE DEF d, z
  <2>1. ASSUME NEW q, IsSeq(q), NEW c
        PROVE  /\ IsSeq(q \o <<c>>) /\ DOMAIN (q \o <<c>>) = 1..(Len(q) + 1)
               /\ (q \o <<c>>)[Len(q) + 1] = c
               /\ \A i \in 1..Len(q) : (q \o <<c>>)[i] = q[i]
    BY ONLY OneMore, IsSeq(q)
  <2>2. QED
    BY <1>1, <2>1 DEF z
<1> DEFINE w == [i \in DOMAIN u |-> u[i].id]
<1>8. DOMAIN w = DOMAIN u /\ \A i \in DOMAIN u : w[i] = u[i].id
  OBVIOUS
<1>9. IsSeq(w)
  <2> HIDE DEF u
  <2>1. \A i \in 1..(Len(x) + 1) : w[i] \in Elements(w)
    BY <1>6, <1>8 DEF Elements
  <2>2. w \in [1..(Len(x) + 1) -> Elements(w)]
    BY <1>6, <2>1
  <2>3. Len(x) + 1 \in Nat
    BY <1>6
  <2> HIDE DEF w
  <2>4. QED
    BY <2>2, <2>3, OfFunction
<1> HIDE DEF u, z, w
<1>10. ASSUME NEW i \in DOMAIN w PROVE w[i] = z[i]
  <2>1. CASE i \in 1..Len(x)
    <3>1. w[i] = x[i].id
      BY <1>6, <1>8, <2>1
    <3>2. z[i] = y[i] /\ y[i] = x[i].id
      BY <1>1, <1>4, <1>5, <1>7, <2>1, AsFunction
    <3>3. QED
      BY <3>1, <3>2
  <2>2. CASE i = Len(x) + 1
    BY <1>5, <1>6, <1>7, <1>8, <2>2
  <2>3. QED
    BY <1>6, <1>8, <2>1, <2>2
<1>11. w = z
  BY <1>5, <1>6, <1>7, <1>8, <1>9, <1>10, SameSeq
<1>12. Append(y, d) = z
  BY <1>1, AppendOne DEF z
<1>13. DefIds(s \o <<e>>) = IF e.op = "def" THEN w ELSE y
  BY <1>2, <1>3, <1>4 DEF w
<1>14. QED
  BY <1>11, <1>12, <1>13 DEF y, d

\* Some slot requires a manifest.
SlotsRequire(s) == \E i \in DOMAIN s : s[i].op = "slot" /\ RequiresManifest(s[i])

\* The manifest seen last.
LEMMA LatestNext ==
  ASSUME NEW s, IsSeq(s), NEW e
  PROVE  Latest(OfKind(s \o <<e>>, {"manifest"}))
           = IF e.op = "manifest" THEN <<e>> ELSE Latest(OfKind(s, {"manifest"}))
<1> DEFINE x == OfKind(s, {"manifest"})
<1>1. IsSeq(x)
  BY OfKindIsSeq
<1>2. OfKind(s \o <<e>>, {"manifest"}) = IF e.op \in {"manifest"} THEN Append(x, e) ELSE x
  BY OfKindNext
<1> HIDE DEF x
<1>3. /\ Append(x, e) = x \o <<e>> /\ Len(x) \in Nat /\ Len(x \o <<e>>) = Len(x) + 1
      /\ (x \o <<e>>)[Len(x) + 1] = e /\ DOMAIN (x \o <<e>>) = 1..(Len(x) + 1)
  BY <1>1, AppendOne, OneMore
<1>4. x \o <<e>> # <<>>
  <2>1. Len(x) + 1 \in DOMAIN (x \o <<e>>)
    BY <1>3
  <2>2. DOMAIN <<>> = {}
    OBVIOUS
  <2>3. QED
    BY <2>1, <2>2
<1>5. Latest(Append(x, e)) = <<e>>
  BY <1>3, <1>4 DEF Latest
<1>6. QED
  BY <1>2, <1>5 DEF x

\* Some slot requires a manifest, and one more record.
LEMMA RequireNext ==
  ASSUME NEW s, IsSeq(s), NEW e
  PROVE  SlotsRequire(s \o <<e>>) <=>
           SlotsRequire(s) \/ (e.op = "slot" /\ RequiresManifest(e))
<1> DEFINE u == s \o <<e>>
           P(r) == r.op = "slot" /\ RequiresManifest(r)
<1>1. /\ DOMAIN u = 1..(Len(s) + 1) /\ DOMAIN s = 1..Len(s) /\ Len(s) \in Nat
      /\ \A i \in 1..Len(s) : u[i] = s[i]
      /\ u[Len(s) + 1] = e
  BY OneMore
<1>2. \A r : SlotsRequire(r) <=> \E i \in DOMAIN r : P(r[i])
  BY DEF SlotsRequire
<1> HIDE DEF u, P
<1>3. (\E i \in DOMAIN u : P(u[i])) <=> (\E i \in DOMAIN s : P(s[i])) \/ P(e)
  BY <1>1
<1>4. QED
  BY <1>2, <1>3 DEF u, P

-----------------------------------------------------------------------------
(* Chunks that open one after the other.                                   *)

\* The section of a file behind its leading magic.
LEMMA BehindMagic ==
  ASSUME NEW f, IsSeq(f), Len(f) > 0
  PROVE  LET s == SubSeq(f, 2, Len(f))
         IN /\ IsSeq(s) /\ Len(s) = Len(f) - 1 /\ Len(f) \in Nat
            /\ DOMAIN f = 1..Len(f) /\ DOMAIN s = 1..(Len(f) - 1)
            /\ \A i \in 1..(Len(f) - 1) : s[i] = f[i + 1] /\ i + 1 \in DOMAIN f
<1>1. Len(f) \in Nat /\ DOMAIN f = 1..Len(f) /\ 1 \in 0..Len(f)
  BY AsFunction
<1>2. PICK m \in 0..Len(f) : m = 1
  BY <1>1
<1>3. LET s == SubSeq(f, m + 1, Len(f))
      IN /\ IsSeq(s) /\ Len(s) = Len(f) - m /\ DOMAIN s = 1..(Len(f) - m)
         /\ \A i \in 1..(Len(f) - m) : s[i] = f[m + i] /\ m + i \in DOMAIN f
  BY BackOf
<1>4. m + 1 = 2 /\ \A i \in 1..(Len(f) - 1) : m + i = i + 1
  BY <1>1, <1>2
<1>5. QED
  BY <1>1, <1>2, <1>3, <1>4

\* The encrypted chunks of some records.
EncChunks(s) == OfKind(s, {"encChunk"})

\* The first n of them open one after the other.
OpenUpTo(s, key, n) == \A i \in 1..n : Opens(EncChunks(s)[i], key, i - 1)

\* Their bodies make the sequence b.
BodiesUpTo(s, b, n) ==
  IsSeq(b) /\ DOMAIN b = 1..n /\ \A i \in 1..n : b[i] = EncChunks(s)[i].body

\* Where every chunk opens at its place, the k-th of them opens as the k-th.
LEMMA EntriesOpen ==
  ASSUME NEW s, IsSeq(s), Keyed(s), NEW h, ChunksOpen(s, h)
  PROVE  OpenUpTo(s, KeyFor(s, h), Tally(s))
<1> DEFINE key == KeyFor(s, h)
           chunks(m) == OfKind(SubSeq(s, 1, m), {"encChunk"})
           P(m) == \A k \in 1..Len(chunks(m)) : Opens(chunks(m)[k], key, k - 1)
           T == {m \in 0..Len(s) : P(m)}
<1>1. Len(s) \in Nat /\ DOMAIN s = 1..Len(s)
  BY AsFunction
<1>2. ASSUME NEW m \in 0..Len(s) PROVE IsSeq(chunks(m)) /\ Len(chunks(m)) \in Nat
  <2>1. IsSeq(SubSeq(s, 1, m))
    BY FrontOf
  <2>2. QED
    BY <2>1, OfKindIsSeq
<1>3. 0 \in T
  <2>1. SubSeq(s, 1, 0) = <<>> /\ IsSeq(<<>>) /\ DOMAIN <<>> = {}
    BY DEF IsSeq, Elements
  <2>2. chunks(0) = <<>>
    BY <2>1, OfKindNone
  <2>3. QED
    BY <1>1, <2>2
<1>4. ASSUME NEW m \in 0..(Len(s) - 1), m \in T PROVE m + 1 \in T
  <2>1. m \in 0..Len(s) /\ m < Len(s) /\ m + 1 \in 0..Len(s) /\ m + 1 \in DOMAIN s
        /\ (m + 1) - 1 = m
    BY <1>1
  <2> DEFINE f == SubSeq(s, 1, m)
             e == s[m + 1]
             x == chunks(m)
  <2>2. SubSeq(s, 1, m + 1) = f \o <<e>> /\ IsSeq(f)
    BY <2>1, FrontGrows, FrontOf
  <2>3. chunks(m + 1) = IF e.op \in {"encChunk"} THEN Append(x, e) ELSE x
    <3> HIDE DEF e, f
    <3>1. OfKind(f \o <<e>>, {"encChunk"})
            = IF e.op \in {"encChunk"} THEN Append(OfKind(f, {"encChunk"}), e)
              ELSE OfKind(f, {"encChunk"})
      BY ONLY <2>2, OfKindNext
    <3>2. QED
      BY <2>2, <3>1 DEF f
  <2>4. P(m)
    BY <1>4
  <2>5. e.op = "encChunk" => Opens(e, key, Len(x))
    <3>1. SUFFICES ASSUME e.op = "encChunk" PROVE Opens(e, key, Len(x))
      OBVIOUS
    <3>2. /\ KeyFor(SubSeq(s, 1, (m + 1) - 1), h) # NoKey
          /\ Opens(e, KeyFor(SubSeq(s, 1, (m + 1) - 1), h), CountBefore(s, m + 1, "encChunk"))
      BY <2>1, <3>1 DEF ChunksOpen
    <3>3. CountBefore(s, m + 1, "encChunk") = Len(x)
      BY <2>1 DEF CountBefore
    <3>4. KeyFor(f, h) \in {NoKey, key}
      BY <2>1, KeyStays
    <3>5. QED
      BY <2>1, <3>2, <3>3, <3>4
  <2>6. IsSeq(x) /\ Len(x) \in Nat
    BY <1>2, <2>1
  <2> HIDE DEF e, x, f, key
  <2>7. CASE e.op = "encChunk"
    <3>1. Append(x, e) = x \o <<e>>
      BY <2>6, AppendOne
    <3> DEFINE y == x \o <<e>>
    <3>2. chunks(m + 1) = y
      BY <2>3, <2>7, <3>1
    <3>3. /\ Len(y) = Len(x) + 1 /\ y[Len(x) + 1] = e
          /\ \A i \in 1..Len(x) : y[i] = x[i]
      BY ONLY <2>6, OneMore
    <3>4. \A i \in 1..Len(x) : Opens(x[i], key, i - 1)
      BY <2>4 DEF x
    <3>5. (Len(x) + 1) - 1 = Len(x)
      BY <2>6
    <3> HIDE DEF y
    <3>6. \A i \in 1..Len(y) : Opens(y[i], key, i - 1)
      <4>1. TAKE i \in 1..Len(y)
      <4>2. CASE i \in 1..Len(x)
        BY <3>3, <3>4, <4>2 DEF y
      <4>3. CASE i = Len(x) + 1
        BY <2>5, <2>7, <3>3, <3>5, <4>3 DEF y
      <4>4. QED
        BY <2>6, <3>3, <4>2, <4>3 DEF y
    <3>7. P(m + 1)
      BY <3>2, <3>6
    <3>8. QED
      BY <2>1, <3>7
  <2>8. CASE e.op # "encChunk"
    <3>1. chunks(m + 1) = chunks(m)
      BY <2>3, <2>8 DEF x
    <3>2. P(m + 1)
      BY <2>4, <3>1
    <3>3. QED
      BY <2>1, <3>2
  <2>9. QED
    BY <2>7, <2>8
<1> HIDE DEF T
<1>5. Len(s) \in T
  <2>1. \A m \in 0..Len(s) : m \in T
    BY <1>1, <1>3, <1>4, Induction
  <2>2. QED
    BY <1>1, <2>1
<1>6. SubSeq(s, 1, Len(s)) = s
  BY FrontIsAll
<1>7. QED
  BY <1>5, <1>6 DEF T, Tally, EncChunks, OpenUpTo

\* Chunks of a recording that open one after the other, from the first on, have
\* the bodies of the recording.
LEMMA OpenedBodies ==
  ASSUME NEW s, NEW rec, NEW to, Part(s, rec, to), IsSeq(rec), NEW key, NEW n \in 0..Tally(s),
         OpenUpTo(s, key, n), NEW b, BodiesUpTo(s, b, n)
  PROVE  n \in 0..Len(rec) /\ b = SubSeq(rec, 1, n)
<1> DEFINE q == EncChunks(s)
<1>1. /\ IsSeq(s) /\ IsSeq(q) /\ Len(q) \in Nat /\ DOMAIN q = 1..Len(q)
      /\ Elements(q) = {r \in Elements(s) : r.op \in {"encChunk"}}
  BY OfKindIsSeq DEF Part, EncChunks
<1>2. Len(q) = Tally(s) /\ Len(rec) \in Nat /\ n \in Nat
  BY <1>1, AsFunction DEF Tally, EncChunks
<1>3. ASSUME NEW i \in 1..n
      PROVE  i - 1 \in Nat /\ i - 1 < Len(rec) /\ b[i] = rec[i]
  <2>1. i \in DOMAIN q /\ i \in Nat
    BY <1>1, <1>2
  <2>2. q[i] \in Elements(s) /\ q[i].op = "encChunk"
    BY <1>1, <2>1 DEF Elements
  <2>3. Genuine(q[i], rec, to)
    BY <2>2 DEF Part, Elements
  <2>4. q[i].idx = i - 1
    BY DEF Opens, OpenUpTo
  <2>5. i - 1 \in Nat /\ i - 1 < Len(rec) /\ q[i].body = rec[(i - 1) + 1]
    BY <2>2, <2>3, <2>4 DEF Genuine
  <2>6. (i - 1) + 1 = i
    BY <2>1
  <2>7. QED
    BY <2>5, <2>6 DEF BodiesUpTo
<1> HIDE DEF q
<1>4. n \in 0..Len(rec)
  <2>1. CASE n = 0
    BY <1>2, <2>1
  <2>2. CASE n # 0
    BY <1>2, <1>3, <2>2
  <2>3. QED
    BY <2>1, <2>2
<1>6. /\ IsSeq(SubSeq(rec, 1, n)) /\ DOMAIN SubSeq(rec, 1, n) = 1..n
      /\ \A i \in 1..n : SubSeq(rec, 1, n)[i] = rec[i]
  BY <1>4, FrontOf
<1>7. b = SubSeq(rec, 1, n)
  <2> DEFINE f == SubSeq(rec, 1, n)
  <2>1. IsSeq(b) /\ DOMAIN b = 1..n /\ \A i \in 1..n : b[i] = rec[i]
    BY <1>2, <1>3 DEF BodiesUpTo
  <2>2. IsSeq(f) /\ DOMAIN f = 1..n /\ \A i \in 1..n : f[i] = rec[i]
    BY <1>6
  <2> HIDE DEF f
  <2>3. b = f
    BY <2>1, <2>2, SameSeq
  <2>4. QED
    BY <2>3 DEF f
<1>8. QED
  BY <1>4, <1>7

\* Where every chunk opens, the bodies of all of them begin the recording.
LEMMA ChunksAreFront ==
  ASSUME NEW s, NEW rec, NEW to, Part(s, rec, to), IsSeq(rec), Keyed(s), NEW h, ChunksOpen(s, h)
  PROVE  /\ Tally(s) \in 0..Len(rec)
         /\ Bodies(s, "encChunk") = SubSeq(rec, 1, Tally(s))
<1> DEFINE b == Bodies(s, "encChunk")
           q == EncChunks(s)
<1>1. IsSeq(s) /\ Len(b) = Tally(s) /\ Tally(s) \in Nat
  BY BodiesForm DEF Part, Tally
<1>2. IsSeq(b) /\ DOMAIN b = 1..Len(b) /\ \A i \in 1..Len(b) : b[i] = q[i].body
  BY <1>1, BodiesForm DEF EncChunks
<1>3. OpenUpTo(s, KeyFor(s, h), Tally(s))
  BY <1>1, EntriesOpen
<1> DEFINE key == KeyFor(s, h)
<1> HIDE DEF b, q, key
<1>5. PICK n \in 0..Tally(s) : n = Tally(s)
  BY <1>1
<1>6. OpenUpTo(s, key, n) /\ BodiesUpTo(s, b, n)
  BY <1>1, <1>2, <1>3, <1>5 DEF q, key, BodiesUpTo
<1>7. n \in 0..Len(rec) /\ b = SubSeq(rec, 1, n)
  BY <1>6, OpenedBodies
<1>8. QED
  BY <1>5, <1>7 DEF b

\* Opening chunk after chunk until one does not open yields a beginning of the
\* recording.
LEMMA OpenedIsFront ==
  ASSUME NEW s, NEW rec, NEW to, Part(s, rec, to), IsSeq(rec), NEW key
  PROVE  \E n \in 0..Len(rec) : Opened(s, key) = SubSeq(rec, 1, n)
<1> DEFINE q == EncChunks(s)
           G(n) == \A i \in 1..n : Opens(q[i], key, i - 1)
           last == CHOOSE n \in 0..Len(q) : G(n) /\ (n = Len(q) \/ ~ G(n + 1))
<1>1. /\ IsSeq(s) /\ IsSeq(q) /\ Len(q) \in Nat /\ DOMAIN q = 1..Len(q) /\ Len(q) = Tally(s)
      /\ Elements(q) = {r \in Elements(s) : r.op \in {"encChunk"}}
  BY OfKindIsSeq DEF Part, Tally, EncChunks
<1>2. Opened(s, key) = Bodies(SubSeq(q, 1, last), "encChunk")
  BY DEF Opened, EncChunks
<1> HIDE DEF q
<1>3. \E n \in 0..Len(q) : G(n) /\ (n = Len(q) \/ ~ G(n + 1))
  <2>1. CASE G(Len(q))
    BY <1>1, <2>1
  <2>2. CASE ~ G(Len(q))
    <3> DEFINE B == {n \in 0..Len(q) : ~ G(n)}
    <3>1. B \in SUBSET Nat /\ B # {}
      BY <1>1, <2>2
    <3>2. PICK n \in B : \A m \in B : n <= m
      BY <3>1, Least
    <3>3. n # 0 /\ n \in 0..Len(q) /\ ~ G(n)
      BY <1>1, <3>2
    <3>4. n - 1 \in 0..Len(q) /\ n - 1 # Len(q) /\ (n - 1) + 1 = n
      BY <1>1, <3>3
    <3>5. G(n - 1)
      <4>1. ~ (n <= n - 1)
        BY <3>3
      <4>2. n - 1 \notin B
        BY <3>2, <4>1
      <4> HIDE DEF G
      <4>3. QED
        BY <3>4, <4>2
    <3> HIDE DEF G
    <3>6. QED
      BY <3>3, <3>4, <3>5
  <2>3. QED
    BY <2>1, <2>2
<1>4. last \in 0..Len(q) /\ G(last)
  <2> HIDE DEF G
  <2>1. QED
    BY <1>3
<1> HIDE DEF last
<1> DEFINE f == SubSeq(q, 1, last)
           b == Bodies(f, "encChunk")
<1>5. /\ IsSeq(f) /\ DOMAIN f = 1..last /\ Len(f) = last
      /\ \A i \in 1..last : f[i] = q[i] /\ i \in DOMAIN q
  BY <1>1, <1>4, FrontOf
<1> HIDE DEF f
<1>6. \A i \in DOMAIN f : f[i].op \in {"encChunk"}
  BY <1>1, <1>5 DEF Elements
<1>7. OfKind(f, {"encChunk"}) = f
  BY <1>5, <1>6, OfKindAll
<1>8. IsSeq(b) /\ DOMAIN b = 1..last /\ (\A i \in 1..last : b[i] = f[i].body) /\ Len(b) = last
  BY <1>5, <1>7, BodiesForm
<1> HIDE DEF b
<1>10. OpenUpTo(s, key, last) /\ BodiesUpTo(s, b, last)
  BY <1>4, <1>5, <1>8 DEF q, OpenUpTo, BodiesUpTo
<1>11. last \in 0..Tally(s)
  BY <1>1, <1>4
<1>12. last \in 0..Len(rec) /\ b = SubSeq(rec, 1, last)
  BY <1>10, <1>11, OpenedBodies
<1>13. QED
  BY <1>2, <1>12 DEF b, f

\* The beginning of a sequence is a selection of it.
LEMMA FrontIsSelected ==
  ASSUME NEW s, IsSeq(s), NEW n \in 0..Len(s)
  PROVE  1..n \in SUBSET DOMAIN s /\ SubSeq(s, 1, n) = Selected(s, 1..n)
<1>1. Len(s) \in Nat /\ DOMAIN s = 1..Len(s)
  BY AsFunction
<1> DEFINE f == SubSeq(s, 1, n)
<1>2. IsSeq(f) /\ DOMAIN f = 1..n /\ (\A i \in 1..n : f[i] = s[i] /\ i \in DOMAIN s) /\ Len(f) = n
  BY FrontOf
<1>3. 1..n \in SUBSET DOMAIN s
  BY <1>2
<1> DEFINE q == [k \in 1..n |-> k]
           at == 1..n
<1>4. Enumerates(q, n, at) /\ n \in Nat
  <2>1. n \in Nat
    BY <1>1
  <2>2. QED
    BY <2>1 DEF Enumerates
<1>5. \A k \in 1..n : q[k] = k
  OBVIOUS
<1> HIDE DEF q, at, f
<1>6. Selected(s, at) = [k \in 1..n |-> s[q[k]]]
  BY <1>3, <1>4, SelectedForm DEF at
<1>7. f = [k \in 1..Len(f) |-> f[k]]
  BY <1>2, AsFunction
<1>8. f = [k \in 1..n |-> s[q[k]]]
  BY <1>2, <1>5, <1>7
<1>9. QED
  BY <1>3, <1>6, <1>8 DEF f, at

\* What makes out a section: nothing of the kinds ops in it, one of them behind.
LEMMA UpToIs ==
  ASSUME NEW s, IsSeq(s), NEW ops, NEW m \in 0..Len(s),
         \A i \in 1..m : s[i].op \notin ops,
         m < Len(s) => s[m + 1].op \in ops
  PROVE  UpTo(s, ops) = SubSeq(s, 1, m)
<1>1. PICK k \in 0..Len(s) :
        /\ UpTo(s, ops) = SubSeq(s, 1, k)
        /\ \A i \in 1..k : s[i].op \notin ops
        /\ k < Len(s) => s[k + 1].op \in ops
  BY UpToIsFront
<1>2. Len(s) \in Nat
  BY AsFunction
<1>3. ~ (k < m)
  <2>1. SUFFICES ASSUME k < m PROVE FALSE
    OBVIOUS
  <2>2. k + 1 \in 1..m /\ k < Len(s)
    BY <1>2, <2>1
  <2>3. QED
    BY <1>1, <2>2
<1>4. ~ (m < k)
  <2>1. SUFFICES ASSUME m < k PROVE FALSE
    OBVIOUS
  <2>2. m + 1 \in 1..k /\ m < Len(s)
    BY <1>2, <2>1
  <2>3. QED
    BY <1>1, <2>2
<1>5. k = m
  BY <1>2, <1>3, <1>4
<1>6. QED
  BY <1>1, <1>5

\* Records of the key open for everyone who has it by then.
LEMMA KeyedOnesOpen ==
  ASSUME NEW s, IsSeq(s), Keyed(s), NEW h, NEW K,
         \A i \in DOMAIN s : s[i].op \in K => KeyFor(s, h) = s[i].key
  PROVE  LaterOnesOpen(s, h, K)
<1> SUFFICES ASSUME NEW i \in DOMAIN s, s[i].op \in K
             PROVE  KeyFor(SubSeq(s, 1, i - 1), h) \in {NoKey, s[i].key}
  BY DEF LaterOnesOpen
<1>1. Len(s) \in Nat /\ DOMAIN s = 1..Len(s)
  BY AsFunction
<1>2. i - 1 \in 0..Len(s)
  BY <1>1
<1>3. PICK m \in 0..Len(s) : m = i - 1
  BY <1>2
<1>4. KeyFor(SubSeq(s, 1, m), h) \in {NoKey, KeyFor(s, h)}
  BY KeyStays
<1>5. QED
  BY <1>3, <1>4

-----------------------------------------------------------------------------
(* Positions counted from behind the leading magic.                        *)

\* Positions moved on by one.
Moved(at) == {i + 1 : i \in at}

\* They are as many, in the same order.
LEMMA SortedMoved ==
  ASSUME NEW n \in Nat, NEW at \in SUBSET (1..n)
  PROVE  /\ Cardinality(Moved(at)) = Cardinality(at)
         /\ Sorted(Moved(at)) = [k \in 1..Cardinality(at) |-> Sorted(at)[k] + 1]
<1> DEFINE m == Cardinality(at)
           q == Sorted(at)
           r == [k \in 1..m |-> q[k] + 1]
           bt == Moved(at)
<1>1. m \in Nat /\ Enumerates(q, m, at)
  BY SortedLists
<1>2. bt \in SUBSET (1..(n + 1)) /\ n + 1 \in Nat
  BY DEF Moved
<1> HIDE DEF m, q
<1>3. /\ \A k \in 1..m : q[k] \in at /\ q[k] \in Nat
      /\ \A k, l \in 1..m : k < l => q[k] < q[l]
      /\ \A i \in at : \E k \in 1..m : q[k] = i
  <2>1. \A i \in at : i \in Nat
    OBVIOUS
  <2>2. \A k \in 1..m : q[k] \in at
    BY <1>1 DEF Enumerates
  <2>3. QED
    BY <1>1, <2>1, <2>2 DEF Enumerates
<1>4. Enumerates(r, m, bt)
  <2>1. r \in [1..m -> bt]
    BY <1>3 DEF Moved
  <2>2. \A k, l \in 1..m : k < l => r[k] < r[l]
    BY <1>3
  <2>3. ASSUME NEW i \in bt PROVE \E k \in 1..m : r[k] = i
    <3>1. PICK j \in at : i = j + 1
      BY DEF Moved
    <3>2. PICK k \in 1..m : q[k] = j
      BY <1>3
    <3>3. QED
      BY <3>1, <3>2
  <2>4. QED
    BY <2>1, <2>2, <2>3 DEF Enumerates
<1> HIDE DEF r, bt
<1>5. Sorted(bt) = r /\ Cardinality(bt) = m
  BY <1>1, <1>2, <1>4, SortedIsUnique
<1>6. QED
  BY <1>5 DEF r, bt, m, q

\* Their first and last ones are moved as well.
LEMMA EndsMoved ==
  ASSUME NEW n \in Nat, NEW at \in SUBSET (1..n), at # {}
  PROVE  First(Moved(at)) = First(at) + 1 /\ Last(Moved(at)) = Last(at) + 1
         /\ First(at) \in at /\ Last(at) \in at
<1> DEFINE f == First(at)
           l == Last(at)
           bt == Moved(at)
<1>1. /\ at \in SUBSET Nat /\ f \in at /\ l \in at /\ (\A i \in at : f <= i)
      /\ \A i \in at : i <= l
  <2>1. at \in SUBSET Nat
    <3>1. \A i \in at : i \in Nat
      OBVIOUS
    <3>2. QED
      BY <3>1
  <2>2. f \in at /\ \A i \in at : f <= i
    BY <2>1, FirstIs
  <2>3. l \in at /\ \A i \in at : i <= l
    BY LastIs
  <2>4. QED
    BY <2>1, <2>2, <2>3
<1> HIDE DEF f, l
<1>2. /\ bt \in SUBSET (1..(n + 1)) /\ n + 1 \in Nat /\ bt \in SUBSET Nat
      /\ f + 1 \in bt /\ l + 1 \in bt
  BY <1>1 DEF Moved
<1>3. (\A j \in bt : f + 1 <= j) /\ \A j \in bt : j <= l + 1
  BY <1>1 DEF Moved
<1> HIDE DEF bt
<1>4. First(bt) = f + 1
  <2> DEFINE g == f + 1
  <2>1. g \in bt /\ \A j \in bt : g <= j
    BY <1>2, <1>3
  <2> HIDE DEF g
  <2>2. First(bt) = g
    BY <1>2, <2>1, FirstIsOnly
  <2>3. QED
    BY <2>2 DEF g
<1>5. Last(bt) = l + 1
  <2> DEFINE g == l + 1
             b == n + 1
  <2>1. g \in bt /\ (\A j \in bt : j <= g) /\ b \in Nat /\ bt \in SUBSET (1..b)
    BY <1>2, <1>3
  <2> HIDE DEF g, b
  <2>2. Last(bt) = g
    BY <2>1, LastIsOnly
  <2>3. QED
    BY <2>2 DEF g
<1>6. QED
  BY <1>1, <1>4, <1>5 DEF f, l, bt

\* The last element of a selection is at the last position.
LEMMA LastSelected ==
  ASSUME NEW s, IsSeq(s), NEW at \in SUBSET DOMAIN s, at # {}
  PROVE  /\ Selected(s, at) # <<>>
         /\ Selected(s, at)[Len(Selected(s, at))] = s[Last(at)]
<1> DEFINE m == Cardinality(at)
           q == Sorted(at)
           x == Selected(s, at)
<1>1. m \in Nat /\ Enumerates(q, m, at) /\ x = [k \in 1..m |-> s[q[k]]]
  BY SelectedBy
<1>2. Len(x) = m /\ IsSeq(x)
  BY SelectedIsSeq
<1>3. DOMAIN s = 1..Len(s) /\ Len(s) \in Nat
  BY AsFunction
<1> HIDE DEF m, q
<1>4. /\ \A k \in 1..m : q[k] \in at /\ q[k] \in Nat
      /\ \A k, l \in 1..m : k < l => q[k] < q[l]
      /\ \A i \in at : \E k \in 1..m : q[k] = i
  BY <1>1, <1>3 DEF Enumerates
<1>5. m \in 1..m
  <2>1. PICK i \in at : TRUE
    OBVIOUS
  <2>2. PICK k \in 1..m : q[k] = i
    BY <1>4
  <2>3. QED
    BY <1>1, <2>2
<1>6. ASSUME NEW i \in at PROVE i <= q[m]
  <2>1. PICK k \in 1..m : q[k] = i
    BY <1>4
  <2>2. k = m \/ k < m
    BY <1>1, <2>1
  <2>3. q[m] \in Nat /\ i \in Nat
    BY <1>4, <1>5, <2>1
  <2>4. QED
    BY <1>4, <1>5, <2>1, <2>2, <2>3
<1>7. Last(at) = q[m]
  <2> DEFINE l == q[m]
             n == Len(s)
  <2>1. l \in at /\ (\A i \in at : i <= l) /\ n \in Nat /\ at \in SUBSET (1..n)
    BY <1>3, <1>4, <1>5, <1>6
  <2> HIDE DEF l, n
  <2>2. Last(at) = l
    BY <2>1, LastIsOnly
  <2>3. QED
    BY <2>2 DEF l
<1>8. x[m] = s[q[m]]
  BY <1>1, <1>5
<1> HIDE DEF x
<1>9. x # <<>>
  <2>1. Len(<<>>) = 0
    OBVIOUS
  <2>2. m # 0
    BY <1>5
  <2>3. QED
    BY <1>2, <2>1, <2>2
<1>10. QED
  BY <1>2, <1>7, <1>8, <1>9 DEF x

-----------------------------------------------------------------------------
(* What a file must contain for nothing of its recording to be missing.    *)

\* The file f holds these attachments and this metadata, plain and sealed,
\* and no attachment in the clear.
Holds(f, as, ps, es) ==
  /\ Bodies(f, "attachment") = <<>>
  /\ Bodies(f, "encAttachment") = as
  /\ Bodies(f, "metadata") = ps
  /\ Bodies(f, "encMetadata") = es

\* Two files with the same contents hold the same.
LEMMA HoldsAlike ==
  ASSUME NEW f, NEW g, NEW as, NEW ps, NEW es, Holds(f, as, ps, es),
         \A op \in Contents : Bodies(g, op) = Bodies(f, op)
  PROVE  Holds(g, as, ps, es)
BY DEF Holds, Contents

\* What a file in order is laid out from: a head with the definitions of W,
\* and data.
Fit(head, data, W) ==
  /\ IsSeq(head) /\ Within(head, W) /\ Unended(head) /\ Slotless(head)
  /\ Lateless(head) /\ Defined(head, W)
  /\ IsSeq(data) /\ Within(data, W) /\ Unended(data) /\ Slotless(data)

\* Head and data together hold these attachments and this metadata.
Together(head, data, as, ps, es) ==
  /\ Bodies(head, "attachment") \o Bodies(data, "attachment") = <<>>
  /\ Bodies(head, "encAttachment") \o Bodies(data, "encAttachment") = as
  /\ Bodies(head, "metadata") \o Bodies(data, "metadata") = ps
  /\ Bodies(head, "encMetadata") \o Bodies(data, "encMetadata") = es

\* A file laid out from them is in order and holds what they hold.
LEMMA LaidIntact ==
  ASSUME NEW W, NEW head, NEW data, Fit(head, data, W),
         NEW as, NEW ps, NEW es, Together(head, data, as, ps, es),
         NEW list, IsSeq(list), NEW k, NEW n,
         NEW ds, IsSeq(ds), Elements(ds) \subseteq W, NEW at, IsSeq(at)
  PROVE  LET s == Laid(head, list, k, n, data, ds, at)
         IN Sound(s, W) /\ Holds(s, as, ps, es)
<1> DEFINE s == Laid(head, list, k, n, data, ds, at)
<1>1. /\ IsSeq(head) /\ Within(head, W) /\ Unended(head) /\ Slotless(head)
      /\ Lateless(head) /\ Defined(head, W)
  BY DEF Fit
<1>2. IsSeq(data) /\ Within(data, W) /\ Unended(data) /\ Slotless(data)
  BY DEF Fit
<1>3. Sound(s, W)
  BY <1>1, <1>2, LaidSettles, Zenon
<1>4. Combines(s, head, data)
  BY <1>1, <1>2, LaidSettles, Zenon
<1> HIDE DEF s
<1>5. Holds(s, as, ps, es)
  BY <1>4 DEF Combines, Together, Holds, Contents
<1>6. QED
  BY <1>3, <1>5 DEF s

\* The head of a file that Python or Go writes: header and definitions.
LEMMA HeadIs ==
  ASSUME NEW known, IsSeq(known)
  PROVE  LET head == <<Header>> \o Records(known, Def)
             W == Elements(known)
         IN /\ IsSeq(head) /\ Within(head, W) /\ Unended(head) /\ Slotless(head)
            /\ Lateless(head) /\ Defined(head, W) /\ Blank(head)
<1> DEFINE hd == <<Header>>
           ds == Records(known, Def)
           W == Elements(known)
<1>1. IsSeq(hd) /\ DOMAIN hd = {1} /\ hd[1].op = "header"
  <2>1. hd[1] = Header /\ IsSeq(hd) /\ DOMAIN hd = {1}
    BY Single
  <2>2. QED
    BY <2>1 DEF Header
<1> HIDE DEF hd
<1>2. Unended(hd) /\ Slotless(hd) /\ Lateless(hd) /\ Hollow(hd) /\ Within(hd, W)
  BY <1>1 DEF Unended, Slotless, Lateless, Hollow, Within, Ends, Sought, Loads, Late
<1>3. /\ IsSeq(ds) /\ Within(ds, W) /\ Hollow(ds) /\ Slotless(ds) /\ Lateless(ds)
      /\ Unended(ds) /\ Defined(ds, W)
  <2>1. Elements(known) \subseteq W /\ Elements(known) = W
    OBVIOUS
  <2> HIDE DEF W
  <2>2. QED
    BY <2>1, DefRecords
<1> HIDE DEF ds, W
<1> DEFINE head == hd \o ds
<1>4. IsSeq(head) /\ Unended(head)
  BY <1>1, <1>2, <1>3, Joining
<1>5. /\ Within(head, W) /\ Hollow(head) /\ Slotless(head) /\ Lateless(head)
      /\ Defined(head, W)
  BY <1>1, <1>2, <1>3, SettledParts
<1> HIDE DEF head
<1>6. Blank(head)
  BY <1>5 DEF Blank, Hollow, Contents, Sought, Loads, Late
<1>7. QED
  BY <1>4, <1>5, <1>6 DEF head, hd, ds, W

\* What is laid out behind a head without contents is all there is.
LEMMA BehindBlank ==
  ASSUME NEW head, IsSeq(head), Blank(head), NEW data, IsSeq(data),
         NEW as, NEW ps, NEW es, Holds(data, as, ps, es)
  PROVE  Together(head, data, as, ps, es)
<1>1. ASSUME NEW op \in Contents PROVE Bodies(head, op) \o Bodies(data, op) = Bodies(data, op)
  <2>1. \A i \in DOMAIN head : head[i].op # op
    BY DEF Blank
  <2>2. Bodies(head, op) = <<>>
    BY <2>1, BodiesNone
  <2>3. IsSeq(Bodies(data, op))
    BY BodiesForm
  <2>4. <<>> \o Bodies(data, op) = Bodies(data, op)
    BY <2>3, ConcatLen
  <2>5. QED
    BY <2>2, <2>4
<1>2. QED
  BY <1>1 DEF Together, Holds, Contents

\* Nothing with contents comes of putting together what has none.
LEMMA BlankJoin ==
  ASSUME NEW s, NEW t, IsSeq(s), IsSeq(t), Blank(s), Blank(t)
  PROVE  Blank(s \o t)
<1>1. SUFFICES ASSUME NEW k \in DOMAIN (s \o t) PROVE (s \o t)[k].op \notin Contents
  BY DEF Blank
<1>2. \/ k \in DOMAIN s /\ (s \o t)[k] = s[k]
      \/ \E i \in DOMAIN t : k = Len(s) + i /\ (s \o t)[k] = t[i]
  BY ConcatSplit
<1>3. QED
  BY <1>2 DEF Blank

\* A file without messages outside of chunks has none of their kind.
LEMMA NoMessages ==
  ASSUME NEW s, IsSeq(s), \A i \in DOMAIN s : s[i].op # "message"
  PROVE  OfKind(s, {"message"}) = <<>>
<1>1. \A i \in DOMAIN s : s[i].op \notin {"message"}
  OBVIOUS
<1>2. QED
  BY <1>1, OfKindNone

\* The records behind the magic of a file in order, up to the end of its data
\* or further: they are in order and have all of its contents.
LEMMA SectionKeeps ==
  ASSUME NEW W, NEW f, Sound(f, W), NEW ops, ops \subseteq Ends,
         NEW s, s = UpTo(SubSeq(f, 2, Len(f)), ops)
  PROVE  IsSeq(s) /\ Settled(s, W) /\ \A op \in Contents : Bodies(s, op) = Bodies(f, op)
<1> DEFINE g == SubSeq(f, 2, Len(f))
<1>1. IsSeq(f) /\ f # <<>> /\ f[1] = Magic /\ Settled(f, W)
  BY DEF Sound
<1>2. Len(f) \in Nat /\ Len(f) > 0 /\ DOMAIN f = 1..Len(f)
  <2>1. DOMAIN f = 1..Len(f) /\ Len(f) \in Nat /\ f = [k \in 1..Len(f) |-> f[k]]
    BY <1>1, AsFunction
  <2>2. CASE Len(f) = 0
    <3>1. f \in Seq(Elements(f))
      BY <1>1 DEF IsSeq
    <3>2. QED
      BY <1>1, <2>2, <3>1
  <2>3. QED
    BY <2>1, <2>2
<1>3. /\ IsSeq(g) /\ Len(g) = Len(f) - 1 /\ DOMAIN g = 1..(Len(f) - 1)
      /\ \A i \in 1..(Len(f) - 1) : g[i] = f[i + 1] /\ i + 1 \in DOMAIN f
  BY <1>1, <1>2, BehindMagic
<1>4. \A op \in Contents : Bodies(g, op) = Bodies(f, op)
  <2> DEFINE h == SubSeq(f, 1, 1)
  <2>0. 1 \in 0..Len(f)
    BY <1>2
  <2>1. f = h \o SubSeq(f, 1 + 1, Len(f))
    BY <1>1, <2>0, FrontAndBack, Zenon
  <2>2. IsSeq(h) /\ DOMAIN h = 1..1 /\ h[1] = Magic
    BY <1>1, <2>0, FrontOf
  <2>3. f = h \o g
    BY <2>1
  <2> HIDE DEF h, g
  <2>4. Blank(h)
    BY <2>2 DEF Blank, Contents, Magic
  <2>5. \A op \in Contents : Bodies(h \o g, op) = Bodies(g, op)
    BY <1>3, <2>2, <2>4, BlankAdds
  <2>6. QED
    BY <2>3, <2>5
<1>5. PICK m \in 0..Len(g) : s = SubSeq(g, 1, m) /\ (m < Len(g) => g[m + 1].op \in ops)
  BY <1>3, UpToIsFront
<1> HIDE DEF g
<1>6. /\ IsSeq(s) /\ DOMAIN s = 1..m /\ m \in Nat /\ m <= Len(f) - 1
      /\ \A i \in 1..m : s[i] = g[i] /\ i \in DOMAIN g /\ s[i] = f[i + 1] /\ i + 1 \in DOMAIN f
  <2>1. /\ IsSeq(s) /\ DOMAIN s = 1..m
        /\ \A i \in 1..m : s[i] = g[i] /\ i \in DOMAIN g
    BY <1>3, <1>5, FrontOf
  <2>2. m \in Nat /\ m <= Len(f) - 1
    BY <1>2, <1>3, <1>5
  <2>3. QED
    BY <1>3, <2>1, <2>2
<1>7. ASSUME NEW op \in Contents PROVE Bodies(s, op) = Bodies(f, op)
  <2>1. ASSUME NEW i \in DOMAIN g, g[i].op = op PROVE i <= m
    <3>1. op \in Sought
      BY DEF Contents, Sought, Loads, Late
    <3>2. SUFFICES ASSUME ~ (i <= m) PROVE FALSE
      OBVIOUS
    <3>3. m < Len(g) /\ i \in Nat /\ i \in 1..(Len(f) - 1) /\ m + 1 \in 1..(Len(f) - 1)
      BY <1>2, <1>3, <1>6, <3>2
    <3>4. f[i + 1].op \in Sought /\ i + 1 \in DOMAIN f
      BY <1>3, <2>1, <3>1, <3>3
    <3>5. f[(m + 1) + 1].op \in Ends /\ (m + 1) + 1 \in DOMAIN f /\ (m + 1) + 1 > 1
      BY <1>3, <1>5, <1>6, <3>3
    <3>6. i + 1 < (m + 1) + 1
      BY <1>1, <3>4, <3>5 DEF Settled
    <3>7. QED
      BY <1>6, <3>2, <3>3, <3>6
  <2>2. Bodies(SubSeq(g, 1, m), op) = Bodies(g, op)
    BY <1>3, <2>1, FrontHasAll
  <2>3. QED
    BY <1>4, <1>5, <2>2
<1>8. Settled(s, W)
  <2>1. Within(s, W)
    BY <1>1, <1>6 DEF Settled, Within
  <2>2. ASSUME NEW i \in DOMAIN s, NEW j \in DOMAIN s, s[i].op \in Sought, j > 1, s[j].op \in Ends
        PROVE  i < j
    <3>1. i + 1 \in DOMAIN f /\ j + 1 \in DOMAIN f /\ f[i + 1].op \in Sought /\ f[j + 1].op \in Ends
      BY <1>6, <2>2, SMTT(30)
    <3>2. i \in 1..m /\ j \in 1..m /\ m \in Nat
      BY <1>6, <2>2
    <3>3. i \in Nat /\ j \in Nat /\ j + 1 > 1
      BY <3>2
    <3>4. i + 1 < j + 1
      BY <1>1, <3>1, <3>3 DEF Settled
    <3>5. QED
      BY <3>3, <3>4
  <2>3. ASSUME NEW i \in DOMAIN s, NEW j \in DOMAIN s, s[i].op = "slot", s[j].op \in Late
        PROVE  i < j
    <3>1. i + 1 \in DOMAIN f /\ j + 1 \in DOMAIN f /\ f[i + 1].op = "slot" /\ f[j + 1].op \in Late
      BY <1>6, <2>3, SMTT(30)
    <3>2. i + 1 < j + 1
      BY <1>1, <3>1 DEF Settled
    <3>3. QED
      BY <1>6, <3>2
  <2>4. ASSUME NEW i \in DOMAIN s, s[i].op = "slot", NEW d \in W
        PROVE  \E j \in DOMAIN s : j < i /\ s[j].op = "def" /\ s[j].id = d
    <3>1. i + 1 \in DOMAIN f /\ f[i + 1].op = "slot"
      BY <1>6, <2>4
    <3>2. PICK l \in DOMAIN f : l < i + 1 /\ f[l].op = "def" /\ f[l].id = d
      BY <1>1, <3>1 DEF Settled
    <3>3. l # 1
      BY <1>1, <3>2 DEF Magic
    <3>4. l - 1 \in 1..m /\ (l - 1) + 1 = l /\ l - 1 < i
      BY <1>2, <1>6, <3>2, <3>3, SMTT(30)
    <3>5. s[l - 1] = f[l]
      BY <1>6, <3>4
    <3>6. QED
      BY <1>6, <3>2, <3>4, <3>5
  <2>5. QED
    BY <2>1, <2>2, <2>3, <2>4 DEF Settled
<1>9. QED
  BY <1>6, <1>7, <1>8

\* Whoever has found a key there has passed a slot, and with it every
\* definition.
LEMMA KeyedIsDefined ==
  ASSUME NEW s, IsSeq(s), Keyed(s), NEW W, Settled(s, W), NEW h, KeyFor(s, h) # NoKey
  PROVE  Defined(s, W) /\ Elements(DefIds(s)) \subseteq W
<1>1. PICK i \in DOMAIN s : s[i].op = "slot"
  <2>1. Own(s, h) # {}
    BY KeyIs
  <2>2. QED
    BY <2>1 DEF Own
<1>2. Defined(s, W)
  BY <1>1 DEF Settled, Defined
<1>3. Elements(DefIds(s)) \subseteq W
  <2> DEFINE ds == OfKind(s, {"def"})
  <2>1. IsSeq(ds) /\ Elements(ds) = {r \in Elements(s) : r.op \in {"def"}}
    BY OfKindIsSeq
  <2>2. DefIds(s) = [k \in DOMAIN ds |-> ds[k].id]
    BY DEF DefIds
  <2> HIDE DEF ds
  <2>3. \A k \in DOMAIN ds : ds[k].id \in W
    BY <2>1 DEF Settled, Within, Elements
  <2>4. QED
    BY <2>2, <2>3 DEF Elements
<1>4. QED
  BY <1>2, <1>3

\* The definitions of a file are among its records of any kinds that they are
\* one of.
LEMMA DefinedKind ==
  ASSUME NEW s, IsSeq(s), NEW W, Defined(s, W), NEW at \in SUBSET DOMAIN s,
         KindAt(s, {"def"}) \subseteq at
  PROVE  Defined(Selected(s, at), W)
<1> DEFINE t == Selected(s, at)
<1>1. IsSeq(t) /\ Elements(t) = {s[i] : i \in at}
  BY SelectedIsSeq
<1> HIDE DEF t
<1>2. ASSUME NEW d \in W PROVE \E j \in DOMAIN t : t[j].op = "def" /\ t[j].id = d
  <2>1. PICK i \in DOMAIN s : s[i].op = "def" /\ s[i].id = d
    BY DEF Defined
  <2>2. i \in at
    BY <2>1 DEF KindAt
  <2>3. s[i] \in Elements(t)
    BY <1>1, <2>2
  <2>4. QED
    BY <2>1, <2>3 DEF Elements
<1>3. QED
  BY <1>2 DEF Defined, t

\* What the scan has made of the records q it has read: what is in the two
\* buffers h and d is what q contains, in its order, every definition of q is
\* in h, neither buffer has a slot or an end of a section, and a key comes from
\* a slot.
SortedInto(h, d, q, W) ==
  /\ IsSeq(h) /\ IsSeq(d) /\ IsSeq(q)
  /\ \A op \in Contents : Bodies(h, op) \o Bodies(d, op) = Bodies(q, op)
  /\ \A i \in DOMAIN q : q[i].op = "def" => \E j \in DOMAIN h : h[j] = q[i]
  /\ Within(h, W) /\ Unended(h) /\ Slotless(h) /\ Lateless(h)
  /\ Within(d, W) /\ Unended(d) /\ Slotless(d)

\* One more record has its body (Bodies of McapRecords).
LEMMA BodyAdded ==
  ASSUME NEW s, IsSeq(s), NEW e
  PROVE  Bodies(s \o <<e>>, e.op) = Bodies(s, e.op) \o <<e.body>>
<1> DEFINE t == <<e>>
           op == e.op
<1>1. IsSeq(t)
  BY Single
<1>2. Bodies(t, op) = <<e.body>>
  BY BodiesSingle
<1> HIDE DEF t, op
<1>3. Bodies(s \o t, op) = Bodies(s, op) \o Bodies(t, op)
  BY <1>1, BodiesConcat
<1>4. QED
  BY <1>2, <1>3 DEF t, op

\* One more record has no body of another kind (Bodies of McapRecords).
LEMMA NoBodyAdded ==
  ASSUME NEW s, IsSeq(s), NEW e, NEW op, e.op # op
  PROVE  Bodies(s \o <<e>>, op) = Bodies(s, op)
<1> DEFINE t == <<e>>
<1>1. IsSeq(t) /\ \A i \in DOMAIN t : t[i].op # op
  BY Single
<1> HIDE DEF t
<1>2. Bodies(s \o t, op) = Bodies(s, op)
  BY <1>1, NoneAdded
<1>3. QED
  BY <1>2 DEF t

\* t has the records of s, and e.
HasAlso(s, t, e) ==
  /\ \A i \in DOMAIN s : i \in DOMAIN t /\ t[i] = s[i]
  /\ \E j \in DOMAIN t : t[j] = e

\* A record at the end of a buffer keeps what holds of every record of it.
LEMMA BufferMore ==
  ASSUME NEW s, IsSeq(s), NEW e, NEW W, Within(s, W), Unended(s), Slotless(s),
         e.op \notin Ends \cup {"slot"}, e.op = "def" => e.id \in W
  PROVE  /\ IsSeq(s \o <<e>>) /\ Within(s \o <<e>>, W)
         /\ Unended(s \o <<e>>) /\ Slotless(s \o <<e>>)
         /\ Lateless(s) /\ e.op \notin Late => Lateless(s \o <<e>>)
         /\ HasAlso(s, s \o <<e>>, e)
<1> DEFINE t == s \o <<e>>
<1>1. /\ IsSeq(t) /\ Len(s) \in Nat /\ DOMAIN s = 1..Len(s) /\ DOMAIN t = 1..(Len(s) + 1)
      /\ \A i \in 1..Len(s) : t[i] = s[i]
      /\ t[Len(s) + 1] = e
  BY OneMore
<1> DEFINE n == Len(s)
<1> HIDE DEF t, n
<1>2. /\ n \in Nat /\ DOMAIN s = 1..n /\ DOMAIN t = 1..(n + 1)
      /\ \A i \in 1..n : t[i] = s[i]
      /\ t[n + 1] = e
  BY <1>1 DEF n
<1>3. /\ \A i \in DOMAIN t : (i \in DOMAIN s /\ t[i] = s[i]) \/ t[i] = e
      /\ \A i \in DOMAIN s : i \in DOMAIN t /\ t[i] = s[i]
      /\ n + 1 \in DOMAIN t
  BY <1>2
<1>4. Within(t, W) /\ Unended(t) /\ Slotless(t)
  BY <1>3 DEF Within, Unended, Slotless
<1>5. Lateless(s) /\ e.op \notin Late => Lateless(t)
  BY <1>3 DEF Lateless
<1>6. HasAlso(s, t, e)
  BY <1>2, <1>3 DEF HasAlso
<1>7. QED
  BY <1>1, <1>4, <1>5, <1>6 DEF t

\* A record goes to the end of the header buffer (KeepHeader, and KeepUnknown
\* ahead of the first chunk, of Rotator): of content it may be, encrypted
\* metadata only, and only while there is none in the data buffer.
LEMMA SortsAhead ==
  ASSUME NEW W, NEW h, NEW d, NEW q, SortedInto(h, d, q, W), NEW e,
         e.op \notin Ends \cup {"slot"} \cup Late, e.op = "def" => e.id \in W,
         \A op \in Contents : e.op = op => Bodies(d, op) = <<>>
  PROVE  SortedInto(h \o <<e>>, d, q \o <<e>>, W)
<1>1. /\ IsSeq(h) /\ IsSeq(d) /\ IsSeq(q)
      /\ Within(h, W) /\ Unended(h) /\ Slotless(h) /\ Lateless(h)
      /\ Within(d, W) /\ Unended(d) /\ Slotless(d)
  BY DEF SortedInto
<1> DEFINE x == h \o <<e>>
           y == q \o <<e>>
<1>2. /\ IsSeq(x) /\ Within(x, W) /\ Unended(x) /\ Slotless(x) /\ Lateless(x)
      /\ HasAlso(h, x, e)
  <2>1. e.op \notin Ends \cup {"slot"} /\ e.op \notin Late
    OBVIOUS
  <2>2. QED
    BY <1>1, <2>1, BufferMore
<1>3. /\ IsSeq(y) /\ Len(q) \in Nat /\ DOMAIN q = 1..Len(q) /\ DOMAIN y = 1..(Len(q) + 1)
      /\ \A i \in 1..Len(q) : y[i] = q[i]
      /\ y[Len(q) + 1] = e
  BY <1>1, OneMore
<1> HIDE DEF x, y
<1>4. ASSUME NEW i \in DOMAIN y, y[i].op = "def"
      PROVE  \E j \in DOMAIN x : x[j] = y[i]
  <2>1. (i \in DOMAIN q /\ y[i] = q[i]) \/ y[i] = e
    BY <1>3
  <2>2. CASE i \in DOMAIN q /\ y[i] = q[i]
    <3>1. \E j \in DOMAIN h : h[j] = q[i]
      BY <1>4, <2>2 DEF SortedInto
    <3>2. QED
      BY <1>2, <2>2, <3>1 DEF HasAlso
  <2>3. CASE y[i] = e
    BY <1>2, <2>3 DEF HasAlso
  <2>4. QED
    BY <2>1, <2>2, <2>3
<1>5. ASSUME NEW op \in Contents
      PROVE  Bodies(x, op) \o Bodies(d, op) = Bodies(y, op)
  <2> DEFINE b == Bodies(h, op)
             c == Bodies(d, op)
             p == Bodies(q, op)
             v == e.body
  <2>0. IsSeq(h) /\ IsSeq(q)
    BY <1>1
  <2>1. IsSeq(b) /\ IsSeq(c)
    BY <1>1, BodiesForm
  <2>2. b \o c = p
    BY DEF SortedInto
  <2>3. CASE e.op # op
    <3>1. Bodies(x, op) = b
      BY <2>0, <2>3, NoBodyAdded DEF x
    <3>2. Bodies(y, op) = p
      BY <2>0, <2>3, NoBodyAdded DEF y
    <3>3. QED
      BY <2>2, <3>1, <3>2
  <2>4. CASE e.op = op
    <3>1. c = <<>>
      BY <2>4
    <3>2. Bodies(x, op) = b \o <<v>>
      BY <2>0, <2>4, BodyAdded DEF x
    <3>3. Bodies(y, op) = p \o <<v>>
      BY <2>0, <2>4, BodyAdded DEF y
    <3> HIDE DEF b, c, p, v
    <3>4. b \o <<>> = b
      BY <2>1, ConcatLen
    <3>5. p = b
      BY <2>2, <3>1, <3>4
    <3> DEFINE z == <<v>>
    <3>6. IsSeq(z)
      BY Single
    <3> HIDE DEF z
    <3>7. IsSeq(b \o z)
      BY <2>1, <3>6, Concat
    <3>8. (b \o z) \o <<>> = b \o z
      BY <3>7, ConcatLen
    <3>9. QED
      BY <3>1, <3>2, <3>3, <3>5, <3>8 DEF c, z
  <2>5. QED
    BY <2>3, <2>4
<1>6. QED
  BY <1>1, <1>2, <1>3, <1>4, <1>5 DEF SortedInto, x, y

\* A record goes to the end of the data buffer (KeepData, KeepChunk,
\* KeepEncAttachment and, behind the first chunk, KeepUnknown of Rotator).
LEMMA SortsBehind ==
  ASSUME NEW W, NEW h, NEW d, NEW q, SortedInto(h, d, q, W), NEW e,
         e.op \notin Ends \cup {"slot", "def"}
  PROVE  SortedInto(h, d \o <<e>>, q \o <<e>>, W)
<1>1. /\ IsSeq(h) /\ IsSeq(d) /\ IsSeq(q)
      /\ Within(h, W) /\ Unended(h) /\ Slotless(h) /\ Lateless(h)
      /\ Within(d, W) /\ Unended(d) /\ Slotless(d)
  BY DEF SortedInto
<1> DEFINE x == d \o <<e>>
           y == q \o <<e>>
<1>2. IsSeq(x) /\ Within(x, W) /\ Unended(x) /\ Slotless(x)
  BY <1>1, BufferMore
<1>3. /\ IsSeq(y) /\ Len(q) \in Nat /\ DOMAIN q = 1..Len(q) /\ DOMAIN y = 1..(Len(q) + 1)
      /\ \A i \in 1..Len(q) : y[i] = q[i]
      /\ y[Len(q) + 1] = e
  BY <1>1, OneMore
<1> HIDE DEF x, y
<1>4. ASSUME NEW i \in DOMAIN y, y[i].op = "def"
      PROVE  \E j \in DOMAIN h : h[j] = y[i]
  <2>1. (i \in DOMAIN q /\ y[i] = q[i]) \/ y[i] = e
    BY <1>3
  <2>2. i \in DOMAIN q /\ y[i] = q[i]
    BY <1>4, <2>1
  <2>3. QED
    BY <1>4, <2>2 DEF SortedInto
<1>5. ASSUME NEW op \in Contents
      PROVE  Bodies(h, op) \o Bodies(x, op) = Bodies(y, op)
  <2> DEFINE b == Bodies(h, op)
             c == Bodies(d, op)
             p == Bodies(q, op)
             v == e.body
  <2>0. IsSeq(d) /\ IsSeq(q)
    BY <1>1
  <2>1. IsSeq(b) /\ IsSeq(c) /\ b \o c = p
    BY <1>1, BodiesForm DEF SortedInto
  <2>2. CASE e.op # op
    <3>1. Bodies(x, op) = c
      BY <2>0, <2>2, NoBodyAdded DEF x
    <3>2. Bodies(y, op) = p
      BY <2>0, <2>2, NoBodyAdded DEF y
    <3>3. QED
      BY <2>1, <3>1, <3>2
  <2>3. CASE e.op = op
    <3>0. Bodies(x, op) = c \o <<v>>
      BY <2>0, <2>3, BodyAdded DEF x
    <3>1. Bodies(y, op) = p \o <<v>>
      BY <2>0, <2>3, BodyAdded DEF y
    <3> HIDE DEF b, c, p, v
    <3>2. IsSeq(<<v>>)
      BY Single
    <3> DEFINE z == <<v>>
    <3> HIDE DEF z
    <3>3. (b \o c) \o z = b \o (c \o z)
      BY <2>1, <3>2, Grouped DEF z
    <3>4. QED
      BY <2>1, <3>0, <3>1, <3>3 DEF b, z
  <2>4. QED
    BY <2>2, <2>3
<1>6. QED
  BY <1>1, <1>2, <1>3, <1>4, <1>5 DEF SortedInto, x, y

\* A record is left behind (DropSlot and DropManifest of Rotator).
LEMMA SortsOut ==
  ASSUME NEW W, NEW h, NEW d, NEW q, SortedInto(h, d, q, W), NEW e,
         e.op \notin Contents \cup {"def"}
  PROVE  SortedInto(h, d, q \o <<e>>, W)
<1>1. /\ IsSeq(h) /\ IsSeq(d) /\ IsSeq(q)
      /\ Within(h, W) /\ Unended(h) /\ Slotless(h) /\ Lateless(h)
      /\ Within(d, W) /\ Unended(d) /\ Slotless(d)
  BY DEF SortedInto
<1> DEFINE y == q \o <<e>>
<1>2. /\ IsSeq(y) /\ Len(q) \in Nat /\ DOMAIN q = 1..Len(q) /\ DOMAIN y = 1..(Len(q) + 1)
      /\ \A i \in 1..Len(q) : y[i] = q[i]
      /\ y[Len(q) + 1] = e
  BY <1>1, OneMore
<1>3. \A op \in Contents : Bodies(y, op) = Bodies(q, op)
  BY <1>1, NoBodyAdded
<1> HIDE DEF y
<1>4. ASSUME NEW i \in DOMAIN y, y[i].op = "def"
      PROVE  \E j \in DOMAIN h : h[j] = y[i]
  <2>1. (i \in DOMAIN q /\ y[i] = q[i]) \/ y[i] = e
    BY <1>2
  <2>2. i \in DOMAIN q /\ y[i] = q[i]
    BY <1>4, <2>1
  <2>3. QED
    BY <1>4, <2>2 DEF SortedInto
<1>5. \A op \in Contents : Bodies(h, op) \o Bodies(d, op) = Bodies(y, op)
  BY <1>3 DEF SortedInto
<1>6. QED
  BY <1>1, <1>2, <1>4, <1>5 DEF SortedInto, y

\* A slot that was read stays read.
LEMMA SlotStays ==
  ASSUME NEW s, IsSeq(s), NEW e, ~ Slotless(s) \/ e.op = "slot"
  PROVE  ~ Slotless(s \o <<e>>)
<1> DEFINE t == s \o <<e>>
<1>1. /\ Len(s) \in Nat /\ DOMAIN s = 1..Len(s) /\ DOMAIN t = 1..(Len(s) + 1)
      /\ \A i \in 1..Len(s) : t[i] = s[i]
      /\ t[Len(s) + 1] = e
  BY OneMore
<1> HIDE DEF t
<1>2. \E i \in DOMAIN t : t[i].op = "slot"
  <2>1. CASE e.op = "slot"
    BY <1>1, <2>1
  <2>2. CASE ~ Slotless(s)
    BY <1>1, <2>2 DEF Slotless
  <2>3. QED
    BY <2>1, <2>2
<1>3. QED
  BY <1>2 DEF Slotless, t

\* A reader that stops at an end of the data section, or at the end of the file,
\* has read everything the file contains.
LEMMA StopsBehindAll ==
  ASSUME NEW f, NEW W, Sound(f, W), NEW p \in 2..(Len(f) + 1),
         p <= Len(f) => f[p].op \in Ends
  PROVE  \A op \in Loads : Bodies(SubSeq(f, 1, p - 1), op) = Bodies(f, op)
<1> DEFINE m == p - 1
           l == Len(f)
<1>1. IsSeq(f) /\ Settled(f, W)
  BY DEF Sound
<1>2. l \in Nat /\ DOMAIN f = 1..l
  BY <1>1, AsFunction
<1>3. \A i, j \in DOMAIN f : f[i].op \in Sought /\ j > 1 /\ f[j].op \in Ends => i < j
  BY <1>1 DEF Settled
<1>4. ASSUME NEW op \in Loads, NEW i \in DOMAIN f, f[i].op = op
      PROVE  i <= m
  <2>1. f[i].op \in Sought
    BY <1>4 DEF Sought
  <2>2. CASE p <= l
    <3>1. p \in DOMAIN f /\ p > 1 /\ f[p].op \in Ends
      BY <1>2, <2>2
    <3>2. i < p
      BY <1>3, <2>1, <3>1
    <3>3. QED
      BY <1>2, <3>2
  <2>3. CASE ~ p <= l
    BY <1>2, <2>3
  <2>4. QED
    BY <2>2, <2>3
<1>5. m \in 0..Len(f)
  BY <1>2
<1>6. QED
  <2> HIDE DEF m
  <2>1. \A op \in Loads : Bodies(SubSeq(f, 1, m), op) = Bodies(f, op)
    BY <1>1, <1>4, <1>5, FrontHasAll
  <2>2. QED
    BY <2>1 DEF m

\* Behind a slot all definitions of a file have been seen.
LEMMA SlotDefines ==
  ASSUME NEW f, IsSeq(f), NEW W, Settled(f, W), NEW m \in 0..Len(f),
         ~ Slotless(SubSeq(f, 1, m))
  PROVE  Elements(DefIds(SubSeq(f, 1, m))) = W
<1> DEFINE q == SubSeq(f, 1, m)
           ds == OfKind(q, {"def"})
<1>1. Len(f) \in Nat /\ DOMAIN f = 1..Len(f)
  BY AsFunction
<1>2. /\ IsSeq(q) /\ DOMAIN q = 1..m
      /\ \A i \in 1..m : q[i] = f[i] /\ i \in DOMAIN f
  BY FrontOf
<1> HIDE DEF q
<1>3. IsSeq(ds) /\ Elements(ds) = {r \in Elements(q) : r.op \in {"def"}}
  BY <1>2, OfKindIsSeq
<1>4. DefIds(q) = [i \in DOMAIN ds |-> ds[i].id]
  BY DEF DefIds
<1> HIDE DEF ds
<1>5. \A d : d \in Elements(DefIds(q)) <=> \E i \in DOMAIN ds : d = ds[i].id
  BY <1>4 DEF Elements
<1>6. \A d : d \in Elements(DefIds(q)) <=> \E i \in DOMAIN q : q[i].op = "def" /\ d = q[i].id
  <2> TAKE d
  <2>1. d \in Elements(DefIds(q)) <=> \E i \in DOMAIN ds : d = ds[i].id
    BY <1>5
  <2>2. (\E i \in DOMAIN ds : d = ds[i].id) <=> (\E r \in Elements(ds) : d = r.id)
    BY DEF Elements
  <2>3. (\E r \in Elements(ds) : d = r.id)
          <=> (\E i \in DOMAIN q : q[i].op = "def" /\ d = q[i].id)
    BY <1>3 DEF Elements
  <2>4. QED
    BY ONLY <2>1, <2>2, <2>3
<1>7. PICK i \in DOMAIN q : q[i].op = "slot"
  BY DEF Slotless, q
<1>8. ASSUME NEW d \in W PROVE d \in Elements(DefIds(q))
  <2>1. PICK j \in DOMAIN f : j < i /\ f[j].op = "def" /\ f[j].id = d
    BY <1>2, <1>7 DEF Settled
  <2>2. j \in DOMAIN q /\ q[j] = f[j]
    BY <1>1, <1>2, <1>7, <2>1
  <2>3. QED
    BY <1>6, <2>1, <2>2
<1>9. ASSUME NEW j \in DOMAIN q, q[j].op = "def" PROVE q[j].id \in W
  BY <1>2, <1>9 DEF Settled, Within
<1>10. Elements(DefIds(q)) \subseteq W
  BY <1>6, <1>9
<1>11. QED
  BY <1>8, <1>10 DEF q

\* A slot that has just been passed has no chunk and no attachment ahead.
LEMMA SlotIsEarly ==
  ASSUME NEW f, IsSeq(f), NEW W, Settled(f, W), NEW m \in 0..Len(f), m < Len(f),
         f[m + 1].op = "slot"
  PROVE  Bodies(SubSeq(f, 1, m), "encAttachment") = <<>>
<1> DEFINE q == SubSeq(f, 1, m)
           l == Len(f)
<1>1. l \in Nat /\ DOMAIN f = 1..l
  BY AsFunction
<1>2. IsSeq(q) /\ DOMAIN q = 1..m /\ \A i \in 1..m : q[i] = f[i] /\ i \in DOMAIN f
  BY FrontOf
<1> HIDE DEF q, l
<1>3. m + 1 \in DOMAIN f /\ m \in Nat
  BY <1>1 DEF l
<1>4. \A i \in DOMAIN f : f[i].op \in Late => m + 1 < i
  BY <1>3 DEF Settled
<1>5. \A i \in DOMAIN q : q[i].op \notin Late
  BY <1>2, <1>3, <1>4
<1>6. \A i \in DOMAIN q : q[i].op # "encAttachment"
  BY <1>5 DEF Late
<1>7. QED
  BY <1>2, <1>6, BodiesNone DEF q

\* A file without bodies of plain attachments has no plain attachment.
LEMMA NoneOfKind ==
  ASSUME NEW f, IsSeq(f), NEW op, Bodies(f, op) = <<>>
  PROVE  \A i \in DOMAIN f : f[i].op # op
<1>1. Len(OfKind(f, {op})) = 0 /\ IsSeq(OfKind(f, {op}))
  BY BodiesForm, OfKindIsSeq
<1> DEFINE k == OfKind(f, {op})
<1>2. k = <<>>
  <2>1. IsSeq(k) /\ Len(k) = 0
    BY <1>1
  <2> HIDE DEF k
  <2>2. QED
    BY <2>1 DEF IsSeq
<1> HIDE DEF k
<1>3. OfKind(f, {op}) = <<>>
  BY <1>2 DEF k
<1>4. QED
  BY <1>3, OfKindEmpty

\* All chunks of a file are counted where all their bodies are.
LEMMA SameTally ==
  ASSUME NEW s, NEW t, IsSeq(s), IsSeq(t), Bodies(s, "encChunk") = Bodies(t, "encChunk")
  PROVE  Tally(s) = Tally(t)
<1>1. Len(Bodies(s, "encChunk")) = Tally(s)
  BY BodiesForm DEF Tally
<1>2. Len(Bodies(t, "encChunk")) = Tally(t)
  BY BodiesForm DEF Tally
<1>3. QED
  BY <1>1, <1>2

=============================================================================
