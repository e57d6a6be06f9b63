----------------------------- MODULE ListProofs ------------------------------
(***************************************************************************)
(* Facts that the proofs about several components share: least elements,   *)
(* counting and the nearest of a set of distances; what the removal of one *)
(* element, or the addition of one, does to the elements of a list; what a *)
(* loop computes; and numbers and their digits.                            *)
(***************************************************************************)
EXTENDS Nearness, Numerals, Sequences, SequencesExt,
        SequenceTheorems, FiniteSetTheorems, WellFoundedInduction, TLAPS

-----------------------------------------------------------------------------
(* Numbers                                                                 *)
-----------------------------------------------------------------------------
LessThan == {p \in Nat \X Nat : p[1] < p[2]}

\* Every set of natural numbers that is not empty has a least element: the
\* list walks of ds/ordereddict.c stop at the first match there is.
LEMMA LeastOf ==
  ASSUME NEW T \in SUBSET Nat, T # {}
  PROVE  \E m \in T : \A n \in T : m <= n
<1>1. IsWellFoundedOn(LessThan, Nat)
  BY Zenon, NatLessThanWellFounded DEF OpToRel, LessThan
<1>2. PICK m \in T : \A n \in T : ~ (<<n, m>> \in LessThan)
  BY <1>1, WFMin
<1>3. ASSUME NEW n \in T PROVE m <= n
  <2>1. CASE n < m
    <3>1. <<n, m>> \in LessThan
      BY <2>1 DEF LessThan
    <3>2. QED
      BY <1>2, <3>1
  <2>2. QED
    BY <2>1
<1>4. QED
  BY <1>3

\* The members of a finite set of positions can be counted off: for every k up
\* to their number there is one that is the k-th from below.  Keep relies on
\* it when it names the k-th contact that qualifies.
LEMMA CountingOff ==
  ASSUME NEW n \in Nat, NEW A \in SUBSET (1..n), NEW k \in 1..Cardinality(A)
  PROVE  \E i \in A : Cardinality({j \in A : j <= i}) = k
<1> DEFINE Upto(i) == {j \in A : j <= i}
<1>1. \A j \in A : j \in Int /\ 1 <= j /\ j <= n
  OBVIOUS
<1>2. IsFiniteSet(A) /\ Cardinality(A) \in Nat
  <2>1. IsFiniteSet(1..n)
    BY FS_Interval
  <2>2. IsFiniteSet(A)
    BY <2>1, FS_Subset
  <2>3. QED
    BY <2>2, FS_CardinalityType
<1>3. \A i \in Int : IsFiniteSet(Upto(i)) /\ Cardinality(Upto(i)) \in Nat
  BY <1>2, FS_Subset, FS_CardinalityType
<1>4. Upto(0) = {} /\ Upto(n) = A
  <2>1. \A j \in A : ~ (j <= 0) /\ j <= n
    BY <1>1
  <2>2. QED
    BY <2>1, Zenon
<1>5. ASSUME NEW i \in 1..n, i \notin A
      PROVE  Upto(i) = Upto(i - 1)
  <2>1. \A j \in A : j <= i <=> j <= i - 1
    BY <1>1, <1>5
  <2>2. QED
    BY <2>1, Zenon
<1>6. ASSUME NEW i \in 1..n, i \in A
      PROVE  Upto(i) = Upto(i - 1) \cup {i} /\ i \notin Upto(i - 1)
  <2>1. \A j \in A : j <= i <=> (j <= i - 1 \/ j = i)
    BY <1>1, <1>6
  <2>2. ~ (i <= i - 1)
    OBVIOUS
  <2>3. QED
    BY <1>6, <2>1, <2>2, Zenon
<1> DEFINE T == {i \in 0..n : Cardinality(Upto(i)) >= k}
<1>7. n \in T
  BY <1>2, <1>4
<1> HIDE DEF Upto
<1>8. PICK m \in T : \A i \in T : m <= i
  <2>1. T \in SUBSET Nat /\ T # {}
    BY <1>7
  <2>2. QED
    BY <2>1, LeastOf
<1>9. m # 0
  BY <1>4, FS_EmptySet
<1>10. m \in 1..n /\ m - 1 \in 0..n /\ m - 1 \notin T
  BY <1>8, <1>9
<1>11. Cardinality(Upto(m - 1)) < k /\ Cardinality(Upto(m)) >= k
  BY <1>3, <1>8, <1>10
<1>12. m \in A
  BY <1>3, <1>5, <1>10, <1>11
<1>13. Cardinality(Upto(m)) = Cardinality(Upto(m - 1)) + 1
  BY <1>3, <1>6, <1>10, <1>12, FS_AddElement
<1>14. Cardinality(Upto(m)) = k
  BY <1>3, <1>10, <1>11, <1>13
<1>15. QED
  BY <1>12, <1>14 DEF Upto

-----------------------------------------------------------------------------
(* The nearest of a set of distances                                       *)
-----------------------------------------------------------------------------
\* How many are nearer can be counted, and the farther a contact the more.
LEMMA NearerAreFewer ==
  ASSUME NEW P \in SUBSET Nat, IsFiniteSet(P)
  PROVE  /\ \A p \in P : /\ IsFiniteSet({q \in P : q < p})
                         /\ Cardinality({q \in P : q < p}) \in Nat
         /\ \A p, r \in P : p < r =>
              Cardinality({q \in P : q < p}) < Cardinality({q \in P : q < r})
<1> DEFINE nearer(p) == {q \in P : q < p}
<1>1. \A p \in P : IsFiniteSet(nearer(p)) /\ Cardinality(nearer(p)) \in Nat
  BY FS_Subset, FS_CardinalityType
<1>2. ASSUME NEW p \in P, NEW r \in P, p < r
      PROVE  Cardinality(nearer(p)) < Cardinality(nearer(r))
  <2>0. (\A q \in P : q < p => q < r) /\ ~ (p < p)
    BY <1>2
  <2>1. nearer(p) \cup {p} \in SUBSET nearer(r) /\ p \notin nearer(p)
    BY <1>2, <2>0, Zenon
  <2> HIDE DEF nearer
  <2>2. /\ IsFiniteSet(nearer(p) \cup {p})
        /\ Cardinality(nearer(p) \cup {p}) = Cardinality(nearer(p)) + 1
    BY <1>1, <2>1, FS_AddElement
  <2>3. Cardinality(nearer(p) \cup {p}) <= Cardinality(nearer(r))
    BY <1>1, <2>1, FS_Subset
  <2>4. QED
    BY <1>1, <2>2, <2>3
<1>3. QED
  BY <1>1, <1>2

\* The n nearest are no more than n.
LEMMA NearestAreFew ==
  ASSUME NEW P \in SUBSET Nat, IsFiniteSet(P), NEW n \in Nat
  PROVE  /\ Nearest(P, n) \subseteq P /\ IsFiniteSet(Nearest(P, n))
         /\ Cardinality(Nearest(P, n)) \in 0..n
<1> DEFINE rank(p) == Cardinality({q \in P : q < p})
           N == Nearest(P, n)
           f == [p \in N |-> rank(p)]
<1>1. N \in SUBSET P /\ IsFiniteSet(N)
  BY FS_Subset DEF Nearest
<1>2. \A p \in N : rank(p) \in 0..(n - 1)
  <2>1. \A p \in N : rank(p) \in Nat /\ rank(p) < n
    BY NearerAreFewer DEF Nearest
  <2> HIDE DEF rank, N
  <2>2. QED
    BY <2>1
<1>3. \A p, r \in N : rank(p) = rank(r) => p = r
  <2>1. \A p, r \in P : p < r => rank(p) < rank(r)
    BY NearerAreFewer
  <2>2. \A p \in P : rank(p) \in Nat
    BY NearerAreFewer
  <2> HIDE DEF rank, N
  <2>3. \A p, r \in P : p < r \/ r < p \/ p = r
    OBVIOUS
  <2>4. QED
    BY <1>1, <2>1, <2>2, <2>3
<1> HIDE DEF rank, N
<1>4. f \in Injection(N, 0..(n - 1))
  BY <1>2, <1>3 DEF Injection, IsInjective
<1>5. IsFiniteSet(0..(n - 1)) /\ Cardinality(0..(n - 1)) = n
  <2>1. 0 \in Int /\ n - 1 \in Int
    OBVIOUS
  <2>2. IsFiniteSet(0..(n - 1))
        /\ Cardinality(0..(n - 1)) = IF 0 > n - 1 THEN 0 ELSE (n - 1) - 0 + 1
    BY <2>1, FS_Interval
  <2>3. QED
    BY <2>2
<1>6. Cardinality(N) <= n
  BY <1>4, <1>5, FS_Injection
<1>7. Cardinality(N) \in Nat
  BY <1>1, FS_CardinalityType
<1>8. QED
  BY <1>1, <1>6, <1>7 DEF N

\* A contact that is not among the n nearest has n contacts before it, the n
\* nearest.
LEMMA NearestComeFirst ==
  ASSUME NEW P \in SUBSET Nat, IsFiniteSet(P), NEW n \in Nat,
         NEW q \in P \ Nearest(P, n)
  PROVE  Cardinality(Nearest(P, n)) = n /\ \A r \in Nearest(P, n) : r < q
<1> DEFINE rank(p) == Cardinality({x \in P : x < p})
           N == Nearest(P, n)
<1>1. /\ \A p \in P : rank(p) \in Nat
      /\ \A p, r \in P : p < r => rank(p) < rank(r)
  BY NearerAreFewer
<1>2. \A p \in P : p \in N <=> rank(p) < n
  BY DEF Nearest
<1>3. N \subseteq P /\ IsFiniteSet(N) /\ Cardinality(N) \in 0..n
  BY NearestAreFew
<1>4. \A r \in N : r < q
  <2> HIDE DEF rank, N
  <2>1. \A r \in P : r < q \/ q < r \/ r = q
    OBVIOUS
  <2>2. q \in P /\ q \notin N
    BY DEF N
  <2>3. QED
    BY <1>1, <1>2, <1>3, <2>1, <2>2
<1>5. PICK m \in P \ N : \A x \in P \ N : m <= x
  <2>1. P \ N \in SUBSET Nat /\ P \ N # {}
    OBVIOUS
  <2> HIDE DEF N
  <2>2. QED
    BY <2>1, LeastOf
<1>6. {x \in P : x < m} \in SUBSET N
  <2> HIDE DEF N
  <2>1. \A x \in P : x < m => ~ (m <= x)
    OBVIOUS
  <2>2. QED
    BY <1>5, <2>1
<1>7. rank(m) <= Cardinality(N) /\ ~ (rank(m) < n)
  BY <1>2, <1>3, <1>5, <1>6, FS_Subset
<1> HIDE DEF rank, N
<1>8. Cardinality(N) = n
  BY <1>1, <1>3, <1>5, <1>7
<1>9. QED
  BY <1>4, <1>8 DEF N

\* In order means that every member has its place and the nearer come first.
LEMMA InOrderProperties ==
  ASSUME NEW P \in SUBSET Nat, IsFiniteSet(P)
  PROVE  /\ InOrder(P) \in Seq(P) /\ Len(InOrder(P)) = Cardinality(P)
         /\ ToSet(InOrder(P)) = P
         /\ \A i, j \in DOMAIN InOrder(P) : i < j => InOrder(P)[i] < InOrder(P)[j]
         /\ \A k \in DOMAIN InOrder(P) : Cardinality({q \in P : q < InOrder(P)[k]}) = k - 1
<1> DEFINE rank(p) == Cardinality({q \in P : q < p})
           nth(k) == CHOOSE p \in P : rank(p) = k - 1
           N == Cardinality(P)
<1>1. PICK s : s = [k \in 1..N |-> nth(k)]
  OBVIOUS
<1>2. InOrder(P) = s
  BY <1>1 DEF InOrder
<1>3. N \in Nat
  BY FS_CardinalityType
<1>4. /\ \A p \in P : rank(p) \in Nat
      /\ \A p, r \in P : p < r => rank(p) < rank(r)
  BY NearerAreFewer
<1>5. ASSUME NEW k \in 1..N
      PROVE  \E p \in P : rank(p) = k - 1
  <2>1. PICK M : M = Nearest(P, k - 1)
    OBVIOUS
  <2>2. k - 1 \in Nat
    BY <1>3
  <2>3. M \subseteq P /\ Cardinality(M) \in 0..(k - 1)
    BY <2>1, <2>2, NearestAreFew
  <2>4. P \ M # {}
    <3>1. Cardinality(M) # N
      BY <1>3, <2>3
    <3>2. M # P
      BY <3>1
    <3>3. QED
      BY <2>3, <3>2, Zenon
  <2>5. PICK q \in P \ M : \A x \in P \ M : q <= x
    BY <2>4, LeastOf
  <2>6. Cardinality(M) = k - 1 /\ \A r \in M : r < q
    BY <2>1, <2>2, NearestComeFirst
  <2>7. \A x \in P : x < q => x \in M
    <3>1. \A x \in P : x < q => ~ (q <= x)
      OBVIOUS
    <3>2. QED
      BY <2>5, <3>1
  <2>8. {x \in P : x < q} = M
    BY <2>3, <2>6, <2>7
  <2>9. QED
    BY <2>6, <2>8
<1>6. ASSUME NEW p \in P
      PROVE  rank(p) + 1 \in 1..N
  <2>1. {q \in P : q < p} \in SUBSET P /\ ~ (p < p) /\ p \in P
    OBVIOUS
  <2>2. {q \in P : q < p} # P
    BY <2>1
  <2>3. rank(p) <= N /\ (N = rank(p) => P = {q \in P : q < p})
    BY <2>1, FS_Subset
  <2>4. QED
    BY <1>3, <1>4, <2>2, <2>3
<1>7. \A p, r \in P : p < r \/ r < p \/ p = r
  OBVIOUS
<1> HIDE DEF rank
<1>8. \A k \in 1..N : nth(k) \in P /\ rank(nth(k)) = k - 1
  BY <1>5
<1> HIDE DEF nth, N
<1>9. s \in Seq(P) /\ Len(s) = N /\ DOMAIN s = 1..N
  BY <1>1, <1>3, <1>8
<1>10. \A k \in 1..N : s[k] \in P /\ rank(s[k]) = k - 1
  BY <1>1, <1>8
<1>11. ASSUME NEW i \in 1..N, NEW j \in 1..N, i < j
       PROVE  s[i] < s[j]
  <2>1. rank(s[i]) < rank(s[j])
    BY <1>3, <1>10, <1>11
  <2>2. ~ (rank(s[j]) < rank(s[i])) /\ rank(s[i]) # rank(s[j])
    BY <1>3, <1>10, <1>11
  <2>3. QED
    BY <1>4, <1>7, <1>10, <2>2
<1>12. ASSUME NEW p \in P
       PROVE  \E k \in 1..N : s[k] = p
  <2>1. PICK k \in 1..N : k = rank(p) + 1
    BY <1>6
  <2>2. rank(s[k]) = rank(p) /\ s[k] \in P
    BY <1>4, <1>10, <2>1
  <2>3. ~ (rank(s[k]) < rank(p)) /\ ~ (rank(p) < rank(s[k]))
    BY <1>4, <2>2
  <2>4. QED
    BY <1>4, <1>7, <2>2, <2>3
<1>13. ToSet(s) = P
  BY <1>9, <1>10, <1>12 DEF ToSet
<1>14. \A k \in DOMAIN InOrder(P) : Cardinality({q \in P : q < InOrder(P)[k]}) = k - 1
  BY <1>2, <1>9, <1>10 DEF rank
<1>15. QED
  BY <1>2, <1>9, <1>11, <1>13, <1>14 DEF N

-----------------------------------------------------------------------------
(* Sequences                                                               *)
-----------------------------------------------------------------------------
\* What is left of a sequence when the element at place i is taken out.
LEMMA RemoveAtProperties ==
  ASSUME NEW S, NEW s \in Seq(S), NEW i \in 1..Len(s)
  PROVE  /\ RemoveAt(s, i) \in Seq(S)
         /\ Len(RemoveAt(s, i)) = Len(s) - 1
         /\ \A k \in 1..(Len(s) - 1) : RemoveAt(s, i)[k] = IF k < i THEN s[k] ELSE s[k + 1]
<1> DEFINE a == SubSeq(s, 1, i - 1)
           b == SubSeq(s, i + 1, Len(s))
<1>1. /\ a \in Seq(S) /\ Len(a) = i - 1
      /\ \A k \in 1..(i - 1) : a[k] = s[k]
  BY SubSeqProperties
<1>2. /\ b \in Seq(S) /\ Len(b) = Len(s) - i
      /\ \A k \in 1..(Len(s) - i) : b[k] = s[i + k]
  BY SubSeqProperties
<1>3. RemoveAt(s, i) = a \o b
  BY DEF RemoveAt
<1> HIDE DEF a, b
<1>4. /\ a \o b \in Seq(S)
      /\ Len(a \o b) = Len(a) + Len(b)
      /\ \A k \in 1..(Len(a) + Len(b)) :
           (a \o b)[k] = IF k <= Len(a) THEN a[k] ELSE b[k - Len(a)]
  BY <1>1, <1>2, ConcatProperties
<1>5. ASSUME NEW k \in 1..(Len(s) - 1)
      PROVE  (a \o b)[k] = IF k < i THEN s[k] ELSE s[k + 1]
  <2>1. CASE k < i
    BY <1>1, <1>2, <1>4, <2>1
  <2>2. CASE k >= i
    <3>1. (a \o b)[k] = b[k - (i - 1)]
      BY <1>1, <1>2, <1>4, <2>2
    <3>2. k - (i - 1) \in 1..(Len(s) - i) /\ i + (k - (i - 1)) = k + 1
      BY <2>2
    <3>3. b[k - (i - 1)] = s[i + (k - (i - 1))]
      BY <1>2, <3>2
    <3>4. QED
      BY <3>1, <3>2, <3>3, <2>2
  <2>3. k < i \/ k >= i
    OBVIOUS
  <2>4. QED
    BY <2>1, <2>2, <2>3
<1>6. Len(a) + Len(b) = Len(s) - 1
  <2>1. Len(s) \in Nat /\ i \in Int
    OBVIOUS
  <2>2. QED
    BY <1>1, <1>2, <2>1
<1>7. a \o b \in Seq(S) /\ Len(a \o b) = Len(s) - 1
  BY <1>4, <1>6
<1>8. QED
  BY <1>3, <1>5, <1>7, Zenon

\* A list without repetitions loses exactly the element that is taken out.
LEMMA RemoveAtMembers ==
  ASSUME NEW S, NEW s \in Seq(S), NEW i \in 1..Len(s), IsInjective(s)
  PROVE  /\ IsInjective(RemoveAt(s, i))
         /\ ToSet(RemoveAt(s, i)) = ToSet(s) \ {s[i]}
<1> DEFINE from(k) == IF k < i THEN k ELSE k + 1
<1> DEFINE r == RemoveAt(s, i)
<1>1. /\ r \in Seq(S) /\ Len(r) = Len(s) - 1
      /\ \A k \in 1..(Len(s) - 1) : r[k] = IF k < i THEN s[k] ELSE s[k + 1]
  BY RemoveAtProperties
<1> HIDE DEF r
<1>2. DOMAIN r = 1..(Len(s) - 1) /\ DOMAIN s = 1..Len(s)
  BY <1>1
<1>3. \A k \in DOMAIN r : from(k) \in DOMAIN s /\ from(k) # i /\ r[k] = s[from(k)]
  BY <1>1, <1>2
<1>4. \A k, m \in DOMAIN r : from(k) = from(m) => k = m
  BY <1>2
<1>5. \A j \in DOMAIN s : j # i => \E k \in DOMAIN r : from(k) = j
  <2>1. ASSUME NEW j \in DOMAIN s, j < i PROVE j \in DOMAIN r /\ from(j) = j
    BY <1>2, <2>1
  <2>2. ASSUME NEW j \in DOMAIN s, j > i PROVE j - 1 \in DOMAIN r /\ from(j - 1) = j
    BY <1>2, <2>2
  <2>3. \A j \in DOMAIN s : j # i => j < i \/ j > i
    BY <1>2
  <2>4. QED
    BY <2>1, <2>2, <2>3
<1> HIDE DEF from
<1>6. IsInjective(r)
  BY <1>3, <1>4 DEF IsInjective
<1>7. ToSet(r) = ToSet(s) \ {s[i]}
  <2>1. \A x \in ToSet(r) : x \in ToSet(s) /\ x # s[i]
    BY <1>2, <1>3 DEF ToSet, IsInjective
  <2>2. \A x \in ToSet(s) : x # s[i] => x \in ToSet(r)
    BY <1>3, <1>5 DEF ToSet
  <2>3. QED
    BY <2>1, <2>2
<1>8. QED
  BY <1>6, <1>7 DEF r

\* What a list holds when an element was put at its end.
LEMMA AppendMembers ==
  ASSUME NEW S, NEW s \in Seq(S), NEW x \in S
  PROVE  /\ Append(s, x) \in Seq(S)
         /\ ToSet(Append(s, x)) = ToSet(s) \cup {x}
         /\ IsInjective(s) /\ x \notin ToSet(s) => IsInjective(Append(s, x))
<1>1. PICK e \in Seq(S) : e = Append(s, x)
  BY AppendProperties
<1>2. DOMAIN e = 1..(Len(s) + 1) /\ DOMAIN s = 1..Len(s) /\ Len(s) \in Nat
  BY <1>1, AppendProperties
<1>3. (\A k \in DOMAIN s : k \in DOMAIN e /\ e[k] = s[k])
      /\ Len(s) + 1 \in DOMAIN e /\ e[Len(s) + 1] = x
  BY <1>1, <1>2, AppendProperties
<1>4. \A k \in DOMAIN e : k \in DOMAIN s \/ k = Len(s) + 1
  BY <1>2
<1>5. ToSet(e) = ToSet(s) \cup {x}
  BY <1>3, <1>4 DEF ToSet
<1>6. IsInjective(s) /\ x \notin ToSet(s) => IsInjective(e)
  BY <1>3, <1>4 DEF ToSet, IsInjective
<1>7. QED
  BY <1>1, <1>5, <1>6

\* The elements of a list without repetitions that have some property are as
\* many as the places at which they stand.
LEMMA PlacesAndMembers ==
  ASSUME NEW S, NEW s \in Seq(S), IsInjective(s), NEW T
  PROVE  /\ IsFiniteSet(ToSet(s) \cap T)
         /\ Cardinality({i \in DOMAIN s : s[i] \in T}) = Cardinality(ToSet(s) \cap T)
<1> DEFINE P == {i \in DOMAIN s : s[i] \in T}
           M == ToSet(s) \cap T
           f == [i \in P |-> s[i]]
<1>1. IsFiniteSet(P)
  <2>1. IsFiniteSet(1..Len(s)) /\ P \in SUBSET (1..Len(s))
    BY FS_Interval
  <2>2. QED
    BY <2>1, FS_Subset
<1>2. f \in Surjection(P, M)
  BY DEF Surjection, ToSet
<1>3. f \in Injection(P, M)
  BY DEF Injection, IsInjective, ToSet
<1> HIDE DEF P, M, f
<1>4. IsFiniteSet(M) /\ Cardinality(M) = Cardinality(P)
  BY <1>1, <1>2, <1>3, FS_Surjection
<1>5. QED
  BY <1>4 DEF P, M

-----------------------------------------------------------------------------
(* Loops                                                                   *)
-----------------------------------------------------------------------------
\* What holds of 0, and of the successor of every number below n of which it
\* holds, holds up to n: for loops that count their turns.
LEMMA CountingUp ==
  ASSUME NEW n \in Nat, NEW T, 0 \in T, \A k \in 0..(n - 1) : k \in T => k + 1 \in T
  PROVE  \A k \in 0..n : k \in T
<1> DEFINE U == {k \in 0..n : k \notin T}
<1>1. SUFFICES ASSUME U # {} PROVE FALSE
  OBVIOUS
<1>2. PICK m \in U : \A k \in U : m <= k
  <2>1. U \in SUBSET Nat
    OBVIOUS
  <2> HIDE DEF U
  <2>2. QED
    BY <1>1, <2>1, LeastOf
<1>3. m \in Nat /\ m <= n /\ m # 0 /\ m \notin T
  OBVIOUS
<1>4. m - 1 \in 0..(n - 1) /\ m - 1 \in 0..n /\ (m - 1) + 1 = m
  BY <1>3
<1>5. m - 1 \notin U
  BY <1>2, <1>3, <1>4
<1>6. QED
  BY <1>3, <1>4, <1>5

\* f is what a loop of n turns has made of a, whose k-th turn makes g[<<k, x>>] of x.
IsLoop(f, n, S, a, g) ==
  f \in [0..n -> S] /\ f[0] = a /\ \A k \in 1..n : f[k] = g[<<k, f[k - 1]>>]

\* A loop of n turns that starts from a, and whose k-th turn makes g[<<k, x>>]
\* of x, has a value after each turn.
LEMMA LoopHasValues ==
  ASSUME NEW n \in Nat, NEW S, NEW a \in S, NEW g \in [(1..n) \X S -> S]
  PROVE  \E f : IsLoop(f, n, S, a, g)
<1> DEFINE Upto(f, m) == f[0] = a /\ \A k \in 1..n : k <= m => f[k] = g[<<k, f[k - 1]>>]
           T == {m \in 0..n : \E f \in [0..n -> S] : Upto(f, m)}
<1>1. 0 \in T
  <2>1. PICK f : f = [k \in 0..n |-> a]
    OBVIOUS
  <2>2. f \in [0..n -> S] /\ f[0] = a /\ \A k \in 1..n : ~ (k <= 0)
    BY <2>1
  <2>3. QED
    BY <2>2
<1>2. ASSUME NEW m \in 0..(n - 1), m \in T PROVE m + 1 \in T
  <2>1. PICK f \in [0..n -> S] : Upto(f, m)
    BY <1>2
  <2>2. m + 1 \in 1..n /\ m + 1 \in 0..n /\ m \in 0..n /\ (m + 1) - 1 = m /\ m + 1 # 0
    OBVIOUS
  <2>3. PICK l : l = m + 1
    OBVIOUS
  <2>4. l \in 1..n /\ l \in 0..n /\ l - 1 = m /\ l # 0
    BY <2>2, <2>3
  <2>5. <<l, f[m]>> \in (1..n) \X S
    BY <2>2, <2>4
  <2>6. PICK y \in S : y = g[<<l, f[m]>>]
    BY <2>5
  <2>7. PICK h : h = [f EXCEPT ![l] = y]
    OBVIOUS
  <2>8. h \in [0..n -> S] /\ h[l] = y /\ \A k \in 0..n : k # l => h[k] = f[k]
    BY <2>4, <2>6, <2>7
  <2>9. h[0] = a
    BY <2>1, <2>4, <2>8
  <2>10. ASSUME NEW k \in 1..n, k <= m + 1 PROVE h[k] = g[<<k, h[k - 1]>>]
    <3>1. CASE k = l
      <4>1. h[k - 1] = f[m]
        BY <2>2, <2>4, <2>8, <3>1
      <4>2. QED
        BY <2>6, <2>8, <3>1, <4>1
    <3>2. CASE k # l
      <4>1. k <= m /\ k - 1 # l /\ k - 1 \in 0..n /\ k \in 0..n
        BY <2>3, <2>10, <3>2
      <4>2. h[k] = f[k] /\ h[k - 1] = f[k - 1]
        BY <2>8, <3>2, <4>1
      <4>3. QED
        BY <2>1, <4>1, <4>2
    <3>3. QED
      BY <3>1, <3>2
  <2>11. Upto(h, m + 1)
    BY <2>9, <2>10
  <2>12. QED
    BY <2>2, <2>8, <2>11
<1>3. n \in T
  <2> HIDE DEF T
  <2>1. \A k \in 0..n : k \in T
    BY <1>1, <1>2, CountingUp
  <2>2. QED
    BY <2>1
<1>4. PICK f \in [0..n -> S] : Upto(f, n)
  BY <1>3
<1>5. IsLoop(f, n, S, a, g)
  <2>1. \A k \in 1..n : k <= n
    OBVIOUS
  <2>2. QED
    BY <1>4, <2>1 DEF IsLoop
<1>6. QED
  BY <1>5

-----------------------------------------------------------------------------
(* Numbers and their digits                                                *)
-----------------------------------------------------------------------------
\* A quotient and a remainder.
LEMMA Division ==
  ASSUME NEW n \in Nat \ {0}, NEW x \in Nat
  PROVE  /\ x \div n \in Nat /\ x % n \in 0..(n - 1)
         /\ x = n * (x \div n) + (x % n)
OBVIOUS

\* They are unique.
LEMMA DivisionIsUnique ==
  ASSUME NEW n \in Nat \ {0}, NEW q1 \in Int, NEW q2 \in Int,
         NEW r1 \in 0..(n - 1), NEW r2 \in 0..(n - 1), n * q1 + r1 = n * q2 + r2
  PROVE  q1 = q2 /\ r1 = r2
<1>1. n * (q1 - q2) = r2 - r1
  OBVIOUS
<1>2. CASE q1 - q2 >= 1
  <2>1. n * (q1 - q2) >= n
    BY <1>2
  <2>2. QED
    BY <1>1, <2>1
<1>3. CASE q2 - q1 >= 1
  <2>1. n * (q2 - q1) >= n
    BY <1>3
  <2>2. n * (q2 - q1) = r1 - r2
    OBVIOUS
  <2>3. QED
    BY <2>1, <2>2
<1>4. CASE q1 = q2
  BY <1>4
<1>5. QED
  BY <1>2, <1>3, <1>4

\* To divide twice is to divide by the product.
LEMMA DivideTwice ==
  ASSUME NEW m \in Nat \ {0}, NEW n \in Nat \ {0}, NEW x \in Nat
  PROVE  m * n \in Nat \ {0} /\ (x \div m) \div n = x \div (m * n)
<1>1. m * n \in Nat \ {0}
  <2>1. m >= 1 /\ n >= 1 => m * n >= 1
    OBVIOUS
  <2>2. QED
    BY <2>1
<1>2. PICK q1 \in Nat, r1 \in 0..(m - 1) : q1 = x \div m /\ x = m * q1 + r1
  BY Division
<1>3. PICK q2 \in Nat, r2 \in 0..(n - 1) : q2 = q1 \div n /\ q1 = n * q2 + r2
  BY Division
<1>4. PICK q \in Nat, r \in 0..(m * n - 1) : q = x \div (m * n) /\ x = (m * n) * q + r
  BY <1>1, Division
<1>5. m * r2 + r1 \in 0..(m * n - 1)
  <2>1. m * r2 \in Nat /\ m * r2 <= m * (n - 1)
    OBVIOUS
  <2>2. m * (n - 1) = m * n - m
    OBVIOUS
  <2>3. QED
    BY <1>1, <2>1, <2>2
<1>6. x = (m * n) * q2 + (m * r2 + r1)
  <2>0. \A i, j, k, l \in Int : i * (j * k + l) = (i * j) * k + i * l
    OBVIOUS
  <2>1. m * (n * q2 + r2) = (m * n) * q2 + m * r2
    BY <2>0
  <2>2. QED
    <3>1. q1 = n * q2 + r2 /\ x = m * q1 + r1
      BY <1>2, <1>3
    <3>2. m * q1 = m * (n * q2 + r2)
      BY <3>1
    <3>3. QED
      BY <2>1, <3>1, <3>2
<1>7. q = q2
  <2>1. PICK p \in Nat \ {0} : p = m * n
    BY <1>1
  <2>2. PICK r3 : r3 = m * r2 + r1
    OBVIOUS
  <2>3. r \in 0..(p - 1) /\ r3 \in 0..(p - 1) /\ p * q + r = p * q2 + r3
    BY <1>4, <1>5, <1>6, <2>1, <2>2
  <2>4. QED
    BY <2>3, DivisionIsUnique
<1>8. QED
  BY <1>1, <1>2, <1>3, <1>4, <1>7

\* The powers of a number: each is the one before times the number.
LEMMA PowerSteps ==
  ASSUME NEW b \in Nat, NEW n \in Nat
  PROVE  /\ Power(b, 0) = 1
         /\ Power(b, n) \in Nat
         /\ Power(b, n + 1) = Power(b, n) * b
<1> DEFINE Loop(m, f) == f = [k \in 0..m |-> IF k = 0 THEN 1 ELSE f[k - 1] * b]
<1>1. ASSUME NEW m \in Nat PROVE \E f : Loop(m, f)
  <2>1. PICK g : g = [p \in (1..m) \X Nat |-> p[2] * b]
    OBVIOUS
  <2>2. g \in [(1..m) \X Nat -> Nat]
    BY <2>1
  <2>3. PICK f : IsLoop(f, m, Nat, 1, g)
    BY <2>2, LoopHasValues
  <2>31. f \in [0..m -> Nat] /\ f[0] = 1 /\ \A k \in 1..m : f[k] = g[<<k, f[k - 1]>>]
    BY <2>3 DEF IsLoop
  <2>4. \A k \in 1..m : k - 1 \in 0..m /\ f[k - 1] \in Nat
    BY <2>31
  <2>5. \A k \in 1..m : f[k] = f[k - 1] * b
    BY <2>1, <2>31, <2>4
  <2>6. \A k \in 0..m : f[k] = IF k = 0 THEN 1 ELSE f[k - 1] * b
    BY <2>31, <2>5
  <2>7. QED
    BY <2>31, <2>6
<1>2. ASSUME NEW m \in Nat
      PROVE  \E f : Loop(m, f) /\ Power(b, m) = f[m]
  <2>1. PICK f : f = CHOOSE h : Loop(m, h)
    OBVIOUS
  <2>2. Loop(m, f)
    <3>1. \E h : Loop(m, h)
      BY <1>1
    <3> HIDE DEF Loop
    <3>2. QED
      BY <2>1, <3>1, Zenon
  <2>3. Power(b, m) = f[m]
    BY <2>1 DEF Power
  <2>4. QED
    BY <2>2, <2>3
<1>3. ASSUME NEW m \in Nat, NEW f, Loop(m, f)
      PROVE  f[0] = 1 /\ \A k \in 1..m : f[k] = f[k - 1] * b
  BY <1>3
<1>4. PICK f : Loop(n, f) /\ Power(b, n) = f[n]
  BY <1>2
<1>5. PICK h : Loop(n + 1, h) /\ Power(b, n + 1) = h[n + 1]
  <2>1. n + 1 \in Nat
    OBVIOUS
  <2> HIDE DEF Loop
  <2>2. QED
    BY <1>2, <2>1
<1>6. Power(b, 0) = 1
  <2>1. PICK e : Loop(0, e) /\ Power(b, 0) = e[0]
    BY <1>2
  <2>2. e[0] = 1
    BY <1>3, <2>1
  <2>3. QED
    BY <2>1, <2>2
<1>7. f[0] = 1 /\ \A k \in 1..n : f[k] = f[k - 1] * b
  BY <1>3, <1>4
<1>8. h[0] = 1 /\ \A k \in 1..(n + 1) : h[k] = h[k - 1] * b
  BY <1>3, <1>5
<1> HIDE DEF Loop
<1>9. \A k \in 0..n : f[k] = h[k] /\ f[k] \in Nat
  <2> DEFINE T == {k \in 0..n : f[k] = h[k] /\ f[k] \in Nat}
  <2>1. 0 \in T
    BY <1>7, <1>8
  <2>2. ASSUME NEW k \in 0..(n - 1), k \in T PROVE k + 1 \in T
    <3>1. k + 1 \in 1..n /\ k + 1 \in 1..(n + 1) /\ k + 1 \in 0..n /\ (k + 1) - 1 = k
      OBVIOUS
    <3>2. f[k + 1] = f[k] * b /\ h[k + 1] = h[k] * b
      BY <1>7, <1>8, <3>1
    <3>3. QED
      BY <2>2, <3>1, <3>2
  <2> HIDE DEF T
  <2>3. \A k \in 0..n : k \in T
    BY <2>1, <2>2, CountingUp
  <2>4. QED
    BY <2>3 DEF T
<1>10. h[n + 1] = f[n] * b /\ f[n] \in Nat
  <2>1. n + 1 \in 1..(n + 1) /\ (n + 1) - 1 = n /\ n \in 0..n
    OBVIOUS
  <2>2. QED
    BY <1>8, <1>9, <2>1
<1>11. QED
  BY <1>4, <1>5, <1>6, <1>10

\* Powers of a positive number are positive, and add up.
LEMMA PowersAdd ==
  ASSUME NEW b \in Nat \ {0}, NEW m \in Nat, NEW n \in Nat
  PROVE  /\ Power(b, m) \in Nat \ {0} /\ Power(b, n) \in Nat \ {0}
         /\ Power(b, m + n) = Power(b, m) * Power(b, n)
<1>1. ASSUME NEW l \in Nat PROVE Power(b, l) \in Nat \ {0}
  <2> DEFINE T == {k \in 0..l : Power(b, k) \in Nat \ {0}}
  <2>1. 0 \in T
    BY PowerSteps
  <2>2. ASSUME NEW k \in 0..(l - 1), k \in T PROVE k + 1 \in T
    <3>1. k + 1 \in 0..l /\ k \in Nat
      OBVIOUS
    <3>2. PICK p \in Nat \ {0} : p = Power(b, k)
      BY <2>2
    <3>3. p * b \in Nat \ {0}
      BY DivideTwice
    <3>4. Power(b, k + 1) = p * b
      BY <3>1, <3>2, PowerSteps
    <3>5. QED
      BY <3>1, <3>3, <3>4
  <2> HIDE DEF T
  <2>3. \A k \in 0..l : k \in T
    BY <2>1, <2>2, CountingUp
  <2>4. QED
    BY <2>3 DEF T
<1>2. PICK p \in Nat \ {0} : p = Power(b, m)
  BY <1>1
<1>3. Power(b, m + n) = p * Power(b, n)
  <2> DEFINE T == {k \in 0..n : Power(b, m + k) = p * Power(b, k)}
  <2>1. 0 \in T
    BY <1>2, PowerSteps
  <2>2. ASSUME NEW k \in 0..(n - 1), k \in T PROVE k + 1 \in T
    <3>1. k + 1 \in 0..n /\ k \in Nat /\ m + k \in Nat /\ m + (k + 1) = (m + k) + 1
      OBVIOUS
    <3>2. PICK r \in Nat \ {0} : r = Power(b, k)
      BY <1>1, <3>1
    <3>3. PICK s \in Nat \ {0} : s = Power(b, m + k)
      BY <1>1, <3>1
    <3>4. Power(b, k + 1) = r * b /\ Power(b, (m + k) + 1) = s * b
      BY <3>1, <3>2, <3>3, PowerSteps
    <3>5. s = p * r
      BY <2>2, <3>2, <3>3
    <3>6. (p * r) * b = p * (r * b)
      OBVIOUS
    <3>7. QED
      BY <3>1, <3>4, <3>5, <3>6
  <2> HIDE DEF T
  <2>3. \A k \in 0..n : k \in T
    BY <2>1, <2>2, CountingUp
  <2>4. QED
    BY <2>3 DEF T
<1>4. QED
  BY <1>1, <1>2, <1>3

\* No digits make nought.
LEMMA NumberOfNone ==
  ASSUME NEW b, NEW s
  PROVE  Number(s, b, 0) = 0
<1> DEFINE Loop(f) == f = [k \in 0..0 |-> IF k = 0 THEN 0 ELSE f[k - 1] * b + s[k]]
<1>1. \E f : Loop(f)
  <2>1. PICK f : f = [k \in 0..0 |-> 0]
    OBVIOUS
  <2>2. \A k \in 0..0 : k = 0
    OBVIOUS
  <2>3. Loop(f)
    BY <2>1, <2>2
  <2>4. QED
    BY <2>3
<1>2. PICK f : f = CHOOSE h : Loop(h)
  OBVIOUS
<1>3. Loop(f)
  <2> HIDE DEF Loop
  <2>1. QED
    BY <1>1, <1>2, Zenon
<1>4. Number(s, b, 0) = f[0]
  BY <1>2 DEF Number
<1>5. QED
  BY <1>3, <1>4

\* Reading a digit moves what was read before by one place.
LEMMA NumberSteps ==
  ASSUME NEW b \in Nat, NEW s, NEW n \in Nat, \A k \in 1..(n + 1) : s[k] \in Nat
  PROVE  /\ Number(s, b, n) \in Nat
         /\ Number(s, b, n + 1) = Number(s, b, n) * b + s[n + 1]
<1> DEFINE Loop(m, f) == f = [k \in 0..m |-> IF k = 0 THEN 0 ELSE f[k - 1] * b + s[k]]
<1>1. ASSUME NEW m \in 0..(n + 1) PROVE \E f : Loop(m, f)
  <2>0. m \in Nat
    OBVIOUS
  <2>1. PICK g : g = [p \in (1..m) \X Nat |-> p[2] * b + s[p[1]]]
    OBVIOUS
  <2>2. \A k \in 1..m : s[k] \in Nat
    OBVIOUS
  <2>3. g \in [(1..m) \X Nat -> Nat]
    BY <2>1, <2>2
  <2>4. PICK f : IsLoop(f, m, Nat, 0, g)
    BY <2>0, <2>3, LoopHasValues
  <2>5. f \in [0..m -> Nat] /\ f[0] = 0 /\ \A k \in 1..m : f[k] = g[<<k, f[k - 1]>>]
    BY <2>4 DEF IsLoop
  <2>6. \A k \in 1..m : k - 1 \in 0..m /\ f[k - 1] \in Nat
    BY <2>5
  <2>7. \A k \in 1..m : f[k] = f[k - 1] * b + s[k]
    BY <2>1, <2>5, <2>6
  <2>8. \A k \in 0..m : f[k] = IF k = 0 THEN 0 ELSE f[k - 1] * b + s[k]
    BY <2>5, <2>7
  <2>9. f = [k \in 0..m |-> IF k = 0 THEN 0 ELSE f[k - 1] * b + s[k]]
    BY <2>5, <2>8
  <2>10. QED
    BY <2>9
<1>2. ASSUME NEW m \in 0..(n + 1)
      PROVE  \E f : Loop(m, f) /\ Number(s, b, m) = f[m]
  <2>1. PICK f : f = CHOOSE h : Loop(m, h)
    OBVIOUS
  <2>2. Loop(m, f)
    <3>1. \E h : Loop(m, h)
      BY <1>1
    <3> HIDE DEF Loop
    <3>2. QED
      BY <2>1, <3>1, Zenon
  <2>3. Number(s, b, m) = f[m]
    BY <2>1 DEF Number
  <2>4. QED
    BY <2>2, <2>3
<1>3. ASSUME NEW m \in Nat, NEW f, Loop(m, f)
      PROVE  f[0] = 0 /\ \A k \in 1..m : f[k] = f[k - 1] * b + s[k]
  BY <1>3
<1>4. 0 \in 0..(n + 1) /\ n \in 0..(n + 1) /\ n + 1 \in 0..(n + 1) /\ n + 1 \in Nat
  OBVIOUS
<1> HIDE DEF Loop
<1>5. PICK f : Loop(n, f) /\ Number(s, b, n) = f[n]
  BY <1>2, <1>4
<1>6. PICK h : Loop(n + 1, h) /\ Number(s, b, n + 1) = h[n + 1]
  BY <1>2, <1>4
<1>8. f[0] = 0 /\ \A k \in 1..n : f[k] = f[k - 1] * b + s[k]
  BY <1>3, <1>5
<1>9. h[0] = 0 /\ \A k \in 1..(n + 1) : h[k] = h[k - 1] * b + s[k]
  BY <1>3, <1>4, <1>6
<1>10. \A k \in 0..n : f[k] = h[k] /\ f[k] \in Nat
  <2> DEFINE T == {k \in 0..n : f[k] = h[k] /\ f[k] \in Nat}
  <2>1. 0 \in T
    BY <1>8, <1>9
  <2>2. ASSUME NEW k \in 0..(n - 1), k \in T PROVE k + 1 \in T
    <3>1. k + 1 \in 1..n /\ k + 1 \in 1..(n + 1) /\ k + 1 \in 0..n /\ (k + 1) - 1 = k
      OBVIOUS
    <3>2. f[k + 1] = f[k] * b + s[k + 1] /\ h[k + 1] = h[k] * b + s[k + 1]
      BY <1>8, <1>9, <3>1
    <3>3. s[k + 1] \in Nat
      BY <3>1
    <3>4. QED
      BY <2>2, <3>1, <3>2, <3>3
  <2> HIDE DEF T
  <2>3. \A k \in 0..n : k \in T
    BY <2>1, <2>2, CountingUp
  <2>4. QED
    BY <2>3 DEF T
<1>11. h[n + 1] = f[n] * b + s[n + 1] /\ f[n] \in Nat
  <2>1. n + 1 \in 1..(n + 1) /\ (n + 1) - 1 = n /\ n \in 0..n
    OBVIOUS
  <2>2. QED
    BY <1>9, <1>10, <2>1
<1>12. QED
  BY <1>5, <1>6, <1>11

\* The digits of a number that has n of them.
AreDigits(s, b, n) == \A k \in 1..n : s[k] \in 0..(b - 1)

\* Numbers of n digits are less than the n-th power of the base.
LEMMA NumberIsBounded ==
  ASSUME NEW b \in Nat \ {0}, NEW s, NEW n \in Nat, AreDigits(s, b, n)
  PROVE  \A m \in 0..n : Number(s, b, m) \in 0..(Power(b, m) - 1)
<1> DEFINE T == {m \in 0..n : Number(s, b, m) \in 0..(Power(b, m) - 1)}
<1>1. 0 \in T
  <2>1. Power(b, 0) = 1
    BY PowerSteps
  <2>2. Number(s, b, 0) = 0
    BY NumberOfNone
  <2>3. QED
    BY <2>1, <2>2
<1>2. ASSUME NEW m \in 0..(n - 1), m \in T PROVE m + 1 \in T
  <2>1. m + 1 \in 1..n /\ m + 1 \in 0..n /\ m \in Nat
    OBVIOUS
  <2>2. \A k \in 1..(m + 1) : s[k] \in Nat
    BY <2>1 DEF AreDigits
  <2>3. PICK d \in 0..(b - 1) : d = s[m + 1]
    BY <2>1 DEF AreDigits
  <2>4. PICK p \in Nat \ {0} : p = Power(b, m)
    BY <2>1, PowersAdd
  <2>5. PICK x \in 0..(p - 1) : x = Number(s, b, m)
    BY <1>2, <2>4
  <2>6. Number(s, b, m + 1) = x * b + d /\ Power(b, m + 1) = p * b
    BY <2>1, <2>2, <2>3, <2>4, <2>5, NumberSteps, PowerSteps
  <2>7. x * b + d \in 0..(p * b - 1)
    <3>1. x * b \in Nat /\ x * b <= (p - 1) * b
      OBVIOUS
    <3>2. (p - 1) * b = p * b - b
      OBVIOUS
    <3>3. p * b \in Int /\ x * b + d \in Int
      OBVIOUS
    <3>4. QED
      BY <3>1, <3>2, <3>3
  <2>8. QED
    BY <2>1, <2>6, <2>7
<1> HIDE DEF T
<1>3. \A m \in 0..n : m \in T
  BY <1>1, <1>2, CountingUp
<1>4. QED
  BY <1>3 DEF T

\* The k-th of n digits, and the number up to it.
LEMMA DigitSteps ==
  ASSUME NEW b \in Nat \ {0}, NEW n \in Nat, NEW x \in Nat, NEW k \in 1..n
  PROVE  /\ DigitOf(x, b, n, k) \in 0..(b - 1)
         /\ x \div Power(b, n - k) \in Nat
         /\ x \div Power(b, n - k) = (x \div Power(b, n - (k - 1))) * b + DigitOf(x, b, n, k)
<1>1. n - k \in Nat /\ n - (k - 1) = (n - k) + 1
  OBVIOUS
<1>2. PICK p \in Nat \ {0} : p = Power(b, n - k)
  BY <1>1, PowersAdd
<1>3. Power(b, n - (k - 1)) = p * b
  BY <1>1, <1>2, PowerSteps
<1>4. PICK y \in Nat : y = x \div p
  BY Division
<1>5. x \div (p * b) = y \div b
  BY <1>4, DivideTwice
<1>6. PICK q \in Nat : q = y \div b
  BY Division
<1>7. y % b \in 0..(b - 1) /\ y = b * q + (y % b)
  BY <1>6, Division
<1>8. DigitOf(x, b, n, k) = y % b
  BY <1>2, <1>4 DEF DigitOf
<1>9. b * q = q * b
  OBVIOUS
<1>10. QED
  BY <1>2, <1>3, <1>4, <1>5, <1>6, <1>7, <1>8, <1>9

\* What was written as digits is read again.
LEMMA NumberOfDigits ==
  ASSUME NEW b \in Nat \ {0}, NEW n \in Nat, NEW x \in 0..(Power(b, n) - 1),
         NEW s, \A k \in 1..n : s[k] = DigitOf(x, b, n, k)
  PROVE  /\ \A m \in 0..n : Number(s, b, m) = x \div Power(b, n - m)
         /\ Number(s, b, n) = x
<1> DEFINE T == {m \in 0..n : Number(s, b, m) = x \div Power(b, n - m)}
<1>0. PICK N \in Nat \ {0} : N = Power(b, n)
  BY PowersAdd
<1>1. x \in Nat /\ x < N
  BY <1>0
<1>2. 0 \in T
  <2>1. x \div N = 0
    <3>1. x \div N \in Nat /\ x % N \in 0..(N - 1) /\ x = N * (x \div N) + (x % N)
      BY <1>1, Division
    <3>2. PICK q \in Nat, r \in 0..(N - 1) : q = x \div N /\ x = N * q + r
      BY <3>1
    <3>3. N * q + r = N * 0 + x /\ x \in 0..(N - 1)
      BY <1>1, <3>2
    <3>4. q = 0
      BY <3>2, <3>3, DivisionIsUnique
    <3>5. QED
      BY <3>2, <3>4
  <2>2. Number(s, b, 0) = 0 /\ n - 0 = n
    BY NumberOfNone
  <2>3. QED
    BY <1>0, <2>1, <2>2
<1>3. ASSUME NEW m \in 0..(n - 1), m \in T PROVE m + 1 \in T
  <2>1. m + 1 \in 1..n /\ m + 1 \in 0..n /\ (m + 1) - 1 = m /\ m \in Nat
    OBVIOUS
  <2>2. \A k \in 1..(m + 1) : k \in 1..n
    OBVIOUS
  <2> HIDE DEF T
  <2>3. ASSUME NEW k \in 1..(m + 1) PROVE s[k] \in Nat
    <3>1. k \in 1..n
      BY <2>2
    <3>2. DigitOf(x, b, n, k) \in 0..(b - 1)
      BY <1>1, <3>1, DigitSteps
    <3>3. QED
      BY <3>1, <3>2
  <2>4. Number(s, b, m + 1) = Number(s, b, m) * b + s[m + 1]
    BY <2>1, <2>3, NumberSteps
  <2>5. x \div Power(b, n - (m + 1))
          = (x \div Power(b, n - ((m + 1) - 1))) * b + DigitOf(x, b, n, m + 1)
    <3>1. PICK k \in 1..n : k = m + 1
      BY <2>1
    <3>2. x \div Power(b, n - k) = (x \div Power(b, n - (k - 1))) * b + DigitOf(x, b, n, k)
      BY <1>1, DigitSteps
    <3>3. QED
      BY <3>1, <3>2
  <2>6. Number(s, b, m) = x \div Power(b, n - ((m + 1) - 1))
    BY <1>3, <2>1 DEF T
  <2>7. QED
    BY <2>1, <2>4, <2>5, <2>6 DEF T
<1>4. \A m \in 0..n : m \in T
  <2> HIDE DEF T
  <2>1. QED
    BY <1>2, <1>3, CountingUp
<1>5. Number(s, b, n) = x
  <2>1. Number(s, b, n) = x \div Power(b, n - n)
    BY <1>4
  <2>2. n - n = 0 /\ Power(b, 0) = 1 /\ x \div 1 = x
    BY <1>1, PowerSteps
  <2>3. QED
    BY <2>1, <2>2
<1>6. QED
  BY <1>4, <1>5

\* Equal digits make equal numbers.
LEMMA SameDigits ==
  ASSUME NEW b \in Nat \ {0}, NEW n \in Nat, NEW s, NEW t,
         AreDigits(s, b, n), \A k \in 1..n : s[k] = t[k]
  PROVE  Number(s, b, n) = Number(t, b, n)
<1> DEFINE T == {m \in 0..n : Number(s, b, m) = Number(t, b, m)}
<1>1. 0 \in T
  BY NumberOfNone
<1>2. ASSUME NEW m \in 0..(n - 1), m \in T PROVE m + 1 \in T
  <2>1. m + 1 \in 1..n /\ m + 1 \in 0..n /\ m \in Nat /\ \A k \in 1..(m + 1) : k \in 1..n
    OBVIOUS
  <2>2. \A k \in 1..(m + 1) : s[k] \in Nat /\ t[k] \in Nat
    BY <2>1 DEF AreDigits
  <2>3. /\ Number(s, b, m + 1) = Number(s, b, m) * b + s[m + 1]
        /\ Number(t, b, m + 1) = Number(t, b, m) * b + t[m + 1]
    BY <2>1, <2>2, NumberSteps
  <2>4. QED
    BY <1>2, <2>1, <2>3
<1>3. \A m \in 0..n : m \in T
  <2> HIDE DEF T
  <2>1. QED
    BY <1>1, <1>2, CountingUp
<1>4. QED
  BY <1>3

\* The first digit in which two numbers differ decides which one is less.
LEMMA FirstDigitDecides ==
  ASSUME NEW b \in Nat \ {0}, NEW n \in Nat, NEW s, NEW t,
         AreDigits(s, b, n), AreDigits(t, b, n),
         NEW i \in 1..n, \A k \in 1..(i - 1) : s[k] = t[k], s[i] < t[i]
  PROVE  Number(s, b, n) < Number(t, b, n)
<1> DEFINE T == {m \in 0..n : m >= i => Number(s, b, m) < Number(t, b, m)}
<1>1. 0 \in T
  OBVIOUS
<1>2. ASSUME NEW m \in 0..n
      PROVE  Number(s, b, m) \in Nat /\ Number(t, b, m) \in Nat
  <2>1. PICK p \in Nat : p = Power(b, m)
    BY PowersAdd
  <2>2. Number(s, b, m) \in 0..(p - 1) /\ Number(t, b, m) \in 0..(p - 1)
    BY <2>1, NumberIsBounded
  <2>3. QED
    BY <2>2
<1>3. ASSUME NEW m \in 0..(n - 1), m \in T PROVE m + 1 \in T
  <2>1. m + 1 \in 1..n /\ m + 1 \in 0..n /\ m \in 0..n /\ m \in Nat /\ \A k \in 1..(m + 1) : k \in 1..n
    OBVIOUS
  <2>2. \A k \in 1..(m + 1) : s[k] \in Nat /\ t[k] \in Nat
    BY <2>1 DEF AreDigits
  <2>3. /\ Number(s, b, m + 1) = Number(s, b, m) * b + s[m + 1]
        /\ Number(t, b, m + 1) = Number(t, b, m) * b + t[m + 1]
    BY <2>1, <2>2, NumberSteps
  <2>4. PICK x \in Nat, y \in Nat : x = Number(s, b, m) /\ y = Number(t, b, m)
    BY <1>2, <2>1
  <2>5. PICK d \in 0..(b - 1), e \in 0..(b - 1) : d = s[m + 1] /\ e = t[m + 1]
    BY <2>1 DEF AreDigits
  <2>6. CASE m + 1 < i
    BY <2>1, <2>6
  <2>7. CASE m + 1 = i
    <3>1. i - 1 = m
      BY <2>7
    <3>2. AreDigits(s, b, m) /\ \A k \in 1..m : s[k] = t[k]
      BY <2>1, <3>1 DEF AreDigits
    <3>3. x = y
      BY <2>1, <2>4, <3>2, SameDigits
    <3>4. d < e
      BY <2>5, <2>7
    <3>5. x * b + d < y * b + e
      BY <3>3, <3>4
    <3>6. QED
      BY <2>1, <2>3, <2>4, <2>5, <3>5
  <2>8. CASE m + 1 > i
    <3>1. x < y
      BY <1>3, <2>4, <2>8
    <3>2. (x + 1) * b <= y * b /\ (x + 1) * b = x * b + b
      BY <3>1
    <3>3. x * b + d < y * b + e
      BY <3>2
    <3>4. QED
      BY <2>1, <2>3, <2>4, <2>5, <3>3
  <2>9. QED
    BY <2>6, <2>7, <2>8
<1>4. \A m \in 0..n : m \in T
  <2> HIDE DEF T
  <2>1. QED
    BY <1>1, <1>3, CountingUp
<1>5. QED
  BY <1>4

\* Two numbers have the same first k digits when they are in the same of the
\* blocks that the next power of the base cuts the numbers into.
LEMMA SamePrefix ==
  ASSUME NEW b \in Nat \ {0}, NEW n \in Nat, NEW k \in 0..n,
         NEW x \in 0..(Power(b, n) - 1), NEW y \in 0..(Power(b, n) - 1)
  PROVE  x \div Power(b, n - k) = y \div Power(b, n - k)
           <=> \A i \in 1..k : DigitOf(x, b, n, i) = DigitOf(y, b, n, i)
<1>0. x \in Nat /\ y \in Nat
  BY PowersAdd
<1>1. ASSUME x \div Power(b, n - k) = y \div Power(b, n - k), NEW i \in 1..k
      PROVE  DigitOf(x, b, n, i) = DigitOf(y, b, n, i)
  <2>1. n - k \in Nat /\ k - i \in Nat /\ (n - k) + (k - i) = n - i
    OBVIOUS
  <2>2. PICK p \in Nat \ {0}, q \in Nat \ {0} : p = Power(b, n - k) /\ q = Power(b, k - i)
    BY <2>1, PowersAdd
  <2>3. Power(b, n - i) = p * q
    BY <2>1, <2>2, PowersAdd
  <2>4. x \div (p * q) = (x \div p) \div q /\ y \div (p * q) = (y \div p) \div q
    BY <1>0, DivideTwice
  <2>5. x \div Power(b, n - i) = y \div Power(b, n - i)
    BY <1>1, <2>2, <2>3, <2>4
  <2>6. QED
    BY <2>5 DEF DigitOf
<1>2. ASSUME \A i \in 1..k : DigitOf(x, b, n, i) = DigitOf(y, b, n, i)
      PROVE  x \div Power(b, n - k) = y \div Power(b, n - k)
  <2>1. PICK s : s = [i \in 1..n |-> DigitOf(x, b, n, i)]
    OBVIOUS
  <2>2. PICK t : t = [i \in 1..n |-> DigitOf(y, b, n, i)]
    OBVIOUS
  <2>3. Number(s, b, k) = x \div Power(b, n - k)
    BY <2>1, NumberOfDigits
  <2>4. Number(t, b, k) = y \div Power(b, n - k)
    BY <2>2, NumberOfDigits
  <2>5. \A i \in 1..k : i \in 1..n
    OBVIOUS
  <2>6. AreDigits(s, b, k)
    BY <1>0, <2>1, <2>5, DigitSteps DEF AreDigits
  <2>7. \A i \in 1..k : s[i] = t[i]
    BY <1>2, <2>1, <2>2, <2>5
  <2>8. Number(s, b, k) = Number(t, b, k)
    BY <2>6, <2>7, SameDigits
  <2>9. QED
    BY <2>3, <2>4, <2>8
<1>3. QED
  BY <1>1, <1>2
=============================================================================
