----------------------------- MODULE TableProofs -----------------------------
(***************************************************************************)
(* The invariants of Table, proved for every identifier width, capacity,   *)
(* replacement factor, depth step and set of addresses.                    *)
(*                                                                         *)
(* The inductive invariant says that every bucket is sound and that the    *)
(* buckets tile the identifier space.  Neither half is inductive alone: a  *)
(* split produces two non-empty ranges only because a full bucket with an  *)
(* absent identifier of its own spans two identifiers, and a contact goes  *)
(* to a bucket that spans its identifier only because the tiles cover it.  *)
(*                                                                         *)
(* First, what the operations of OrderedDict do, whatever the dictionary:  *)
(* one lemma per operation.                                                *)
(***************************************************************************)
EXTENDS Table, ListProofs

-----------------------------------------------------------------------------
(* Dictionaries                                                            *)
-----------------------------------------------------------------------------
\* The list walk stops at a contact with the identifier it looks for.
LEMMA FirstAtProperties ==
  ASSUME NEW S, NEW d \in Seq(S), NEW id, Has(d, id)
  PROVE  FirstAt(d, id) \in 1..Len(d) /\ d[FirstAt(d, id)].id = id
<1> DEFINE T == {i \in 1..Len(d) : d[i].id = id}
<1>1. DOMAIN d = 1..Len(d)
  OBVIOUS
<1>2. T \in SUBSET Nat /\ T # {}
  BY <1>1 DEF Has
<1>3. PICK m \in T : \A n \in T : m <= n
  BY <1>2, LeastOf
<1>4. \E i \in DOMAIN d : d[i].id = id /\ \A j \in DOMAIN d : d[j].id = id => i <= j
  BY <1>1, <1>3
<1>5. QED
  BY <1>1, <1>4 DEF FirstAt

\* kad_ordereddict_pop: one contact less if the identifier was there, which is
\* gone then, and nothing new.
LEMMA PopProperties ==
  ASSUME NEW S, NEW d \in Seq(S), NEW id, Distinct(d)
  PROVE  /\ Pop(d, id) \in Seq(S)
         /\ Len(Pop(d, id)) = IF Has(d, id) THEN Len(d) - 1 ELSE Len(d)
         /\ Distinct(Pop(d, id))
         /\ ~ Has(Pop(d, id), id)
         /\ \A x : Has(Pop(d, id), x) => Has(d, x)
<1>1. CASE ~ Has(d, id)
  BY <1>1 DEF Pop
<1>2. CASE Has(d, id)
  <2> DEFINE i == FirstAt(d, id)
             r == RemoveAt(d, i)
  <2>1. Pop(d, id) = r
    BY <1>2 DEF Pop
  <2>2. i \in 1..Len(d) /\ d[i].id = id
    BY <1>2, FirstAtProperties
  <2> HIDE DEF i
  <2>3. /\ r \in Seq(S) /\ Len(r) = Len(d) - 1
        /\ \A k \in 1..(Len(d) - 1) : r[k] = IF k < i THEN d[k] ELSE d[k + 1]
    BY <2>2, RemoveAtProperties
  <2> HIDE DEF r
  <2> DEFINE from(k) == IF k < i THEN k ELSE k + 1
  <2>4. DOMAIN r = 1..(Len(d) - 1) /\ DOMAIN d = 1..Len(d)
    BY <2>3
  <2>5. \A k \in DOMAIN r : from(k) \in DOMAIN d /\ from(k) # i /\ r[k] = d[from(k)]
    BY <2>2, <2>3, <2>4
  <2>6. \A k, m \in DOMAIN r : from(k) = from(m) => k = m
    BY <2>2, <2>4
  <2> HIDE DEF from
  <2>7. Distinct(r)
    BY <2>5, <2>6 DEF Distinct
  <2>8. ~ Has(r, id)
    BY <2>2, <2>4, <2>5 DEF Distinct, Has
  <2>9. \A x : Has(r, x) => Has(d, x)
    BY <2>5 DEF Has
  <2>10. QED
    BY <1>2, <2>1, <2>3, <2>7, <2>8, <2>9
<1>3. QED
  BY <1>1, <1>2

\* A new contact goes to the tail.
LEMMA AtTailProperties ==
  ASSUME NEW S, NEW d \in Seq(S), NEW c \in S, Distinct(d), ~ Has(d, c.id)
  PROVE  /\ Append(d, c) \in Seq(S)
         /\ Len(Append(d, c)) = Len(d) + 1
         /\ Distinct(Append(d, c))
         /\ \A x : Has(Append(d, c), x) => Has(d, x) \/ x = c.id
<1>1. Append(d, c) \in Seq(S) /\ Len(Append(d, c)) = Len(d) + 1
  OBVIOUS
<1>2. PICK e \in Seq(S) : e = Append(d, c)
  BY <1>1
<1>3. DOMAIN e = 1..(Len(d) + 1) /\ DOMAIN d = 1..Len(d)
  BY <1>1, <1>2
<1>4. (\A k \in DOMAIN d : e[k] = d[k]) /\ e[Len(d) + 1] = c
  BY <1>2, <1>3
<1>5. \A k \in DOMAIN e : k \in DOMAIN d \/ k = Len(d) + 1
  BY <1>3
<1>6. Distinct(e)
  BY <1>4, <1>5 DEF Distinct, Has
<1>7. \A x : Has(e, x) => Has(d, x) \/ x = c.id
  BY <1>4, <1>5 DEF Has
<1>8. QED
  BY <1>1, <1>2, <1>6, <1>7

\* bucket.c adds a contact by popping it and inserting it: whatever was there,
\* the contact is at the tail, once.
LEMMA ReaddProperties ==
  ASSUME NEW S, NEW d \in Seq(S), NEW c \in S, Distinct(d)
  PROVE  /\ Insert(Pop(d, c.id), c) \in Seq(S)
         /\ Len(Insert(Pop(d, c.id), c)) = IF Has(d, c.id) THEN Len(d) ELSE Len(d) + 1
         /\ Distinct(Insert(Pop(d, c.id), c))
         /\ \A x : Has(Insert(Pop(d, c.id), c), x) => Has(d, x) \/ x = c.id
<1> DEFINE p == Pop(d, c.id)
<1>1. /\ p \in Seq(S) /\ Distinct(p) /\ ~ Has(p, c.id)
      /\ Len(p) = IF Has(d, c.id) THEN Len(d) - 1 ELSE Len(d)
      /\ \A x : Has(p, x) => Has(d, x)
  BY PopProperties
<1>2. Insert(p, c) = Append(p, c)
  BY <1>1 DEF Insert
<1> HIDE DEF p
<1>3. /\ Append(p, c) \in Seq(S) /\ Distinct(Append(p, c))
      /\ Len(Append(p, c)) = Len(p) + 1
      /\ \A x : Has(Append(p, c), x) => Has(p, x) \/ x = c.id
  BY <1>1, AtTailProperties
<1>4. Len(d) \in Nat
  OBVIOUS
<1>5. QED
  BY <1>1, <1>2, <1>3, <1>4 DEF p

\* A stretch of a dictionary is a dictionary.
LEMMA StretchProperties ==
  ASSUME NEW S, NEW d \in Seq(S), Distinct(d),
         NEW m \in 1..(Len(d) + 1), NEW n \in (m - 1)..Len(d)
  PROVE  /\ SubSeq(d, m, n) \in Seq(S)
         /\ Len(SubSeq(d, m, n)) = n - m + 1
         /\ Distinct(SubSeq(d, m, n))
         /\ \A x : Has(SubSeq(d, m, n), x) => Has(d, x)
<1> DEFINE e == SubSeq(d, m, n)
<1>1. /\ e \in Seq(S) /\ Len(e) = n - m + 1
      /\ \A i \in 1..(n - m + 1) : e[i] = d[m + i - 1]
  BY SubSeqProperties
<1> HIDE DEF e
<1>2. DOMAIN e = 1..(n - m + 1) /\ DOMAIN d = 1..Len(d)
  BY <1>1
<1>3. \A i \in DOMAIN e : m + i - 1 \in DOMAIN d /\ e[i] = d[m + i - 1]
  BY <1>1, <1>2
<1>4. \A i, j \in DOMAIN e : m + i - 1 = m + j - 1 => i = j
  BY <1>2
<1>5. Distinct(e)
  BY <1>3, <1>4 DEF Distinct
<1>6. \A x : Has(e, x) => Has(d, x)
  BY <1>3 DEF Has
<1>7. QED
  BY <1>1, <1>5, <1>6 DEF e

\* Keep keeps contacts of the dictionary with the identifiers it is asked for,
\* each once.
LEMMA KeepProperties ==
  ASSUME NEW S, NEW d \in Seq(S), Distinct(d), NEW R
  PROVE  /\ Keep(d, R) \in Seq({c \in S : c.id \in R})
         /\ Len(Keep(d, R)) \in 0..Len(d)
         /\ Distinct(Keep(d, R))
         /\ \A x : Has(Keep(d, R), x) => Has(d, x)
<1> DEFINE at == {i \in DOMAIN d : d[i].id \in R}
           upto(i) == Cardinality({j \in at : j <= i})
           nth(k) == CHOOSE i \in at : upto(i) = k
           N == Cardinality(at)
           e == [k \in 1..N |-> d[nth(k)]]
<1>1. Keep(d, R) = e
  BY DEF Keep
<1>2. N \in 0..Len(d)
  <2> HIDE DEF at
  <2>0. Len(d) \in Nat /\ 1 \in Int /\ Len(d) \in Int
    OBVIOUS
  <2>1. IsFiniteSet(1..Len(d)) /\ Cardinality(1..Len(d)) = Len(d)
    BY <2>0, FS_Interval
  <2>2. at \subseteq 1..Len(d)
    BY DEF at
  <2>3. IsFiniteSet(at) /\ N <= Cardinality(1..Len(d))
    BY <2>1, <2>2, FS_Subset
  <2>4. QED
    BY <2>1, <2>3, FS_CardinalityType
<1>3. ASSUME NEW k \in 1..N
      PROVE  nth(k) \in at /\ upto(nth(k)) = k
  <2>0. Len(d) \in Nat
    OBVIOUS
  <2>1. at \in SUBSET (1..Len(d))
    OBVIOUS
  <2> HIDE DEF at
  <2>2. \E i \in at : upto(i) = k
    BY <2>0, <2>1, CountingOff
  <2> HIDE DEF upto
  <2>3. QED
    BY <2>2
<1> HIDE DEF upto, nth, N
<1>4. \A k \in 1..N : nth(k) \in DOMAIN d /\ d[nth(k)] \in {c \in S : c.id \in R}
  BY <1>3
<1>5. e \in Seq({c \in S : c.id \in R}) /\ Len(e) = N /\ DOMAIN e = 1..N
  BY <1>2, <1>4
<1>6. \A k \in DOMAIN e : nth(k) \in DOMAIN d /\ e[k] = d[nth(k)]
  BY <1>4, <1>5
<1>7. \A k, m \in DOMAIN e : nth(k) = nth(m) => k = m
  BY <1>3, <1>5
<1> HIDE DEF e
<1>8. Distinct(e)
  BY <1>6, <1>7 DEF Distinct
<1>9. \A x : Has(e, x) => Has(d, x)
  BY <1>6 DEF Has
<1>10. QED
  BY <1>1, <1>2, <1>5, <1>8, <1>9

\* Two dictionaries with no identifier in common are one when put together,
\* and the other way round.
LEMMA ConcatDistinct ==
  ASSUME NEW S, NEW d \in Seq(S), NEW e \in Seq(S)
  PROVE  /\ Distinct(d \o e) <=> /\ Distinct(d) /\ Distinct(e)
                                 /\ \A x : ~ (Has(d, x) /\ Has(e, x))
         /\ \A x : Has(d \o e, x) <=> Has(d, x) \/ Has(e, x)
<1>1. /\ d \o e \in Seq(S) /\ Len(d \o e) = Len(d) + Len(e)
      /\ \A i \in 1..(Len(d) + Len(e)) :
           (d \o e)[i] = IF i <= Len(d) THEN d[i] ELSE e[i - Len(d)]
  BY ConcatProperties
<1>2. PICK w \in Seq(S) : w = d \o e
  BY <1>1
<1>3. /\ DOMAIN w = 1..(Len(d) + Len(e)) /\ DOMAIN d = 1..Len(d) /\ DOMAIN e = 1..Len(e)
      /\ Len(d) \in Nat /\ Len(e) \in Nat
  BY <1>1, <1>2
<1>4. \A i \in DOMAIN d : i \in DOMAIN w /\ w[i] = d[i]
  BY <1>1, <1>2, <1>3
<1>5. \A i \in DOMAIN e : Len(d) + i \in DOMAIN w /\ w[Len(d) + i] = e[i] /\ Len(d) + i \notin DOMAIN d
  BY <1>1, <1>2, <1>3
<1>6. \A i \in DOMAIN w : i \in DOMAIN d \/ \E j \in DOMAIN e : i = Len(d) + j
  <2>1. ASSUME NEW i \in DOMAIN w, i \notin DOMAIN d
        PROVE  i - Len(d) \in DOMAIN e /\ i = Len(d) + (i - Len(d))
    BY <1>3, <2>1
  <2>2. QED
    BY <2>1
<1>7. \A i, j \in DOMAIN e : Len(d) + i = Len(d) + j => i = j
  BY <1>3
<1>8. Distinct(w) => Distinct(d) /\ Distinct(e) /\ \A x : ~ (Has(d, x) /\ Has(e, x))
  <2>1. Distinct(w) => Distinct(d)
    BY <1>4 DEF Distinct
  <2>2. Distinct(w) => Distinct(e)
    BY <1>5, <1>7 DEF Distinct
  <2>3. Distinct(w) => \A x : ~ (Has(d, x) /\ Has(e, x))
    BY <1>4, <1>5 DEF Distinct, Has
  <2>4. QED
    BY <2>1, <2>2, <2>3
<1>9. Distinct(d) /\ Distinct(e) /\ (\A x : ~ (Has(d, x) /\ Has(e, x))) => Distinct(w)
  <2> SUFFICES ASSUME Distinct(d), Distinct(e), \A x : ~ (Has(d, x) /\ Has(e, x)),
                      NEW i \in DOMAIN w, NEW j \in DOMAIN w, w[i].id = w[j].id
               PROVE  i = j
    BY DEF Distinct
  <2>1. CASE i \in DOMAIN d /\ j \in DOMAIN d
    BY <1>4, <2>1 DEF Distinct
  <2>2. CASE i \in DOMAIN d /\ \E l \in DOMAIN e : j = Len(d) + l
    BY <1>4, <1>5, <2>2 DEF Has
  <2>3. CASE j \in DOMAIN d /\ \E k \in DOMAIN e : i = Len(d) + k
    BY <1>4, <1>5, <2>3 DEF Has
  <2>4. CASE \E k, l \in DOMAIN e : i = Len(d) + k /\ j = Len(d) + l
    BY <1>5, <2>4 DEF Distinct
  <2>5. QED
    BY <1>6, <2>1, <2>2, <2>3, <2>4
<1>10. \A x : Has(w, x) <=> Has(d, x) \/ Has(e, x)
  BY <1>4, <1>5, <1>6 DEF Has
<1>11. QED
  BY <1>2, <1>8, <1>9, <1>10

-----------------------------------------------------------------------------
(* Who is in a dictionary after an operation                               *)
-----------------------------------------------------------------------------
\* A dictionary records a contact once.
LEMMA DistinctIsInjective ==
  ASSUME NEW d, Distinct(d)
  PROVE  /\ IsInjective(d)
         /\ \A p, q \in ToSet(d) : p.id = q.id => p = q
BY DEF Distinct, IsInjective, ToSet

\* An identifier is there when a contact has it.
LEMMA HasMembers ==
  ASSUME NEW d, NEW id
  PROVE  Has(d, id) <=> \E p \in ToSet(d) : p.id = id
BY DEF Has, ToSet

\* kad_ordereddict_pop: the contact with the identifier is gone, nobody else.
LEMMA PopMembers ==
  ASSUME NEW S, NEW d \in Seq(S), NEW id, Distinct(d)
  PROVE  ToSet(Pop(d, id)) = {p \in ToSet(d) : p.id # id}
<1>1. CASE ~ Has(d, id)
  BY <1>1, HasMembers DEF Pop
<1>2. CASE Has(d, id)
  <2>1. PICK i \in 1..Len(d) : i = FirstAt(d, id) /\ d[i].id = id
    BY <1>2, FirstAtProperties
  <2>2. ToSet(RemoveAt(d, i)) = ToSet(d) \ {d[i]}
    BY DistinctIsInjective, RemoveAtMembers
  <2>3. d[i] \in ToSet(d) /\ \A p \in ToSet(d) : p.id = id => p = d[i]
    BY <2>1, DistinctIsInjective DEF ToSet
  <2>4. Pop(d, id) = RemoveAt(d, i)
    BY <1>2, <2>1 DEF Pop
  <2>5. QED
    BY <2>1, <2>2, <2>3, <2>4
<1>3. QED
  BY <1>1, <1>2

\* What bucket.c adds replaces the contact with that identifier, if any.
LEMMA ReaddMembers ==
  ASSUME NEW S, NEW d \in Seq(S), NEW c \in S, Distinct(d)
  PROVE  ToSet(Insert(Pop(d, c.id), c)) = {p \in ToSet(d) : p.id # c.id} \cup {c}
<1>1. PICK e \in Seq(S) : e = Pop(d, c.id) /\ ~ Has(e, c.id)
  BY PopProperties
<1>2. ToSet(e) = {p \in ToSet(d) : p.id # c.id}
  BY <1>1, PopMembers
<1>3. ToSet(Append(e, c)) = ToSet(e) \cup {c}
  BY AppendMembers
<1>4. Insert(e, c) = Append(e, c)
  BY <1>1 DEF Insert
<1>5. QED
  BY <1>1, <1>2, <1>3, <1>4

\* kad_ordereddict_popback: the contact at the tail leaves.
LEMMA TailMembers ==
  ASSUME NEW S, NEW d \in Seq(S), Distinct(d), d # <<>>
  PROVE  /\ Tailmost(d) \in ToSet(d)
         /\ ToSet(AllButTail(d)) = ToSet(d) \ {Tailmost(d)}
<1>1. PICK n \in Nat : n = Len(d)
  OBVIOUS
<1>2. DOMAIN d = 1..n /\ n \in DOMAIN d
  BY <1>1
<1>3. PICK e : e = AllButTail(d)
  OBVIOUS
<1>4. DOMAIN e = 1..(n - 1) /\ \A k \in 1..(n - 1) : e[k] = d[k]
  BY <1>1, <1>3 DEF AllButTail
<1>5. \A k \in DOMAIN d : k \in DOMAIN e \/ k = n
  BY <1>2, <1>4
<1>6. \A k \in DOMAIN e : k \in DOMAIN d /\ k # n
  BY <1>2, <1>4
<1>7. \A k \in DOMAIN e : e[k] \in ToSet(d) /\ e[k] # d[n]
  BY <1>2, <1>4, <1>6, DistinctIsInjective DEF IsInjective, ToSet
<1>8. \A k \in DOMAIN d : d[k] # d[n] => d[k] \in ToSet(e)
  BY <1>4, <1>5 DEF ToSet
<1>9. ToSet(e) = ToSet(d) \ {d[n]}
  BY <1>7, <1>8 DEF ToSet
<1>10. d[n] \in ToSet(d)
  BY <1>2 DEF ToSet
<1>11. QED
  BY <1>1, <1>3, <1>9, <1>10 DEF Tailmost

\* kad_ordereddict_popfront, called on a list that is one too long: the head
\* leaves.
LEMMA NewestMembers ==
  ASSUME NEW S, NEW d \in Seq(S), Distinct(d), NEW n \in Nat, Len(d) = n + 1
  PROVE  ToSet(Newest(d, n)) = ToSet(d) \ {d[1]} /\ d[1] \in ToSet(d)
<1>1. DOMAIN d = 1..(n + 1) /\ 1 \in DOMAIN d
  OBVIOUS
<1>2. PICK e : e = SubSeq(d, 2, n + 1)
  OBVIOUS
<1>3. Newest(d, n) = e
  BY <1>2 DEF Newest
<1>4. DOMAIN e = 1..n /\ \A k \in 1..n : e[k] = d[k + 1]
  BY <1>2
<1>5. \A k \in DOMAIN e : k + 1 \in DOMAIN d /\ k + 1 # 1
  BY <1>1, <1>4
<1>6. \A k \in DOMAIN d : k = 1 \/ \E j \in DOMAIN e : k = j + 1
  <2>1. \A k \in DOMAIN d : k = 1 \/ (k - 1 \in DOMAIN e /\ k = (k - 1) + 1)
    BY <1>1, <1>4
  <2>2. QED
    BY <2>1
<1>7. \A k \in DOMAIN e : e[k] \in ToSet(d) /\ e[k] # d[1]
  BY <1>1, <1>4, <1>5, DistinctIsInjective DEF IsInjective, ToSet
<1>8. \A k \in DOMAIN d : d[k] # d[1] => d[k] \in ToSet(e)
  BY <1>4, <1>6 DEF ToSet
<1>9. d[1] \in ToSet(d)
  BY <1>1 DEF ToSet
<1>10. ToSet(e) = ToSet(d) \ {d[1]}
  BY <1>7, <1>8 DEF ToSet
<1>11. QED
  BY <1>3, <1>9, <1>10

\* Keep keeps every contact with an identifier it is asked for, at a place no
\* later than it had.
LEMMA KeepPlaces ==
  ASSUME NEW S, NEW d \in Seq(S), NEW R, NEW kept, kept = Keep(d, R)
  PROVE  /\ \A k \in DOMAIN kept : \E i \in DOMAIN d : d[i].id \in R /\ kept[k] = d[i]
         /\ \A i \in DOMAIN d : d[i].id \in R => \E k \in DOMAIN kept : k <= i /\ kept[k] = d[i]
<1> DEFINE at == {i \in DOMAIN d : d[i].id \in R}
           upto(i) == Cardinality({j \in at : j <= i})
           nth(k) == CHOOSE i \in at : upto(i) = k
           N == Cardinality(at)
           e == [k \in 1..N |-> d[nth(k)]]
<1>1. kept = e
  BY DEF Keep
<1>2. at \in SUBSET (1..Len(d)) /\ at \in SUBSET DOMAIN d /\ Len(d) \in Nat
  OBVIOUS
<1>3. IsFiniteSet(at) /\ N \in Nat
  <2> HIDE DEF at
  <2>1. IsFiniteSet(1..Len(d))
    BY <1>2, FS_Interval
  <2>2. QED
    BY <1>2, <2>1, FS_Subset, FS_CardinalityType
<1>4. ASSUME NEW k \in 1..N PROVE nth(k) \in at
  <2> HIDE DEF at
  <2>1. \E i \in at : upto(i) = k
    BY <1>2, CountingOff
  <2> HIDE DEF upto
  <2>2. QED
    BY <2>1
<1>5. ASSUME NEW i \in at
      PROVE  upto(i) \in 1..N /\ upto(i) <= i
  <2> HIDE DEF at
  <2> DEFINE U == {j \in at : j <= i}
  <2>1. i \in 1..Len(d) /\ i \in Nat /\ i <= i
    BY <1>2
  <2>2. U \in SUBSET at /\ {i} \in SUBSET U
    BY <2>1, Zenon
  <2>3. \A j \in at : j <= i => j \in 1..i
    BY <1>2, <2>1
  <2>4. U \in SUBSET (1..i)
    BY <2>3, Zenon
  <2> HIDE DEF U
  <2>5. IsFiniteSet(U) /\ Cardinality(U) <= N /\ Cardinality(U) \in Nat
    BY <1>3, <2>2, FS_Subset, FS_CardinalityType
  <2>6. Cardinality({i}) <= Cardinality(U) /\ Cardinality({i}) = 1
    BY <2>2, <2>5, FS_Subset, FS_Singleton
  <2>7. IsFiniteSet(1..i) /\ Cardinality(1..i) = i
    BY <2>1, FS_Interval
  <2>8. Cardinality(U) <= i
    BY <2>7, <2>4, FS_Subset
  <2>9. QED
    BY <1>3, <2>5, <2>6, <2>8 DEF U
<1>6. ASSUME NEW i \in at, NEW j \in at, i < j
      PROVE  upto(i) < upto(j)
  <2> HIDE DEF at
  <2> DEFINE U == {k \in at : k <= i}
             V == {k \in at : k <= j}
  <2>0. i \in Nat /\ j \in Nat /\ ~ (j <= i) /\ j <= j /\ \A k \in at : k \in Nat
    BY <1>2, <1>6
  <2>1. \A k \in at : k <= i => k <= j
    BY <1>6, <2>0
  <2>2. U \in SUBSET at /\ V \in SUBSET at /\ j \notin U /\ U \cup {j} \in SUBSET V
    BY <2>0, <2>1, Zenon
  <2> HIDE DEF U, V
  <2>3. IsFiniteSet(U) /\ IsFiniteSet(V) /\ Cardinality(U) \in Nat /\ Cardinality(V) \in Nat
    BY <1>3, <2>2, FS_Subset, FS_CardinalityType
  <2>4. Cardinality(U \cup {j}) = Cardinality(U) + 1
    BY <2>2, <2>3, FS_AddElement
  <2>5. Cardinality(U \cup {j}) <= Cardinality(V)
    BY <2>2, <2>3, FS_Subset
  <2>6. QED
    BY <2>3, <2>4, <2>5 DEF U, V
<1>7. ASSUME NEW i \in at PROVE nth(upto(i)) = i
  <2> HIDE DEF at, upto
  <2>1. nth(upto(i)) \in at /\ upto(nth(upto(i))) = upto(i)
    OBVIOUS
  <2>2. PICK j \in at : j = nth(upto(i)) /\ upto(j) = upto(i)
    BY <2>1
  <2>3. i \in Nat /\ j \in Nat /\ upto(i) \in Nat
    BY <1>2, <1>5
  <2>4. ~ (i < j) /\ ~ (j < i)
    BY <1>6, <2>2, <2>3
  <2>5. i = j
    BY <2>3, <2>4
  <2>6. QED
    BY <2>2, <2>5
<1> HIDE DEF upto, nth
<1>8. DOMAIN e = 1..N /\ \A k \in 1..N : e[k] = d[nth(k)]
  OBVIOUS
<1> HIDE DEF N, e
<1>9. \A k \in DOMAIN e : \E i \in DOMAIN d : d[i].id \in R /\ e[k] = d[i]
  BY <1>4, <1>8
<1>10. ASSUME NEW i \in at
       PROVE  upto(i) \in DOMAIN e /\ upto(i) <= i /\ e[upto(i)] = d[i]
  BY <1>5, <1>7, <1>8
<1>11. \A i \in DOMAIN d : d[i].id \in R => i \in at
  OBVIOUS
<1> HIDE DEF at
<1>12. QED
  BY <1>1, <1>9, <1>10, <1>11

\* Keep leaves the contacts with the identifiers that it is given.
LEMMA KeepMembers ==
  ASSUME NEW S, NEW d \in Seq(S), NEW R
  PROVE  ToSet(Keep(d, R)) = {p \in ToSet(d) : p.id \in R}
<1>1. PICK kept : kept = Keep(d, R)
  OBVIOUS
<1>2. \A k \in DOMAIN kept : \E i \in DOMAIN d : d[i].id \in R /\ kept[k] = d[i]
  BY <1>1, KeepPlaces, SMTT(60)
<1>3. \A i \in DOMAIN d : d[i].id \in R => \E k \in DOMAIN kept : kept[k] = d[i]
  BY <1>1, KeepPlaces, SMTT(60)
<1>4. \A x \in ToSet(kept) : x \in ToSet(d) /\ x.id \in R
  BY <1>2 DEF ToSet
<1>5. \A x \in ToSet(d) : x.id \in R => x \in ToSet(kept)
  BY <1>3 DEF ToSet
<1>6. QED
  BY <1>1, <1>4, <1>5

-----------------------------------------------------------------------------
(* Buckets                                                                 *)
-----------------------------------------------------------------------------
Spanned(lo, hi) == {p \in Contact : lo <= p.id /\ p.id <= hi}

\* The two lists of a bucket with the range lo..hi are as they should be.
SoundLists(lo, hi, live, spare) ==
  /\ live \in Seq(Spanned(lo, hi)) /\ spare \in Seq(Spanned(lo, hi))
  /\ Distinct(live) /\ Distinct(spare)
  /\ \A x : ~ (Has(live, x) /\ Has(spare, x))
  /\ Len(live) <= Capacity
  /\ Len(spare) < ReplacementFactor * Capacity
  /\ spare # <<>> => Len(live) >= Capacity

\* The identifiers lo..hi are those that share a prefix of k bits.
IsBlock(lo, hi) == \E k \in 0..IdBits : /\ lo % Power(2, IdBits - k) = 0
                                        /\ hi = lo + Power(2, IdBits - k) - 1

SoundBucket == {b \in BucketType : /\ b.lo <= b.hi /\ IsBlock(b.lo, b.hi)
                                   /\ SoundLists(b.lo, b.hi, b.contacts, b.replacements)}

\* The bounds of bucket.c leave room for at least one contact.
LEMMA Bounds ==
  /\ Capacity \in Nat /\ Capacity >= 1
  /\ ReplacementFactor * Capacity \in Nat /\ ReplacementFactor * Capacity >= 1
<1>1. Capacity \in Nat /\ Capacity >= 1 /\ ReplacementFactor \in Nat /\ ReplacementFactor >= 1
  BY CapacityAssumption, ReplacementAssumption
<1>2. \A m, n \in Nat : m >= 1 /\ n >= 1 => m * n \in Nat /\ m * n >= 1
  OBVIOUS
<1>3. QED
  BY <1>1, <1>2

\* A bucket that is put together from sound lists is sound.
LEMMA SoundFromLists ==
  ASSUME NEW lo \in Id, NEW hi \in Id, lo <= hi, IsBlock(lo, hi), NEW live, NEW spare,
         SoundLists(lo, hi, live, spare)
  PROVE  [lo |-> lo, hi |-> hi, contacts |-> live, replacements |-> spare] \in SoundBucket
<1>1. Spanned(lo, hi) \subseteq Contact
  BY DEF Spanned
<1>2. live \in Seq(Contact) /\ spare \in Seq(Contact)
  BY <1>1 DEF SoundLists
<1>3. QED
  BY <1>2 DEF SoundBucket, BucketType

\* The parts of a sound bucket.
LEMMA SoundParts ==
  ASSUME NEW b \in SoundBucket
  PROVE  /\ b.lo \in Id /\ b.hi \in Id /\ b.lo <= b.hi /\ IsBlock(b.lo, b.hi)
         /\ SoundLists(b.lo, b.hi, b.contacts, b.replacements)
         /\ b = [lo |-> b.lo, hi |-> b.hi, contacts |-> b.contacts, replacements |-> b.replacements]
BY DEF SoundBucket, BucketType

\* kad_bucket_add_contact and the kad_bucket_add_replacement it falls back on
\* keep a bucket sound when it is given a contact in its range.
LEMMA AddKeepsSound ==
  ASSUME NEW b \in SoundBucket, NEW c \in Spanned(b.lo, b.hi)
  PROVE  /\ BucketAdd(b, c) \in SoundBucket
         /\ BucketAdd(b, c).lo = b.lo /\ BucketAdd(b, c).hi = b.hi
<1> DEFINE S == Spanned(b.lo, b.hi)
           live == b.contacts
           spare == b.replacements
           live2 == Insert(Pop(live, c.id), c)
           spare2 == Insert(Pop(spare, c.id), c)
           spare3 == Newest(spare2, ReplacementFactor * Capacity - 1)
           B(x, y) == [lo |-> b.lo, hi |-> b.hi, contacts |-> x, replacements |-> y]
<1>1. /\ b.lo \in Id /\ b.hi \in Id /\ b.lo <= b.hi /\ IsBlock(b.lo, b.hi)
      /\ SoundLists(b.lo, b.hi, live, spare)
      /\ b = B(live, spare)
  BY SoundParts
<1>2. /\ live \in Seq(S) /\ spare \in Seq(S) /\ Distinct(live) /\ Distinct(spare)
      /\ \A x : ~ (Has(live, x) /\ Has(spare, x))
      /\ Len(live) <= Capacity
      /\ Len(spare) < ReplacementFactor * Capacity
      /\ spare # <<>> => Len(live) >= Capacity
      /\ Len(live) \in Nat /\ Len(spare) \in Nat
  BY <1>1 DEF SoundLists
<1>3. CASE TakesContact(b, c)
  <2>1. BucketAdd(b, c) = B(live2, spare)
    BY <1>1, <1>3 DEF BucketAdd
  <2>2. /\ live2 \in Seq(S) /\ Distinct(live2)
        /\ Len(live2) = (IF Has(live, c.id) THEN Len(live) ELSE Len(live) + 1)
        /\ \A x : Has(live2, x) => Has(live, x) \/ x = c.id
    <3> HIDE DEF S, live
    <3>1. live \in Seq(S) /\ c \in S /\ Distinct(live)
      BY <1>2 DEF S
    <3>2. QED
      BY <3>1, ReaddProperties
  <2>3. Has(live, c.id) \/ Len(live) < Capacity
    BY <1>2, <1>3, Bounds DEF TakesContact, IsFull
  <2>4. ~ Has(spare, c.id)
    <3>1. CASE Has(live, c.id)
      BY <1>2, <3>1
    <3>2. CASE Len(live) < Capacity
      BY <1>2, <3>2, Bounds DEF Has
    <3>3. QED
      BY <2>3, <3>1, <3>2
  <2>5. /\ Len(live2) <= Capacity
        /\ spare # <<>> => Len(live2) >= Capacity
    BY <1>2, <2>2, <2>3, Bounds
  <2>6. SoundLists(b.lo, b.hi, live2, spare)
    BY <1>2, <2>2, <2>4, <2>5 DEF SoundLists
  <2>7. B(live2, spare) \in SoundBucket
    BY <1>1, <2>6, SoundFromLists
  <2>8. QED
    BY <2>1, <2>7
<1>4. CASE ~ TakesContact(b, c)
  <2>1. BucketAdd(b, c) = B(live, spare3)
    BY <1>1, <1>4 DEF BucketAdd, AddReplacement
  <2>2. ~ Has(live, c.id) /\ Len(live) >= Capacity
    BY <1>4 DEF TakesContact, IsFull
  <2>3. /\ spare2 \in Seq(S) /\ Distinct(spare2)
        /\ \A x : Has(spare2, x) => Has(spare, x) \/ x = c.id
    BY <1>2, ReaddProperties
  <2> HIDE DEF spare2
  <2>4. /\ spare3 \in Seq(S) /\ Distinct(spare3)
        /\ Len(spare3) < ReplacementFactor * Capacity
        /\ \A x : Has(spare3, x) => Has(spare2, x)
    <3> DEFINE n == ReplacementFactor * Capacity - 1
    <3>1. n \in Nat /\ Len(spare2) \in Nat /\ n < ReplacementFactor * Capacity
      BY <2>3, Bounds
    <3> HIDE DEF n
    <3>2. CASE Len(spare2) <= n
      BY <2>3, <3>1, <3>2, Bounds DEF Newest, n
    <3>3. CASE Len(spare2) > n
      <4> DEFINE m == Len(spare2) - n + 1
      <4>1. m \in 1..(Len(spare2) + 1) /\ Len(spare2) \in (m - 1)..Len(spare2)
        BY <3>1, <3>3
      <4>2. spare3 = SubSeq(spare2, m, Len(spare2))
        BY <3>1, <3>3 DEF Newest, n
      <4> HIDE DEF m, spare3
      <4>3. /\ spare3 \in Seq(S) /\ Distinct(spare3)
            /\ Len(spare3) = Len(spare2) - m + 1
            /\ \A x : Has(spare3, x) => Has(spare2, x)
        BY <2>3, <4>1, <4>2, StretchProperties
      <4>4. Len(spare3) = n
        BY <3>1, <4>3 DEF m
      <4>5. QED
        BY <3>1, <4>3, <4>4
    <3>4. QED
      BY <3>1, <3>2, <3>3
  <2> HIDE DEF spare3
  <2>5. SoundLists(b.lo, b.hi, live, spare3)
    BY <1>2, <2>2, <2>3, <2>4 DEF SoundLists
  <2>6. B(live, spare3) \in SoundBucket
    BY <1>1, <2>5, SoundFromLists
  <2>7. QED
    BY <2>1, <2>6
<1>5. QED
  BY <1>3, <1>4

\* kad_bucket_remove_contact keeps a bucket sound, whether or not a
\* replacement takes the place of the contact that goes.
LEMMA RemoveKeepsSound ==
  ASSUME NEW b \in SoundBucket, NEW id
  PROVE  /\ BucketRemove(b, id) \in SoundBucket
         /\ BucketRemove(b, id).lo = b.lo /\ BucketRemove(b, id).hi = b.hi
<1> DEFINE S == Spanned(b.lo, b.hi)
           live == b.contacts
           spare == b.replacements
           live2 == Pop(live, id)
           spare2 == Pop(spare, id)
           B(x, y) == [lo |-> b.lo, hi |-> b.hi, contacts |-> x, replacements |-> y]
<1>1. /\ b.lo \in Id /\ b.hi \in Id /\ b.lo <= b.hi /\ IsBlock(b.lo, b.hi)
      /\ SoundLists(b.lo, b.hi, live, spare)
      /\ b = B(live, spare)
  BY SoundParts
<1>2. /\ live \in Seq(S) /\ spare \in Seq(S) /\ Distinct(live) /\ Distinct(spare)
      /\ \A x : ~ (Has(live, x) /\ Has(spare, x))
      /\ Len(live) <= Capacity
      /\ Len(spare) < ReplacementFactor * Capacity
      /\ spare # <<>> => Len(live) >= Capacity
      /\ Len(live) \in Nat /\ Len(spare) \in Nat
  BY <1>1 DEF SoundLists
<1>3. /\ live2 \in Seq(S) /\ Distinct(live2) /\ ~ Has(live2, id)
      /\ Len(live2) = (IF Has(live, id) THEN Len(live) - 1 ELSE Len(live))
      /\ \A x : Has(live2, x) => Has(live, x)
  <2> HIDE DEF S, live
  <2>1. QED
    BY <1>2, PopProperties
<1>4. /\ spare2 \in Seq(S) /\ Distinct(spare2)
      /\ Len(spare2) = (IF Has(spare, id) THEN Len(spare) - 1 ELSE Len(spare))
      /\ \A x : Has(spare2, x) => Has(spare, x)
  <2> HIDE DEF S, spare
  <2>1. QED
    BY <1>2, PopProperties
<1>5. CASE ~ (Has(live, id) /\ spare2 # <<>>)
  <2>1. BucketRemove(b, id) = B(live2, spare2)
    BY <1>1, <1>5 DEF BucketRemove
  <2> HIDE DEF live2, spare2
  <2>2. Len(live2) <= Capacity /\ Len(spare2) < ReplacementFactor * Capacity
    BY <1>2, <1>3, <1>4, Bounds
  <2>3. spare2 # <<>> => spare # <<>> /\ Len(live2) = Len(live)
    BY <1>2, <1>3, <1>4, <1>5
  <2>4. SoundLists(b.lo, b.hi, live2, spare2)
    BY <1>2, <1>3, <1>4, <2>2, <2>3 DEF SoundLists
  <2>5. B(live2, spare2) \in SoundBucket
    BY <1>1, <2>4, SoundFromLists
  <2>6. QED
    BY <2>1, <2>5
<1>6. CASE Has(live, id) /\ spare2 # <<>>
  <2> DEFINE heir == Tailmost(spare2)
             live3 == Insert(live2, heir)
             spare3 == AllButTail(spare2)
  <2>1. BucketRemove(b, id) = B(live3, spare3)
    BY <1>1, <1>6 DEF BucketRemove
  <2> HIDE DEF live2, spare2, S, live, spare
  <2>2. Len(spare2) \in Nat /\ Len(spare2) >= 1 /\ heir \in S /\ Has(spare2, heir.id)
    BY <1>4, <1>6 DEF Tailmost, Has
  <2>3. ~ Has(live2, heir.id)
    BY <1>2, <1>3, <1>4, <2>2
  <2>4. /\ live3 \in Seq(S) /\ Distinct(live3)
        /\ Len(live3) = Len(live2) + 1
        /\ \A x : Has(live3, x) => Has(live2, x) \/ x = heir.id
    <3>1. live3 = Append(live2, heir)
      BY <2>3 DEF Insert
    <3> HIDE DEF live3, heir
    <3>2. QED
      BY <1>3, <2>2, <2>3, <3>1, AtTailProperties
  <2>5. /\ spare3 \in Seq(S) /\ Distinct(spare3)
        /\ Len(spare3) = Len(spare2) - 1
        /\ \A x : Has(spare3, x) => Has(spare2, x)
    <3>1. 1 \in 1..(Len(spare2) + 1) /\ Len(spare2) - 1 \in (1 - 1)..Len(spare2)
      BY <2>2
    <3>2. spare3 = SubSeq(spare2, 1, Len(spare2) - 1)
      BY DEF AllButTail
    <3> HIDE DEF spare3
    <3>3. /\ spare3 \in Seq(S) /\ Distinct(spare3)
          /\ Len(spare3) = (Len(spare2) - 1) - 1 + 1
          /\ \A x : Has(spare3, x) => Has(spare2, x)
      BY <1>4, <3>1, <3>2, StretchProperties
    <3>4. QED
      BY <2>2, <3>3
  <2>6. ~ Has(spare3, heir.id)
    <3>1. \A k \in DOMAIN spare3 : k \in DOMAIN spare2 /\ k # Len(spare2) /\ spare3[k] = spare2[k]
      BY <1>4, <2>2 DEF AllButTail
    <3>2. Len(spare2) \in DOMAIN spare2
      BY <1>4, <2>2
    <3>3. QED
      BY <1>4, <3>1, <3>2 DEF Has, Distinct, Tailmost
  <2> HIDE DEF live3, spare3, heir
  <2>7. Len(live3) <= Capacity /\ Len(spare3) < ReplacementFactor * Capacity
    BY <1>2, <1>3, <1>4, <1>6, <2>4, <2>5, Bounds
  <2>8. spare # <<>> /\ Len(live3) = Len(live)
    BY <1>2, <1>3, <1>4, <1>6, <2>2, <2>4 DEF Has
  <2>9. \A x : ~ (Has(live3, x) /\ Has(spare3, x))
    BY <1>2, <1>3, <1>4, <2>4, <2>5, <2>6
  <2>10. SoundLists(b.lo, b.hi, live3, spare3)
    BY <1>2, <2>4, <2>5, <2>7, <2>8, <2>9 DEF SoundLists, S
  <2>11. B(live3, spare3) \in SoundBucket
    BY <1>1, <2>10, SoundFromLists
  <2>12. QED
    BY <2>1, <2>11 DEF live3, spare3, heir, live2, spare2, live, spare
<1>7. QED
  BY <1>5, <1>6

\* A half of a split bucket is a sound bucket of its own.
LEMMA HalfIsSound ==
  ASSUME NEW b \in SoundBucket, NEW lo \in Id, NEW hi \in Id, lo <= hi, IsBlock(lo, hi)
  PROVE  /\ Half(b, lo, hi) \in SoundBucket
         /\ Half(b, lo, hi).lo = lo /\ Half(b, lo, hi).hi = hi
<1> DEFINE S == Spanned(b.lo, b.hi)
           T == Spanned(lo, hi)
           all == b.contacts \o b.replacements
           mine == Keep(all, lo..hi)
           n == IF Len(mine) <= Capacity THEN Len(mine) ELSE Capacity
           live == SubSeq(mine, 1, n)
           spare == SubSeq(mine, n + 1, Len(mine))
<1>1. SoundLists(b.lo, b.hi, b.contacts, b.replacements)
  BY SoundParts
<1>2. /\ all \in Seq(S) /\ Distinct(all)
      /\ Len(all) \in Nat /\ Len(all) < Capacity + ReplacementFactor * Capacity
  <2> DEFINE M == ReplacementFactor * Capacity
             old == b.contacts
             waiting == b.replacements
  <2>1. /\ all \in Seq(S)
        /\ Len(all) = Len(old) + Len(waiting)
    BY <1>1 DEF SoundLists
  <2>2. Distinct(all)
    BY <1>1, ConcatDistinct DEF SoundLists
  <2>3. /\ Len(old) \in Nat /\ Len(waiting) \in Nat
        /\ Len(old) <= Capacity /\ Len(waiting) < M
        /\ M \in Nat /\ Capacity \in Nat
    BY <1>1, Bounds DEF SoundLists
  <2> HIDE DEF all, M, old, waiting
  <2>4. Len(all) \in Nat /\ Len(all) < Capacity + M
    BY <2>1, <2>3
  <2>5. QED
    BY <2>1, <2>2, <2>4 DEF M
<1>3. /\ mine \in Seq(T) /\ Distinct(mine)
      /\ Len(mine) \in Nat /\ Len(mine) < Capacity + ReplacementFactor * Capacity
  <2> HIDE DEF all, S
  <2>1. /\ mine \in Seq({c \in S : c.id \in lo..hi}) /\ Distinct(mine)
        /\ Len(mine) \in 0..Len(all)
    <3> DEFINE R == lo..hi
    <3> HIDE DEF R
    <3>1. /\ Keep(all, R) \in Seq({c \in S : c.id \in R}) /\ Distinct(Keep(all, R))
          /\ Len(Keep(all, R)) \in 0..Len(all)
      BY <1>2, KeepProperties
    <3>2. QED
      BY <3>1 DEF R
  <2>2. {c \in S : c.id \in lo..hi} \subseteq T
    <3>1. \A c \in S : c.id \in lo..hi => c \in T
      BY DEF S, Spanned
    <3>2. QED
      BY <3>1, Zenon
  <2> HIDE DEF mine, T
  <2>3. mine \in Seq(T)
    BY <2>1, <2>2
  <2>4. QED
    BY <1>2, <2>1, <2>3, Bounds
<1> HIDE DEF mine, T
<1>4. n \in 0..Len(mine) /\ n <= Capacity /\ (n < Len(mine) => n = Capacity)
  BY <1>3, Bounds
<1> HIDE DEF n
<1>5. /\ live \in Seq(T) /\ Len(live) = n /\ Distinct(live)
  <2>1. 1 \in 1..(Len(mine) + 1) /\ n \in (1 - 1)..Len(mine)
    BY <1>3, <1>4
  <2>2. live \in Seq(T) /\ Len(live) = n - 1 + 1 /\ Distinct(live)
    BY <1>3, <2>1, StretchProperties
  <2>3. QED
    BY <1>4, <2>2
<1>6. /\ spare \in Seq(T) /\ Len(spare) = Len(mine) - n /\ Distinct(spare)
  <2> DEFINE m == n + 1
  <2>1. m \in 1..(Len(mine) + 1) /\ Len(mine) \in (m - 1)..Len(mine)
    BY <1>3, <1>4
  <2> HIDE DEF m
  <2>2. /\ SubSeq(mine, m, Len(mine)) \in Seq(T)
        /\ Len(SubSeq(mine, m, Len(mine))) = Len(mine) - m + 1
        /\ Distinct(SubSeq(mine, m, Len(mine)))
    BY <1>3, <2>1, StretchProperties
  <2>3. QED
    BY <1>3, <1>4, <2>2 DEF m
<1>7. \A x : ~ (Has(live, x) /\ Has(spare, x))
  <2>1. \A k \in DOMAIN live : k \in DOMAIN mine /\ k <= n /\ live[k] = mine[k]
    BY <1>3, <1>4, <1>5
  <2>2. \A k \in DOMAIN spare : n + k \in DOMAIN mine /\ n + k > n /\ spare[k] = mine[n + k]
    BY <1>3, <1>4, <1>6
  <2>3. \A k \in DOMAIN live, m \in DOMAIN spare : k # n + m
    BY <1>4, <1>5, <1>6
  <2> HIDE DEF live, spare
  <2>4. QED
    BY <1>3, <2>1, <2>2, <2>3 DEF Has, Distinct
<1> HIDE DEF live, spare
<1>8. /\ Len(live) <= Capacity
      /\ Len(spare) < ReplacementFactor * Capacity
      /\ spare # <<>> => Len(live) >= Capacity
  BY <1>3, <1>4, <1>5, <1>6, Bounds
<1>9. SoundLists(lo, hi, live, spare)
  BY <1>5, <1>6, <1>7, <1>8 DEF SoundLists, T
<1>10. [lo |-> lo, hi |-> hi, contacts |-> live, replacements |-> spare] \in SoundBucket
  BY <1>9, SoundFromLists
<1>11. Half(b, lo, hi) = [lo |-> lo, hi |-> hi, contacts |-> live, replacements |-> spare]
  BY DEF Half, live, spare, n, mine
<1>12. QED
  BY <1>10, <1>11

\* A bucket that has no room for a contact in its range spans two identifiers
\* at least, so that a split leaves neither half empty-ranged.
LEMMA FullSpansTwo ==
  ASSUME NEW b \in SoundBucket, NEW c \in Spanned(b.lo, b.hi), ~ TakesContact(b, c)
  PROVE  b.lo < b.hi
<1>1. b.lo \in Int /\ b.hi \in Int /\ c.id \in Int /\ b.lo <= c.id /\ c.id <= b.hi
  BY SoundParts DEF Spanned, Contact, Id
<1>2. b.contacts \in Seq(Spanned(b.lo, b.hi)) /\ Len(b.contacts) >= 1
  BY SoundParts, Bounds DEF SoundLists, TakesContact, IsFull
<1>3. 1 \in DOMAIN b.contacts /\ b.contacts[1] \in Spanned(b.lo, b.hi)
  BY <1>2
<1>4. b.contacts[1].id # c.id
  BY <1>3 DEF TakesContact, Has
<1>5. /\ b.contacts[1].id \in Int
      /\ b.lo <= b.contacts[1].id /\ b.contacts[1].id <= b.hi
  BY <1>3 DEF Spanned, Contact, Id
<1>6. QED
  BY <1>1, <1>4, <1>5

\* A multiple of p is q times p for its quotient q.
LEMMA Multiples ==
  ASSUME NEW p \in Nat \ {0}, NEW x \in Nat
  PROVE  /\ x % p = 0 => x = p * (x \div p)
         /\ \A q \in Nat : x = p * q => x % p = 0 /\ x \div p = q
<1>1. /\ x \div p \in Nat /\ x % p \in 0..(p - 1)
      /\ x = p * (x \div p) + (x % p)
  BY Division
<1>2. PICK d \in Nat, r \in 0..(p - 1) : d = x \div p /\ r = x % p /\ x = p * d + r
  BY <1>1
<1>3. x % p = 0 => x = p * (x \div p)
  <2>1. r = 0 => x = p * d
    BY <1>2
  <2>2. QED
    BY <1>2, <2>1
<1>4. ASSUME NEW q \in Nat, x = p * q
      PROVE  x % p = 0 /\ x \div p = q
  <2>1. PICK z \in 0..(p - 1) : z = 0
    OBVIOUS
  <2>2. p * d + r = p * q + z
    <3>1. p * q + 0 = p * q
      OBVIOUS
    <3>2. QED
      BY <1>2, <1>4, <2>1, <3>1, Zenon
  <2>3. d = q /\ r = z
    BY <2>2, DivisionIsUnique
  <2>4. QED
    BY <1>2, <2>1, <2>3
<1>5. QED
  BY <1>3, <1>4

\* The two halves of a block that is not a single identifier are blocks.
LEMMA HalvesAreBlocks ==
  ASSUME NEW lo \in Nat, NEW hi \in Nat, IsBlock(lo, hi), lo < hi
  PROVE  /\ IsBlock(lo, (lo + hi) \div 2) /\ IsBlock((lo + hi) \div 2 + 1, hi)
<1>1. PICK k \in 0..IdBits : /\ lo % Power(2, IdBits - k) = 0
                             /\ hi = lo + Power(2, IdBits - k) - 1
  BY DEF IsBlock
<1>2. IdBits \in Nat /\ k \in Nat /\ IdBits - k \in Nat
  BY IdAssumption
<1>3. k < IdBits
  <2>1. IdBits - k # 0
    <3>1. SUFFICES ASSUME IdBits - k = 0 PROVE FALSE
      OBVIOUS
    <3>2. Power(2, IdBits - k) = 1
      BY <3>1, PowerSteps
    <3>3. QED
      BY <1>1, <3>2
  <2>2. QED
    BY <1>2, <2>1
<1>4. PICK l : l = k + 1
  OBVIOUS
<1>5. l \in 0..IdBits /\ IdBits - l \in Nat /\ IdBits - k = (IdBits - l) + 1
  BY <1>2, <1>3, <1>4
<1>6. PICK p \in Nat \ {0} : p = Power(2, IdBits - l)
  <2>1. PICK n \in Nat : n = IdBits - l
    BY <1>5
  <2>2. Power(2, n) \in Nat \ {0}
    <3>1. 2 \in Nat \ {0}
      OBVIOUS
    <3>2. QED
      BY <2>1, <3>1, PowersAdd, Zenon
  <2>3. QED
    BY <2>1, <2>2
<1>7. Power(2, IdBits - k) = p * 2
  BY <1>5, <1>6, PowerSteps
<1>8. PICK r \in Nat \ {0} : r = p * 2
  BY <1>6
<1>9. PICK q \in Nat : lo = r * q
  <2>1. lo % r = 0
    BY <1>1, <1>7, <1>8
  <2>2. lo = r * (lo \div r) /\ lo \div r \in Nat
    BY <2>1, Multiples, Division
  <2>3. QED
    BY <2>2
<1>10. hi = lo + 2 * p - 1
  BY <1>1, <1>7
<1>11. (lo + hi) \div 2 = lo + p - 1
  BY <1>10
<1>12. PICK i \in Nat, j \in Nat : i = 2 * q /\ j = 2 * q + 1
  OBVIOUS
<1>13. lo = p * i /\ lo + p = p * j
  <2>1. (p * 2) * q = p * (2 * q) /\ p * (2 * q + 1) = p * (2 * q) + p
    OBVIOUS
  <2>2. QED
    BY <1>8, <1>9, <1>12, <2>1
<1>14. lo % p = 0 /\ (lo + p) % p = 0
  <2>1. PICK x \in Nat, y \in Nat : x = lo /\ y = lo + p
    OBVIOUS
  <2>2. x % p = 0
    BY <1>12, <1>13, <2>1, Multiples
  <2>3. y % p = 0
    BY <1>12, <1>13, <2>1, Multiples
  <2>4. QED
    BY <2>1, <2>2, <2>3
<1>15. IsBlock(lo, lo + p - 1) /\ IsBlock(lo + p, hi)
  <2>1. lo + p - 1 = lo + Power(2, IdBits - l) - 1
    BY <1>6
  <2>2. hi = (lo + p) + Power(2, IdBits - l) - 1
    BY <1>6, <1>10
  <2>3. QED
    BY <1>5, <1>6, <1>14, <2>1, <2>2 DEF IsBlock
<1>16. QED
  <2>1. (lo + hi) \div 2 + 1 = lo + p
    BY <1>11
  <2>2. QED
    BY <1>11, <1>15, <2>1

\* kad_uint256_avg as kad_bucket_split uses it: the cut is inside the range, and
\* in its middle.
LEMMA CutIsInside ==
  ASSUME NEW b \in SoundBucket, b.lo < b.hi
  PROVE  /\ MidL(b) \in Id /\ MidL(b) + 1 \in Id
         /\ b.lo <= MidL(b) /\ MidL(b) + 1 <= b.hi
         /\ IsBlock(b.lo, MidL(b)) /\ IsBlock(MidL(b) + 1, b.hi)
<1>1. b.lo \in Int /\ b.hi \in Int /\ 0 <= b.lo /\ b.hi <= MaxId /\ MaxId \in Int
  BY SoundParts, IdAssumption DEF Id
<1>2. b.lo <= MidL(b) /\ MidL(b) + 1 <= b.hi /\ MidL(b) \in Int
  BY <1>1 DEF MidL
<1>3. IsBlock(b.lo, MidL(b)) /\ IsBlock(MidL(b) + 1, b.hi)
  <2>1. b.lo \in Nat /\ b.hi \in Nat /\ IsBlock(b.lo, b.hi)
    BY <1>1, SoundParts
  <2>2. QED
    BY <2>1, HalvesAreBlocks DEF MidL
<1>4. QED
  BY <1>1, <1>2, <1>3 DEF Id

-----------------------------------------------------------------------------
(* The array of buckets                                                    *)
-----------------------------------------------------------------------------
\* kad_table_get_bucket_index finds a bucket for every identifier: the first
\* bucket that does not end before it cannot begin after it.
LEMMA EveryIdHasABucket ==
  ASSUME NEW bs \in Seq(SoundBucket), Tiles(bs), NEW id \in Id
  PROVE  BucketIndexIn(bs, id) \in DOMAIN bs /\ InRange(bs[BucketIndexIn(bs, id)], id)
<1> DEFINE T == {i \in 1..Len(bs) : id <= bs[i].hi}
<1>1. DOMAIN bs = 1..Len(bs) /\ Len(bs) \in Nat
  OBVIOUS
<1>2. \A i \in 1..Len(bs) : bs[i].lo \in Int /\ bs[i].hi \in Int
  BY <1>1, SoundParts DEF Id
<1>3. id \in Int /\ 0 <= id /\ id <= MaxId
  BY DEF Id
<1>4. Len(bs) \in T
  BY <1>1, <1>3 DEF Tiles
<1>5. PICK m \in T : \A n \in T : m <= n
  <2>1. T \in SUBSET Nat /\ T # {}
    BY <1>4
  <2>2. QED
    BY <2>1, LeastOf
<1>6. m \in 1..Len(bs) /\ id <= bs[m].hi
  OBVIOUS
<1>7. \A j \in 1..(m - 1) : j \in 1..Len(bs) /\ bs[j].hi < id
  BY <1>2, <1>3, <1>5, <1>6
<1>8. bs[m].lo <= id
  <2>1. CASE m = 1
    BY <1>3, <2>1 DEF Tiles
  <2>2. CASE m # 1
    <3>1. m - 1 \in 1..(m - 1) /\ m - 1 \in 1..(Len(bs) - 1) /\ m = (m - 1) + 1
      BY <1>1, <1>6, <2>2
    <3>2. bs[m - 1].hi + 1 = bs[m].lo
      BY <3>1 DEF Tiles
    <3>3. bs[m - 1].hi < id /\ bs[m - 1].hi \in Int
      BY <1>2, <1>7, <3>1
    <3>4. QED
      BY <1>3, <3>2, <3>3
  <2>3. QED
    BY <2>1, <2>2
<1>9. \A j \in 1..(m - 1) : ~ InRange(bs[j], id)
  BY <1>2, <1>3, <1>7 DEF InRange
<1>10. m \in DOMAIN bs /\ InRange(bs[m], id) /\ \A j \in 1..(m - 1) : ~ InRange(bs[j], id)
  BY <1>1, <1>6, <1>8, <1>9 DEF InRange
<1>11. QED
  BY <1>10 DEF BucketIndexIn

\* An operation on a bucket that leaves its range alone leaves the tiling
\* alone.
LEMMA ReplaceKeepsTiles ==
  ASSUME NEW bs \in Seq(SoundBucket), Tiles(bs), NEW i \in DOMAIN bs,
         NEW b \in SoundBucket, b.lo = bs[i].lo, b.hi = bs[i].hi
  PROVE  [bs EXCEPT ![i] = b] \in Seq(SoundBucket) /\ Tiles([bs EXCEPT ![i] = b])
<1>1. PICK cs : cs = [bs EXCEPT ![i] = b]
  OBVIOUS
<1>2. cs \in Seq(SoundBucket) /\ Len(cs) = Len(bs) /\ DOMAIN cs = DOMAIN bs /\ DOMAIN bs = 1..Len(bs)
  BY <1>1
<1>3. \A j \in DOMAIN bs : cs[j].lo = bs[j].lo /\ cs[j].hi = bs[j].hi
  BY <1>1
<1>4. \A j \in 1..(Len(bs) - 1) : j \in DOMAIN bs /\ j + 1 \in DOMAIN bs
  BY <1>2
<1>5. 1 \in DOMAIN bs /\ Len(bs) \in DOMAIN bs
  BY <1>2 DEF Tiles
<1>6. Tiles(cs)
  BY <1>2, <1>3, <1>4, <1>5 DEF Tiles
<1>7. QED
  BY <1>1, <1>2, <1>6

\* kad_table_split_bucket replaces one tile by two that fill its place.
LEMMA SplitKeepsTiles ==
  ASSUME NEW bs \in Seq(SoundBucket), Tiles(bs), NEW ix \in DOMAIN bs,
         NEW b \in SoundBucket, b.lo = bs[ix].lo, b.hi = bs[ix].hi, b.lo < b.hi
  PROVE  SplitAt(bs, ix, b) \in Seq(SoundBucket) /\ Tiles(SplitAt(bs, ix, b))
<1>1. PICK l : l = LeftHalf(b)
  OBVIOUS
<1>2. PICK r : r = RightHalf(b)
  OBVIOUS
<1>3. /\ MidL(b) \in Id /\ MidL(b) + 1 \in Id
      /\ b.lo <= MidL(b) /\ MidL(b) + 1 <= b.hi
      /\ IsBlock(b.lo, MidL(b)) /\ IsBlock(MidL(b) + 1, b.hi)
  BY CutIsInside
<1>4. /\ l \in SoundBucket /\ l.lo = b.lo /\ l.hi = MidL(b)
      /\ r \in SoundBucket /\ r.lo = MidL(b) + 1 /\ r.hi = b.hi
  BY <1>1, <1>2, <1>3, SoundParts, HalfIsSound DEF LeftHalf, RightHalf
<1>5. l.lo <= l.hi /\ r.lo <= r.hi /\ l.hi + 1 = r.lo
  BY <1>3, <1>4
<1>6. PICK n \in Nat : n = Len(bs)
  OBVIOUS
<1>7. DOMAIN bs = 1..n /\ ix \in 1..n /\ n >= 1
  BY <1>6
<1>8. PICK cs : cs = SplitAt(bs, ix, b)
  OBVIOUS
<1>9. cs = [j \in 1..(n + 1) |-> IF j < ix THEN bs[j]
                                 ELSE IF j = ix THEN l
                                 ELSE IF j = ix + 1 THEN r
                                 ELSE bs[j - 1]]
  BY <1>1, <1>2, <1>6, <1>8 DEF SplitAt
<1>10. \A j \in 1..n : bs[j] \in SoundBucket
  BY <1>6
<1>11. \A j \in 1..(n + 1) : cs[j] \in SoundBucket
  BY <1>4, <1>7, <1>9, <1>10
<1>12. cs \in Seq(SoundBucket) /\ Len(cs) = n + 1 /\ DOMAIN cs = 1..(n + 1)
  BY <1>9, <1>11
<1>13. /\ \A j \in 1..(ix - 1) : cs[j] = bs[j]
       /\ cs[ix] = l /\ cs[ix + 1] = r
       /\ \A j \in (ix + 2)..(n + 1) : cs[j] = bs[j - 1]
  BY <1>7, <1>9
<1>14. cs[1].lo = 0
  <2>1. CASE ix = 1
    BY <1>4, <1>13, <2>1 DEF Tiles
  <2>2. CASE ix # 1
    BY <1>7, <1>13, <2>2 DEF Tiles
  <2>3. QED
    BY <2>1, <2>2
<1>15. cs[n + 1].hi = MaxId
  <2>1. CASE ix = n
    BY <1>4, <1>6, <1>13, <2>1 DEF Tiles
  <2>2. CASE ix # n
    <3>1. n + 1 \in (ix + 2)..(n + 1) /\ (n + 1) - 1 = n
      BY <1>7, <2>2
    <3>2. QED
      BY <1>6, <1>13, <3>1 DEF Tiles
  <2>3. QED
    BY <2>1, <2>2
<1>16. \A j \in DOMAIN cs : cs[j].lo <= cs[j].hi
  BY <1>11, <1>12, SoundParts
<1>17. ASSUME NEW j \in 1..n
       PROVE  cs[j].hi + 1 = cs[j + 1].lo
  <2>0. j \in Int /\ ix \in Int
    BY <1>7
  <2>1. CASE j < ix - 1
    <3>1. j \in 1..(ix - 1) /\ j + 1 \in 1..(ix - 1) /\ j \in 1..(n - 1)
      BY <1>7, <2>1
    <3>2. QED
      BY <1>6, <1>13, <3>1 DEF Tiles
  <2>2. CASE j = ix - 1
    <3>1. j \in 1..(ix - 1) /\ j + 1 = ix /\ j \in 1..(n - 1)
      BY <1>7, <2>2
    <3>2. QED
      BY <1>4, <1>6, <1>13, <3>1 DEF Tiles
  <2>3. CASE j = ix
    BY <1>5, <1>13, <2>3
  <2>4. CASE j = ix + 1
    <3>1. /\ j + 1 \in (ix + 2)..(n + 1) /\ (j + 1) - 1 = ix + 1
          /\ ix \in 1..(n - 1)
      BY <1>7, <2>4
    <3>2. cs[j] = r /\ cs[j + 1] = bs[ix + 1]
      BY <1>13, <2>4, <3>1
    <3>3. QED
      BY <1>4, <1>6, <3>1, <3>2 DEF Tiles
  <2>5. CASE j > ix + 1
    <3>1. /\ j \in (ix + 2)..(n + 1) /\ j + 1 \in (ix + 2)..(n + 1)
          /\ j - 1 \in 1..(n - 1) /\ (j - 1) + 1 = (j + 1) - 1
      BY <1>7, <2>5
    <3>2. cs[j] = bs[j - 1] /\ cs[j + 1] = bs[(j + 1) - 1]
      BY <1>13, <3>1, Zenon
    <3>3. bs[j - 1].hi + 1 = bs[(j - 1) + 1].lo
      BY <1>6, <3>1, Zenon DEF Tiles
    <3>4. cs[j + 1] = bs[(j - 1) + 1]
      BY <3>1, <3>2, Zenon
    <3>5. QED
      BY <3>2, <3>3, <3>4, Zenon
  <2>6. QED
    BY <2>0, <2>1, <2>2, <2>3, <2>4, <2>5
<1>18. Tiles(cs)
  BY <1>6, <1>12, <1>14, <1>15, <1>16, <1>17 DEF Tiles
<1>19. QED
  BY <1>8, <1>12, <1>18

-----------------------------------------------------------------------------
(* The inductive invariant                                                 *)
-----------------------------------------------------------------------------
IInv == /\ buckets \in Seq(SoundBucket)
        /\ Tiles(buckets)
        /\ pings \subseteq [old : Id, new : Contact]
        /\ status \in {"running", "undefined"}

\* kad_table_init: one empty bucket that spans all identifiers.
LEMMA InitIsSound == Init => IInv
<1> SUFFICES ASSUME Init PROVE IInv
  OBVIOUS
<1> DEFINE b == NewBucket(0, MaxId)
<1>1. 0 \in Id /\ MaxId \in Id /\ 0 <= MaxId
  BY IdAssumption DEF Id
<1>1a. IsBlock(0, MaxId)
  <2>1. 0 \in 0..IdBits /\ IdBits - 0 = IdBits /\ IdBits \in Nat
    BY IdAssumption
  <2>2. PICK p \in Nat \ {0} : p = Power(2, IdBits) /\ MaxId = 0 + p - 1
    BY <2>1, PowersAdd, WidthAssumption, IdAssumption
  <2>3. 0 % p = 0
    OBVIOUS
  <2>4. QED
    BY <2>1, <2>2, <2>3 DEF IsBlock
<1>2. SoundLists(0, MaxId, <<>>, <<>>)
  BY Bounds DEF SoundLists, Distinct, Has
<1>3. b \in SoundBucket /\ b.lo = 0 /\ b.hi = MaxId
  BY <1>1, <1>1a, <1>2, SoundFromLists DEF NewBucket
<1> HIDE DEF b
<1>4. buckets = <<b>> /\ Len(buckets) = 1 /\ buckets[1] = b /\ DOMAIN buckets = 1..1
  BY DEF Init, b
<1>5. buckets \in Seq(SoundBucket)
  BY <1>3, <1>4
<1>6. Tiles(buckets)
  BY <1>1, <1>3, <1>4 DEF Tiles
<1>7. QED
  BY <1>5, <1>6 DEF IInv, Init

\* What a step that concerns one identifier finds: the bucket it is sent to.
LEMMA FoundBucket ==
  ASSUME IInv, NEW id \in Id
  PROVE  /\ BucketIndex(id) \in DOMAIN buckets
         /\ buckets[BucketIndex(id)] \in SoundBucket
         /\ buckets[BucketIndex(id)].lo <= id /\ id <= buckets[BucketIndex(id)].hi
<1>1. buckets \in Seq(SoundBucket) /\ Tiles(buckets)
  BY DEF IInv
<1>2. BucketIndex(id) \in DOMAIN buckets /\ InRange(buckets[BucketIndex(id)], id)
  BY <1>1, EveryIdHasABucket DEF BucketIndex
<1>3. QED
  BY <1>1, <1>2 DEF InRange

\* kad_table_add_contact, when the bucket takes the contact.
LEMMA AddInPlaceIsSound ==
  ASSUME IInv, NEW c \in Contact, AddInPlace(c)
  PROVE  IInv'
<1> DEFINE ix == BucketIndex(c.id)
           b == BucketAdd(buckets[ix], c)
<1>1. c.id \in Id
  BY DEF Contact
<1>2. /\ ix \in DOMAIN buckets /\ buckets[ix] \in SoundBucket
      /\ c \in Spanned(buckets[ix].lo, buckets[ix].hi)
  BY <1>1, FoundBucket DEF Spanned
<1>3. b \in SoundBucket /\ b.lo = buckets[ix].lo /\ b.hi = buckets[ix].hi
  BY <1>2, AddKeepsSound
<1>4. buckets' = [buckets EXCEPT ![ix] = b] /\ UNCHANGED <<pings, status>>
  BY DEF AddInPlace
<1> HIDE DEF ix, b
<1>5. buckets' \in Seq(SoundBucket) /\ Tiles(buckets')
  BY <1>2, <1>3, <1>4, ReplaceKeepsTiles DEF IInv
<1>6. QED
  BY <1>4, <1>5 DEF IInv

\* kad_table_add_contact, when the bucket is split and the contact added again.
LEMMA AddSplittingIsSound ==
  ASSUME IInv, NEW c \in Contact, AddSplitting(c)
  PROVE  IInv'
<1> DEFINE ix == BucketIndex(c.id)
           full == BucketAdd(buckets[ix], c)
           two == SplitAt(buckets, ix, full)
           jx == BucketIndexIn(two, c.id)
           b == BucketAdd(two[jx], c)
<1>1. c.id \in Id
  BY DEF Contact
<1>2. /\ ix \in DOMAIN buckets /\ buckets[ix] \in SoundBucket
      /\ c \in Spanned(buckets[ix].lo, buckets[ix].hi)
  BY <1>1, FoundBucket DEF Spanned
<1>3. full \in SoundBucket /\ full.lo = buckets[ix].lo /\ full.hi = buckets[ix].hi
  BY <1>2, AddKeepsSound
<1>4. /\ ~ TakesContact(buckets[ix], c)
      /\ buckets' = [two EXCEPT ![jx] = b] /\ UNCHANGED <<pings, status>>
  BY DEF AddSplitting
<1>5. full.lo < full.hi
  BY <1>2, <1>3, <1>4, FullSpansTwo
<1> HIDE DEF ix, full
<1>6. two \in Seq(SoundBucket) /\ Tiles(two)
  BY <1>2, <1>3, <1>5, SplitKeepsTiles DEF IInv
<1> HIDE DEF two
<1>7. /\ jx \in DOMAIN two /\ two[jx] \in SoundBucket
      /\ c \in Spanned(two[jx].lo, two[jx].hi)
  BY <1>1, <1>6, EveryIdHasABucket DEF InRange, Spanned
<1>8. b \in SoundBucket /\ b.lo = two[jx].lo /\ b.hi = two[jx].hi
  BY <1>7, AddKeepsSound
<1> HIDE DEF jx, b
<1>9. buckets' \in Seq(SoundBucket) /\ Tiles(buckets')
  BY <1>4, <1>6, <1>7, <1>8, ReplaceKeepsTiles
<1>10. QED
  BY <1>4, <1>9 DEF IInv

\* kad_table_add_contact, when the bucket is full and its oldest contact is pinged.
LEMMA AddPingingIsSound ==
  ASSUME IInv, NEW c \in Contact, AddPinging(c)
  PROVE  IInv'
<1> DEFINE ix == BucketIndex(c.id)
           old == buckets[ix]
           b == BucketAdd(old, c)
<1>1. c.id \in Id
  BY DEF Contact
<1>2. ix \in DOMAIN buckets /\ old \in SoundBucket /\ c \in Spanned(old.lo, old.hi)
  BY <1>1, FoundBucket DEF Spanned
<1>3. b \in SoundBucket /\ b.lo = old.lo /\ b.hi = old.hi
  BY <1>2, AddKeepsSound
<1>4. /\ ~ TakesContact(old, c)
      /\ buckets' = [buckets EXCEPT ![ix] = b]
      /\ pings' \subseteq pings \cup {[old |-> old.contacts[1].id, new |-> c]}
      /\ status' \in {status, "undefined"}
  <2> DEFINE more == pings \cup {[old |-> old.contacts[1].id, new |-> c]}
  <2>1. /\ ~ TakesContact(old, c)
        /\ buckets' = [buckets EXCEPT ![ix] = b]
        /\ \/ pings' = more /\ UNCHANGED status
           \/ UNCHANGED <<pings, status>>
           \/ status' = "undefined" /\ UNCHANGED pings
    BY Zenon DEF AddPinging
  <2>2. pings \subseteq more
    OBVIOUS
  <2> HIDE DEF more
  <2>3. pings' \subseteq more /\ status' \in {status, "undefined"}
    BY <2>1, <2>2
  <2>4. QED
    BY <2>1, <2>3 DEF more
<1>5. old.contacts[1].id \in Id
  <2>1. old.contacts \in Seq(Contact) /\ Len(old.contacts) >= 1
    BY <1>2, <1>4, Bounds DEF SoundBucket, BucketType, TakesContact, IsFull
  <2>2. old.contacts[1] \in Contact
    BY <2>1
  <2>3. QED
    BY <2>2 DEF Contact
<1> HIDE DEF ix, b
<1>6. buckets' \in Seq(SoundBucket) /\ Tiles(buckets')
  BY <1>2, <1>3, <1>4, ReplaceKeepsTiles DEF IInv
<1>7. pings' \subseteq [old : Id, new : Contact] /\ status' \in {"running", "undefined"}
  BY <1>4, <1>5 DEF IInv
<1>8. QED
  BY <1>6, <1>7 DEF IInv

\* kad_table_remove_contact.
LEMMA RemoveContactIsSound ==
  ASSUME IInv, NEW id \in Id, RemoveContact(id)
  PROVE  IInv'
<1> DEFINE ix == BucketIndex(id)
           b == BucketRemove(buckets[ix], id)
<1>1. ix \in DOMAIN buckets /\ buckets[ix] \in SoundBucket
  BY FoundBucket
<1>2. b \in SoundBucket /\ b.lo = buckets[ix].lo /\ b.hi = buckets[ix].hi
  BY <1>1, RemoveKeepsSound
<1>3. buckets' = [buckets EXCEPT ![ix] = b] /\ UNCHANGED <<pings, status>>
  BY DEF RemoveContact
<1> HIDE DEF ix, b
<1>4. buckets' \in Seq(SoundBucket) /\ Tiles(buckets')
  BY <1>1, <1>2, <1>3, ReplaceKeepsTiles DEF IInv
<1>5. QED
  BY <1>3, <1>4 DEF IInv

\* Every step of the table keeps every bucket sound and the space tiled.
LEMMA StepIsSound == IInv /\ [Next]_vars => IInv'
<1> SUFFICES ASSUME IInv, [Next]_vars PROVE IInv'
  OBVIOUS
<1>1. ASSUME NEW c \in Contact, AddContact(c) PROVE IInv'
  BY <1>1, AddInPlaceIsSound, AddSplittingIsSound, AddPingingIsSound DEF AddContact
<1>2. ASSUME NEW id \in Id, RemoveContact(id) PROVE IInv'
  BY <1>2, RemoveContactIsSound
<1>3. ASSUME NEW p \in pings, PingAnswered(p) \/ PingFailed(p) PROVE IInv'
  BY <1>3 DEF IInv, Tiles, PingAnswered, PingFailed
<1>4. CASE UNCHANGED vars
  BY <1>4 DEF IInv, Tiles, vars
<1>5. QED
  BY <1>1, <1>2, <1>3, <1>4 DEF Next

\* Whatever the order of additions, removals and ping answers, every bucket is
\* sound and the buckets tile the identifier space.
THEOREM TableIsSound == Spec => []IInv
<1>1. QED
  BY InitIsSound, StepIsSound, PTL DEF Spec

-----------------------------------------------------------------------------
(* The invariants of Table follow                                          *)
-----------------------------------------------------------------------------
\* The structures of table.c and bucket.c keep their shape, for every width of
\* the identifiers and every capacity.
THEOREM TypeCorrect == Spec => []TypeOK
<1>1. IInv => TypeOK
  <2>1. SoundBucket \subseteq BucketType
    BY DEF SoundBucket
  <2>2. QED
    BY <2>1 DEF IInv, TypeOK
<1>2. QED
  BY <1>1, TableIsSound, PTL

\* The ranges of the buckets always partition the identifier space, so the
\* abort() of kad_table_get_bucket_index is unreachable.
THEOREM AlwaysTiled == Spec => []Tiling
<1>1. IInv => Tiling
  BY DEF IInv, Tiling
<1>2. QED
  BY <1>1, TableIsSound, PTL

\* Every known peer is in the bucket where kad_table_get_bucket_index looks.
THEOREM AlwaysAtHome == Spec => []AtHome
<1>1. ASSUME NEW b \in SoundBucket
      PROVE  b.contacts \in Seq(HomeOf(b)) /\ b.replacements \in Seq(HomeOf(b))
  <2>1. Spanned(b.lo, b.hi) = HomeOf(b)
    BY DEF Spanned, HomeOf, InRange
  <2>2. QED
    BY <2>1, SoundParts DEF SoundLists
<1>2. IInv => AtHome
  BY <1>1 DEF IInv, AtHome
<1>3. QED
  BY <1>2, TableIsSound, PTL

\* No bucket ever records an identifier twice, live or spare.
THEOREM AlwaysRecordedOnce == Spec => []RecordedOnce
<1>1. ASSUME NEW b \in SoundBucket
      PROVE  Distinct(b.contacts \o b.replacements)
  BY SoundParts, ConcatDistinct DEF SoundLists
<1>2. IInv => RecordedOnce
  BY <1>1 DEF IInv, RecordedOnce
<1>3. QED
  BY <1>2, TableIsSound, PTL

\* Replacements wait only in full buckets.
THEOREM AlwaysSparesOnlyWhenFull == Spec => []SparesOnlyWhenFull
<1>1. ASSUME NEW b \in SoundBucket
      PROVE  b.replacements # <<>> => IsFull(b)
  BY SoundParts DEF SoundLists, IsFull
<1>2. IInv => SparesOnlyWhenFull
  BY <1>1 DEF IInv, SparesOnlyWhenFull
<1>3. QED
  BY <1>2, TableIsSound, PTL

\* Neither list outgrows its capacity.
THEOREM AlwaysWithinBounds == Spec => []ListBounds
<1>1. ASSUME NEW b \in SoundBucket
      PROVE  Len(b.contacts) <= Capacity /\ Len(b.replacements) < ReplacementFactor * Capacity
  BY SoundParts DEF SoundLists
<1>2. IInv => ListBounds
  BY <1>1 DEF IInv, ListBounds
<1>3. QED
  BY <1>2, TableIsSound, PTL

-----------------------------------------------------------------------------
(* Table implements PeerSet                                                *)
(*                                                                         *)
(* The argument follows the calls of table.c.  An addition to one bucket,  *)
(* a removal from one and a split are each described by what they do to    *)
(* the sets of live and spare peers of the whole table; an addition that   *)
(* splits is an addition, a split and an addition, one after the other.    *)
(* What is said of a bucket can be said of the table because the other     *)
(* buckets hold no peer with an identifier in its range.                   *)
-----------------------------------------------------------------------------
Known(P, id)  == \E p \in P : p.id = id
Others(P, id) == {p \in P : p.id # id}

-----------------------------------------------------------------------------
(* What a call does to the live and the spare peers                        *)
-----------------------------------------------------------------------------
\* The record of a live peer is replaced.
Refreshed(c, live, spare, live2, spare2) ==
  /\ Known(live, c.id)
  /\ live2 = Others(live, c.id) \cup {c}
  /\ spare2 = spare

\* There was a free place for a new peer.
Joined(c, live, spare, live2, spare2) ==
  /\ ~ Known(live \cup spare, c.id)
  /\ live2 = live \cup {c}
  /\ spare2 = spare

\* The peer waits, and another one may be dropped for it if it did not yet.
Waits(c, live, spare, live2, spare2) ==
  /\ ReplacementFactor * Capacity > 1
  /\ ~ Known(live, c.id)
  /\ live2 = live
  /\ \E dropped \in {{}} \cup {{q} : q \in Others(spare, c.id)} :
       /\ Known(spare, c.id) => dropped = {}
       /\ spare2 = (Others(spare, c.id) \cup {c}) \ dropped

\* There is no place to wait at: a list of replacements with room for none.
Ignored(c, live, spare, live2, spare2) ==
  /\ ReplacementFactor * Capacity = 1
  /\ ~ Known(live, c.id)
  /\ live2 = live
  /\ spare2 = spare

\* A split promotes spare peers and does nothing else.
Promotes(live, spare, live2, spare2) ==
  \E promoted \in SUBSET spare : live2 = live \cup promoted /\ spare2 = spare \ promoted

\* A peer is removed, and a live one may be succeeded by a spare one.
Succeeded(id, live, spare, live2, spare2) ==
  \E heir \in {{}} \cup {{q} : q \in Others(spare, id)} :
    /\ heir # {} => Known(live, id)
    /\ live2 = Others(live, id) \cup heir
    /\ spare2 = Others(spare, id) \ heir

-----------------------------------------------------------------------------
(* One bucket                                                              *)
-----------------------------------------------------------------------------
\* The contacts of a sound bucket, as sets.
LEMMA BucketMembers ==
  ASSUME NEW b \in SoundBucket
  PROVE  /\ ToSet(b.contacts) \subseteq Spanned(b.lo, b.hi)
         /\ ToSet(b.replacements) \subseteq Spanned(b.lo, b.hi)
         /\ \A p \in ToSet(b.contacts), q \in ToSet(b.replacements) : p.id # q.id
         /\ \A p, q \in ToSet(b.contacts) : p.id = q.id => p = q
         /\ \A p, q \in ToSet(b.replacements) : p.id = q.id => p = q
         /\ ToSet(b.replacements) # {} => IsFull(b) /\ ReplacementFactor * Capacity > 1
<1>1. SoundLists(b.lo, b.hi, b.contacts, b.replacements)
  BY SoundParts
<1>2. PICK live \in Seq(Spanned(b.lo, b.hi)), spare \in Seq(Spanned(b.lo, b.hi)) :
        live = b.contacts /\ spare = b.replacements
  BY <1>1 DEF SoundLists
<1>3. ToSet(live) \subseteq Spanned(b.lo, b.hi) /\ ToSet(spare) \subseteq Spanned(b.lo, b.hi)
  BY DEF ToSet
<1>4. Distinct(live) /\ Distinct(spare) /\ \A x : ~ (Has(live, x) /\ Has(spare, x))
  BY <1>1, <1>2 DEF SoundLists
<1>5. \A p \in ToSet(live), q \in ToSet(spare) : p.id # q.id
  BY <1>4, HasMembers
<1>6. ASSUME ToSet(spare) # {}
      PROVE  Len(live) >= Capacity /\ ReplacementFactor * Capacity > 1
  <2>1. spare # <<>> /\ Len(spare) >= 1
    BY <1>6 DEF ToSet
  <2>2. QED
    BY <1>1, <1>2, <2>1, Bounds DEF SoundLists
<1>7. QED
  BY <1>2, <1>3, <1>4, <1>5, <1>6, DistinctIsInjective DEF IsFull

\* kad_bucket_add_contact, said of sets.  A known live contact is replaced by
\* the new record, a free place is taken; otherwise the contact becomes a
\* replacement, and the oldest one makes room, unless the contact was among
\* them.  (A list of replacements with no place at all stays empty.)
LEMMA AddMembers ==
  ASSUME NEW b \in SoundBucket, NEW c \in Spanned(b.lo, b.hi),
         NEW live, NEW spare, NEW live2, NEW spare2,
         live = ToSet(b.contacts), spare = ToSet(b.replacements),
         live2 = ToSet(BucketAdd(b, c).contacts),
         spare2 = ToSet(BucketAdd(b, c).replacements)
  PROVE  IF TakesContact(b, c)
         THEN Refreshed(c, live, spare, live2, spare2) \/ Joined(c, live, spare, live2, spare2)
         ELSE Waits(c, live, spare, live2, spare2) \/ Ignored(c, live, spare, live2, spare2)
<1> DEFINE S == Spanned(b.lo, b.hi)
<1>1. SoundLists(b.lo, b.hi, b.contacts, b.replacements)
  BY SoundParts
<1>2. PICK l \in Seq(S), s \in Seq(S) : l = b.contacts /\ s = b.replacements
  BY <1>1 DEF SoundLists
<1>3. /\ Distinct(l) /\ Distinct(s) /\ (s # <<>> => Len(l) >= Capacity)
      /\ Len(s) < ReplacementFactor * Capacity /\ Len(s) \in Nat
  BY <1>1, <1>2 DEF SoundLists
<1>4. c \in S /\ b \in BucketType
  BY DEF SoundBucket
<1> HIDE DEF S
<1>5. Has(l, c.id) <=> Known(live, c.id)
  BY <1>2, HasMembers DEF Known
<1>6. CASE TakesContact(b, c)
  <2>1. BucketAdd(b, c).contacts = Insert(Pop(l, c.id), c) /\ BucketAdd(b, c).replacements = s
    BY <1>2, <1>4, <1>6 DEF BucketAdd, BucketType
  <2>2. live2 = Others(live, c.id) \cup {c} /\ spare2 = spare
    BY <1>2, <1>3, <1>4, <2>1, ReaddMembers DEF Others
  <2>3. CASE Has(l, c.id)
    BY <1>5, <1>6, <2>2, <2>3 DEF Refreshed
  <2>4. CASE ~ Has(l, c.id)
    <3>1. s = <<>>
      BY <1>2, <1>3, <1>6, <2>4, Bounds DEF TakesContact, IsFull
    <3>2. spare = {}
      BY <1>2, <3>1 DEF ToSet
    <3>3. \A p \in live : p.id # c.id
      BY <1>5, <2>4 DEF Known
    <3>4. Others(live, c.id) = live
      BY <3>3 DEF Others
    <3>5. QED
      BY <1>6, <2>2, <3>2, <3>3, <3>4 DEF Joined, Known
  <2>5. QED
    BY <2>3, <2>4
<1>7. CASE ~ TakesContact(b, c)
  <2>1. PICK e : e = Insert(Pop(s, c.id), c)
    OBVIOUS
  <2>2. PICK n : n = ReplacementFactor * Capacity - 1
    OBVIOUS
  <2>3. BucketAdd(b, c).contacts = l /\ BucketAdd(b, c).replacements = Newest(e, n)
    BY <1>2, <1>4, <1>7, <2>1, <2>2 DEF BucketAdd, AddReplacement, BucketType
  <2>4. live2 = live /\ spare2 = ToSet(Newest(e, n)) /\ ~ Known(live, c.id)
    BY <1>2, <1>5, <1>7, <2>3 DEF TakesContact
  <2>5. ToSet(e) = Others(spare, c.id) \cup {c}
    BY <1>2, <1>3, <1>4, <2>1, ReaddMembers DEF Others
  <2>6. /\ e \in Seq(S) /\ Distinct(e)
        /\ Len(e) = IF Has(s, c.id) THEN Len(s) ELSE Len(s) + 1
    BY <1>3, <1>4, <2>1, ReaddProperties
  <2>7. n \in Nat /\ Len(s) <= n /\ Len(e) \in Nat
    BY <1>3, <2>2, <2>6, Bounds
  <2>8. CASE n = 0
    <3>1. Len(s) = 0 /\ s = <<>> /\ ~ Has(s, c.id) /\ spare = {}
      BY <1>2, <1>3, <2>7, <2>8 DEF Has, ToSet
    <3>2. Len(e) = 1
      BY <2>6, <3>1
    <3>3. PICK x \in S : e[1] = x /\ ToSet(e) = {x} /\ ToSet(Newest(e, 0)) = ToSet(e) \ {x}
      <4>1. ToSet(Newest(e, 0)) = ToSet(e) \ {e[1]} /\ e[1] \in ToSet(e)
        <5>1. 0 \in Nat /\ Len(e) = 0 + 1
          BY <3>2
        <5>2. e \in Seq(S) /\ Distinct(e)
          BY <2>6, Zenon
        <5>3. QED
          BY <5>1, <5>2, NewestMembers
      <4>2. ToSet(e) = {e[1]} /\ e[1] \in S
        <5>1. e \in Seq(S)
          BY <2>6, Zenon
        <5>2. DOMAIN e = 1..1 /\ 1..1 = {1}
          BY <3>2, <5>1
        <5>3. e[1] \in S
          <6>1. 1 \in 1..Len(e)
            BY <3>2
          <6>2. QED
            BY <5>1, <6>1, ElementOfSeq
        <5>4. QED
          BY <5>2, <5>3 DEF ToSet
      <4>3. QED
        BY <4>1, <4>2
    <3>4. spare2 = {}
      BY <2>4, <2>8, <3>3
    <3>5. ReplacementFactor * Capacity = 1
      BY <2>2, <2>8, Bounds
    <3>6. QED
      BY <1>7, <2>4, <3>1, <3>4, <3>5 DEF Ignored
  <2>9. CASE n # 0
    <3>1. ReplacementFactor * Capacity > 1
      BY <2>2, <2>7, <2>9, Bounds
    <3>2. CASE Len(e) <= n
      <4>1. Newest(e, n) = e
        BY <3>2 DEF Newest
      <4>2. spare2 = (Others(spare, c.id) \cup {c}) \ {}
        BY <2>4, <2>5, <4>1
      <4>3. QED
        BY <1>7, <2>4, <3>1, <4>2 DEF Waits
    <3>3. CASE Len(e) > n
      <4>1. Len(e) = n + 1 /\ Len(s) = n /\ ~ Has(s, c.id)
        BY <2>6, <2>7, <3>3
      <4>2. ToSet(Newest(e, n)) = ToSet(e) \ {e[1]} /\ e[1] \in ToSet(e)
        BY <2>6, <2>7, <4>1, NewestMembers
      <4>3. e[1] # c
        <5>1. Pop(s, c.id) = s /\ e = Append(s, c)
          BY <2>1, <4>1 DEF Pop, Insert
        <5>2. 1 \in DOMAIN s /\ e[1] = s[1]
          BY <2>7, <2>9, <4>1, <5>1
        <5>3. QED
          BY <4>1, <5>2 DEF Has
      <4>4. PICK q \in Others(spare, c.id) : q = e[1]
        BY <2>5, <4>2, <4>3
      <4>5. spare2 = (Others(spare, c.id) \cup {c}) \ {q}
        BY <2>4, <2>5, <4>2, <4>4
      <4>6. ~ Known(spare, c.id)
        BY <1>2, <4>1, HasMembers DEF Known
      <4>7. QED
        BY <1>7, <2>4, <3>1, <4>5, <4>6 DEF Waits
    <3>4. Len(e) <= n \/ Len(e) > n
      BY <2>7
    <3>5. QED
      BY <3>2, <3>3, <3>4
  <2>10. QED
    BY <2>8, <2>9
<1>8. QED
  BY <1>6, <1>7

\* kad_bucket_remove_contact, said of sets.
LEMMA RemoveMembers ==
  ASSUME NEW b \in SoundBucket, NEW id,
         NEW live, NEW spare, NEW live2, NEW spare2,
         live = ToSet(b.contacts), spare = ToSet(b.replacements),
         live2 = ToSet(BucketRemove(b, id).contacts),
         spare2 = ToSet(BucketRemove(b, id).replacements)
  PROVE  Succeeded(id, live, spare, live2, spare2)
<1> DEFINE S == Spanned(b.lo, b.hi)
<1>1. SoundLists(b.lo, b.hi, b.contacts, b.replacements) /\ b \in BucketType
  BY SoundParts DEF SoundBucket
<1>2. PICK l \in Seq(S), s \in Seq(S) : l = b.contacts /\ s = b.replacements
  BY <1>1 DEF SoundLists
<1>3. Distinct(l) /\ Distinct(s) /\ \A x : ~ (Has(l, x) /\ Has(s, x))
  BY <1>1, <1>2 DEF SoundLists
<1> HIDE DEF S
<1>4. PICK lp \in Seq(S) : lp = Pop(l, id) /\ ToSet(lp) = Others(live, id)
  BY <1>2, <1>3, PopProperties, PopMembers DEF Others
<1>5. PICK sp \in Seq(S) : sp = Pop(s, id) /\ Distinct(sp) /\ ToSet(sp) = Others(spare, id)
  BY <1>2, <1>3, PopProperties, PopMembers DEF Others
<1>6. CASE Has(l, id) /\ sp # <<>>
  <2>1. PICK h : h = Tailmost(sp)
    OBVIOUS
  <2>2. BucketRemove(b, id).contacts = Insert(lp, h) /\ BucketRemove(b, id).replacements = AllButTail(sp)
    BY <1>1, <1>2, <1>4, <1>5, <1>6, <2>1 DEF BucketRemove, BucketType
  <2>3. h \in ToSet(sp) /\ ToSet(AllButTail(sp)) = ToSet(sp) \ {h}
    BY <1>5, <1>6, <2>1, TailMembers
  <2>4. h \in S
    BY <2>3 DEF ToSet
  <2>5. ~ Has(lp, h.id)
    <3>1. Has(s, h.id)
      BY <1>2, <1>5, <2>3, HasMembers DEF Others
    <3>2. \A p \in ToSet(l) : p.id # h.id
      BY <1>3, <3>1, HasMembers
    <3>3. \A p \in ToSet(lp) : p.id # h.id
      BY <1>2, <1>4, <3>2 DEF Others
    <3>4. QED
      BY <3>3, HasMembers
  <2>6. Insert(lp, h) = Append(lp, h)
    BY <2>5 DEF Insert
  <2>7. ToSet(Append(lp, h)) = ToSet(lp) \cup {h}
    BY <1>4, <2>4, AppendMembers
  <2>8. live2 = Others(live, id) \cup {h} /\ spare2 = Others(spare, id) \ {h}
    BY <1>4, <1>5, <2>2, <2>3, <2>6, <2>7
  <2>9. Known(live, id)
    BY <1>2, <1>6, HasMembers DEF Known
  <2>10. {h} \in {{}} \cup {{q} : q \in Others(spare, id)}
    BY <1>5, <2>3
  <2>11. QED
    BY <2>8, <2>9, <2>10 DEF Succeeded
<1>7. CASE ~ (Has(l, id) /\ sp # <<>>)
  <2>1. BucketRemove(b, id).contacts = lp /\ BucketRemove(b, id).replacements = sp
    BY <1>1, <1>2, <1>4, <1>5, <1>7 DEF BucketRemove, BucketType
  <2>2. live2 = Others(live, id) \cup {} /\ spare2 = Others(spare, id) \ {}
    BY <1>4, <1>5, <2>1
  <2>3. QED
    BY <2>2 DEF Succeeded
<1>8. QED
  BY <1>6, <1>7

\* kad_bucket_split, said of sets: live contacts stay live, in the half of
\* their identifier, and some replacements may become live.
LEMMA HalfMembers ==
  ASSUME NEW b \in SoundBucket, NEW lo \in Int, NEW hi \in Int,
         NEW h, h = Half(b, lo, hi)
  PROVE  /\ {p \in ToSet(b.contacts) : p.id \in lo..hi} \subseteq ToSet(h.contacts)
         /\ ToSet(h.contacts) \cup ToSet(h.replacements)
              = {p \in ToSet(b.contacts) \cup ToSet(b.replacements) : p.id \in lo..hi}
<1> DEFINE S == Spanned(b.lo, b.hi)
<1>1. SoundLists(b.lo, b.hi, b.contacts, b.replacements)
  BY SoundParts
<1>2. PICK l \in Seq(S), s \in Seq(S) : l = b.contacts /\ s = b.replacements
  BY <1>1 DEF SoundLists
<1>3. Distinct(l) /\ Distinct(s) /\ (\A x : ~ (Has(l, x) /\ Has(s, x))) /\ Len(l) <= Capacity
  BY <1>1, <1>2 DEF SoundLists
<1> HIDE DEF S
<1>4. PICK all \in Seq(S) : all = l \o s
  BY ConcatProperties
<1>5. /\ DOMAIN l = 1..Len(l) /\ Len(l) \in Nat
      /\ \A i \in DOMAIN l : i \in DOMAIN all /\ all[i] = l[i] /\ i <= Capacity
      /\ \A i \in DOMAIN s : Len(l) + i \in DOMAIN all /\ all[Len(l) + i] = s[i]
      /\ \A i \in DOMAIN all : i \in DOMAIN l \/ \E j \in DOMAIN s : i = Len(l) + j
  <2>1. /\ DOMAIN all = 1..(Len(l) + Len(s)) /\ DOMAIN l = 1..Len(l) /\ DOMAIN s = 1..Len(s)
        /\ Len(l) \in Nat /\ Len(s) \in Nat
        /\ \A i \in 1..(Len(l) + Len(s)) : all[i] = IF i <= Len(l) THEN l[i] ELSE s[i - Len(l)]
    BY <1>4, ConcatProperties
  <2>2. \A i \in DOMAIN l : i \in DOMAIN all /\ all[i] = l[i] /\ i <= Capacity
    BY <1>3, <2>1, Bounds
  <2>3. \A i \in DOMAIN s : Len(l) + i \in DOMAIN all /\ all[Len(l) + i] = s[i]
    BY <2>1
  <2>4. \A i \in DOMAIN all : i \in DOMAIN l \/ (i - Len(l) \in DOMAIN s /\ i = Len(l) + (i - Len(l)))
    BY <2>1
  <2>5. QED
    BY <2>1, <2>2, <2>3, <2>4
<1>6. ToSet(all) = ToSet(l) \cup ToSet(s)
  <2>1. \A x \in ToSet(all) : x \in ToSet(l) \cup ToSet(s)
    BY <1>5 DEF ToSet
  <2>2. \A x \in ToSet(l) \cup ToSet(s) : x \in ToSet(all)
    BY <1>5 DEF ToSet
  <2>3. QED
    BY <2>1, <2>2
<1> DEFINE R == lo..hi
<1> HIDE DEF R
<1>7. PICK mine \in Seq(S) : mine = Keep(all, R)
  <2>1. Distinct(all)
    BY <1>3, <1>4, ConcatDistinct
  <2>2. Keep(all, R) \in Seq({c \in S : c.id \in R}) /\ {c \in S : c.id \in R} \subseteq S
    BY <2>1, KeepProperties
  <2>3. QED
    BY <2>2
<1>8. /\ \A k \in DOMAIN mine : \E i \in DOMAIN all : all[i].id \in R /\ mine[k] = all[i]
      /\ \A i \in DOMAIN all : all[i].id \in R => \E k \in DOMAIN mine : k <= i /\ mine[k] = all[i]
  BY <1>7, KeepPlaces, SMTT(60)
<1>9. ToSet(mine) = {p \in ToSet(all) : p.id \in R}
  BY <1>8 DEF ToSet
<1>10. PICK n : n = IF Len(mine) <= Capacity THEN Len(mine) ELSE Capacity
  OBVIOUS
<1>11. n \in 0..Len(mine) /\ Len(mine) \in Nat /\ DOMAIN mine = 1..Len(mine)
       /\ \A k \in DOMAIN mine : k <= Capacity => k <= n
  BY <1>10, Bounds
<1>12. PICK hl, hs : hl = SubSeq(mine, 1, n) /\ hs = SubSeq(mine, n + 1, Len(mine))
  OBVIOUS
<1>13. h.contacts = hl /\ h.replacements = hs
  BY <1>2, <1>4, <1>7, <1>10, <1>12 DEF Half, R
<1>14. DOMAIN hl = 1..n /\ \A k \in 1..n : hl[k] = mine[k]
  BY <1>11, <1>12
<1>15. DOMAIN hs = 1..(Len(mine) - n) /\ \A k \in 1..(Len(mine) - n) : hs[k] = mine[n + k]
  BY <1>11, <1>12
<1>16. ToSet(hl) \cup ToSet(hs) = ToSet(mine)
  <2>1. \A k \in DOMAIN hl : k \in DOMAIN mine
    BY <1>11, <1>14
  <2>2. \A k \in DOMAIN hs : n + k \in DOMAIN mine
    BY <1>11, <1>15
  <2>3. \A k \in DOMAIN mine : k \in DOMAIN hl \/ (k - n \in DOMAIN hs /\ n + (k - n) = k)
    BY <1>11, <1>14, <1>15
  <2>4. \A x \in ToSet(hl) \cup ToSet(hs) : x \in ToSet(mine)
    BY <1>14, <1>15, <2>1, <2>2 DEF ToSet
  <2>5. \A x \in ToSet(mine) : x \in ToSet(hl) \cup ToSet(hs)
    BY <1>14, <1>15, <2>3 DEF ToSet
  <2>6. QED
    BY <2>4, <2>5
<1>17. ASSUME NEW i \in DOMAIN l, l[i].id \in R
       PROVE  l[i] \in ToSet(hl)
  <2>1. i \in DOMAIN all /\ all[i] = l[i] /\ i <= Capacity /\ i \in Nat
    BY <1>5
  <2>2. PICK k \in DOMAIN mine : k <= i /\ mine[k] = l[i]
    BY <1>8, <1>17, <2>1
  <2>3. k <= n /\ k \in 1..n
    BY <1>11, <2>1, <2>2, Bounds
  <2>4. QED
    BY <1>14, <2>2, <2>3 DEF ToSet
<1>18. {p \in ToSet(l) : p.id \in R} \subseteq ToSet(hl)
  BY <1>17 DEF ToSet
<1>19. QED
  BY <1>2, <1>6, <1>9, <1>13, <1>16, <1>18 DEF R

-----------------------------------------------------------------------------
(* The whole table                                                         *)
-----------------------------------------------------------------------------
Live(bs)  == UNION {ToSet(bs[i].contacts) : i \in DOMAIN bs}
Spare(bs) == UNION {ToSet(bs[i].replacements) : i \in DOMAIN bs}

\* The peers of the other buckets.
LiveBut(bs, i)  == UNION {ToSet(bs[j].contacts) : j \in DOMAIN bs \ {i}}
SpareBut(bs, i) == UNION {ToSet(bs[j].replacements) : j \in DOMAIN bs \ {i}}

\* Tiles further up hold larger identifiers.
LEMMA TilesAscend ==
  ASSUME NEW bs \in Seq(SoundBucket), Tiles(bs),
         NEW i \in DOMAIN bs, NEW j \in DOMAIN bs, i < j
  PROVE  bs[i].hi < bs[j].lo
<1> DEFINE T == {k \in (i + 1)..Len(bs) : ~ (bs[i].hi < bs[k].lo)}
<1>1. DOMAIN bs = 1..Len(bs) /\ Len(bs) \in Nat
  OBVIOUS
<1>2. \A k \in DOMAIN bs : bs[k].lo \in Int /\ bs[k].hi \in Int /\ bs[k].lo <= bs[k].hi
  BY <1>1, SoundParts DEF Id
<1>3. \A k \in 1..(Len(bs) - 1) : bs[k].hi + 1 = bs[k + 1].lo
  BY DEF Tiles
<1>4. SUFFICES ASSUME T # {} PROVE FALSE
  <2>1. j \in (i + 1)..Len(bs)
    BY <1>1
  <2>2. QED
    BY <1>4, <2>1
<1>5. T \in SUBSET Nat
  BY <1>1
<1>6. PICK m \in T : \A n \in T : m <= n
  BY <1>4, <1>5, LeastOf
<1>7. m \in (i + 1)..Len(bs) /\ ~ (bs[i].hi < bs[m].lo)
  BY <1>6
<1>8. m - 1 \in DOMAIN bs /\ m - 1 \in 1..(Len(bs) - 1) /\ (m - 1) + 1 = m /\ m - 1 >= i /\ m \in DOMAIN bs
  BY <1>1, <1>7
<1>9. bs[m - 1].hi + 1 = bs[m].lo
  BY <1>3, <1>8
<1>10. CASE m - 1 = i
  BY <1>2, <1>7, <1>8, <1>9, <1>10
<1>11. CASE m - 1 # i
  <2>1. m - 1 \in (i + 1)..Len(bs) /\ m - 1 \notin T
    BY <1>1, <1>6, <1>8, <1>11
  <2>2. bs[i].hi < bs[m - 1].lo
    BY <2>1
  <2>3. QED
    BY <1>2, <1>7, <1>8, <1>9, <2>2
<1>12. QED
  BY <1>10, <1>11

\* The other buckets hold no peer with an identifier in the range of this one.
LEMMA OthersAreElsewhere ==
  ASSUME NEW bs \in Seq(SoundBucket), Tiles(bs), NEW i \in DOMAIN bs
  PROVE  /\ Live(bs) = LiveBut(bs, i) \cup ToSet(bs[i].contacts)
         /\ Spare(bs) = SpareBut(bs, i) \cup ToSet(bs[i].replacements)
         /\ \A p \in LiveBut(bs, i) \cup SpareBut(bs, i) : ~ InRange(bs[i], p.id)
<1>1. Live(bs) = LiveBut(bs, i) \cup ToSet(bs[i].contacts)
  BY DEF Live, LiveBut
<1>2. Spare(bs) = SpareBut(bs, i) \cup ToSet(bs[i].replacements)
  BY DEF Spare, SpareBut
<1>3. ASSUME NEW p \in LiveBut(bs, i) \cup SpareBut(bs, i)
      PROVE  ~ InRange(bs[i], p.id)
  <2>1. PICK j \in DOMAIN bs \ {i} : p \in ToSet(bs[j].contacts) \cup ToSet(bs[j].replacements)
    BY DEF LiveBut, SpareBut
  <2>2. bs[j] \in SoundBucket /\ bs[i] \in SoundBucket
    OBVIOUS
  <2>3. p \in Spanned(bs[j].lo, bs[j].hi)
    BY <2>1, <2>2, BucketMembers
  <2>4. p.id \in Int /\ bs[j].lo <= p.id /\ p.id <= bs[j].hi
    BY <2>3 DEF Spanned, Contact, Id
  <2>5. /\ bs[i].lo \in Int /\ bs[i].hi \in Int
        /\ bs[j].lo \in Int /\ bs[j].hi \in Int
    BY <2>2, SoundParts DEF Id
  <2>6. i < j \/ j < i
    OBVIOUS
  <2>7. i < j => bs[i].hi < bs[j].lo
    BY <2>1, TilesAscend
  <2>8. j < i => bs[j].hi < bs[i].lo
    BY <2>1, TilesAscend
  <2>9. QED
    BY <2>4, <2>5, <2>6, <2>7, <2>8 DEF InRange
<1>4. QED
  BY <1>1, <1>2, <1>3

\* A bucket takes the place of another.
LEMMA ReplacedMembers ==
  ASSUME NEW bs \in Seq(SoundBucket), NEW i \in DOMAIN bs, NEW b
  PROVE  /\ Live([bs EXCEPT ![i] = b]) = LiveBut(bs, i) \cup ToSet(b.contacts)
         /\ Spare([bs EXCEPT ![i] = b]) = SpareBut(bs, i) \cup ToSet(b.replacements)
<1>1. PICK cs : cs = [bs EXCEPT ![i] = b]
  OBVIOUS
<1>2. /\ DOMAIN cs = DOMAIN bs /\ cs[i] = b
      /\ \A j \in DOMAIN bs \ {i} : cs[j] = bs[j]
  BY <1>1
<1>3. Live(cs) = LiveBut(bs, i) \cup ToSet(b.contacts)
  BY <1>2 DEF Live, LiveBut
<1>4. Spare(cs) = SpareBut(bs, i) \cup ToSet(b.replacements)
  BY <1>2 DEF Spare, SpareBut
<1>5. QED
  BY <1>1, <1>3, <1>4

\* Two buckets take the place of one, and the later ones move up.
LEMMA SplitPlaces ==
  ASSUME NEW bs \in Seq(SoundBucket), NEW ix \in DOMAIN bs, NEW b
  PROVE  /\ Live(SplitAt(bs, ix, b)) =
              LiveBut(bs, ix) \cup ToSet(LeftHalf(b).contacts) \cup ToSet(RightHalf(b).contacts)
         /\ Spare(SplitAt(bs, ix, b)) =
              SpareBut(bs, ix) \cup ToSet(LeftHalf(b).replacements)
                               \cup ToSet(RightHalf(b).replacements)
<1>1. PICK l, r : l = LeftHalf(b) /\ r = RightHalf(b)
  OBVIOUS
<1>2. PICK n \in Nat : n = Len(bs)
  OBVIOUS
<1>3. DOMAIN bs = 1..n /\ ix \in 1..n
  BY <1>2
<1>4. PICK cs : cs = SplitAt(bs, ix, b)
  OBVIOUS
<1>5. cs = [j \in 1..(n + 1) |-> IF j < ix THEN bs[j]
                                 ELSE IF j = ix THEN l
                                 ELSE IF j = ix + 1 THEN r
                                 ELSE bs[j - 1]]
  BY <1>1, <1>2, <1>4 DEF SplitAt
<1>6. DOMAIN cs = 1..(n + 1)
  BY <1>5
<1>7. /\ ix \in DOMAIN cs /\ cs[ix] = l
      /\ ix + 1 \in DOMAIN cs /\ cs[ix + 1] = r
  BY <1>3, <1>5
<1>8. ASSUME NEW j \in DOMAIN bs \ {ix}
      PROVE  \E k \in DOMAIN cs : cs[k] = bs[j]
  <2>1. CASE j < ix
    BY <1>3, <1>5, <1>6, <2>1
  <2>2. CASE j > ix
    <3>1. j + 1 \in 1..(n + 1) /\ ~ (j + 1 < ix) /\ j + 1 # ix /\ j + 1 # ix + 1 /\ (j + 1) - 1 = j
      BY <1>3, <2>2
    <3>2. cs[j + 1] = bs[j]
      BY <1>5, <3>1
    <3>3. QED
      BY <1>6, <3>1, <3>2
  <2>3. QED
    BY <1>3, <2>1, <2>2
<1>9. ASSUME NEW k \in DOMAIN cs
      PROVE  cs[k] = l \/ cs[k] = r \/ \E j \in DOMAIN bs \ {ix} : cs[k] = bs[j]
  <2>1. CASE k < ix
    BY <1>3, <1>5, <1>6, <2>1
  <2>2. CASE k > ix + 1
    <3>1. k - 1 \in DOMAIN bs \ {ix} /\ ~ (k < ix) /\ k # ix /\ k # ix + 1
      BY <1>3, <1>6, <2>2
    <3>2. cs[k] = bs[k - 1]
      BY <1>5, <1>6, <3>1
    <3>3. QED
      BY <3>1, <3>2
  <2>3. CASE k = ix \/ k = ix + 1
    BY <1>7, <2>3
  <2>4. QED
    BY <1>3, <1>6, <2>1, <2>2, <2>3
<1>10. Live(cs) = LiveBut(bs, ix) \cup ToSet(l.contacts) \cup ToSet(r.contacts)
  <2>1. \A x \in Live(cs) : x \in LiveBut(bs, ix) \cup ToSet(l.contacts) \cup ToSet(r.contacts)
    BY <1>9 DEF Live, LiveBut
  <2>2. \A x \in LiveBut(bs, ix) \cup ToSet(l.contacts) \cup ToSet(r.contacts) : x \in Live(cs)
    BY <1>7, <1>8 DEF Live, LiveBut
  <2>3. QED
    BY <2>1, <2>2
<1>11. Spare(cs) = SpareBut(bs, ix) \cup ToSet(l.replacements) \cup ToSet(r.replacements)
  <2>1. \A x \in Spare(cs) : x \in SpareBut(bs, ix) \cup ToSet(l.replacements) \cup ToSet(r.replacements)
    BY <1>9 DEF Spare, SpareBut
  <2>2. \A x \in SpareBut(bs, ix) \cup ToSet(l.replacements) \cup ToSet(r.replacements) : x \in Spare(cs)
    BY <1>7, <1>8 DEF Spare, SpareBut
  <2>3. QED
    BY <2>1, <2>2
<1>12. QED
  BY <1>1, <1>4, <1>10, <1>11

\* What kad_bucket_add_contact does to a bucket is what it does to the table.
LEMMA AddLearns ==
  ASSUME NEW bs \in Seq(SoundBucket), Tiles(bs), NEW i \in DOMAIN bs,
         NEW c \in Spanned(bs[i].lo, bs[i].hi),
         NEW bs2, bs2 = [bs EXCEPT ![i] = BucketAdd(bs[i], c)]
  PROVE  IF TakesContact(bs[i], c)
         THEN \/ Refreshed(c, Live(bs), Spare(bs), Live(bs2), Spare(bs2))
              \/ Joined(c, Live(bs), Spare(bs), Live(bs2), Spare(bs2))
         ELSE \/ Waits(c, Live(bs), Spare(bs), Live(bs2), Spare(bs2))
              \/ Ignored(c, Live(bs), Spare(bs), Live(bs2), Spare(bs2))
<1>1. PICK b \in SoundBucket : b = bs[i]
  OBVIOUS
<1>2. PICK l, s, l2, s2 : /\ l = ToSet(b.contacts) /\ s = ToSet(b.replacements)
                          /\ l2 = ToSet(BucketAdd(b, c).contacts)
                          /\ s2 = ToSet(BucketAdd(b, c).replacements)
  OBVIOUS
<1>3. PICK L, S : L = LiveBut(bs, i) /\ S = SpareBut(bs, i)
  OBVIOUS
<1>4. PICK live, spare, live2, spare2 : /\ live = Live(bs) /\ spare = Spare(bs)
                                        /\ live2 = Live(bs2) /\ spare2 = Spare(bs2)
  OBVIOUS
<1>5. /\ live = L \cup l /\ spare = S \cup s
      /\ \A p \in L \cup S : ~ InRange(b, p.id)
      /\ \A p \in L \cup S : p.id # c.id
  <2>1. /\ live = L \cup l /\ spare = S \cup s
        /\ \A p \in L \cup S : ~ InRange(b, p.id)
    BY <1>1, <1>2, <1>3, <1>4, OthersAreElsewhere
  <2>2. InRange(b, c.id)
    BY <1>1 DEF InRange, Spanned
  <2>3. QED
    BY <2>1, <2>2
<1>6. live2 = L \cup l2 /\ spare2 = S \cup s2
  BY <1>1, <1>2, <1>3, <1>4, ReplacedMembers
<1>7. IF TakesContact(b, c)
      THEN Refreshed(c, l, s, l2, s2) \/ Joined(c, l, s, l2, s2)
      ELSE Waits(c, l, s, l2, s2) \/ Ignored(c, l, s, l2, s2)
  BY <1>1, <1>2, AddMembers
<1>8. /\ Known(live, c.id) <=> Known(l, c.id)
      /\ Known(spare, c.id) <=> Known(s, c.id)
      /\ Known(live \cup spare, c.id) <=> Known(l \cup s, c.id)
      /\ Others(live, c.id) = L \cup Others(l, c.id)
      /\ Others(spare, c.id) = S \cup Others(s, c.id)
  BY <1>5 DEF Known, Others
<1>9. Refreshed(c, l, s, l2, s2) => Refreshed(c, live, spare, live2, spare2)
  BY <1>5, <1>6, <1>8 DEF Refreshed
<1>10. Joined(c, l, s, l2, s2) => Joined(c, live, spare, live2, spare2)
  BY <1>5, <1>6, <1>8 DEF Joined
<1>11. Ignored(c, l, s, l2, s2) => Ignored(c, live, spare, live2, spare2)
  BY <1>5, <1>6, <1>8 DEF Ignored
<1>12. ASSUME Waits(c, l, s, l2, s2)
       PROVE  Waits(c, live, spare, live2, spare2)
  <2>1. PICK dropped \in {{}} \cup {{q} : q \in Others(s, c.id)} :
          /\ Known(s, c.id) => dropped = {}
          /\ s2 = (Others(s, c.id) \cup {c}) \ dropped
    BY <1>12 DEF Waits
  <2>2. dropped \in {{}} \cup {{q} : q \in Others(spare, c.id)}
    BY <1>8
  <2>3. S \cap dropped = {}
    <3>1. SUFFICES ASSUME NEW q \in Others(s, c.id) PROVE q \notin S
      OBVIOUS
    <3>2. InRange(b, q.id)
      BY <1>2, BucketMembers DEF Others, Spanned, InRange
    <3>3. QED
      BY <1>5, <3>2
  <2>4. spare2 = (Others(spare, c.id) \cup {c}) \ dropped
    BY <1>6, <1>8, <2>1, <2>3
  <2>5. QED
    BY <1>5, <1>6, <1>8, <1>12, <2>1, <2>2, <2>4 DEF Waits
<1>13. QED
  BY <1>1, <1>4, <1>7, <1>9, <1>10, <1>11, <1>12

\* kad_table_split_bucket: nobody is forgotten and no live peer is demoted.
LEMMA SplitPromotes ==
  ASSUME NEW bs \in Seq(SoundBucket), Tiles(bs), NEW ix \in DOMAIN bs,
         NEW b \in SoundBucket, b.lo = bs[ix].lo, b.hi = bs[ix].hi, b.lo < b.hi,
         NEW full, full = [bs EXCEPT ![ix] = b],
         NEW two, two = SplitAt(bs, ix, b)
  PROVE  Promotes(Live(full), Spare(full), Live(two), Spare(two))
<1>1. PICK l, r : l = LeftHalf(b) /\ r = RightHalf(b)
  OBVIOUS
<1>2. /\ MidL(b) \in Id /\ MidL(b) + 1 \in Id
      /\ b.lo <= MidL(b) /\ MidL(b) + 1 <= b.hi
      /\ IsBlock(b.lo, MidL(b)) /\ IsBlock(MidL(b) + 1, b.hi)
  BY CutIsInside
<1>3. PICK m \in Int : m = MidL(b) /\ m + 1 \in Int
  BY <1>2 DEF Id
<1>4. b.lo \in Int /\ b.hi \in Int
  BY SoundParts DEF Id
<1>5. l \in SoundBucket /\ r \in SoundBucket
  BY <1>1, <1>2, SoundParts, HalfIsSound DEF LeftHalf, RightHalf
<1>6. PICK bc, bs1, lc, ls, rc, rs :
        /\ bc = ToSet(b.contacts) /\ bs1 = ToSet(b.replacements)
        /\ lc = ToSet(l.contacts) /\ ls = ToSet(l.replacements)
        /\ rc = ToSet(r.contacts) /\ rs = ToSet(r.replacements)
  OBVIOUS
<1>7. /\ {p \in bc : p.id \in b.lo..m} \subseteq lc
      /\ lc \cup ls = {p \in bc \cup bs1 : p.id \in b.lo..m}
  BY <1>1, <1>3, <1>4, <1>6, HalfMembers DEF LeftHalf
<1>8. /\ {p \in bc : p.id \in (m + 1)..b.hi} \subseteq rc
      /\ rc \cup rs = {p \in bc \cup bs1 : p.id \in (m + 1)..b.hi}
  BY <1>1, <1>3, <1>4, <1>6, HalfMembers DEF RightHalf
<1>9. \A p \in bc \cup bs1 : /\ p \in Spanned(b.lo, b.hi)
                             /\ p.id \in b.lo..m \/ p.id \in (m + 1)..b.hi
                             /\ ~ (p.id \in b.lo..m /\ p.id \in (m + 1)..b.hi)
  <2>1. \A p \in bc \cup bs1 : p \in Spanned(b.lo, b.hi)
    BY <1>6, BucketMembers
  <2>2. \A p \in bc \cup bs1 : p.id \in Int /\ b.lo <= p.id /\ p.id <= b.hi
    BY <2>1 DEF Spanned, Contact, Id
  <2>3. QED
    BY <1>4, <2>1, <2>2
<1>10. bc \cap bs1 = {} /\ lc \cap ls = {} /\ rc \cap rs = {}
  BY <1>5, <1>6, BucketMembers
<1>11. PICK promoted : promoted = (lc \cup rc) \ bc
  OBVIOUS
<1>12. promoted \subseteq bs1 /\ lc \cup rc = bc \cup promoted
  BY <1>7, <1>8, <1>9, <1>11
<1>13. ls \cup rs = bs1 \ promoted
  <2>1. \A x \in ls \cup rs : x \in bs1 /\ x \notin promoted
    BY <1>7, <1>8, <1>9, <1>10, <1>11
  <2>2. \A x \in bs1 \ promoted : x \in ls \cup rs
    BY <1>7, <1>8, <1>9, <1>10, <1>11
  <2>3. QED
    BY <2>1, <2>2
<1>14. PICK L, S : L = LiveBut(bs, ix) /\ S = SpareBut(bs, ix)
  OBVIOUS
<1>15. /\ Live(full) = L \cup bc /\ Spare(full) = S \cup bs1
  BY <1>6, <1>14, ReplacedMembers
<1>16. Live(two) = L \cup lc \cup rc /\ Spare(two) = S \cup ls \cup rs
  BY <1>1, <1>6, <1>14, SplitPlaces
<1>17. S \cap promoted = {}
  <2>1. \A p \in promoted : InRange(bs[ix], p.id)
    BY <1>9, <1>12 DEF Spanned, InRange
  <2>2. \A p \in S : ~ InRange(bs[ix], p.id)
    BY <1>14, OthersAreElsewhere
  <2>3. QED
    BY <2>1, <2>2
<1>18. Live(two) = Live(full) \cup promoted
  BY <1>12, <1>15, <1>16
<1>19. Spare(two) = Spare(full) \ promoted
  BY <1>13, <1>15, <1>16, <1>17
<1>20. promoted \in SUBSET Spare(full)
  BY <1>12, <1>15
<1>21. QED
  BY <1>18, <1>19, <1>20 DEF Promotes

\* What kad_bucket_remove_contact does to a bucket is what it does to the table.
LEMMA RemoveForgets ==
  ASSUME NEW bs \in Seq(SoundBucket), Tiles(bs), NEW i \in DOMAIN bs,
         NEW id \in Id, bs[i].lo <= id, id <= bs[i].hi,
         NEW bs2, bs2 = [bs EXCEPT ![i] = BucketRemove(bs[i], id)]
  PROVE  Succeeded(id, Live(bs), Spare(bs), Live(bs2), Spare(bs2))
<1>1. PICK b \in SoundBucket : b = bs[i]
  OBVIOUS
<1>2. PICK l, s, l2, s2 : /\ l = ToSet(b.contacts) /\ s = ToSet(b.replacements)
                          /\ l2 = ToSet(BucketRemove(b, id).contacts)
                          /\ s2 = ToSet(BucketRemove(b, id).replacements)
  OBVIOUS
<1>3. PICK L, S : L = LiveBut(bs, i) /\ S = SpareBut(bs, i)
  OBVIOUS
<1>4. /\ Live(bs) = L \cup l /\ Spare(bs) = S \cup s
      /\ \A p \in L \cup S : ~ InRange(b, p.id)
  BY <1>1, <1>2, <1>3, OthersAreElsewhere
<1>5. Live(bs2) = L \cup l2 /\ Spare(bs2) = S \cup s2
  BY <1>1, <1>2, <1>3, ReplacedMembers
<1>6. PICK heir \in {{}} \cup {{q} : q \in Others(s, id)} :
        /\ heir # {} => Known(l, id)
        /\ l2 = Others(l, id) \cup heir
        /\ s2 = Others(s, id) \ heir
  <2>1. Succeeded(id, l, s, l2, s2)
    BY <1>2, RemoveMembers
  <2>2. QED
    BY <2>1 DEF Succeeded
<1>7. \A p \in s : p \notin S
  <2>1. \A p \in s : InRange(b, p.id)
    BY <1>2, BucketMembers DEF Spanned, InRange
  <2>2. QED
    BY <1>4, <2>1
<1>8. S \cap heir = {}
  BY <1>7 DEF Others
<1>9. \A p \in L \cup S : p.id # id
  BY <1>1, <1>4 DEF InRange
<1>10. Others(L \cup l, id) = L \cup Others(l, id) /\ Others(S \cup s, id) = S \cup Others(s, id)
  BY <1>9 DEF Others
<1>11. heir \in {{}} \cup {{q} : q \in Others(Spare(bs), id)}
  BY <1>4, <1>10
<1>12. heir # {} => Known(Live(bs), id)
  BY <1>4, <1>6 DEF Known
<1>13. QED
  BY <1>4, <1>5, <1>6, <1>8, <1>10, <1>11, <1>12 DEF Succeeded

-----------------------------------------------------------------------------
(* The refinement                                                          *)
-----------------------------------------------------------------------------
\* The table's names for the live and the spare peers.
LEMMA PeersOfTable ==
  /\ LivePeers = Live(buckets) /\ LivePeers' = Live(buckets')
  /\ SparePeers = Spare(buckets) /\ SparePeers' = Spare(buckets')
BY DEF LivePeers, SparePeers, Live, Spare

\* An empty table knows nobody.
LEMMA InitIsPeers == Init => Peers!Init
<1> SUFFICES ASSUME Init PROVE Peers!Init
  OBVIOUS
<1>1. PICK b : b = NewBucket(0, MaxId)
  OBVIOUS
<1>2. buckets = <<b>> /\ DOMAIN buckets = {1} /\ buckets[1] = b
  BY <1>1 DEF Init
<1>3. b.contacts = <<>> /\ b.replacements = <<>> /\ ToSet(<<>>) = {}
  BY <1>1 DEF NewBucket, ToSet
<1>4. LivePeers = {} /\ SparePeers = {}
  BY <1>2, <1>3 DEF LivePeers, SparePeers
<1>5. QED
  BY <1>4 DEF Peers!Init

\* An addition to a bucket that does not split.
LEMMA AdditionIsPeers ==
  ASSUME NEW c \in Contact,
         \/ Refreshed(c, LivePeers, SparePeers, LivePeers', SparePeers')
         \/ Joined(c, LivePeers, SparePeers, LivePeers', SparePeers')
         \/ Waits(c, LivePeers, SparePeers, LivePeers', SparePeers')
         \/ Ignored(c, LivePeers, SparePeers, LivePeers', SparePeers')
  PROVE  \/ Peers!Refresh(c) \/ Peers!Discover(c)
         \/ UNCHANGED <<LivePeers, SparePeers>>
<1>1. CASE Refreshed(c, LivePeers, SparePeers, LivePeers', SparePeers')
  BY <1>1 DEF Refreshed, Peers!Refresh, Peers!Others, Others, Known
<1>2. CASE Joined(c, LivePeers, SparePeers, LivePeers', SparePeers')
  <2>1. /\ \A q \in LivePeers \cup SparePeers : q.id # c.id
        /\ LivePeers' = LivePeers \cup {c} /\ SparePeers' = SparePeers
    BY <1>2 DEF Joined, Known
  <2>2. Peers!Others(SparePeers, c.id) = SparePeers /\ c \notin SparePeers
    BY <2>1 DEF Peers!Others
  <2>3. {c} \in SUBSET (Peers!Others(SparePeers, c.id) \cup {c}) /\ {c} \cap {} = {}
    OBVIOUS
  <2>4. SparePeers' = (Peers!Others(SparePeers, c.id) \cup {c}) \ ({c} \cup {})
    BY <2>1, <2>2
  <2>5. QED
    BY <2>1, <2>3, <2>4 DEF Peers!Discover
<1>3. CASE Waits(c, LivePeers, SparePeers, LivePeers', SparePeers')
  <2>1. PICK dropped \in {{}} \cup {{q} : q \in Others(SparePeers, c.id)} :
          SparePeers' = (Others(SparePeers, c.id) \cup {c}) \ dropped
    BY <1>3 DEF Waits
  <2>2. LivePeers' = LivePeers \cup {} /\ \A q \in LivePeers : q.id # c.id
    BY <1>3 DEF Waits, Known
  <2>3. Peers!Others(SparePeers, c.id) = Others(SparePeers, c.id)
    BY DEF Others, Peers!Others
  <2>4. SparePeers' = (Peers!Others(SparePeers, c.id) \cup {c}) \ ({} \cup dropped)
    BY <2>1, <2>3
  <2>5. QED
    BY <2>1, <2>2, <2>3, <2>4 DEF Peers!Discover
<1>4. CASE Ignored(c, LivePeers, SparePeers, LivePeers', SparePeers')
  BY <1>4 DEF Ignored
<1>5. QED
  BY <1>1, <1>2, <1>3, <1>4

\* An addition that splits no bucket refreshes a peer, discovers one, or ignores it.
LEMMA AddInPlaceIsPeers ==
  ASSUME IInv, NEW c \in Contact, AddInPlace(c) \/ AddPinging(c)
  PROVE  \/ Peers!Refresh(c) \/ Peers!Discover(c)
         \/ UNCHANGED <<LivePeers, SparePeers>>
<1>1. PICK ix : ix = BucketIndex(c.id)
  OBVIOUS
<1>2. ix \in DOMAIN buckets /\ c \in Spanned(buckets[ix].lo, buckets[ix].hi)
  BY <1>1, FoundBucket DEF Spanned, Contact
<1>3. buckets' = [buckets EXCEPT ![ix] = BucketAdd(buckets[ix], c)]
  BY <1>1 DEF AddInPlace, AddPinging
<1>4. PICK bs2 : bs2 = buckets'
  OBVIOUS
<1>5. \/ Refreshed(c, Live(buckets), Spare(buckets), Live(bs2), Spare(bs2))
      \/ Joined(c, Live(buckets), Spare(buckets), Live(bs2), Spare(bs2))
      \/ Waits(c, Live(buckets), Spare(buckets), Live(bs2), Spare(bs2))
      \/ Ignored(c, Live(buckets), Spare(buckets), Live(bs2), Spare(bs2))
  BY <1>2, <1>3, <1>4, AddLearns DEF IInv
<1>6. QED
  BY <1>4, <1>5, PeersOfTable, AdditionIsPeers

\* The two additions of kad_table_add_contact with the split between them.
LEMMA AddSplittingIsPeers ==
  ASSUME IInv, NEW c \in Contact, AddSplitting(c)
  PROVE  Peers!Discover(c) \/ UNCHANGED <<LivePeers, SparePeers>>
<1>1. PICK ix : ix = BucketIndex(c.id)
  OBVIOUS
<1>2. /\ ix \in DOMAIN buckets /\ buckets[ix] \in SoundBucket
      /\ c \in Spanned(buckets[ix].lo, buckets[ix].hi) /\ c.id \in Id
  BY <1>1, FoundBucket DEF Spanned, Contact
<1>3. PICK b : b = BucketAdd(buckets[ix], c)
  OBVIOUS
<1>4. PICK two : two = SplitAt(buckets, ix, b)
  OBVIOUS
<1>5. PICK jx : jx = BucketIndexIn(two, c.id)
  OBVIOUS
<1>6. /\ ~ TakesContact(buckets[ix], c)
      /\ buckets' = [two EXCEPT ![jx] = BucketAdd(two[jx], c)]
  BY <1>1, <1>3, <1>4, <1>5 DEF AddSplitting
<1>7. b \in SoundBucket /\ b.lo = buckets[ix].lo /\ b.hi = buckets[ix].hi /\ b.lo < b.hi
  BY <1>2, <1>3, <1>6, AddKeepsSound, FullSpansTwo
<1>8. two \in Seq(SoundBucket) /\ Tiles(two)
  BY <1>2, <1>4, <1>7, SplitKeepsTiles DEF IInv
<1>9. jx \in DOMAIN two /\ c \in Spanned(two[jx].lo, two[jx].hi)
  BY <1>2, <1>5, <1>8, EveryIdHasABucket DEF InRange, Spanned
<1>10. PICK full : full = [buckets EXCEPT ![ix] = b]
  OBVIOUS
<1>11. PICK l0, s0, l1, s1, l2, s2, l3, s3 :
         /\ l0 = LivePeers /\ s0 = SparePeers
         /\ l1 = Live(full) /\ s1 = Spare(full)
         /\ l2 = Live(two) /\ s2 = Spare(two)
         /\ l3 = LivePeers' /\ s3 = SparePeers'
  OBVIOUS
<1>12. Waits(c, l0, s0, l1, s1) \/ Ignored(c, l0, s0, l1, s1)
  <2>1. \/ Waits(c, Live(buckets), Spare(buckets), Live(full), Spare(full))
        \/ Ignored(c, Live(buckets), Spare(buckets), Live(full), Spare(full))
    BY <1>2, <1>3, <1>6, <1>10, AddLearns DEF IInv
  <2>2. QED
    BY <1>11, <2>1, PeersOfTable
<1>13. PICK promoted \in SUBSET s1 : l2 = l1 \cup promoted /\ s2 = s1 \ promoted
  <2>1. Promotes(Live(full), Spare(full), Live(two), Spare(two))
    BY <1>2, <1>4, <1>7, <1>10, SplitPromotes DEF IInv
  <2>2. QED
    BY <1>11, <2>1 DEF Promotes
<1>14. \/ Refreshed(c, l2, s2, l3, s3) \/ Joined(c, l2, s2, l3, s3)
       \/ Waits(c, l2, s2, l3, s3) \/ Ignored(c, l2, s2, l3, s3)
  <2>1. PICK bs2 : bs2 = buckets'
    OBVIOUS
  <2>2. \/ Refreshed(c, Live(two), Spare(two), Live(bs2), Spare(bs2))
        \/ Joined(c, Live(two), Spare(two), Live(bs2), Spare(bs2))
        \/ Waits(c, Live(two), Spare(two), Live(bs2), Spare(bs2))
        \/ Ignored(c, Live(two), Spare(two), Live(bs2), Spare(bs2))
    BY <1>6, <1>8, <1>9, <2>1, AddLearns
  <2>3. QED
    BY <1>11, <2>1, <2>2, PeersOfTable
<1>15. CASE Waits(c, l0, s0, l1, s1)
  <2>1. PICK dropped \in {{}} \cup {{q} : q \in Others(s0, c.id)} :
          s1 = (Others(s0, c.id) \cup {c}) \ dropped
    BY <1>15 DEF Waits
  <2>2. l1 = l0 /\ (\A q \in l0 : q.id # c.id) /\ ReplacementFactor * Capacity > 1
    BY <1>15 DEF Waits, Known
  <2>3. c \in s1 /\ (\A q \in s1 : q.id = c.id => q = c) /\ s1 \cap dropped = {}
    BY <2>1 DEF Others
  <2>4. ~ Ignored(c, l2, s2, l3, s3)
    BY <2>2 DEF Ignored
  <2>5. ~ Joined(c, l2, s2, l3, s3)
    BY <1>13, <2>3 DEF Joined, Known
  <2>6. ASSUME Refreshed(c, l2, s2, l3, s3) PROVE l3 = l2 /\ s3 = s2
    <3>1. c \in l2 /\ \A q \in l2 : q.id = c.id => q = c
      BY <1>13, <2>2, <2>3, <2>6 DEF Refreshed, Known
    <3>2. QED
      BY <2>6, <3>1 DEF Refreshed, Others
  <2>7. ASSUME Waits(c, l2, s2, l3, s3) PROVE l3 = l2 /\ s3 = s2
    <3>1. c \in s2 /\ \A q \in s2 : q.id = c.id => q = c
      BY <1>13, <2>3, <2>7 DEF Waits, Known
    <3>2. Known(s2, c.id)
      BY <3>1 DEF Known
    <3>3. s3 = (Others(s2, c.id) \cup {c}) \ {} /\ l3 = l2
      BY <2>7, <3>2 DEF Waits
    <3>4. QED
      BY <3>1, <3>3 DEF Others
  <2>8. l3 = l0 \cup promoted /\ s3 = s1 \ promoted
    BY <1>13, <1>14, <2>2, <2>4, <2>5, <2>6, <2>7
  <2>9. Peers!Others(s0, c.id) = Others(s0, c.id)
    BY DEF Others, Peers!Others
  <2>10. /\ promoted \in SUBSET (Others(s0, c.id) \cup {c}) /\ promoted \cap dropped = {}
         /\ s3 = (Others(s0, c.id) \cup {c}) \ (promoted \cup dropped)
    BY <1>13, <2>1, <2>3, <2>8
  <2>11. Peers!Discover(c)
    BY <1>11, <2>1, <2>2, <2>8, <2>9, <2>10 DEF Peers!Discover
  <2>12. QED
    BY <2>11
<1>16. CASE Ignored(c, l0, s0, l1, s1)
  <2>1. /\ ReplacementFactor * Capacity = 1 /\ (\A q \in l0 : q.id # c.id)
        /\ l1 = l0 /\ s1 = s0
    BY <1>16 DEF Ignored, Known
  <2>2. s0 = {}
    <3>1. \A i \in DOMAIN buckets : ToSet(buckets[i].replacements) = {}
      BY <2>1, Bounds, BucketMembers DEF IInv
    <3>2. QED
      BY <1>11, <3>1 DEF SparePeers
  <2>3. l2 = l0 /\ s2 = {}
    BY <1>13, <2>1, <2>2
  <2>4. ~ Refreshed(c, l2, s2, l3, s3) /\ ~ Waits(c, l2, s2, l3, s3)
    <3>1. ~ (ReplacementFactor * Capacity > 1)
      BY <2>1
    <3>2. QED
      BY <2>1, <2>3, <3>1 DEF Refreshed, Waits, Known
  <2>5. \/ Joined(c, LivePeers, SparePeers, LivePeers', SparePeers')
        \/ Ignored(c, LivePeers, SparePeers, LivePeers', SparePeers')
    BY <1>11, <1>14, <2>2, <2>3, <2>4
  <2>6. ~ Peers!Refresh(c)
    BY <1>11, <2>1 DEF Peers!Refresh
  <2>7. QED
    BY <2>5, <2>6, AdditionIsPeers
<1>17. QED
  BY <1>12, <1>15, <1>16

\* A removal forgets the peer, and a spare one may succeed it.
LEMMA RemoveContactIsPeers ==
  ASSUME IInv, NEW id \in Id, RemoveContact(id)
  PROVE  Peers!Forget(id)
<1>1. PICK ix : ix = BucketIndex(id)
  OBVIOUS
<1>2. /\ ix \in DOMAIN buckets /\ buckets[ix].lo <= id /\ id <= buckets[ix].hi
  BY <1>1, FoundBucket
<1>3. PICK bs2 : bs2 = buckets' /\ bs2 = [buckets EXCEPT ![ix] = BucketRemove(buckets[ix], id)]
  BY <1>1 DEF RemoveContact
<1>4. PICK heir \in {{}} \cup {{q} : q \in Others(Spare(buckets), id)} :
        /\ heir # {} => Known(Live(buckets), id)
        /\ Live(bs2) = Others(Live(buckets), id) \cup heir
        /\ Spare(bs2) = Others(Spare(buckets), id) \ heir
  <2>1. Succeeded(id, Live(buckets), Spare(buckets), Live(bs2), Spare(bs2))
    BY <1>2, <1>3, RemoveForgets DEF IInv
  <2>2. QED
    BY <2>1 DEF Succeeded
<1>5. /\ Peers!Others(LivePeers, id) = Others(Live(buckets), id)
      /\ Peers!Others(SparePeers, id) = Others(Spare(buckets), id)
  BY PeersOfTable DEF Others, Peers!Others
<1>6. /\ LivePeers' = Peers!Others(LivePeers, id) \cup heir
      /\ SparePeers' = Peers!Others(SparePeers, id) \ heir
  BY <1>3, <1>4, <1>5, PeersOfTable
<1>7. heir # {} => \E q \in LivePeers : q.id = id
  BY <1>4, PeersOfTable DEF Known
<1>8. heir \in {{}} \cup {{q} : q \in Peers!Others(SparePeers, id)}
  BY <1>4, <1>5
<1>9. QED
  BY <1>6, <1>7, <1>8 DEF Peers!Forget

\* Every step of the table is a step of PeerSet, or one that it does not see.
LEMMA StepIsPeers == IInv /\ [Next]_vars => [Peers!Next]_<<LivePeers, SparePeers>>
<1> SUFFICES ASSUME IInv, [Next]_vars PROVE [Peers!Next]_<<LivePeers, SparePeers>>
  OBVIOUS
<1>1. ASSUME NEW c \in Contact, AddContact(c)
      PROVE  [Peers!Next]_<<LivePeers, SparePeers>>
  <2>1. c \in Peers!Peer
    BY DEF Contact, Peers!Peer
  <2>2. \/ Peers!Refresh(c) \/ Peers!Discover(c)
        \/ UNCHANGED <<LivePeers, SparePeers>>
    BY <1>1, AddInPlaceIsPeers, AddSplittingIsPeers DEF AddContact
  <2>3. QED
    BY <2>1, <2>2 DEF Peers!Next
<1>2. ASSUME NEW id \in Id, RemoveContact(id)
      PROVE  [Peers!Next]_<<LivePeers, SparePeers>>
  BY <1>2, RemoveContactIsPeers DEF Peers!Next
<1>3. CASE UNCHANGED buckets
  BY <1>3, PeersOfTable DEF Live, Spare
<1>4. QED
  BY <1>1, <1>2, <1>3 DEF Next, PingAnswered, PingFailed, vars

\* The routing table keeps the promises of PeerSet: what it learns it records,
\* no live peer is evicted or demoted for another, not even by a split, at most
\* one spare peer is forgotten for a new one, and a removal concerns the named
\* peer and at most one successor (kad_table_add_contact, kad_table_remove_contact).
THEOREM ImplementsPeerSet == Spec => KeepsPeerSet
<1>1. QED
  BY InitIsPeers, StepIsPeers, TableIsSound, PTL DEF KeepsPeerSet, Peers!Spec, Spec

-----------------------------------------------------------------------------
(* A split is the loop of kad_bucket_split                                 *)
-----------------------------------------------------------------------------
\* Two members of a set of positions with as many members up to the one as up to
\* the other are the same.
LEMMA CountedOffOnce ==
  ASSUME NEW n \in Nat, NEW A \in SUBSET (1..n)
  PROVE  \A i, j \in A :
           Cardinality({m \in A : m <= i}) = Cardinality({m \in A : m <= j}) => i = j
<1>1. IsFiniteSet(A) /\ \A m \in A : m \in Nat
  <2>1. IsFiniteSet(1..n) /\ \A m \in A : m \in Nat
    BY FS_Interval
  <2>2. QED
    BY <2>1, FS_Subset
<1>2. ASSUME NEW x \in A, NEW y \in A, x < y
      PROVE  Cardinality({m \in A : m <= x}) # Cardinality({m \in A : m <= y})
  <2> DEFINE U == {m \in A : m <= x}
             V == {m \in A : m <= y}
  <2>1. ~ (y <= x) /\ y <= y /\ \A m \in A : m <= x => m <= y
    BY <1>1, <1>2
  <2>2. U \in SUBSET A /\ V \in SUBSET A /\ y \notin U /\ U \cup {y} \in SUBSET V
    BY <2>1, Zenon
  <2> HIDE DEF U, V
  <2>3. IsFiniteSet(U) /\ IsFiniteSet(V) /\ Cardinality(U) \in Nat /\ Cardinality(V) \in Nat
    BY <1>1, <2>2, FS_Subset, FS_CardinalityType
  <2>4. Cardinality(U \cup {y}) = Cardinality(U) + 1
    BY <2>2, <2>3, FS_AddElement
  <2>5. Cardinality(U \cup {y}) <= Cardinality(V)
    BY <2>2, <2>3, FS_Subset
  <2>6. QED
    BY <2>3, <2>4, <2>5 DEF U, V
<1>3. ASSUME NEW i \in A, NEW j \in A,
             Cardinality({m \in A : m <= i}) = Cardinality({m \in A : m <= j})
      PROVE  i = j
  <2>1. ~ (i < j) /\ ~ (j < i) /\ i \in Nat /\ j \in Nat
    BY <1>1, <1>2, <1>3
  <2>2. QED
    BY <2>1
<1>4. QED
  BY <1>3

\* Keep looks at one contact after the other.
LEMMA KeepAppended ==
  ASSUME NEW S, NEW d \in Seq(S), NEW c \in S, NEW R
  PROVE  Keep(Append(d, c), R) = IF c.id \in R THEN Append(Keep(d, R), c) ELSE Keep(d, R)
<1>1. PICK d2 \in Seq(S) : d2 = Append(d, c)
  <2>1. Append(d, c) \in Seq(S)
    OBVIOUS
  <2>2. QED
    BY <2>1
<1>2. PICK n \in Nat : /\ n = Len(d) /\ DOMAIN d = 1..n /\ DOMAIN d2 = 1..(n + 1)
                       /\ d2[n + 1] = c /\ \A i \in 1..n : d2[i] = d[i]
  BY <1>1
<1>3. PICK A : A = {i \in DOMAIN d : d[i].id \in R}
  OBVIOUS
<1>4. PICK B : B = {i \in DOMAIN d2 : d2[i].id \in R}
  OBVIOUS
<1>5. A \in SUBSET (1..n) /\ B = IF c.id \in R THEN A \cup {n + 1} ELSE A
  <2>1. A \in SUBSET (1..n)
    BY <1>2, <1>3
  <2>2. \A i : i \in 1..(n + 1) <=> i \in 1..n \/ i = n + 1
    OBVIOUS
  <2>3. QED
    BY <1>2, <1>3, <1>4, <2>1, <2>2
<1>6. PICK N \in Nat : N = Cardinality(A) /\ IsFiniteSet(A)
  <2>1. IsFiniteSet(1..n)
    BY FS_Interval
  <2>2. QED
    BY <1>5, <2>1, FS_Subset, FS_CardinalityType
<1>6a. \A i, j \in A :
          Cardinality({m \in A : m <= i}) = Cardinality({m \in A : m <= j}) => i = j
  BY <1>5, CountedOffOnce
<1> DEFINE upA(i) == Cardinality({j \in A : j <= i})
           upB(i) == Cardinality({j \in B : j <= i})
           nthA(k) == CHOOSE i \in A : upA(i) = k
           nthB(k) == CHOOSE i \in B : upB(i) = k
<1>7. PICK e, e2 : e = Keep(d, R) /\ e2 = Keep(d2, R)
  OBVIOUS
<1>8. e = [k \in 1..N |-> d[nthA(k)]]
  BY <1>3, <1>6, <1>7 DEF Keep
<1>9. e2 = [k \in 1..Cardinality(B) |-> d2[nthB(k)]]
  BY <1>4, <1>7 DEF Keep
<1>10. ASSUME NEW k \in 1..N PROVE nthA(k) \in A /\ upA(nthA(k)) = k
  <2>1. \E i \in A : upA(i) = k
    BY <1>5, <1>6, CountingOff
  <2> HIDE DEF upA
  <2>2. QED
    BY <2>1
<1>11. CASE c.id \notin R
  <2>1. A = B
    BY <1>5, <1>11
  <2>2. \A k : nthA(k) = nthB(k)
    BY <2>1
  <2> HIDE DEF nthA, nthB
  <2>3. \A k \in 1..N : d[nthA(k)] = d2[nthB(k)]
    BY <1>2, <1>5, <1>10, <2>2
  <2>4. e = e2
    BY <1>6, <1>8, <1>9, <2>1, <2>3
  <2>5. QED
    BY <1>1, <1>7, <1>11, <2>4
<1>12. CASE c.id \in R
  <2>1. B = A \cup {n + 1} /\ n + 1 \notin A /\ B \in SUBSET (1..(n + 1))
    BY <1>5, <1>12
  <2>2. Cardinality(B) = N + 1
    BY <1>6, <2>1, FS_AddElement
  <2>3. ASSUME NEW i \in A PROVE upB(i) = upA(i) /\ upA(i) \in Nat /\ upA(i) <= N
    <3>1. ~ (n + 1 <= i)
      BY <1>5
    <3>2. {j \in B : j <= i} = {j \in A : j <= i}
      BY <2>1, <3>1
    <3>3. PICK U \in SUBSET A : U = {j \in A : j <= i}
      OBVIOUS
    <3>4. Cardinality(U) \in Nat /\ Cardinality(U) <= N
      BY <1>6, FS_Subset, FS_CardinalityType
    <3>5. QED
      BY <3>2, <3>3, <3>4
  <2>4. upB(n + 1) = N + 1
    <3>1. \A j \in B : j <= n + 1
      BY <2>1
    <3>2. {j \in B : j <= n + 1} = B
      BY <3>1, Zenon
    <3>3. QED
      BY <2>2, <3>2
  <2>5. ASSUME NEW k \in 1..(N + 1) PROVE nthB(k) \in B /\ upB(nthB(k)) = k
    <3>1. \E i \in B : upB(i) = k
      <4>1. PICK l \in Nat : l = n + 1
        OBVIOUS
      <4>2. k \in 1..Cardinality(B) /\ B \in SUBSET (1..l)
        BY <2>1, <2>2, <4>1
      <4>3. QED
        BY <4>2, CountingOff
    <3> HIDE DEF upB
    <3>2. QED
      BY <3>1
  <2>6. ASSUME NEW i \in A, NEW j \in A, upA(i) = upA(j) PROVE i = j
    BY <1>6a, <2>6
  <2> HIDE DEF nthA, nthB, upA, upB
  <2>7. ASSUME NEW k \in 1..N PROVE nthB(k) = nthA(k) /\ nthA(k) \in A
    <3>1. k \in 1..(N + 1) /\ k # N + 1
      OBVIOUS
    <3>2. nthB(k) \in B /\ upB(nthB(k)) = k
      BY <2>5, <3>1
    <3>3. nthB(k) \in A
      BY <2>1, <2>4, <3>1, <3>2
    <3>4. QED
      BY <1>10, <2>3, <2>6, <3>2, <3>3
  <2>8. nthB(N + 1) = n + 1
    <3>1. N + 1 \in 1..(N + 1)
      OBVIOUS
    <3>2. nthB(N + 1) \in B /\ upB(nthB(N + 1)) = N + 1
      BY <2>5, <3>1
    <3>3. nthB(N + 1) \notin A
      BY <2>3, <3>2
    <3>4. QED
      BY <2>1, <3>2, <3>3
  <2>9. e \in Seq(S) /\ Len(e) = N /\ DOMAIN e = 1..N
    <3>1. ASSUME NEW k \in 1..N PROVE d[nthA(k)] \in S
      <4>1. PICK i \in 1..n : i = nthA(k)
        BY <1>5, <2>7
      <4>2. QED
        BY <1>2, <4>1
    <3>2. QED
      BY <1>8, <3>1
  <2>10. e2 = [k \in 1..(N + 1) |-> d2[nthB(k)]]
    BY <1>9, <2>2
  <2>11. e2 \in Seq(S) /\ Len(e2) = N + 1 /\ DOMAIN e2 = 1..(N + 1)
    <3>1. \A k \in 1..(N + 1) : d2[nthB(k)] \in S
      BY <1>2, <2>1, <2>5
    <3>2. QED
      BY <2>10, <3>1
  <2>12. \A k \in 1..N : e2[k] = e[k]
    <3>1. ASSUME NEW k \in 1..N PROVE e2[k] = e[k]
      <4>1. PICK i \in 1..n : i = nthA(k) /\ i = nthB(k)
        BY <1>5, <2>7
      <4>2. e[k] = d[i]
        BY <1>8, <4>1
      <4>3. k \in 1..(N + 1)
        OBVIOUS
      <4>4. e2[k] = d2[i]
        BY <2>10, <4>1, <4>3
      <4>5. QED
        BY <1>2, <4>2, <4>4
    <3>2. QED
      BY <3>1
  <2>13. e2[N + 1] = c
    BY <1>2, <2>8, <2>10
  <2>14. e2 = Append(e, c)
    <3>1. PICK g \in Seq(S) : g = Append(e, c)
      <4>1. Append(e, c) \in Seq(S)
        BY <2>9
      <4>2. QED
        BY <4>1
    <3>2. Len(g) = N + 1 /\ DOMAIN g = 1..(N + 1) /\ g[N + 1] = c /\ \A k \in 1..N : g[k] = e[k]
      BY <2>9, <3>1
    <3>3. \A k \in 1..(N + 1) : k \in 1..N \/ k = N + 1
      OBVIOUS
    <3>4. \A k \in 1..(N + 1) : e2[k] = g[k]
      BY <2>12, <2>13, <3>2, <3>3
    <3>5. e2 = g
      BY <2>10, <2>11, <3>2, <3>4
    <3>6. QED
      BY <3>1, <3>5
  <2>15. QED
    BY <1>1, <1>7, <1>12, <2>14
<1>13. QED
  BY <1>11, <1>12

\* A half of kad_bucket_split into which the contacts of m were added.
Filled(m, lo, hi) ==
  LET n == IF Len(m) <= Capacity THEN Len(m) ELSE Capacity
  IN  [lo |-> lo, hi |-> hi,
       contacts |-> SubSeq(m, 1, n), replacements |-> SubSeq(m, n + 1, Len(m))]

\* A contact that is not in a dictionary comes to its tail.
LEMMA InsertNew ==
  ASSUME NEW d, NEW c, ~ Has(d, c.id)
  PROVE  Pop(d, c.id) = d /\ Insert(Pop(d, c.id), c) = Append(d, c)
BY DEF Pop, Insert

\* The contacts of a stretch of a list.
LEMMA StretchPlaces ==
  ASSUME NEW S, NEW d \in Seq(S), NEW m \in 1..(Len(d) + 1), NEW n \in (m - 1)..Len(d),
         NEW e, e = SubSeq(d, m, n)
  PROVE  /\ e \in Seq(S) /\ Len(e) = n - m + 1
         /\ \A i \in 1..(n - m + 1) : e[i] = d[m + i - 1]
BY SubSeqProperties

\* A stretch up to the end, or up to the last but one, of a longer list.
LEMMA StretchAppended ==
  ASSUME NEW S, NEW m \in Seq(S), NEW c \in S, NEW l \in 1..(Len(m) + 1)
  PROVE  /\ SubSeq(Append(m, c), 1, l - 1) = SubSeq(m, 1, l - 1)
         /\ SubSeq(Append(m, c), l, Len(m) + 1) = Append(SubSeq(m, l, Len(m)), c)
<1>1. PICK m2 \in Seq(S) : m2 = Append(m, c)
  <2>1. Append(m, c) \in Seq(S)
    OBVIOUS
  <2>2. QED
    BY <2>1
<1>2. PICK n \in Nat : /\ n = Len(m) /\ Len(m2) = n + 1 /\ m2[n + 1] = c
                       /\ \A i \in 1..n : m2[i] = m[i]
  BY <1>1
<1>3. SubSeq(m2, 1, l - 1) = SubSeq(m, 1, l - 1)
  <2>1. l - 1 \in 0..n /\ \A i \in 1..(l - 1) : i \in 1..n
    BY <1>2
  <2>2. PICK a, b : a = SubSeq(m2, 1, l - 1) /\ b = SubSeq(m, 1, l - 1)
    OBVIOUS
  <2>3. /\ a = [i \in 1..(l - 1) |-> m2[i]]
        /\ b = [i \in 1..(l - 1) |-> m[i]]
    BY <1>2, <2>1, <2>2
  <2>4. QED
    BY <1>2, <2>1, <2>2, <2>3
<1>4. SubSeq(m2, l, n + 1) = Append(SubSeq(m, l, n), c)
  <2>0. PICK s, t, u : s = SubSeq(m, l, n) /\ t = SubSeq(m2, l, n + 1) /\ u = Append(s, c)
    OBVIOUS
  <2>1. /\ s \in Seq(S) /\ Len(s) = n - l + 1
        /\ \A i \in 1..(n - l + 1) : s[i] = m[l + i - 1]
    <3>1. l \in 1..(Len(m) + 1) /\ n \in (l - 1)..Len(m)
      BY <1>2
    <3>2. QED
      BY <2>0, <3>1, StretchPlaces
  <2>2. /\ t \in Seq(S) /\ Len(t) = (n + 1) - l + 1
        /\ \A i \in 1..((n + 1) - l + 1) : t[i] = m2[l + i - 1]
    <3>1. PICK z \in Nat : z = n + 1
      OBVIOUS
    <3>2. l \in 1..(Len(m2) + 1) /\ z \in (l - 1)..Len(m2) /\ t = SubSeq(m2, l, z)
      BY <1>2, <2>0, <3>1
    <3>3. /\ t \in Seq(S) /\ Len(t) = z - l + 1
          /\ \A i \in 1..(z - l + 1) : t[i] = m2[l + i - 1]
      BY <3>2, StretchPlaces
    <3>4. QED
      BY <3>1, <3>3
  <2>3. u \in Seq(S) /\ Len(u) = Len(s) + 1 /\ u[Len(s) + 1] = c /\ \A i \in 1..Len(s) : u[i] = s[i]
    BY <2>0, <2>1
  <2>4. PICK k \in Nat : k = n - l + 1
    <3>1. l \in Nat /\ l <= n + 1
      BY <1>2
    <3>2. n - l + 1 \in Nat
      BY <3>1
    <3>3. QED
      BY <3>2
  <2>5. Len(u) = k + 1 /\ Len(t) = k + 1 /\ u[k + 1] = c /\ \A i \in 1..k : u[i] = s[i]
    BY <2>1, <2>2, <2>3, <2>4
  <2>6. t[k + 1] = c
    <3>1. k + 1 \in 1..((n + 1) - l + 1) /\ l + (k + 1) - 1 = n + 1
      BY <2>4
    <3>2. t[k + 1] = m2[l + (k + 1) - 1]
      BY <2>2, <3>1
    <3>3. QED
      BY <1>2, <3>1, <3>2
  <2>7. ASSUME NEW i \in 1..k PROVE t[i] = s[i]
    <3>1. i \in 1..((n + 1) - l + 1) /\ i \in 1..(n - l + 1) /\ l + i - 1 \in 1..n
      BY <2>4
    <3>2. PICK j \in 1..n : j = l + i - 1
      BY <3>1
    <3>3. t[i] = m2[j] /\ s[i] = m[j]
      BY <2>1, <2>2, <3>1, <3>2
    <3>4. QED
      BY <1>2, <3>3
  <2>8. \A i \in 1..(k + 1) : i \in 1..k \/ i = k + 1
    OBVIOUS
  <2>9. \A i \in 1..(k + 1) : t[i] = u[i]
    BY <2>5, <2>6, <2>7, <2>8
  <2>10. t = u
    BY <2>2, <2>3, <2>5, <2>9
  <2>11. QED
    BY <2>0, <2>10
<1>5. QED
  BY <1>1, <1>2, <1>3, <1>4

\* kad_bucket_add_contact, for a contact that the half does not have, while the
\* list of replacements has room.
LEMMA FilledAppended ==
  ASSUME NEW S, NEW m \in Seq(S), NEW c \in S, NEW lo, NEW hi, ~ Has(m, c.id), Distinct(m),
         Len(m) + 1 < Capacity + ReplacementFactor * Capacity
  PROVE  BucketAdd(Filled(m, lo, hi), c) = Filled(Append(m, c), lo, hi)
<1>1. PICK n \in Nat : n = Len(m)
  OBVIOUS
<1>2. PICK m2 : m2 = Append(m, c) /\ Len(m2) = n + 1 /\ m2 \in Seq(S)
  <2>1. Append(m, c) \in Seq(S) /\ Len(Append(m, c)) = n + 1
    BY <1>1
  <2>2. QED
    BY <2>1
<1>3. PICK b, b2 : b = Filled(m, lo, hi) /\ b2 = Filled(m2, lo, hi)
  OBVIOUS
<1>4. SubSeq(m, 1, n) = m /\ SubSeq(m2, 1, n + 1) = m2
  BY <1>1, <1>2
<1>5. CASE n < Capacity
  <2>1. n <= Capacity /\ n + 1 <= Capacity
    BY <1>1, <1>5, Bounds
  <2>2. SubSeq(m, n + 1, n) = <<>> /\ SubSeq(m2, n + 2, n + 1) = <<>>
    BY <1>1, <1>2
  <2>3. b = [lo |-> lo, hi |-> hi, contacts |-> m, replacements |-> <<>>]
    BY <1>1, <1>3, <1>4, <2>1, <2>2 DEF Filled
  <2>4. b2 = [lo |-> lo, hi |-> hi, contacts |-> m2, replacements |-> <<>>]
    <3>1. Filled(m2, lo, hi) = [lo |-> lo, hi |-> hi, contacts |-> SubSeq(m2, 1, n + 1),
                                replacements |-> SubSeq(m2, (n + 1) + 1, n + 1)]
      BY <1>2, <2>1 DEF Filled
    <3>2. (n + 1) + 1 = n + 2
      OBVIOUS
    <3>3. QED
      BY <1>3, <1>4, <2>2, <3>1, <3>2
  <2>5. TakesContact(b, c)
    BY <1>1, <1>5, <2>3, Bounds DEF TakesContact, IsFull
  <2>6. BucketAdd(b, c) = [b EXCEPT !.contacts = m2]
    BY <1>2, <2>3, <2>5, InsertNew DEF BucketAdd
  <2>7. BucketAdd(b, c) = b2
    BY <2>3, <2>4, <2>6
  <2>8. QED
    BY <1>2, <1>3, <2>7
<1>6. CASE n >= Capacity
  <2>1. PICK l \in 1..(n + 1) : l = Capacity + 1
    BY <1>6, Bounds
  <2>2. l - 1 = Capacity /\ l \in 1..(Len(m) + 1) /\ l - 1 \in 0..n
    BY <1>1, <2>1, Bounds
  <2>3. PICK live, spare : live = SubSeq(m, 1, Capacity) /\ spare = SubSeq(m, l, n)
    OBVIOUS
  <2>4. /\ live \in Seq(S) /\ Len(live) = Capacity /\ \A x : Has(live, x) => Has(m, x)
    <3>1. 1 \in 1..(Len(m) + 1) /\ Capacity \in (1 - 1)..Len(m)
      BY <1>1, <1>6, Bounds
    <3>2. QED
      BY <2>3, <3>1, StretchProperties, Bounds
  <2>5. /\ spare \in Seq(S) /\ Len(spare) = n - Capacity /\ \A x : Has(spare, x) => Has(m, x)
    <3>1. l \in 1..(Len(m) + 1) /\ n \in (l - 1)..Len(m)
      BY <1>1, <2>2
    <3>2. /\ spare \in Seq(S) /\ Len(spare) = n - l + 1 /\ \A x : Has(spare, x) => Has(m, x)
      BY <2>3, <3>1, StretchProperties
    <3>3. QED
      BY <2>1, <3>2, Bounds
  <2>6. b = [lo |-> lo, hi |-> hi, contacts |-> live, replacements |-> spare]
    <3>1. ~ (n <= Capacity) \/ n = Capacity
      BY <1>6, Bounds
    <3>2. Filled(m, lo, hi) = [lo |-> lo, hi |-> hi, contacts |-> SubSeq(m, 1, Capacity),
                               replacements |-> SubSeq(m, Capacity + 1, n)]
      BY <1>1, <3>1 DEF Filled
    <3>3. QED
      BY <1>3, <2>1, <2>3, <3>2
  <2>7. /\ SubSeq(m2, 1, Capacity) = live
        /\ SubSeq(m2, l, n + 1) = Append(spare, c)
    BY <1>1, <1>2, <2>2, <2>3, StretchAppended
  <2>8. b2 = [lo |-> lo, hi |-> hi, contacts |-> live, replacements |-> Append(spare, c)]
    <3>1. ~ (n + 1 <= Capacity)
      BY <1>6, Bounds
    <3>2. Filled(m2, lo, hi) = [lo |-> lo, hi |-> hi, contacts |-> SubSeq(m2, 1, Capacity),
                                replacements |-> SubSeq(m2, Capacity + 1, n + 1)]
      BY <1>2, <3>1 DEF Filled
    <3>3. QED
      BY <1>3, <2>1, <2>7, <3>2
  <2>9. ~ TakesContact(b, c)
    BY <2>4, <2>6, Bounds DEF TakesContact, IsFull
  <2>10. ~ Has(spare, c.id)
    BY <2>5
  <2>11. Newest(Append(spare, c), ReplacementFactor * Capacity - 1) = Append(spare, c)
    <3>1. Len(Append(spare, c)) = n - Capacity + 1
      BY <2>5
    <3>2. n - Capacity + 1 <= ReplacementFactor * Capacity - 1
      BY <1>1, Bounds
    <3>3. QED
      BY <3>1, <3>2 DEF Newest
  <2>12. BucketAdd(b, c) = [b EXCEPT !.replacements = Append(spare, c)]
    BY <2>6, <2>9, <2>10, <2>11, InsertNew DEF BucketAdd, AddReplacement
  <2>13. BucketAdd(b, c) = b2
    BY <2>6, <2>8, <2>12
  <2>14. QED
    BY <1>2, <1>3, <2>13
<1>7. QED
  BY <1>1, <1>5, <1>6, Bounds

\* The first contacts of a dictionary, and one more.
LEMMA OneMore ==
  ASSUME NEW S, NEW d \in Seq(S), Distinct(d), NEW k \in 1..Len(d),
         NEW p, p = SubSeq(d, 1, k - 1), NEW q, q = SubSeq(d, 1, k)
  PROVE  /\ p \in Seq(S) /\ Len(p) = k - 1 /\ Distinct(p) /\ d[k] \in S
         /\ ~ Has(p, d[k].id) /\ q = Append(p, d[k])
<1>1. 1 \in 1..(Len(d) + 1) /\ k - 1 \in (1 - 1)..Len(d) /\ k \in (1 - 1)..Len(d)
  OBVIOUS
<1>2. /\ p \in Seq(S) /\ Len(p) = (k - 1) - 1 + 1 /\ Distinct(p)
      /\ \A i \in 1..((k - 1) - 1 + 1) : p[i] = d[1 + i - 1]
  <2>1. PICK l : l = k - 1
    OBVIOUS
  <2>2. l \in (1 - 1)..Len(d) /\ p = SubSeq(d, 1, l)
    BY <1>1, <2>1
  <2>3. /\ p \in Seq(S) /\ Len(p) = l - 1 + 1 /\ Distinct(p)
        /\ \A i \in 1..(l - 1 + 1) : p[i] = d[1 + i - 1]
    BY <1>1, <2>2, StretchPlaces, StretchProperties
  <2>4. QED
    BY <2>1, <2>3
<1>3. /\ q \in Seq(S) /\ Len(q) = k - 1 + 1
      /\ \A i \in 1..(k - 1 + 1) : q[i] = d[1 + i - 1]
  BY <1>1, StretchPlaces
<1>4. PICK n \in Nat : n = k - 1
  OBVIOUS
<1>5. Len(p) = n /\ DOMAIN p = 1..n /\ \A i \in 1..n : p[i] = d[i]
  BY <1>2, <1>4
<1>6. Len(q) = n + 1 /\ \A i \in 1..(n + 1) : q[i] = d[i]
  BY <1>3, <1>4
<1>7. \A i \in 1..n : i \in DOMAIN d /\ i # k
  BY <1>4
<1>8. ~ Has(p, d[k].id)
  BY <1>5, <1>7 DEF Has, Distinct
<1>9. q = Append(p, d[k])
  <2>1. d[k] \in S
    OBVIOUS
  <2>2. PICK u : u = Append(p, d[k])
    OBVIOUS
  <2>3. u \in Seq(S) /\ Len(u) = n + 1 /\ u[n + 1] = d[k] /\ \A i \in 1..n : u[i] = p[i]
    BY <1>2, <1>5, <2>1, <2>2
  <2>4. \A i \in 1..(n + 1) : i \in 1..n \/ (i = n + 1 /\ i = k)
    BY <1>4
  <2>5. n + 1 \in 1..(n + 1) /\ n + 1 = k /\ \A i \in 1..n : i \in 1..(n + 1)
    BY <1>4
  <2>6. \A i \in 1..(n + 1) : q[i] = u[i]
    BY <1>5, <1>6, <2>3, <2>4, <2>5
  <2>7. q = u
    BY <1>3, <1>6, <2>3, <2>6
  <2>8. QED
    BY <2>2, <2>7
<1>10. QED
  BY <1>2, <1>4, <1>5, <1>8, <1>9

\* The first loop of kad_bucket_split empties the lists into one dictionary: no
\* contact is overwritten or moved.
LEMMA BothAreInserted ==
  ASSUME NEW S, NEW both \in Seq(S), Distinct(both), NEW all,
         all = CHOOSE f : f = [n \in 0..Len(both) |->
                                 IF n = 0 THEN <<>> ELSE Insert(f[n - 1], both[n])]
  PROVE  all[Len(both)] = both
<1> DEFINE Loop(f) == f = [n \in 0..Len(both) |->
                             IF n = 0 THEN <<>> ELSE Insert(f[n - 1], both[n])]
           w == [k \in 0..Len(both) |-> SubSeq(both, 1, k)]
           T == {k \in 0..Len(both) : all[k] = SubSeq(both, 1, k)}
<1>1. Len(both) \in Nat /\ SubSeq(both, 1, 0) = <<>> /\ SubSeq(both, 1, Len(both)) = both
  OBVIOUS
<1>2. ASSUME NEW k \in 1..Len(both)
      PROVE  Insert(SubSeq(both, 1, k - 1), both[k]) = SubSeq(both, 1, k)
  <2>1. PICK p, q : p = SubSeq(both, 1, k - 1) /\ q = SubSeq(both, 1, k)
    OBVIOUS
  <2>2. ~ Has(p, both[k].id) /\ q = Append(p, both[k])
    BY <2>1, OneMore
  <2>3. QED
    BY <2>1, <2>2 DEF Insert
<1>3. Loop(w)
  <2>1. ASSUME NEW k \in 0..Len(both)
        PROVE  w[k] = IF k = 0 THEN <<>> ELSE Insert(w[k - 1], both[k])
    <3>1. CASE k = 0
      BY <1>1, <3>1
    <3>2. CASE k # 0
      <4>1. k \in 1..Len(both) /\ k - 1 \in 0..Len(both)
        BY <1>1, <3>2
      <4>2. w[k] = SubSeq(both, 1, k) /\ w[k - 1] = SubSeq(both, 1, k - 1)
        BY <4>1
      <4>3. QED
        BY <1>2, <3>2, <4>1, <4>2
    <3>3. QED
      BY <3>1, <3>2
  <2>2. QED
    BY <2>1
<1>4. Loop(all)
  <2>1. \E f : Loop(f)
    BY <1>3, Zenon
  <2>2. all = CHOOSE f : Loop(f)
    OBVIOUS
  <2> HIDE DEF Loop
  <2>3. QED
    BY <2>1, <2>2, Zenon
<1>5. all[0] = <<>> /\ \A k \in 1..Len(both) : all[k] = Insert(all[k - 1], both[k])
  <2>1. \A k \in 0..Len(both) : all[k] = IF k = 0 THEN <<>> ELSE Insert(all[k - 1], both[k])
    BY <1>4
  <2>2. 0 \in 0..Len(both) /\ \A k \in 1..Len(both) : k \in 0..Len(both) /\ k # 0
    BY <1>1
  <2>3. QED
    BY <2>1, <2>2
<1> HIDE DEF Loop
<1>6. 0 \in T
  <2>1. 0 \in 0..Len(both)
    BY <1>1
  <2>2. all[0] = SubSeq(both, 1, 0)
    BY <1>1, <1>5, Zenon
  <2>3. QED
    BY <2>1, <2>2
<1>7. ASSUME NEW k \in 0..(Len(both) - 1), k \in T PROVE k + 1 \in T
  <2>1. PICK l \in 1..Len(both) : l = k + 1 /\ l - 1 = k /\ l \in 0..Len(both)
    BY <1>1
  <2>2. all[l - 1] = SubSeq(both, 1, l - 1)
    BY <1>7, <2>1
  <2>3. all[l] = SubSeq(both, 1, l)
    BY <1>2, <1>5, <2>2
  <2>4. QED
    BY <2>1, <2>3
<1>8. Len(both) \in T
  <2> HIDE DEF T
  <2>1. PICK n \in Nat : n = Len(both)
    BY <1>1
  <2>2. \A k \in 0..(n - 1) : k \in T => k + 1 \in T
    BY <1>7, <2>1
  <2>3. \A k \in 0..n : k \in T
    BY <1>6, <2>2, CountingUp
  <2>4. QED
    BY <2>1, <2>3
<1>9. QED
  BY <1>1, <1>8

\* Of an order without contacts nothing is kept.
LEMMA KeepOfEmpty ==
  ASSUME NEW d \in Seq(Contact), Len(d) = 0, NEW R
  PROVE  Keep(d, R) = <<>>
<1> DEFINE at == {i \in DOMAIN d : d[i].id \in R}
           upto(i) == Cardinality({j \in at : j <= i})
           nth(k) == CHOOSE i \in at : upto(i) = k
<1>1. at = {}
  OBVIOUS
<1>2. Cardinality(at) = 0
  BY <1>1, FS_EmptySet
<1>3. Keep(d, R) = [k \in 1..Cardinality(at) |-> d[nth(k)]]
  BY DEF Keep
<1> HIDE DEF at, nth
<1>4. QED
  BY <1>2, <1>3

\* Nothing is kept of nothing.
LEMMA KeepNothing == \A R : Keep(<<>>, R) = <<>>
<1>1. PICK d \in Seq(Contact) : d = <<>> /\ Len(d) = 0
  <2>1. <<>> \in Seq(Contact) /\ Len(<<>>) = 0
    OBVIOUS
  <2>2. QED
    BY <2>1
<1>2. \A R : Keep(d, R) = <<>>
  BY <1>1, KeepOfEmpty
<1>3. QED
  BY <1>1, <1>2

\* The second loop fills the half with the contacts in its range, in their order.
LEMMA HalfIsFilled ==
  ASSUME NEW mine \in Seq(Contact), Distinct(mine), NEW lo \in Int, NEW hi \in Int,
         Len(mine) < Capacity + ReplacementFactor * Capacity, NEW half,
         half = CHOOSE h : h = [n \in 0..Len(mine) |->
                  IF n = 0 THEN NewBucket(lo, hi)
                  ELSE IF InRange(h[n - 1], mine[n].id) THEN BucketAdd(h[n - 1], mine[n])
                  ELSE h[n - 1]]
  PROVE  half[Len(mine)] = Filled(Keep(mine, lo..hi), lo, hi)
<1> DEFINE turn(h, c) == IF InRange(h, c.id) THEN BucketAdd(h, c) ELSE h
           Loop(h) == h = [n \in 0..Len(mine) |->
                        IF n = 0 THEN NewBucket(lo, hi)
                        ELSE IF InRange(h[n - 1], mine[n].id) THEN BucketAdd(h[n - 1], mine[n])
                        ELSE h[n - 1]]
           form(k) == Filled(Keep(SubSeq(mine, 1, k), lo..hi), lo, hi)
           w == [k \in 0..Len(mine) |-> form(k)]
           T == {k \in 0..Len(mine) : half[k] = form(k)}
<1>1. Len(mine) \in Nat /\ SubSeq(mine, 1, 0) = <<>> /\ SubSeq(mine, 1, Len(mine)) = mine
  OBVIOUS
<1>2. form(0) = NewBucket(lo, hi)
  <2>1. PICK e : e = Keep(<<>>, lo..hi) /\ e = <<>>
    BY KeepNothing
  <2>2. Filled(<<>>, lo, hi) = [lo |-> lo, hi |-> hi, contacts |-> <<>>, replacements |-> <<>>]
    <3>1. Len(<<>>) = 0 /\ 0 <= Capacity /\ SubSeq(<<>>, 1, 0) = <<>> /\ SubSeq(<<>>, 0 + 1, 0) = <<>>
      BY Bounds
    <3>2. QED
      BY <3>1 DEF Filled
  <2>3. QED
    BY <1>1, <2>1, <2>2 DEF NewBucket
<1>3. ASSUME NEW k \in 1..Len(mine)
      PROVE  turn(form(k - 1), mine[k]) = form(k)
  <2>1. PICK p, q, c : p = SubSeq(mine, 1, k - 1) /\ q = SubSeq(mine, 1, k) /\ c = mine[k]
    OBVIOUS
  <2>2. /\ p \in Seq(Contact) /\ Len(p) = k - 1 /\ Distinct(p) /\ c \in Contact
        /\ ~ Has(p, c.id) /\ q = Append(p, c)
    BY <2>1, OneMore
  <2>3. PICK kept : kept = Keep(p, lo..hi)
    OBVIOUS
  <2>4. /\ kept \in Seq({x \in Contact : x.id \in lo..hi}) /\ Len(kept) \in 0..Len(p)
        /\ Distinct(kept) /\ ~ Has(kept, c.id)
    BY <2>2, <2>3, KeepProperties
  <2>5. Keep(q, lo..hi) = IF c.id \in lo..hi THEN Append(kept, c) ELSE kept
    BY <2>2, <2>3, KeepAppended
  <2>6. PICK h : h = Filled(kept, lo, hi) /\ h.lo = lo /\ h.hi = hi
    <3>1. Filled(kept, lo, hi).lo = lo /\ Filled(kept, lo, hi).hi = hi
      BY DEF Filled
    <3>2. QED
      BY <3>1
  <2>7. InRange(h, c.id) <=> c.id \in lo..hi
    <3>1. c.id \in Int
      BY <2>2, IdAssumption DEF Contact, Id
    <3>2. QED
      BY <2>6, <3>1 DEF InRange
  <2>8. form(k - 1) = h /\ form(k) = Filled(Keep(q, lo..hi), lo, hi)
    BY <2>1, <2>3, <2>6
  <2> HIDE DEF form
  <2>9. CASE c.id \in lo..hi
    <3>1. kept \in Seq(Contact) /\ Len(kept) + 1 < Capacity + ReplacementFactor * Capacity
      <4>1. Len(kept) + 1 <= Len(mine)
        BY <2>2, <2>4
      <4>2. Len(kept) \in Nat /\ kept \in Seq(Contact)
        BY <2>4
      <4>3. QED
        BY <1>1, <4>1, <4>2, Bounds
    <3>2. BucketAdd(h, c) = Filled(Append(kept, c), lo, hi)
      BY <2>2, <2>4, <2>6, <3>1, FilledAppended
    <3>3. turn(h, c) = BucketAdd(h, c)
      BY <2>7, <2>9
    <3>4. QED
      BY <2>1, <2>5, <2>8, <2>9, <3>2, <3>3
  <2>10. CASE c.id \notin lo..hi
    BY <2>1, <2>5, <2>6, <2>7, <2>8, <2>10
  <2>11. QED
    BY <2>9, <2>10
<1>4. Loop(w)
  <2>1. ASSUME NEW k \in 0..Len(mine)
        PROVE  w[k] = IF k = 0 THEN NewBucket(lo, hi) ELSE turn(w[k - 1], mine[k])
    <3>1. CASE k = 0
      <4>1. w[k] = form(0)
        BY <1>1, <3>1
      <4>2. QED
        BY <1>2, <3>1, <4>1
    <3>2. CASE k # 0
      <4>1. k \in 1..Len(mine) /\ k - 1 \in 0..Len(mine)
        BY <1>1, <3>2
      <4> HIDE DEF form, turn
      <4>2. w[k] = form(k) /\ w[k - 1] = form(k - 1)
        BY <4>1
      <4>3. QED
        BY <1>3, <3>2, <4>1, <4>2
    <3> HIDE DEF w, turn
    <3>3. QED
      BY <3>1, <3>2
  <2> HIDE DEF form
  <2>2. w = [k \in 0..Len(mine) |-> IF k = 0 THEN NewBucket(lo, hi) ELSE turn(w[k - 1], mine[k])]
    BY <2>1
  <2> HIDE DEF w
  <2>3. QED
    BY <2>2
<1>5. Loop(half)
  <2>1. \E h : Loop(h)
    BY <1>4, Zenon
  <2>2. half = CHOOSE h : Loop(h)
    OBVIOUS
  <2> HIDE DEF Loop
  <2>3. QED
    BY <2>1, <2>2, Zenon
<1> HIDE DEF w, form
<1>6. /\ half[0] = NewBucket(lo, hi)
      /\ \A k \in 1..Len(mine) : half[k] = turn(half[k - 1], mine[k])
  <2>1. half = [k \in 0..Len(mine) |-> IF k = 0 THEN NewBucket(lo, hi)
                                       ELSE turn(half[k - 1], mine[k])]
    BY <1>5
  <2> HIDE DEF turn, Loop
  <2>2. \A k \in 0..Len(mine) : half[k] = IF k = 0 THEN NewBucket(lo, hi)
                                          ELSE turn(half[k - 1], mine[k])
    BY <2>1
  <2>3. 0 \in 0..Len(mine) /\ \A k \in 1..Len(mine) : k \in 0..Len(mine) /\ k # 0
    BY <1>1
  <2>4. QED
    BY <2>2, <2>3
<1> HIDE DEF Loop, turn
<1>7. 0 \in T
  BY <1>1, <1>2, <1>6
<1>8. ASSUME NEW k \in 0..(Len(mine) - 1), k \in T PROVE k + 1 \in T
  <2>1. PICK l \in 1..Len(mine) : l = k + 1 /\ l - 1 = k /\ l \in 0..Len(mine)
    BY <1>1
  <2>2. half[l - 1] = form(l - 1)
    BY <1>8, <2>1
  <2>3. half[l] = form(l)
    BY <1>3, <1>6, <2>2
  <2>4. QED
    BY <2>1, <2>3
<1>9. Len(mine) \in T
  <2> HIDE DEF T
  <2>1. PICK n \in Nat : n = Len(mine)
    BY <1>1
  <2>2. \A k \in 0..(n - 1) : k \in T => k + 1 \in T
    BY <1>8, <2>1
  <2>3. \A k \in 0..n : k \in T
    BY <1>7, <2>2, CountingUp
  <2>4. QED
    BY <2>1, <2>3
<1>10. QED
  BY <1>1, <1>9 DEF form

\* Each half of a sound bucket is what the loops of kad_bucket_split make of it.
LEMMA LoopIsHalf ==
  ASSUME NEW b \in SoundBucket, NEW lo \in Int, NEW hi \in Int
  PROVE  Half(b, lo, hi) = LoopHalf(b, lo, hi)
<1> DEFINE both == b.contacts \o b.replacements
           all == CHOOSE f : f = [n \in 0..Len(both) |->
                                    IF n = 0 THEN <<>> ELSE Insert(f[n - 1], both[n])]
           mine == all[Len(both)]
           half == CHOOSE h : h = [n \in 0..Len(mine) |->
                     IF n = 0 THEN NewBucket(lo, hi)
                     ELSE IF InRange(h[n - 1], mine[n].id) THEN BucketAdd(h[n - 1], mine[n])
                     ELSE h[n - 1]]
<1>1. LoopHalf(b, lo, hi) = half[Len(mine)]
  BY Zenon DEF LoopHalf
<1>2. /\ both \in Seq(Contact) /\ Distinct(both)
      /\ Len(both) < Capacity + ReplacementFactor * Capacity
  <2>1. PICK live, spare : live = b.contacts /\ spare = b.replacements
    OBVIOUS
  <2>2. SoundLists(b.lo, b.hi, live, spare)
    BY <2>1, SoundParts
  <2>3. live \in Seq(Contact) /\ spare \in Seq(Contact)
    BY <2>2 DEF SoundLists, Spanned
  <2>4. Distinct(live \o spare)
    BY <2>2, <2>3, ConcatDistinct DEF SoundLists
  <2>5. live \o spare \in Seq(Contact) /\ Len(live \o spare) = Len(live) + Len(spare)
    BY <2>3
  <2>6. Len(live) \in Nat /\ Len(spare) \in Nat
        /\ Len(live) <= Capacity /\ Len(spare) < ReplacementFactor * Capacity
    BY <2>2, <2>3 DEF SoundLists
  <2>7. Len(live) + Len(spare) < Capacity + ReplacementFactor * Capacity
    BY <2>6, Bounds
  <2>8. both = live \o spare
    BY <2>1
  <2> HIDE DEF both
  <2>9. QED
    BY <2>4, <2>5, <2>7, <2>8
<1>3. mine = both
  <2> HIDE DEF both
  <2>1. PICK f : f = all
    OBVIOUS
  <2>2. f[Len(both)] = both
    BY <1>2, <2>1, BothAreInserted
  <2>3. QED
    BY <2>1, <2>2
<1>4. half[Len(mine)] = Filled(Keep(mine, lo..hi), lo, hi)
  <2>1. mine \in Seq(Contact) /\ Distinct(mine) /\ Len(mine) < Capacity + ReplacementFactor * Capacity
    BY <1>2, <1>3
  <2> HIDE DEF mine
  <2>2. PICK h : h = half
    OBVIOUS
  <2>3. h[Len(mine)] = Filled(Keep(mine, lo..hi), lo, hi)
    BY <2>1, <2>2, HalfIsFilled
  <2>4. QED
    BY <2>2, <2>3
<1>5. Half(b, lo, hi) = Filled(Keep(both, lo..hi), lo, hi)
  BY DEF Half, Filled
<1> HIDE DEF mine, half
<1>6. QED
  BY <1>1, <1>3, <1>4, <1>5

\* In a sound table every split is the one of kad_bucket_split.
LEMMA SplitIsTheLoopIfSound == IInv => SplitIsTheLoop
<1> SUFFICES ASSUME IInv, NEW i \in DOMAIN buckets, NEW c \in Contact,
                    BucketIndex(c.id) = i, ~ TakesContact(buckets[i], c),
                    NEW b, b = BucketAdd(buckets[i], c)
             PROVE  /\ LeftHalf(b)  = LoopHalf(b, b.lo, MidL(b))
                    /\ RightHalf(b) = LoopHalf(b, MidL(b) + 1, b.hi)
  BY DEF SplitIsTheLoop
<1>1. buckets[i] \in SoundBucket /\ c \in Spanned(buckets[i].lo, buckets[i].hi)
  BY FoundBucket DEF Spanned, Contact
<1>2. b \in SoundBucket
  BY <1>1, AddKeepsSound
<1>3. b.lo \in Int /\ b.hi \in Int /\ MidL(b) \in Int /\ MidL(b) + 1 \in Int
  <2>1. b.lo \in Nat /\ b.hi \in Nat
    BY <1>2, SoundParts, IdAssumption DEF Id
  <2>2. QED
    BY <2>1 DEF MidL
<1>4. QED
  BY <1>2, <1>3, LoopIsHalf DEF LeftHalf, RightHalf

\* kad_bucket_split, from any bucket that a table may get to: the loops move no
\* contact within a list, overwrite none and drop no replacement.
THEOREM AlwaysSplitIsTheLoop == Spec => []SplitIsTheLoop
<1>1. QED
  BY TableIsSound, SplitIsTheLoopIfSound, PTL
=============================================================================
