------------------------------ MODULE NodeProofs ------------------------------
(***************************************************************************)
(* That a node answers as it should, for every width of the identifiers    *)
(* and of their words, every bucket size, depth step and number of values. *)
(*                                                                         *)
(* The argument goes up the calls of one answer.                           *)
(*   - The exclusive or of two identifiers tells them apart, and who       *)
(*     shares a block of the identifier space with a target is nearer to   *)
(*     it than who does not: the own bucket has the nearest peers.         *)
(*   - The alternating walk of kad_table_find_closest visits every bucket  *)
(*     once, and its answer is the head of an enumeration of those peers   *)
(*     by their distance.                                                  *)
(*   - An identifier printed limb by limb in the base of the text is read  *)
(*     back as it was, so that a message that parses is a message that     *)
(*     was printed.                                                        *)
(*   - A node therefore steps as its table does, and every invariant of    *)
(*     Table holds of it; the inductive invariant adds that the last       *)
(*     answer is what the handler of its request makes of that table.      *)
(***************************************************************************)
EXTENDS Node, TableProofs

-----------------------------------------------------------------------------
(* Distance                                                                *)
-----------------------------------------------------------------------------
\* The bits in which two identifiers differ.
Differ(x, y) ==
  [k \in 1..IdBits |-> (DigitOf(x, 2, IdBits, k) + DigitOf(y, 2, IdBits, k)) % 2]

\* Identifiers are the numbers of IdBits bits.
LEMMA IdsAreWords ==
  ASSUME NEW x \in Id
  PROVE  /\ IdBits \in Nat \ {0} /\ 2 \in Nat \ {0} /\ x \in Nat
         /\ x \in 0..(Power(2, IdBits) - 1)
<1>1. PICK p \in Nat \ {0} : p = Power(2, IdBits) /\ MaxId + 1 = p
  BY WidthAssumption, IdAssumption, PowersAdd
<1>2. MaxId = p - 1
  BY <1>1, IdAssumption
<1>3. QED
  BY <1>1, <1>2, IdAssumption DEF Id

\* kad_uint256_xor: the distance is the number whose bits are those in which
\* the identifiers differ.
LEMMA DistanceOfBits ==
  ASSUME NEW x \in Id, NEW y \in Id
  PROVE  /\ Dist(x, y) = Number(Differ(x, y), 2, IdBits)
         /\ Dist(x, y) \in Nat
         /\ AreDigits(Differ(x, y), 2, IdBits)
         /\ \A k \in 1..IdBits :
              Differ(x, y)[k] = IF DigitOf(x, 2, IdBits, k) = DigitOf(y, 2, IdBits, k) THEN 0 ELSE 1
<1>1. Dist(x, y) = Number(Differ(x, y), 2, IdBits)
  BY DEF Dist, XorOf, Xor, Differ
<1>2. ASSUME NEW k \in 1..IdBits
      PROVE  /\ Differ(x, y)[k] = IF DigitOf(x, 2, IdBits, k) = DigitOf(y, 2, IdBits, k) THEN 0 ELSE 1
             /\ Differ(x, y)[k] \in 0..(2 - 1)
  <2>1. DigitOf(x, 2, IdBits, k) \in 0..(2 - 1) /\ DigitOf(y, 2, IdBits, k) \in 0..(2 - 1)
    BY IdsAreWords, DigitSteps
  <2>2. PICK d \in 0..1, e \in 0..1 : d = DigitOf(x, 2, IdBits, k) /\ e = DigitOf(y, 2, IdBits, k)
    BY <2>1
  <2>3. Differ(x, y)[k] = (d + e) % 2
    BY <2>2 DEF Differ
  <2>4. (d + e) % 2 = IF d = e THEN 0 ELSE 1
    OBVIOUS
  <2>5. QED
    BY <2>2, <2>3, <2>4
<1>3. AreDigits(Differ(x, y), 2, IdBits)
  BY <1>2 DEF AreDigits
<1>4. Dist(x, y) \in Nat
  <2>1. PICK p \in Nat : p = Power(2, IdBits)
    BY IdsAreWords, PowersAdd
  <2>2. Number(Differ(x, y), 2, IdBits) \in 0..(Power(2, IdBits) - 1)
    BY <1>3, IdsAreWords, NumberIsBounded
  <2>3. QED
    BY <1>1, <2>1, <2>2
<1>5. QED
  BY <1>1, <1>2, <1>3, <1>4

\* Two identifiers differ in a first bit.
LEMMA FirstDifference ==
  ASSUME NEW x \in Id, NEW y \in Id, NEW k \in 0..IdBits,
         x \div Power(2, IdBits - k) # y \div Power(2, IdBits - k)
  PROVE  \E i \in 1..k : /\ DigitOf(x, 2, IdBits, i) # DigitOf(y, 2, IdBits, i)
                         /\ \A j \in 1..(i - 1) :
                              DigitOf(x, 2, IdBits, j) = DigitOf(y, 2, IdBits, j)
<1> DEFINE T == {i \in 1..k : DigitOf(x, 2, IdBits, i) # DigitOf(y, 2, IdBits, i)}
<1>1. T # {}
  BY IdsAreWords, SamePrefix
<1>2. T \in SUBSET Nat
  BY IdsAreWords
<1>3. PICK i \in T : \A j \in T : i <= j
  <2> HIDE DEF T
  <2>1. QED
    BY <1>1, <1>2, LeastOf
<1>4. ASSUME NEW j \in 1..(i - 1) PROVE j \notin T /\ j \in 1..k
  BY <1>3, IdsAreWords
<1>5. QED
  BY <1>3, <1>4

\* No two identifiers have the same distance to a third.
LEMMA DistancesDiffer ==
  ASSUME NEW x \in Id, NEW y \in Id, NEW t \in Id, x # y
  PROVE  Dist(x, t) # Dist(y, t)
<1>1. PICK n \in 0..IdBits : n = IdBits
  BY IdsAreWords
<1>2. x \div Power(2, IdBits - n) # y \div Power(2, IdBits - n)
  <2>1. IdBits - n = 0
    BY <1>1, IdsAreWords
  <2>2. Power(2, 0) = 1
    BY IdsAreWords, PowerSteps
  <2>3. x \div 1 = x /\ y \div 1 = y
    BY IdsAreWords
  <2>4. QED
    BY <2>1, <2>2, <2>3
<1>3. PICK i \in 1..n : /\ DigitOf(x, 2, IdBits, i) # DigitOf(y, 2, IdBits, i)
                        /\ \A j \in 1..(i - 1) :
                             DigitOf(x, 2, IdBits, j) = DigitOf(y, 2, IdBits, j)
  BY <1>2, FirstDifference
<1>4. i \in 1..IdBits /\ \A j \in 1..(i - 1) : j \in 1..IdBits
  BY <1>1, IdsAreWords
<1>5. PICK s, u : s = Differ(x, t) /\ u = Differ(y, t)
  OBVIOUS
<1>6. /\ \A j \in 1..(i - 1) : s[j] = u[j]
      /\ s[i] \in {0, 1} /\ u[i] \in {0, 1} /\ s[i] # u[i]
      /\ AreDigits(s, 2, IdBits) /\ AreDigits(u, 2, IdBits)
      /\ Dist(x, t) = Number(s, 2, IdBits) /\ Dist(y, t) = Number(u, 2, IdBits)
  <2>1. PICK a, b, c : /\ a = DigitOf(x, 2, IdBits, i) /\ b = DigitOf(y, 2, IdBits, i)
                       /\ c = DigitOf(t, 2, IdBits, i)
    OBVIOUS
  <2>2. a \in 0..1 /\ b \in 0..1 /\ c \in 0..1
    <3>1. ASSUME NEW z \in Id PROVE DigitOf(z, 2, IdBits, i) \in 0..(2 - 1)
      BY <1>4, IdsAreWords, DigitSteps
    <3>2. QED
      BY <2>1, <3>1
  <2>3. s[i] = (IF a = c THEN 0 ELSE 1) /\ u[i] = (IF b = c THEN 0 ELSE 1)
    BY <1>4, <1>5, <2>1, DistanceOfBits
  <2>4. \A j \in 1..(i - 1) : s[j] = u[j]
    BY <1>3, <1>4, <1>5, DistanceOfBits
  <2>5. QED
    BY <1>3, <1>5, <2>1, <2>2, <2>3, <2>4, DistanceOfBits
<1>7. Dist(x, t) \in Nat /\ Dist(y, t) \in Nat
  BY DistanceOfBits
<1>8. CASE s[i] < u[i]
  <2>1. Dist(x, t) < Dist(y, t)
    BY <1>4, <1>6, <1>8, IdsAreWords, FirstDigitDecides
  <2>2. QED
    BY <1>7, <2>1
<1>9. CASE u[i] < s[i]
  <2>1. Dist(y, t) < Dist(x, t)
    BY <1>4, <1>6, <1>9, IdsAreWords, FirstDigitDecides
  <2>2. QED
    BY <1>7, <2>1
<1>10. QED
  BY <1>6, <1>8, <1>9

\* The numbers of a block of size p are those with the quotient of its first.
LEMMA InTheBlock ==
  ASSUME NEW p \in Nat \ {0}, NEW lo \in Nat, lo % p = 0, NEW z \in Nat
  PROVE  (lo <= z /\ z <= lo + p - 1) <=> z \div p = lo \div p
<1>1. PICK q \in Nat : q = lo \div p /\ lo = p * q
  BY Multiples, Division
<1>2. PICK d \in Nat, r \in 0..(p - 1) : d = z \div p /\ z = p * d + r
  BY Division
<1>3. ASSUME d = q PROVE lo <= z /\ z <= lo + p - 1
  <2>1. z = lo + r
    BY <1>1, <1>2, <1>3
  <2>2. QED
    BY <2>1
<1>4. ASSUME lo <= z, z <= lo + p - 1 PROVE d = q
  <2>1. PICK s \in 0..(p - 1) : s = z - lo
    BY <1>4
  <2>2. z = lo + s
    BY <2>1
  <2>3. p * d + r = p * q + s
    BY <1>1, <1>2, <2>2, Zenon
  <2>4. QED
    BY <2>3, DivisionIsUnique
<1>5. QED
  BY <1>1, <1>2, <1>3, <1>4

\* Who shares a block with the target is nearer to it than who does not.
LEMMA BlockIsNearer ==
  ASSUME NEW lo \in Id, NEW hi \in Id, IsBlock(lo, hi),
         NEW t \in Id, lo <= t, t <= hi,
         NEW x \in Id, lo <= x, x <= hi,
         NEW y \in Id, ~ (lo <= y /\ y <= hi)
  PROVE  Dist(x, t) < Dist(y, t)
<1>1. PICK k \in 0..IdBits : /\ lo % Power(2, IdBits - k) = 0
                             /\ hi = lo + Power(2, IdBits - k) - 1
  BY DEF IsBlock
<1>2. PICK p \in Nat \ {0} : p = Power(2, IdBits - k)
  <2>1. PICK n \in Nat : n = IdBits - k
    BY IdsAreWords
  <2>2. Power(2, n) \in Nat \ {0}
    BY IdsAreWords, PowersAdd
  <2>3. QED
    BY <2>1, <2>2
<1>3. x \div p = t \div p /\ y \div p # t \div p
  <2>1. lo % p = 0 /\ hi = lo + p - 1
    BY <1>1, <1>2
  <2>2. lo \in Nat /\ x \in Nat /\ y \in Nat /\ t \in Nat
    BY IdsAreWords
  <2>3. x \div p = lo \div p /\ t \div p = lo \div p /\ y \div p # lo \div p
    BY <2>1, <2>2, InTheBlock
  <2>4. QED
    BY <2>3
<1>4. \A j \in 1..k : DigitOf(x, 2, IdBits, j) = DigitOf(t, 2, IdBits, j)
  BY <1>2, <1>3, IdsAreWords, SamePrefix
<1>5. PICK i \in 1..k : /\ DigitOf(y, 2, IdBits, i) # DigitOf(t, 2, IdBits, i)
                        /\ \A j \in 1..(i - 1) :
                             DigitOf(y, 2, IdBits, j) = DigitOf(t, 2, IdBits, j)
  BY <1>2, <1>3, FirstDifference
<1>6. i \in 1..IdBits /\ \A j \in 1..(i - 1) : j \in 1..IdBits /\ j \in 1..k
  BY IdsAreWords
<1>7. PICK s, u : s = Differ(x, t) /\ u = Differ(y, t)
  OBVIOUS
<1>8. s[i] = 0 /\ u[i] = 1 /\ \A j \in 1..(i - 1) : s[j] = u[j]
  BY <1>4, <1>5, <1>6, <1>7, DistanceOfBits
<1>9. /\ AreDigits(s, 2, IdBits) /\ AreDigits(u, 2, IdBits)
      /\ Dist(x, t) = Number(s, 2, IdBits) /\ Dist(y, t) = Number(u, 2, IdBits)
  BY <1>7, DistanceOfBits
<1>10. s[i] < u[i]
  BY <1>8
<1>11. QED
  BY <1>6, <1>8, <1>9, <1>10, IdsAreWords, FirstDigitDecides

-----------------------------------------------------------------------------
(* The walk over the buckets                                               *)
-----------------------------------------------------------------------------
\* What stands in two lists, one after the other.
LEMMA ConcatMembers ==
  ASSUME NEW S, NEW d \in Seq(S), NEW e \in Seq(S)
  PROVE  /\ d \o e \in Seq(S) /\ Len(d \o e) = Len(d) + Len(e)
         /\ ToSet(d \o e) = ToSet(d) \cup ToSet(e)
         /\ \A k \in DOMAIN d : (d \o e)[k] = d[k]
<1>1. /\ d \o e \in Seq(S) /\ Len(d \o e) = Len(d) + Len(e)
      /\ \A i \in 1..(Len(d) + Len(e)) :
           (d \o e)[i] = IF i <= Len(d) THEN d[i] ELSE e[i - Len(d)]
  BY ConcatProperties
<1>2. PICK w \in Seq(S) : w = d \o e
  BY <1>1
<1>3. /\ DOMAIN w = 1..(Len(d) + Len(e)) /\ DOMAIN d = 1..Len(d) /\ DOMAIN e = 1..Len(e)
      /\ Len(d) \in Nat /\ Len(e) \in Nat
  BY <1>1, <1>2
<1>4. \A i \in DOMAIN d : i \in DOMAIN w /\ w[i] = d[i]
  BY <1>1, <1>2, <1>3
<1>5. \A i \in DOMAIN e : Len(d) + i \in DOMAIN w /\ w[Len(d) + i] = e[i]
  BY <1>1, <1>2, <1>3
<1>6. ASSUME NEW i \in DOMAIN w
      PROVE  (\E k \in DOMAIN d : w[i] = d[k]) \/ (\E k \in DOMAIN e : w[i] = e[k])
  <2>1. CASE i \in DOMAIN d
    BY <1>4, <2>1
  <2>2. CASE i \notin DOMAIN d
    <3>1. i - Len(d) \in DOMAIN e /\ w[i] = e[i - Len(d)]
      BY <1>1, <1>2, <1>3, <2>2
    <3>2. QED
      BY <3>1
  <2>3. QED
    BY <2>1, <2>2
<1>7. ToSet(w) = ToSet(d) \cup ToSet(e)
  <2>1. \A x \in ToSet(w) : x \in ToSet(d) \cup ToSet(e)
    BY <1>6 DEF ToSet
  <2>2. \A x \in ToSet(d) \cup ToSet(e) : x \in ToSet(w)
    BY <1>4, <1>5 DEF ToSet
  <2>3. QED
    BY <2>1, <2>2
<1>8. QED
  BY <1>1, <1>2, <1>4, <1>7

\* The peers of the buckets at J that are not excluded.
From(bs, J, exclude) == {p \in UNION {ToSet(bs[j].contacts) : j \in J} : p.id # exclude}

\* The walk has been to the buckets at J: it has met everybody there, once.
Met(bs, J, exclude, seen) ==
  seen \in Seq(Contact) /\ Distinct(seen) /\ ToSet(seen) = From(bs, J, exclude)

\* A list begins with another one.
Begins(s, t) == Len(t) <= Len(s) /\ \A k \in DOMAIN t : s[k] = t[k]

\* Skipping the excluded contact leaves the others, in their order.
LEMMA OthersOfBucket ==
  ASSUME NEW b \in SoundBucket, NEW exclude,
         NEW kept, kept = Keep(b.contacts, Id \ {exclude})
  PROVE  /\ kept \in Seq(Contact) /\ Distinct(kept)
         /\ ToSet(kept) = {p \in ToSet(b.contacts) : p.id # exclude}
         /\ Len(kept) <= Capacity
<1>1. PICK d \in Seq(Contact) : d = b.contacts /\ Distinct(d) /\ Len(d) <= Capacity
  <2>1. SoundLists(b.lo, b.hi, b.contacts, b.replacements)
    BY SoundParts
  <2>2. b.contacts \in Seq(Contact)
    BY DEF SoundBucket, BucketType
  <2>3. QED
    BY <2>1, <2>2 DEF SoundLists
<1> DEFINE R == Id \ {exclude}
<1>0. kept = Keep(d, R)
  BY <1>1
<1>5. \A i \in DOMAIN d : d[i].id \in R <=> d[i].id # exclude
  <2>1. ASSUME NEW i \in DOMAIN d PROVE d[i] \in Contact
    OBVIOUS
  <2>2. QED
    BY <2>1 DEF Contact
<1> HIDE DEF R
<1>2. /\ kept \in Seq({c \in Contact : c.id \in R})
      /\ Len(kept) \in 0..Len(d) /\ Distinct(kept)
  <2>1. /\ Keep(d, R) \in Seq({c \in Contact : c.id \in R})
        /\ Len(Keep(d, R)) \in 0..Len(d) /\ Distinct(Keep(d, R))
    BY <1>1, KeepProperties
  <2>2. QED
    BY <1>0, <2>1
<1>3. kept \in Seq(Contact) /\ Len(kept) <= Capacity
  <2>1. Len(d) \in Nat
    OBVIOUS
  <2>2. QED
    BY <1>1, <1>2, <2>1, Bounds
<1>4. ToSet(kept) = {p \in ToSet(d) : p.id \in R}
  BY <1>0, KeepMembers
<1>6. ToSet(kept) = {p \in ToSet(d) : p.id # exclude}
  BY <1>4, <1>5 DEF ToSet
<1>7. QED
  BY <1>1, <1>2, <1>3, <1>6

\* kad_table_traverse_buckets goes on to a bucket it has not been to, or to no
\* bucket at all.
LEMMA GatherGathers ==
  ASSUME NEW bs \in Seq(SoundBucket), Tiles(bs), NEW exclude,
         NEW J \in SUBSET DOMAIN bs, NEW i, i \notin J,
         NEW seen, Met(bs, J, exclude, seen),
         NEW more, more = Gather(bs, seen, i, exclude)
  PROVE  Met(bs, J \cup ({i} \cap DOMAIN bs), exclude, more) /\ Begins(more, seen)
<1>1. seen \in Seq(Contact) /\ Distinct(seen) /\ ToSet(seen) = From(bs, J, exclude)
  BY DEF Met
<1>2. CASE i \notin DOMAIN bs
  <2>1. more = seen
    BY <1>2 DEF Gather
  <2>2. J \cup ({i} \cap DOMAIN bs) = J
    BY <1>2
  <2>3. Begins(seen, seen)
    <3>1. Len(seen) \in Nat
      BY <1>1
    <3>2. QED
      BY <3>1 DEF Begins
  <2>4. QED
    BY <2>1, <2>2, <2>3, Zenon
<1>3. CASE i \in DOMAIN bs
  <2>1. PICK kept : kept = Keep(bs[i].contacts, Id \ {exclude})
    OBVIOUS
  <2>2. bs[i] \in SoundBucket
    BY <1>3
  <2>3. /\ kept \in Seq(Contact) /\ Distinct(kept)
        /\ ToSet(kept) = {p \in ToSet(bs[i].contacts) : p.id # exclude}
    BY <2>1, <2>2, OthersOfBucket
  <2>4. more = seen \o kept
    BY <1>3, <2>1 DEF Gather
  <2>5. ASSUME NEW x, Has(seen, x), Has(kept, x) PROVE FALSE
    <3>1. PICK p \in ToSet(seen), q \in ToSet(kept) : p.id = x /\ q.id = x
      BY <2>5, HasMembers
    <3>2. p \in LiveBut(bs, i)
      BY <1>1, <3>1 DEF From, LiveBut
    <3>3. ~ InRange(bs[i], p.id)
      BY <1>3, <3>2, OthersAreElsewhere
    <3>4. q \in Spanned(bs[i].lo, bs[i].hi)
      BY <2>2, <2>3, BucketMembers
    <3>5. QED
      BY <3>1, <3>3, <3>4 DEF Spanned, InRange
  <2>6. Distinct(more)
    BY <1>1, <2>3, <2>4, <2>5, ConcatDistinct
  <2>7. /\ more \in Seq(Contact) /\ Len(more) = Len(seen) + Len(kept)
        /\ ToSet(more) = ToSet(seen) \cup ToSet(kept)
        /\ \A k \in DOMAIN seen : more[k] = seen[k]
    BY <1>1, <2>3, <2>4, ConcatMembers
  <2>8. Begins(more, seen)
    <3>1. Len(seen) \in Nat /\ Len(kept) \in Nat
      BY <1>1, <2>3
    <3>2. QED
      BY <2>7, <3>1 DEF Begins
  <2>9. ToSet(more) = From(bs, J \cup {i}, exclude)
    BY <1>1, <2>3, <2>7 DEF From
  <2>10. J \cup ({i} \cap DOMAIN bs) = J \cup {i}
    BY <1>3
  <2>11. QED
    BY <2>6, <2>7, <2>8, <2>9, <2>10 DEF Met
<1>4. QED
  BY <1>2, <1>3

\* What begins with a list that begins with a third begins with that.
LEMMA BeginsTransitively ==
  ASSUME NEW S, NEW s \in Seq(S), NEW t \in Seq(S), NEW u \in Seq(S), Begins(s, t), Begins(t, u)
  PROVE  Begins(s, u)
BY DEF Begins

\* The buckets that are at most o places away.
Within(bs, i, o) == {j \in DOMAIN bs : i - o <= j /\ j <= i + o}

\* kad_table_traverse_buckets, if it is not stopped: it meets every peer that is
\* not excluded, once, and those of the target's own bucket first.
LEMMA VisitedIsAll ==
  ASSUME NEW bs \in Seq(SoundBucket), Tiles(bs), NEW id \in Id, NEW exclude,
         NEW all, all = Visited(bs, id, exclude)
  PROVE  /\ Met(bs, DOMAIN bs, exclude, all)
         /\ Begins(all, Keep(bs[BucketIndexIn(bs, id)].contacts, Id \ {exclude}))
<1> DEFINE bix == BucketIndexIn(bs, id)
           S == Seq(Contact)
           n == Len(bs)
           a == Gather(bs, <<>>, bix, exclude)
           turn(k, x) == Gather(bs, Gather(bs, x, bix - k, exclude), bix + k, exclude)
           Loop(f) == f = [k \in 0..n |-> IF k = 0 THEN a ELSE turn(k, f[k - 1])]
<1>1. n \in Nat /\ DOMAIN bs = 1..n /\ bix \in 1..n
  BY EveryIdHasABucket
<1>2. PICK own : own = Keep(bs[bix].contacts, Id \ {exclude})
  OBVIOUS
<1>3. own \in Seq(Contact)
  <2>1. PICK b \in SoundBucket : b = bs[bix]
    BY <1>1
  <2>2. own = Keep(b.contacts, Id \ {exclude})
    BY <1>2, <2>1
  <2>3. QED
    BY <2>2, OthersOfBucket
<1>4. ASSUME NEW x \in S, NEW i PROVE Gather(bs, x, i, exclude) \in S
  <2>1. CASE i \in DOMAIN bs
    <3>1. PICK kept \in Seq(Contact) : kept = Keep(bs[i].contacts, Id \ {exclude})
      <4>1. PICK b \in SoundBucket : b = bs[i]
        BY <2>1
      <4>2. PICK kept : kept = Keep(b.contacts, Id \ {exclude})
        OBVIOUS
      <4>3. QED
        BY <4>1, <4>2, OthersOfBucket
    <3>2. QED
      BY <1>4, <2>1, <3>1 DEF Gather
  <2>2. CASE i \notin DOMAIN bs
    BY <1>4, <2>2 DEF Gather
  <2>3. QED
    BY <2>1, <2>2
<1>5. <<>> \in S /\ a \in S
  <2>1. <<>> \in S
    OBVIOUS
  <2> HIDE DEF S, bix
  <2>2. QED
    BY <1>4, <2>1
<1>6. \E f : Loop(f) /\ f \in [0..n -> S]
  <2> HIDE DEF S, bix, a, n
  <2>1. PICK g : g = [p \in (1..n) \X S |-> turn(p[1], p[2])]
    OBVIOUS
  <2>2. \A k, x : x \in S => turn(k, x) \in S
    BY <1>4
  <2> HIDE DEF turn
  <2>3. g \in [(1..n) \X S -> S]
    BY <2>1, <2>2
  <2>4. PICK f : IsLoop(f, n, S, a, g)
    BY <1>1, <1>5, <2>3, LoopHasValues
  <2>5. f \in [0..n -> S] /\ f[0] = a /\ \A k \in 1..n : f[k] = g[<<k, f[k - 1]>>]
    BY <2>4 DEF IsLoop
  <2>6. \A k \in 1..n : k - 1 \in 0..n /\ f[k - 1] \in S
    BY <1>1, <2>5
  <2>7. \A k \in 1..n : f[k] = turn(k, f[k - 1])
    BY <2>1, <2>5, <2>6
  <2>8. \A k \in 0..n : f[k] = IF k = 0 THEN a ELSE turn(k, f[k - 1])
    BY <1>1, <2>5, <2>7
  <2>9. QED
    BY <2>5, <2>8
<1>7. PICK f : f = CHOOSE h : Loop(h)
  OBVIOUS
<1>8. Loop(f)
  <2>1. \E h : Loop(h)
    BY <1>6, Zenon
  <2> HIDE DEF Loop
  <2>2. QED
    BY <1>7, <2>1, Zenon
<1>9. all = f[n]
  BY <1>7 DEF Visited
<1>10. f[0] = a /\ \A k \in 1..n : f[k] = turn(k, f[k - 1])
  <2> HIDE DEF turn, a
  <2>1. \A k \in 0..n : f[k] = IF k = 0 THEN a ELSE turn(k, f[k - 1])
    BY <1>8
  <2>2. 0 \in 0..n /\ \A k \in 1..n : k \in 0..n /\ k # 0
    BY <1>1
  <2>3. QED
    BY <2>1, <2>2
<1> DEFINE T == {k \in 0..n : Met(bs, Within(bs, bix, k), exclude, f[k]) /\ Begins(f[k], own)}
<1> HIDE DEF S, Loop, a
<1>11. 0 \in T
  <2>1. Met(bs, {}, exclude, <<>>)
    BY DEF Met, From, Distinct, ToSet
  <2>2. Met(bs, {} \cup ({bix} \cap DOMAIN bs), exclude, a)
    BY <2>1, GatherGathers DEF a
  <2>3. {} \cup ({bix} \cap DOMAIN bs) = Within(bs, bix, 0)
    BY <1>1 DEF Within
  <2>4. a = <<>> \o own
    BY <1>1, <1>2 DEF a, Gather
  <2>5. a = own
    BY <1>3, <2>4
  <2>6. Begins(a, own)
    BY <1>3, <2>5 DEF Begins
  <2>7. Met(bs, Within(bs, bix, 0), exclude, f[0]) /\ Begins(f[0], own)
    BY <1>10, <2>2, <2>3, <2>6, Zenon
  <2>8. 0 \in 0..n
    BY <1>1
  <2>9. QED
    BY <2>7, <2>8
<1>12. ASSUME NEW k \in 0..(n - 1), k \in T PROVE k + 1 \in T
  <2>1. PICK l : l = k + 1
    OBVIOUS
  <2>2. l \in 1..n /\ l - 1 = k /\ l \in 0..n /\ k \in Nat
    BY <1>1, <2>1
  <2>3. PICK x, y, z : x = f[k] /\ y = Gather(bs, x, bix - l, exclude) /\ z = Gather(bs, y, bix + l, exclude)
    OBVIOUS
  <2>4. f[l] = z
    BY <1>10, <2>2, <2>3
  <2>5. Met(bs, Within(bs, bix, k), exclude, x) /\ Begins(x, own)
    BY <1>12, <2>3
  <2>6. PICK i, j, J : i = bix - l /\ j = bix + l /\ J = Within(bs, bix, k)
    OBVIOUS
  <2>7. J \in SUBSET DOMAIN bs /\ i \notin J
    BY <1>1, <2>1, <2>2, <2>6 DEF Within
  <2>8. PICK K : K = J \cup ({i} \cap DOMAIN bs)
    OBVIOUS
  <2>9. Met(bs, K, exclude, y) /\ Begins(y, x)
    BY <2>3, <2>5, <2>6, <2>7, <2>8, GatherGathers
  <2>10. K \in SUBSET DOMAIN bs /\ j \notin K
    BY <1>1, <2>1, <2>2, <2>6, <2>8 DEF Within
  <2>11. Met(bs, K \cup ({j} \cap DOMAIN bs), exclude, z) /\ Begins(z, y)
    BY <2>3, <2>6, <2>9, <2>10, GatherGathers
  <2>12. K \cup ({j} \cap DOMAIN bs) = Within(bs, bix, l)
    <3>1. ASSUME NEW m \in DOMAIN bs
          PROVE  (m \in J \/ m = i \/ m = j) <=> (bix - l <= m /\ m <= bix + l)
      BY <1>1, <2>1, <2>2, <2>6 DEF Within
    <3>2. QED
      BY <2>7, <2>8, <3>1 DEF Within
  <2>13. Begins(z, own)
    <3>1. x \in Seq(Contact) /\ y \in Seq(Contact) /\ z \in Seq(Contact)
      BY <2>5, <2>9, <2>11 DEF Met
    <3>2. QED
      BY <1>3, <2>5, <2>9, <2>11, <3>1, BeginsTransitively
  <2>14. QED
    BY <2>1, <2>2, <2>4, <2>11, <2>12, <2>13
<1>13. n \in T
  <2> HIDE DEF T
  <2>1. \A k \in 0..n : k \in T
    BY <1>1, <1>11, <1>12, CountingUp
  <2>2. QED
    BY <1>1, <2>1
<1>14. Within(bs, bix, n) = DOMAIN bs
  BY <1>1 DEF Within
<1>15. QED
  BY <1>2, <1>9, <1>13, <1>14

-----------------------------------------------------------------------------
(* The order of the answer                                                 *)
-----------------------------------------------------------------------------
\* Peers of which no two have the same identifier, as the table has them.
ArePeers(P) == P \subseteq Contact /\ IsFiniteSet(P) /\ \A p, q \in P : p.id = q.id => p = q

\* How many of the peers of P are nearer to id than p.
Rank(p, P, id) == Cardinality({q \in P : Dist(q.id, id) < Dist(p.id, id)})

\* Peers can be told apart, and counted, by their distances.
LEMMA PeersAreDistances ==
  ASSUME NEW P, ArePeers(P), NEW id \in Id,
         NEW D, D = {Dist(p.id, id) : p \in P}
  PROVE  /\ D \in SUBSET Nat /\ IsFiniteSet(D) /\ Cardinality(D) = Cardinality(P)
         /\ \A p \in P : /\ Dist(p.id, id) \in D
                         /\ Rank(p, P, id) = Cardinality({e \in D : e < Dist(p.id, id)})
         /\ \A p, q \in P : Dist(p.id, id) = Dist(q.id, id) => p = q
<1>1. \A p \in P : p.id \in Id /\ Dist(p.id, id) \in Nat
  BY DistanceOfBits DEF ArePeers, Contact
<1>2. \A p, q \in P : Dist(p.id, id) = Dist(q.id, id) => p = q
  BY <1>1, DistancesDiffer DEF ArePeers
<1>3. D \in SUBSET Nat
  BY <1>1
<1>4. ASSUME NEW T
      PROVE  /\ IsFiniteSet({e \in D : e \in T})
             /\ Cardinality({e \in D : e \in T}) = Cardinality({q \in P : Dist(q.id, id) \in T})
  <2> DEFINE Q == {q \in P : Dist(q.id, id) \in T}
             E == {e \in D : e \in T}
             f == [q \in Q |-> Dist(q.id, id)]
  <2>1. IsFiniteSet(Q)
    <3>1. Q \in SUBSET P
      OBVIOUS
    <3> HIDE DEF Q
    <3>2. QED
      BY <3>1, FS_Subset DEF ArePeers
  <2>2. f \in Surjection(Q, E)
    BY DEF Surjection
  <2>3. f \in Injection(Q, E)
    BY <1>2 DEF Injection, IsInjective
  <2> HIDE DEF Q, E, f
  <2>4. IsFiniteSet(E) /\ Cardinality(E) = Cardinality(Q)
    BY <2>1, <2>2, <2>3, FS_Surjection
  <2>5. QED
    BY <2>4 DEF Q, E
<1>5. IsFiniteSet(D) /\ Cardinality(D) = Cardinality(P)
  <2>1. {e \in D : e \in Nat} = D
    BY <1>3
  <2>2. {q \in P : Dist(q.id, id) \in Nat} = P
    BY <1>1
  <2>3. QED
    BY <1>4, <2>1, <2>2
<1>6. ASSUME NEW p \in P
      PROVE  Rank(p, P, id) = Cardinality({e \in D : e < Dist(p.id, id)})
  <2>1. PICK T : T = {e \in Nat : e < Dist(p.id, id)}
    OBVIOUS
  <2>2. {e \in D : e \in T} = {e \in D : e < Dist(p.id, id)}
    BY <1>3, <2>1
  <2>3. {q \in P : Dist(q.id, id) \in T} = {q \in P : Dist(q.id, id) < Dist(p.id, id)}
    BY <1>1, <2>1
  <2>4. QED
    BY <1>4, <2>2, <2>3 DEF Rank
<1>7. QED
  BY <1>2, <1>3, <1>5, <1>6

\* The order that kad_table_find_closest_inner keeps its array in: everybody has
\* a place, the one with as many before it as are nearer.
LEMMA ByDistanceProperties ==
  ASSUME NEW P, ArePeers(P), NEW id \in Id,
         NEW answer, answer = ByDistance(P, id)
  PROVE  /\ answer \in Seq(P) /\ Len(answer) = Cardinality(P) /\ Cardinality(P) \in Nat
         /\ ToSet(answer) = P
         /\ \A i, j \in DOMAIN answer : i < j => Dist(answer[i].id, id) < Dist(answer[j].id, id)
         /\ \A k \in DOMAIN answer : Rank(answer[k], P, id) = k - 1
<1>1. PICK D : D = {Dist(p.id, id) : p \in P}
  OBVIOUS
<1>2. /\ D \in SUBSET Nat /\ IsFiniteSet(D) /\ Cardinality(D) = Cardinality(P)
      /\ \A p \in P : /\ Dist(p.id, id) \in D
                      /\ Rank(p, P, id) = Cardinality({e \in D : e < Dist(p.id, id)})
      /\ \A p, q \in P : Dist(p.id, id) = Dist(q.id, id) => p = q
  BY <1>1, PeersAreDistances
<1>3. PICK N \in Nat : N = Cardinality(P)
  BY FS_CardinalityType DEF ArePeers
<1>4. PICK s : s = InOrder(D)
  OBVIOUS
<1>5. /\ s \in Seq(D) /\ Len(s) = N /\ DOMAIN s = 1..N
      /\ ToSet(s) = D
      /\ \A i, j \in DOMAIN s : i < j => s[i] < s[j]
      /\ \A k \in DOMAIN s : Cardinality({e \in D : e < s[k]}) = k - 1
  <2>1. /\ s \in Seq(D) /\ Len(s) = Cardinality(D)
        /\ ToSet(s) = D
        /\ \A i, j \in DOMAIN s : i < j => s[i] < s[j]
        /\ \A k \in DOMAIN s : Cardinality({e \in D : e < s[k]}) = k - 1
    BY <1>2, <1>4, InOrderProperties
  <2>2. DOMAIN s = 1..N
    BY <1>2, <1>3, <2>1
  <2>3. QED
    BY <1>2, <1>3, <2>1, <2>2
<1>6. ASSUME NEW k \in 1..N
      PROVE  \E p \in P : Rank(p, P, id) = k - 1
  <2>1. s[k] \in D
    BY <1>5
  <2>2. PICK p \in P : s[k] = Dist(p.id, id)
    BY <1>1, <2>1
  <2>3. Rank(p, P, id) = Cardinality({e \in D : e < s[k]})
    BY <1>2, <2>2
  <2>4. Cardinality({e \in D : e < s[k]}) = k - 1
    BY <1>5
  <2>5. QED
    BY <2>3, <2>4
<1>7. answer = [k \in 1..N |-> CHOOSE p \in P : Rank(p, P, id) = k - 1]
  BY <1>3 DEF ByDistance, Rank
<1>8. \A k \in 1..N : answer[k] \in P /\ Rank(answer[k], P, id) = k - 1
  BY <1>6, <1>7
<1>9. answer \in Seq(P) /\ Len(answer) = N /\ DOMAIN answer = 1..N
  BY <1>7, <1>8
<1>10. ASSUME NEW p \in P, NEW k \in 1..N, Rank(p, P, id) = k - 1
       PROVE  Dist(p.id, id) = s[k]
  <2>1. PICK j \in 1..N : s[j] = Dist(p.id, id)
    BY <1>2, <1>5 DEF ToSet
  <2>2. Cardinality({e \in D : e < s[j]}) = j - 1
    BY <1>5
  <2>3. j - 1 = k - 1
    BY <1>2, <1>10, <2>1, <2>2
  <2>4. j = k
    BY <2>3
  <2>5. QED
    BY <2>1, <2>4
<1>11. \A k \in 1..N : Dist(answer[k].id, id) = s[k]
  BY <1>8, <1>10
<1>12. \A i, j \in 1..N : i < j => Dist(answer[i].id, id) < Dist(answer[j].id, id)
  BY <1>5, <1>11
<1>13. ASSUME NEW p \in P PROVE \E k \in 1..N : answer[k] = p
  <2>1. PICK k \in 1..N : s[k] = Dist(p.id, id)
    BY <1>2, <1>5 DEF ToSet
  <2>2. QED
    BY <1>2, <1>8, <1>11, <2>1
<1>14. ToSet(answer) = P
  BY <1>8, <1>9, <1>13 DEF ToSet
<1>15. QED
  BY <1>3, <1>8, <1>9, <1>12, <1>14

\* Peers that are all nearer than the rest are the nearest ones, and first in the
\* answer.
LEMMA NearerComeFirst ==
  ASSUME NEW P, ArePeers(P), NEW id \in Id, NEW own \in SUBSET P,
         \A p \in own, q \in P \ own : Dist(p.id, id) < Dist(q.id, id)
  PROVE  /\ NearestTo(id, P, Cardinality(own)) = own
         /\ ToSet(SubSeq(ByDistance(P, id), 1, Cardinality(own))) = own
<1>1. /\ IsFiniteSet(P) /\ Cardinality(P) \in Nat
      /\ IsFiniteSet(own) /\ Cardinality(own) \in Nat /\ Cardinality(own) <= Cardinality(P)
  BY FS_Subset, FS_CardinalityType DEF ArePeers
<1>2. PICK n \in Nat : n = Cardinality(own)
  BY <1>1
<1>3. \A p \in P : Dist(p.id, id) \in Nat
  BY DistanceOfBits DEF ArePeers, Contact
<1>4. ASSUME NEW p \in P
      PROVE  p \in own <=> Rank(p, P, id) < n
  <2>1. PICK Q : Q = {q \in P : Dist(q.id, id) < Dist(p.id, id)}
    OBVIOUS
  <2>2. Q \in SUBSET P /\ p \notin Q
    BY <1>3, <2>1
  <2>3. IsFiniteSet(Q) /\ Cardinality(Q) \in Nat
    BY <1>1, <2>2, FS_Subset, FS_CardinalityType
  <2>4. CASE p \in own
    <3>1. \A q \in Q : q \in own
      <4>1. SUFFICES ASSUME NEW q \in Q, q \notin own PROVE FALSE
        OBVIOUS
      <4>2. q \in P /\ Dist(q.id, id) < Dist(p.id, id) /\ Dist(p.id, id) < Dist(q.id, id)
        BY <2>1, <2>4, <4>1
      <4>3. QED
        BY <1>3, <4>2
    <3>2. Q \in SUBSET own /\ Q # own
      BY <2>2, <2>4, <3>1
    <3>3. Cardinality(Q) <= n /\ Cardinality(Q) # n
      BY <1>1, <1>2, <3>2, FS_Subset
    <3>4. QED
      BY <2>1, <2>3, <2>4, <3>3 DEF Rank
  <2>5. CASE p \notin own
    <3>1. own \in SUBSET Q
      BY <2>1, <2>5
    <3>2. n <= Cardinality(Q)
      BY <1>2, <2>3, <3>1, FS_Subset
    <3>3. QED
      BY <2>1, <2>3, <2>5, <3>2 DEF Rank
  <2>6. QED
    BY <2>4, <2>5
<1>5. NearestTo(id, P, n) = own
  BY <1>4 DEF NearestTo, Rank
<1>6. PICK answer : answer = ByDistance(P, id)
  OBVIOUS
<1>7. PICK N \in Nat : N = Cardinality(P) /\ n <= N
  BY <1>1, <1>2
<1>8. /\ answer \in Seq(P) /\ Len(answer) = N
      /\ ToSet(answer) = P
      /\ \A k \in DOMAIN answer : Rank(answer[k], P, id) = k - 1
  BY <1>6, <1>7, ByDistanceProperties
<1>9. DOMAIN answer = 1..N
  BY <1>7, <1>8
<1>10. PICK front : front = SubSeq(answer, 1, n)
  OBVIOUS
<1>11. DOMAIN front = 1..n /\ \A k \in 1..n : front[k] = answer[k] /\ k \in 1..N
  BY <1>7, <1>8, <1>10
<1>12. \A k \in 1..N : answer[k] \in P /\ (answer[k] \in own <=> k - 1 < n)
  BY <1>4, <1>8, <1>9
<1>13. \A k \in 1..n : front[k] \in own
  BY <1>11, <1>12
<1>14. ASSUME NEW p \in own PROVE \E k \in 1..n : front[k] = p
  <2>1. PICK k \in 1..N : answer[k] = p
    BY <1>8, <1>9 DEF ToSet
  <2>2. k - 1 < n
    BY <1>12, <2>1
  <2>3. k \in 1..n
    BY <2>2
  <2>4. QED
    BY <1>11, <2>1, <2>3
<1>15. ToSet(front) = own
  BY <1>11, <1>13, <1>14 DEF ToSet
<1>16. QED
  BY <1>2, <1>5, <1>6, <1>10, <1>15

\* kad_table_find_closest takes the first Capacity that it meets.
FirstMet(all) == IF Len(all) <= Capacity THEN all ELSE SubSeq(all, 1, Capacity)

\* Those are as many as there are places, or all.
LEMMA TakenProperties ==
  ASSUME NEW all \in Seq(Contact), Distinct(all), NEW own \in Seq(Contact),
         Begins(all, own), Len(own) <= Capacity,
         NEW taken, taken = ToSet(FirstMet(all))
  PROVE  /\ ArePeers(ToSet(all)) /\ ArePeers(taken)
         /\ taken \subseteq ToSet(all) /\ ToSet(own) \subseteq taken
         /\ Cardinality(taken) = MinOf(Capacity, Cardinality(ToSet(all)))
<1>1. PICK n \in Nat : n = Len(all) /\ DOMAIN all = 1..n
  OBVIOUS
<1>2. PICK m \in Nat : m = IF n <= Capacity THEN n ELSE Capacity
  BY Bounds
<1>3. PICK s : s = FirstMet(all)
  OBVIOUS
<1>4. /\ m <= n /\ s \in Seq(Contact) /\ Len(s) = m
      /\ DOMAIN s = 1..m /\ \A k \in 1..m : s[k] = all[k]
  <2>1. CASE n <= Capacity
    BY <1>1, <1>2, <1>3, <2>1 DEF FirstMet
  <2>2. CASE ~ (n <= Capacity)
    <3>1. m = Capacity /\ m <= n /\ s = SubSeq(all, 1, m)
      BY <1>1, <1>2, <1>3, <2>2, Bounds DEF FirstMet
    <3>2. QED
      BY <1>1, <3>1
  <2>3. QED
    BY <2>1, <2>2
<1>5. ASSUME NEW t \in Seq(Contact), Distinct(t)
      PROVE  ArePeers(ToSet(t)) /\ Cardinality(ToSet(t)) = Len(t)
  <2>1. IsInjective(t) /\ \A p, q \in ToSet(t) : p.id = q.id => p = q
    BY <1>5, DistinctIsInjective
  <2>2. ToSet(t) \subseteq Contact
    BY DEF ToSet
  <2>3. PICK l \in Nat : l = Len(t) /\ DOMAIN t = 1..l
    OBVIOUS
  <2>4. IsFiniteSet(1..l) /\ Cardinality(1..l) = l
    <3>1. IsFiniteSet(1..l) /\ Cardinality(1..l) = IF 1 > l THEN 0 ELSE l - 1 + 1
      BY FS_Interval
    <3>2. QED
      BY <3>1
  <2>5. t \in Surjection(1..l, ToSet(t)) /\ t \in Injection(1..l, ToSet(t))
    BY <2>1, <2>3 DEF Surjection, Injection, ToSet
  <2>6. IsFiniteSet(ToSet(t)) /\ Cardinality(ToSet(t)) = l
    BY <2>4, <2>5, FS_Surjection
  <2>7. QED
    BY <2>1, <2>2, <2>3, <2>6 DEF ArePeers
<1>6. Distinct(s)
  BY <1>1, <1>4 DEF Distinct
<1>7. ArePeers(ToSet(all)) /\ Cardinality(ToSet(all)) = n
  BY <1>1, <1>5
<1>8. ArePeers(taken) /\ Cardinality(taken) = m
  BY <1>3, <1>4, <1>5, <1>6
<1>9. taken \subseteq ToSet(all)
  BY <1>1, <1>3, <1>4 DEF ToSet
<1>10. ToSet(own) \subseteq taken
  <2>1. DOMAIN own = 1..Len(own) /\ Len(own) \in Nat
    OBVIOUS
  <2>2. Len(own) <= n /\ \A k \in DOMAIN own : own[k] = all[k]
    BY <1>1 DEF Begins
  <2>3. \A k \in DOMAIN own : k \in 1..m
    BY <1>1, <1>2, <2>1, <2>2, Bounds
  <2>4. \A k \in DOMAIN own : k \in DOMAIN s /\ s[k] = own[k]
    BY <1>4, <2>2, <2>3
  <2>5. QED
    BY <1>3, <2>4 DEF ToSet
<1>11. m = MinOf(Capacity, n)
  BY <1>2, Bounds DEF MinOf
<1>12. QED
  BY <1>7, <1>8, <1>9, <1>10, <1>11

-----------------------------------------------------------------------------
(* The answer                                                              *)
-----------------------------------------------------------------------------
\* The live peers that are not excluded.
OthersIn(bs, exclude) == {p \in Live(bs) : p.id # exclude}

\* kad_table_find_closest: how the answer comes about.
LEMMA AnswerOfTable ==
  ASSUME NEW bs \in Seq(SoundBucket), Tiles(bs), NEW id \in Id, NEW exclude,
         NEW answer, answer = ClosestIn(bs, id, exclude),
         NEW own, own = {p \in ToSet(bs[BucketIndexIn(bs, id)].contacts) : p.id # exclude}
  PROVE  \E taken : /\ answer = ByDistance(taken, id)
                    /\ ArePeers(OthersIn(bs, exclude)) /\ ArePeers(taken)
                    /\ taken \subseteq OthersIn(bs, exclude) /\ own \subseteq taken
                    /\ Cardinality(taken) = MinOf(Capacity, Cardinality(OthersIn(bs, exclude)))
<1>1. PICK all : all = Visited(bs, id, exclude)
  OBVIOUS
<1>2. PICK b \in SoundBucket : b = bs[BucketIndexIn(bs, id)]
  BY EveryIdHasABucket
<1>3. PICK kept : kept = Keep(b.contacts, Id \ {exclude})
  OBVIOUS
<1>4. Met(bs, DOMAIN bs, exclude, all) /\ Begins(all, kept)
  BY <1>1, <1>2, <1>3, VisitedIsAll
<1>5. kept \in Seq(Contact) /\ ToSet(kept) = own /\ Len(kept) <= Capacity
  <2>1. /\ kept \in Seq(Contact) /\ Len(kept) <= Capacity
        /\ ToSet(kept) = {p \in ToSet(b.contacts) : p.id # exclude}
    BY <1>3, OthersOfBucket
  <2>2. QED
    BY <1>2, <2>1
<1>6. all \in Seq(Contact) /\ Distinct(all) /\ ToSet(all) = OthersIn(bs, exclude)
  BY <1>4 DEF Met, From, OthersIn, Live
<1>7. PICK taken : taken = ToSet(FirstMet(all))
  OBVIOUS
<1>8. /\ ArePeers(ToSet(all)) /\ ArePeers(taken)
      /\ taken \subseteq ToSet(all) /\ ToSet(kept) \subseteq taken
      /\ Cardinality(taken) = MinOf(Capacity, Cardinality(ToSet(all)))
  BY <1>4, <1>5, <1>6, <1>7, TakenProperties
<1>9. answer = ByDistance(taken, id)
  BY <1>1, <1>7 DEF ClosestIn, FirstMet
<1>10. QED
  BY <1>5, <1>6, <1>8, <1>9

\* The live peers of the own bucket are nearer than all others.
LEMMA OwnAreNearer ==
  ASSUME NEW bs \in Seq(SoundBucket), Tiles(bs), NEW id \in Id, NEW exclude,
         NEW own, own = {p \in ToSet(bs[BucketIndexIn(bs, id)].contacts) : p.id # exclude},
         NEW p \in own, NEW q \in OthersIn(bs, exclude) \ own
  PROVE  Dist(p.id, id) < Dist(q.id, id)
<1>1. PICK i \in DOMAIN bs : i = BucketIndexIn(bs, id) /\ InRange(bs[i], id)
  BY EveryIdHasABucket
<1>2. PICK b \in SoundBucket : b = bs[i]
  OBVIOUS
<1>3. b.lo \in Id /\ b.hi \in Id /\ IsBlock(b.lo, b.hi) /\ b.lo <= id /\ id <= b.hi
  BY <1>1, <1>2, SoundParts DEF InRange
<1>4. p \in Spanned(b.lo, b.hi)
  BY <1>1, <1>2, BucketMembers
<1>5. p.id \in Id /\ b.lo <= p.id /\ p.id <= b.hi
  BY <1>4 DEF Spanned, Contact
<1>6. q \in Live(bs) /\ q \notin ToSet(bs[i].contacts)
  BY <1>1 DEF OthersIn
<1>7. q \in LiveBut(bs, i)
  BY <1>6, OthersAreElsewhere
<1>8. ~ (b.lo <= q.id /\ q.id <= b.hi)
  BY <1>2, <1>7, OthersAreElsewhere DEF InRange
<1>9. q.id \in Id
  <2>1. PICK j \in DOMAIN bs : q \in ToSet(bs[j].contacts)
    BY <1>6 DEF Live
  <2>2. PICK c \in SoundBucket : c = bs[j]
    OBVIOUS
  <2>3. QED
    BY <2>1, <2>2, BucketMembers DEF Spanned, Contact
<1>10. QED
  BY <1>3, <1>5, <1>8, <1>9, BlockIsNearer

\* What the answer of kad_table_find_closest is like.
LEMMA AnswerProperties ==
  ASSUME NEW bs \in Seq(SoundBucket), Tiles(bs), NEW id \in Id, NEW exclude,
         NEW answer, answer = ClosestIn(bs, id, exclude)
  PROVE  /\ answer \in Seq(Contact)
         /\ ToSet(answer) \subseteq OthersIn(bs, exclude)
         /\ Cardinality(ToSet(answer)) = Len(answer)
         /\ Len(answer) = MinOf(Capacity, Cardinality(OthersIn(bs, exclude)))
         /\ \A i, j \in DOMAIN answer : i < j => Dist(answer[i].id, id) < Dist(answer[j].id, id)
         /\ ArePeers(ToSet(answer))
<1>1. PICK taken : /\ answer = ByDistance(taken, id)
                   /\ ArePeers(OthersIn(bs, exclude)) /\ ArePeers(taken)
                   /\ taken \subseteq OthersIn(bs, exclude)
                   /\ Cardinality(taken) = MinOf(Capacity, Cardinality(OthersIn(bs, exclude)))
  <2>1. PICK own : own = {p \in ToSet(bs[BucketIndexIn(bs, id)].contacts) : p.id # exclude}
    OBVIOUS
  <2>2. QED
    BY <2>1, AnswerOfTable
<1>2. /\ answer \in Seq(taken) /\ Len(answer) = Cardinality(taken)
      /\ ToSet(answer) = taken
      /\ \A i, j \in DOMAIN answer : i < j => Dist(answer[i].id, id) < Dist(answer[j].id, id)
  BY <1>1, ByDistanceProperties
<1>3. answer \in Seq(Contact)
  BY <1>1, <1>2 DEF ArePeers
<1>4. QED
  BY <1>1, <1>2, <1>3

\* The table is sound: the answer of kad_table_find_closest is complete.
LEMMA AnswerIsCompleteIfSound == IInv => AnswerIsComplete
<1> SUFFICES ASSUME IInv, NEW id \in Id, NEW exclude \in Excludable,
                    NEW answer, answer = Closest(id, exclude)
             PROVE  /\ ToSet(answer) \subseteq Eligible(exclude)
                    /\ Cardinality(ToSet(answer)) = Len(answer)
                    /\ Len(answer) = MinOf(Capacity, Cardinality(Eligible(exclude)))
                    /\ \A k \in 1..(Len(answer) - 1) :
                         Dist(answer[k].id, id) < Dist(answer[k + 1].id, id)
  BY DEF AnswerIsComplete
<1>1. buckets \in Seq(SoundBucket) /\ Tiles(buckets)
  BY DEF IInv
<1>2. Eligible(exclude) = OthersIn(buckets, exclude)
  BY PeersOfTable DEF Eligible, OthersIn
<1>3. /\ answer \in Seq(Contact)
      /\ ToSet(answer) \subseteq OthersIn(buckets, exclude)
      /\ Cardinality(ToSet(answer)) = Len(answer)
      /\ Len(answer) = MinOf(Capacity, Cardinality(OthersIn(buckets, exclude)))
      /\ \A i, j \in DOMAIN answer : i < j => Dist(answer[i].id, id) < Dist(answer[j].id, id)
  BY <1>1, AnswerProperties DEF Closest
<1>4. \A k \in 1..(Len(answer) - 1) : k \in DOMAIN answer /\ k + 1 \in DOMAIN answer /\ k < k + 1
  BY <1>3
<1>5. QED
  BY <1>2, <1>3, <1>4

\* The table is sound: no peer outside the target's own bucket is nearer than
\* those in it, and these come first in the answer.
LEMMA OwnIsNearestIfSound == IInv => OwnBucketIsNearest
<1> SUFFICES ASSUME IInv, NEW id \in Id, NEW exclude \in Excludable,
                    NEW answer, answer = Closest(id, exclude),
                    NEW own, own = {c \in ToSet(buckets[BucketIndex(id)].contacts) : c.id # exclude}
             PROVE  /\ ToSet(SubSeq(answer, 1, Cardinality(own))) = own
                    /\ own = NearestTo(id, Eligible(exclude), Cardinality(own))
  BY DEF OwnBucketIsNearest
<1>1. buckets \in Seq(SoundBucket) /\ Tiles(buckets)
  BY DEF IInv
<1>2. Eligible(exclude) = OthersIn(buckets, exclude)
  BY PeersOfTable DEF Eligible, OthersIn
<1>3. own = {c \in ToSet(buckets[BucketIndexIn(buckets, id)].contacts) : c.id # exclude}
  BY DEF BucketIndex
<1>4. PICK taken : /\ answer = ByDistance(taken, id)
                   /\ ArePeers(OthersIn(buckets, exclude)) /\ ArePeers(taken)
                   /\ taken \subseteq OthersIn(buckets, exclude) /\ own \subseteq taken
  BY <1>1, <1>3, AnswerOfTable DEF Closest
<1>5. \A p \in own, q \in OthersIn(buckets, exclude) \ own : Dist(p.id, id) < Dist(q.id, id)
  BY <1>1, <1>3, OwnAreNearer
<1>6. own \in SUBSET taken /\ \A p \in own, q \in taken \ own : Dist(p.id, id) < Dist(q.id, id)
  BY <1>4, <1>5
<1>7. ToSet(SubSeq(answer, 1, Cardinality(own))) = own
  BY <1>4, <1>6, NearerComeFirst
<1>8. own \in SUBSET OthersIn(buckets, exclude)
  BY <1>4
<1>9. NearestTo(id, OthersIn(buckets, exclude), Cardinality(own)) = own
  BY <1>4, <1>5, <1>8, NearerComeFirst
<1>10. QED
  BY <1>2, <1>7, <1>9

-----------------------------------------------------------------------------
(* Identifiers as text                                                     *)
-----------------------------------------------------------------------------
\* The sizes of identifiers, words and digits.
LEMMA Sizes ==
  /\ Limbs \in Nat \ {0} /\ Digits \in Nat \ {0} /\ Base \in Nat \ {0}
  /\ Limbs * Digits \in Nat
  /\ WordSize \in Nat \ {0} /\ WordSize = Power(Base, Digits)
  /\ Id = 0..(Power(WordSize, Limbs) - 1)
  /\ WordBits \in Nat /\ WordSize = Power(2, WordBits)
<1>1. Limbs \in Nat \ {0} /\ Digits \in Nat \ {0} /\ Base \in Nat \ {0}
  BY PayloadAssumption
<1>2. WordSize \in Nat \ {0} /\ WordSize = Power(Base, Digits)
  BY <1>1, PowersAdd DEF WordSize
<1>3. PICK p \in Nat \ {0} : p = Power(WordSize, Limbs) /\ MaxId + 1 = p
  BY <1>1, <1>2, PowersAdd, IdsAssumption
<1>4. Id = 0..(Power(WordSize, Limbs) - 1)
  BY <1>3, IdAssumption DEF Id
<1>5. WordBits \in Nat
  BY <1>1, IdAssumption, Division DEF WordBits
<1>6. Limbs * Digits \in Nat
  BY <1>1
<1>7. QED
  BY <1>1, <1>2, <1>4, <1>5, <1>6, WordAssumption

\* A word is as large as its digits allow.
LEMMA WordsAreDigits ==
  ASSUME NEW id \in Id
  PROVE  /\ \A i \in 1..Limbs : /\ WordOf(id, i) \in Nat
                                /\ WordOf(id, i) \in 0..(WordSize - 1)
         /\ \A i \in 1..Limbs, j \in 1..Digits : Digit(WordOf(id, i), j) \in Nat
<1>1. id \in Nat
  BY IdsAreWords
<1>2. ASSUME NEW i \in 1..Limbs PROVE WordOf(id, i) \in 0..(WordSize - 1)
  <2>1. DigitOf(id, WordSize, Limbs, i) \in 0..(WordSize - 1)
    BY <1>1, Sizes, DigitSteps
  <2>2. QED
    BY <2>1 DEF WordOf
<1>3. \A i \in 1..Limbs : WordOf(id, i) \in Nat
  BY <1>2, Sizes
<1>4. ASSUME NEW w \in Nat, NEW j \in 1..Digits PROVE Digit(w, j) \in Nat
  <2>1. DigitOf(w, Base, Digits, j) \in 0..(Base - 1)
    BY Sizes, DigitSteps
  <2>2. QED
    BY <2>1, Sizes DEF Digit
<1>5. QED
  BY <1>2, <1>3, <1>4

\* The place of the j-th digit of the i-th word.
LEMMA PlaceOfDigit ==
  ASSUME NEW i \in 1..Limbs, NEW j \in 1..Digits, NEW k, k = (i - 1) * Digits + j
  PROVE  /\ k \in 1..(Limbs * Digits)
         /\ ((k - 1) \div Digits) + 1 = i /\ ((k - 1) % Digits) + 1 = j
<1>1. PICK q \in Nat, r \in 0..(Digits - 1) : q = i - 1 /\ r = j - 1
  BY Sizes
<1>2. q * Digits \in Nat /\ q * Digits = Digits * q
  BY Sizes
<1>3. k = q * Digits + r + 1
  BY <1>1, <1>2
<1>4. q * Digits + Digits <= Limbs * Digits
  <2>1. q + 1 <= Limbs /\ Limbs \in Nat /\ Digits \in Nat
    BY <1>1, Sizes
  <2>2. (q + 1) * Digits <= Limbs * Digits
    BY <2>1
  <2>3. (q + 1) * Digits = q * Digits + Digits
    BY <2>1
  <2>4. QED
    BY <2>2, <2>3
<1>5. k \in 1..(Limbs * Digits)
  <2>1. Limbs * Digits \in Nat /\ Digits \in Nat
    BY Sizes
  <2>2. QED
    BY <1>2, <1>3, <1>4, <2>1
<1>6. PICK x \in Nat : x = k - 1 /\ x = Digits * q + r
  BY <1>2, <1>3
<1>7. PICK d \in Nat, e \in 0..(Digits - 1) : d = x \div Digits /\ e = x % Digits /\ x = Digits * d + e
  <2>1. /\ x \div Digits \in Nat /\ x % Digits \in 0..(Digits - 1)
        /\ x = Digits * (x \div Digits) + (x % Digits)
    BY Sizes, Division
  <2>2. QED
    BY <2>1
<1>8. d = q /\ e = r
  BY <1>6, <1>7, Sizes, DivisionIsUnique
<1>9. QED
  BY <1>1, <1>5, <1>6, <1>7, <1>8

\* kad_id_serialize: what is written, and where.
LEMMA SerializedText ==
  ASSUME NEW id \in Id
  PROVE  /\ Serialize(id) \in Seq(Nat)
         /\ Len(Serialize(id)) = 2 + Limbs * Digits
         /\ \A i \in 1..Limbs, j \in 1..Digits :
              /\ 2 + (i - 1) * Digits + j \in 1..(2 + Limbs * Digits)
              /\ Serialize(id)[2 + (i - 1) * Digits + j] = Digit(WordOf(id, i), j)
<1>1. PICK M \in Nat : M = Limbs * Digits
  BY Sizes
<1>2. PICK body : body = [k \in 1..M |->
                            Digit(WordOf(id, ((k - 1) \div Digits) + 1), ((k - 1) % Digits) + 1)]
  OBVIOUS
<1>3. ASSUME NEW k \in 1..M
      PROVE  ((k - 1) \div Digits) + 1 \in 1..Limbs /\ ((k - 1) % Digits) + 1 \in 1..Digits
  <2>1. PICK x \in Nat : x = k - 1
    OBVIOUS
  <2>2. PICK d \in Nat, e \in 0..(Digits - 1) : d = x \div Digits /\ e = x % Digits /\ x = Digits * d + e
    <3>1. /\ x \div Digits \in Nat /\ x % Digits \in 0..(Digits - 1)
          /\ x = Digits * (x \div Digits) + (x % Digits)
      BY Sizes, Division
    <3>2. QED
      BY <3>1
  <2>3. d < Limbs
    <3>1. SUFFICES ASSUME d >= Limbs PROVE FALSE
      BY Sizes
    <3>2. Digits * d >= Limbs * Digits
      BY <3>1, Sizes
    <3>3. Digits * d \in Nat /\ x < M
      BY <2>1, Sizes
    <3>4. QED
      BY <1>1, <2>2, <3>2, <3>3
  <2>4. d + 1 \in 1..Limbs /\ e + 1 \in 1..Digits
    BY <2>3, Sizes
  <2>5. QED
    BY <2>1, <2>2, <2>4
<1>4. body \in Seq(Nat) /\ Len(body) = M
  <2>1. \A k \in 1..M : body[k] \in Nat
    BY <1>2, <1>3, WordsAreDigits
  <2>2. body \in [1..M -> Nat]
    BY <1>2, <2>1
  <2>3. QED
    BY <2>2
<1>5. PICK p \in Seq(Nat) : p = Prefix /\ Len(p) = 2
  <2>1. 0 \in Nat /\ Base \in Nat
    BY Sizes
  <2>2. <<0, Base>> \in Seq(Nat) /\ Len(<<0, Base>>) = 2
    BY <2>1
  <2>3. QED
    BY <2>2 DEF Prefix
<1>6. PICK text : text = Serialize(id)
  OBVIOUS
<1>7. text = p \o body
  BY <1>1, <1>2, <1>5, <1>6 DEF Serialize
<1>8. /\ text \in Seq(Nat) /\ Len(text) = 2 + M
      /\ \A n \in 1..(2 + M) : text[n] = IF n <= 2 THEN p[n] ELSE body[n - 2]
  <2>1. /\ p \o body \in Seq(Nat) /\ Len(p \o body) = Len(p) + Len(body)
        /\ \A n \in 1..(Len(p) + Len(body)) :
             (p \o body)[n] = IF n <= Len(p) THEN p[n] ELSE body[n - Len(p)]
    BY <1>4, <1>5, ConcatProperties
  <2>2. QED
    BY <1>4, <1>5, <1>7, <2>1
<1>9. ASSUME NEW i \in 1..Limbs, NEW j \in 1..Digits
      PROVE  /\ 2 + (i - 1) * Digits + j \in 1..(2 + M)
             /\ text[2 + (i - 1) * Digits + j] = Digit(WordOf(id, i), j)
  <2>1. PICK k : k = (i - 1) * Digits + j
    OBVIOUS
  <2>2. /\ k \in 1..M
        /\ ((k - 1) \div Digits) + 1 = i /\ ((k - 1) % Digits) + 1 = j
    BY <1>1, <2>1, PlaceOfDigit
  <2>3. body[k] = Digit(WordOf(id, i), j)
    BY <1>2, <2>2
  <2>4. PICK n \in 1..(2 + M) : n = 2 + k /\ ~ (n <= 2) /\ n - 2 = k
    BY <2>2
  <2>5. text[n] = body[k]
    BY <1>8, <2>4
  <2>6. 2 + (i - 1) * Digits + j = n
    <3>1. (i - 1) * Digits \in Int /\ j \in Int
      BY Sizes
    <3>2. QED
      BY <2>1, <2>4, <3>1
  <2>7. QED
    BY <2>3, <2>5, <2>6
<1>10. QED
  BY <1>1, <1>6, <1>8, <1>9

\* kad_id_deserialize reads what kad_id_serialize has written, also when more
\* follows it.
LEMMA ReadsTheId ==
  ASSUME NEW id \in Id, NEW text,
         \A k \in 1..(2 + Limbs * Digits) : text[k] = Serialize(id)[k]
  PROVE  Deserialize(text) = id
<1> DEFINE digits(i) == [j \in 1..Digits |-> text[Len(Prefix) + (i - 1) * Digits + j]]
           word(i) == Number(digits(i), Base, Digits)
<1>1. Len(Prefix) = 2
  BY DEF Prefix
<1>2. ASSUME NEW i \in 1..Limbs PROVE word(i) = WordOf(id, i)
  <2>1. PICK w \in 0..(WordSize - 1) : w = WordOf(id, i)
    BY WordsAreDigits
  <2>2. PICK s : s = digits(i)
    OBVIOUS
  <2>3. ASSUME NEW j \in 1..Digits PROVE s[j] = DigitOf(w, Base, Digits, j)
    <3>1. PICK k : k = 2 + (i - 1) * Digits + j
      OBVIOUS
    <3>2. k \in 1..(2 + Limbs * Digits) /\ Serialize(id)[k] = Digit(WordOf(id, i), j)
      BY <3>1, SerializedText
    <3>3. s[j] = text[k]
      BY <1>1, <2>2, <3>1
    <3>4. QED
      BY <2>1, <3>2, <3>3 DEF Digit
  <2>4. Number(s, Base, Digits) = w
    <3>1. w \in 0..(Power(Base, Digits) - 1) /\ Base \in Nat \ {0} /\ Digits \in Nat
      BY Sizes
    <3>2. QED
      BY <2>3, <3>1, NumberOfDigits
  <2>5. QED
    BY <2>1, <2>2, <2>4
<1> HIDE DEF word
<1>3. PICK t : t = [i \in 1..Limbs |-> word(i)]
  OBVIOUS
<1>4. \A i \in 1..Limbs : t[i] = DigitOf(id, WordSize, Limbs, i)
  BY <1>2, <1>3 DEF WordOf
<1>5. Number(t, WordSize, Limbs) = id
  BY <1>4, Sizes, NumberOfDigits
<1>6. Deserialize(text) = Number(t, WordSize, Limbs)
  BY <1>3 DEF Deserialize, word
<1>7. QED
  BY <1>5, <1>6

\* An identifier survives the message.
LEMMA IdSurvives ==
  ASSUME NEW id \in Id
  PROVE  /\ Deserializes(Serialize(id)) /\ Deserialize(Serialize(id)) = id
         /\ IsId(IdNode(id)) /\ IdAt(IdNode(id)) = id
<1>1. Len(Serialize(id)) >= Len(Prefix) + Limbs * Digits
  <2>1. Len(Prefix) = 2 /\ Len(Serialize(id)) = 2 + Limbs * Digits /\ Limbs * Digits \in Nat
    BY SerializedText, Sizes DEF Prefix
  <2>2. QED
    BY <2>1
<1>2. Deserialize(Serialize(id)) = id
  BY ReadsTheId
<1>3. QED
  BY <1>1, <1>2 DEF Deserializes, IsId, IsText, IdAt, IdNode, Str

\* kad_uint256_from_key: whatever the digest, an identifier comes of it.
LEMMA KeyIdIsId ==
  ASSUME NEW digest \in Id
  PROVE  KeyId(digest) \in Id
<1> DEFINE byte(w, j) == Digit(w, j) * Power(2, Digits - j)
           turn(w, j, x) == Or(x, byte(w, j), WordBits)
           Loop(w, f) == f = [j \in 0..Digits |-> IF j = 0 THEN 0 ELSE turn(w, j, f[j - 1])]
           word(w) == LET moved[j \in 0..Digits] == IF j = 0 THEN 0 ELSE turn(w, j, moved[j - 1])
                      IN  moved[Digits]
<1>1. ASSUME NEW x, NEW y PROVE Or(x, y, WordBits) \in 0..(WordSize - 1)
  <2>1. PICK s : s = [k \in 1..WordBits |->
                        IF DigitOf(x, 2, WordBits, k) + DigitOf(y, 2, WordBits, k) = 0 THEN 0 ELSE 1]
    OBVIOUS
  <2>2. AreDigits(s, 2, WordBits)
    BY <2>1 DEF AreDigits
  <2>3. 2 \in Nat \ {0} /\ WordBits \in Nat /\ WordBits \in 0..WordBits
    BY Sizes
  <2>4. Number(s, 2, WordBits) \in 0..(Power(2, WordBits) - 1)
    BY <2>2, <2>3, NumberIsBounded
  <2>5. Or(x, y, WordBits) = Number(s, 2, WordBits)
    BY <2>1 DEF Or
  <2>6. QED
    BY <2>4, <2>5, Sizes
<1>2. ASSUME NEW w PROVE word(w) \in 0..(WordSize - 1)
  <2>1. \E f : Loop(w, f) /\ f \in [0..Digits -> Nat]
    <3>1. PICK g : g = [p \in (1..Digits) \X Nat |-> turn(w, p[1], p[2])]
      OBVIOUS
    <3>2. \A j, x : turn(w, j, x) \in Nat
      BY <1>1, Sizes
    <3> HIDE DEF turn
    <3>3. g \in [(1..Digits) \X Nat -> Nat]
      BY <3>1, <3>2
    <3>4. PICK f : IsLoop(f, Digits, Nat, 0, g)
      BY <3>3, Sizes, LoopHasValues
    <3>5. f \in [0..Digits -> Nat] /\ f[0] = 0 /\ \A j \in 1..Digits : f[j] = g[<<j, f[j - 1]>>]
      BY <3>4 DEF IsLoop
    <3>6. \A j \in 1..Digits : j - 1 \in 0..Digits /\ f[j - 1] \in Nat
      BY <3>5, Sizes
    <3>7. \A j \in 1..Digits : f[j] = turn(w, j, f[j - 1])
      BY <3>1, <3>5, <3>6
    <3>8. \A j \in 0..Digits : f[j] = IF j = 0 THEN 0 ELSE turn(w, j, f[j - 1])
      BY <3>5, <3>7, Sizes
    <3>9. QED
      BY <3>5, <3>8
  <2>2. PICK f : f = CHOOSE h : Loop(w, h)
    OBVIOUS
  <2>3. Loop(w, f)
    <3>1. \E h : Loop(w, h)
      BY <2>1, Zenon
    <3> HIDE DEF Loop
    <3>2. QED
      BY <2>2, <3>1, Zenon
  <2>4. word(w) = f[Digits]
    BY <2>2
  <2>5. f[Digits] = turn(w, Digits, f[Digits - 1])
    <3> HIDE DEF turn
    <3>1. Digits \in 0..Digits /\ Digits # 0
      BY Sizes
    <3>2. QED
      BY <2>3, <3>1
  <2> HIDE DEF word
  <2>6. QED
    BY <1>1, <2>4, <2>5
<1>3. PICK s : s = [i \in 1..Limbs |-> word(WordOf(digest, i))]
  OBVIOUS
<1>4. KeyId(digest) = Number(s, WordSize, Limbs)
  BY <1>3 DEF KeyId
<1> HIDE DEF word
<1>5. AreDigits(s, WordSize, Limbs)
  BY <1>2, <1>3 DEF AreDigits
<1>6. Number(s, WordSize, Limbs) \in 0..(Power(WordSize, Limbs) - 1)
  <2>1. Limbs \in 0..Limbs
    BY Sizes
  <2>2. QED
    BY <1>5, <2>1, Sizes, NumberIsBounded
<1>7. QED
  BY <1>4, <1>6, Sizes

-----------------------------------------------------------------------------
(* Messages                                                                *)
-----------------------------------------------------------------------------
\* The nodes of a tree differ in their kind.
LEMMA KindsDiffer ==
  /\ \A s : Str(s).json = "string" /\ Str(s).text = s /\ Str(s) # Absent /\ Str(s) # Null
  /\ \A n : Num(n).json = "number" /\ Num(n).number = n /\ Num(n) # Absent
  /\ \A s : Arr(s).json = "array" /\ Arr(s).items = s /\ Arr(s) # Absent
  /\ \A f : Obj(f).json = "object" /\ Obj(f).members = f /\ Obj(f) # Absent
  /\ Null.json = "null" /\ Absent.json = "absent" /\ Null # Absent
<1>1. \A s : Str(s).json = "string" /\ Str(s).text = s
  BY DEF Str
<1>2. \A n : Num(n).json = "number" /\ Num(n).number = n
  BY DEF Num
<1>3. \A s : Arr(s).json = "array" /\ Arr(s).items = s
  BY DEF Arr
<1>4. \A f : Obj(f).json = "object" /\ Obj(f).members = f
  BY DEF Obj
<1>5. Null.json = "null" /\ Absent.json = "absent"
  BY DEF Null, Absent
<1>6. "string" # "absent" /\ "number" # "absent" /\ "array" # "absent" /\ "object" # "absent"
      /\ "null" # "absent" /\ "string" # "null"
  OBVIOUS
<1> QED
  BY <1>1, <1>2, <1>3, <1>4, <1>5, <1>6

\* What create_..._request puts into a message, and where.
LEMMA RequestParts ==
  ASSUME NEW method, NEW ps, NEW m, m = RequestNode(method, ps, RequestId)
  PROVE  /\ Member(m, "id") = Num(RequestId) /\ Member(m, "method") = Str(method)
         /\ Member(m, "params") = Arr(ps)
         /\ m.json = "object" /\ DOMAIN m.members = {"jsonrpc", "method", "id", "params"}
         /\ m.members["id"] = Num(RequestId) /\ m.members["method"] = Str(method)
         /\ m.members["params"] = Arr(ps)
<1>1. PICK f : f = [jsonrpc |-> Str("2.0"), method |-> Str(method),
                    id |-> Num(RequestId), params |-> Arr(ps)]
  OBVIOUS
<1>2. m.json = "object" /\ m.members = f
  BY <1>1, KindsDiffer DEF RequestNode
<1>3. /\ DOMAIN f = {"jsonrpc", "method", "id", "params"}
      /\ f["id"] = Num(RequestId) /\ f["method"] = Str(method) /\ f["params"] = Arr(ps)
  BY <1>1
<1>4. QED
  BY <1>2, <1>3 DEF Member

\* The parameters of each request.
Params(q) ==
  CASE q.type = "ping"       -> <<IdNode(q.id)>>
    [] q.type = "store"      -> <<IdNode(q.id), Str(KeyText(q.key)), Str(q.value)>>
    [] q.type = "find_node"  -> <<IdNode(q.id), IdNode(q.target)>>
    [] q.type = "find_value" -> <<IdNode(q.id), Str(KeyText(q.key))>>

\* What a peer asks, field by field.
LEMMA RequestFields ==
  ASSUME NEW q \in Request
  PROVE  /\ q.id \in Id /\ q.id \in Asker
         /\ \/ /\ q.type = "ping" /\ q = [type |-> "ping", id |-> q.id]
               /\ Params(q) = <<IdNode(q.id)>>
            \/ /\ q.type = "store" /\ q.key \in Digest /\ q.value \in Value
               /\ q = [type |-> "store", id |-> q.id, key |-> q.key, value |-> q.value]
               /\ Params(q) = <<IdNode(q.id), Str(KeyText(q.key)), Str(q.value)>>
            \/ /\ q.type = "find_node" /\ q.target \in Id
               /\ q = [type |-> "find_node", id |-> q.id, target |-> q.target]
               /\ Params(q) = <<IdNode(q.id), IdNode(q.target)>>
            \/ /\ q.type = "find_value" /\ q.key \in Digest
               /\ q = [type |-> "find_value", id |-> q.id, key |-> q.key]
               /\ Params(q) = <<IdNode(q.id), Str(KeyText(q.key))>>
<1>1. CASE q \in [type : {"ping"}, id : Asker]
  BY <1>1, AskerAssumption DEF Params
<1>2. CASE q \in [type : {"store"}, id : Asker, key : Digest, value : Value]
  BY <1>2, AskerAssumption DEF Params
<1>3. CASE q \in [type : {"find_node"}, id : Asker, target : Target]
  BY <1>3, AskerAssumption, TargetAssumption DEF Params
<1>4. CASE q \in [type : {"find_value"}, id : Asker, key : Digest]
  BY <1>4, AskerAssumption DEF Params
<1>5. QED
  BY <1>1, <1>2, <1>3, <1>4 DEF Request

\* Every request is written the same way.
LEMMA WrittenForm ==
  ASSUME NEW q \in Request
  PROVE  Written(q) = RequestNode(q.type, Params(q), RequestId)
<1>1. CASE q.type = "ping"
  BY <1>1 DEF Written, Params, PingRequest
<1>2. CASE q.type = "store"
  BY <1>2 DEF Written, Params, StoreRequest
<1>3. CASE q.type = "find_node"
  BY <1>3 DEF Written, Params, FindNodeRequest
<1>4. CASE q.type = "find_value"
  BY <1>4 DEF Written, Params, FindValueRequest
<1>5. QED
  BY <1>1, <1>2, <1>3, <1>4, RequestFields

\* What is in a node that kad_payload_parse_request reads as q.
SaysId(node, id) == IsId(node) /\ IdAt(node) = id
SaysText(node, t) == IsText(node) /\ node.text = t

\* A message says what is asked in q if its method and its parameters do.
Says(m, q) ==
  /\ Member(m, "method") = Str(q.type) /\ Member(m, "params").json = "array"
  /\ SaysId(Param(m, 1), q.id)
  /\ q.type = "store" => SaysText(Param(m, 2), KeyText(q.key)) /\ SaysText(Param(m, 3), q.value)
  /\ q.type = "find_node" => SaysId(Param(m, 2), q.target)
  /\ q.type = "find_value" => SaysText(Param(m, 2), KeyText(q.key))

\* What the reader makes of it.
Meant(q) ==
  CASE q.type = "ping"       -> [type |-> "ping", id |-> q.id]
    [] q.type = "store"      -> [type |-> "store", id |-> q.id,
                                 key |-> KeyText(q.key), value |-> q.value]
    [] q.type = "find_node"  -> [type |-> "find_node", id |-> q.id, target |-> q.target]
    [] q.type = "find_value" -> [type |-> "find_value", id |-> q.id, key |-> KeyText(q.key)]

\* kad_payload_parse_request on a message that says q.
LEMMA ReadsWhatItSays ==
  ASSUME NEW q \in Request, NEW m, Says(m, q)
  PROVE  ParsesRequest(m) /\ ReadRequest(m) = Meant(q)
<1>1. PICK method : method = Member(m, "method").text
  OBVIOUS
<1>2. method = q.type /\ IsText(Member(m, "method")) /\ Member(m, "params").json = "array"
  BY <1>1, KindsDiffer DEF Says, IsText
<1>3. IsId(Param(m, 1)) /\ IdAt(Param(m, 1)) = q.id
  BY DEF Says, SaysId
<1>4. CASE q.type = "ping"
  BY <1>1, <1>2, <1>3, <1>4 DEF ParsesRequest, ReadRequest, Meant
<1>5. CASE q.type = "store"
  <2>1. /\ IsText(Param(m, 2)) /\ Param(m, 2).text = KeyText(q.key)
        /\ IsText(Param(m, 3)) /\ Param(m, 3).text = q.value
    BY <1>5 DEF Says, SaysText
  <2>2. QED
    BY <1>1, <1>2, <1>3, <1>5, <2>1 DEF ParsesRequest, ReadRequest, Meant
<1>6. CASE q.type = "find_node"
  <2>1. IsId(Param(m, 2)) /\ IdAt(Param(m, 2)) = q.target
    BY <1>6 DEF Says, SaysId
  <2>2. QED
    BY <1>1, <1>2, <1>3, <1>6, <2>1 DEF ParsesRequest, ReadRequest, Meant
<1>7. CASE q.type = "find_value"
  <2>1. IsText(Param(m, 2)) /\ Param(m, 2).text = KeyText(q.key)
    BY <1>7 DEF Says, SaysText
  <2>2. QED
    BY <1>1, <1>2, <1>3, <1>7, <2>1 DEF ParsesRequest, ReadRequest, Meant
<1>8. QED
  BY <1>4, <1>5, <1>6, <1>7, RequestFields

\* Every parameter of a request is a text, and says what it stands for.
LEMMA ParamsSay ==
  ASSUME NEW q \in Request, NEW ps, ps = Params(q)
  PROVE  /\ DOMAIN ps = 1..Len(ps) /\ 1 \in DOMAIN ps /\ SaysId(ps[1], q.id)
         /\ \A i \in DOMAIN ps : IsText(ps[i]) /\ i \in 1..3
         /\ q.type = "ping" => Len(ps) = 1
         /\ q.type = "store" => /\ Len(ps) = 3 /\ 2 \in DOMAIN ps /\ 3 \in DOMAIN ps
                                /\ SaysText(ps[2], KeyText(q.key)) /\ SaysText(ps[3], q.value)
         /\ q.type = "find_node" => Len(ps) = 2 /\ 2 \in DOMAIN ps /\ SaysId(ps[2], q.target)
         /\ q.type = "find_value" => /\ Len(ps) = 2 /\ 2 \in DOMAIN ps
                                     /\ SaysText(ps[2], KeyText(q.key))
<1>1. ASSUME NEW id \in Id PROVE SaysId(IdNode(id), id) /\ IsText(IdNode(id))
  BY IdSurvives, KindsDiffer DEF SaysId, IsText, IdNode
<1>2. \A t : SaysText(Str(t), t) /\ IsText(Str(t))
  BY KindsDiffer DEF SaysText, IsText
<1>3. q.id \in Id
  BY RequestFields
<1>4. CASE q.type = "ping"
  <2>1. ps = <<IdNode(q.id)>>
    BY <1>4 DEF Params
  <2>2. QED
    BY <1>1, <1>3, <1>4, <2>1
<1>5. CASE q.type = "store"
  <2>1. PICK a, b, c : a = IdNode(q.id) /\ b = Str(KeyText(q.key)) /\ c = Str(q.value)
    OBVIOUS
  <2>2. ps = <<a, b, c>>
    BY <1>5, <2>1 DEF Params
  <2>3. Len(ps) = 3 /\ DOMAIN ps = 1..3 /\ ps[1] = a /\ ps[2] = b /\ ps[3] = c
    BY <2>2
  <2>4. SaysId(a, q.id) /\ IsText(a) /\ IsText(b) /\ IsText(c)
        /\ SaysText(b, KeyText(q.key)) /\ SaysText(c, q.value)
    BY <1>1, <1>2, <1>3, <2>1
  <2>5. \A i \in 1..3 : i = 1 \/ i = 2 \/ i = 3
    OBVIOUS
  <2>6. QED
    BY <1>5, <2>3, <2>4, <2>5
<1>6. CASE q.type = "find_node"
  <2>1. ps = <<IdNode(q.id), IdNode(q.target)>> /\ q.target \in Id
    BY <1>6, RequestFields DEF Params
  <2>2. Len(ps) = 2 /\ DOMAIN ps = 1..2 /\ ps[1] = IdNode(q.id) /\ ps[2] = IdNode(q.target)
    BY <2>1
  <2>3. \A i \in 1..2 : i = 1 \/ i = 2
    OBVIOUS
  <2>4. QED
    BY <1>1, <1>3, <1>6, <2>1, <2>2, <2>3
<1>7. CASE q.type = "find_value"
  <2>1. ps = <<IdNode(q.id), Str(KeyText(q.key))>>
    BY <1>7 DEF Params
  <2>2. Len(ps) = 2 /\ DOMAIN ps = 1..2 /\ ps[1] = IdNode(q.id) /\ ps[2] = Str(KeyText(q.key))
    BY <2>1
  <2>3. \A i \in 1..2 : i = 1 \/ i = 2
    OBVIOUS
  <2>4. QED
    BY <1>1, <1>2, <1>3, <1>7, <2>2, <2>3
<1>8. QED
  BY <1>4, <1>5, <1>6, <1>7, RequestFields

\* The elements of an array are its items.
LEMMA ItemsOfArray ==
  ASSUME NEW m, NEW qs, Member(m, "params") = Arr(qs)
  PROVE  /\ Member(m, "params").json = "array" /\ Member(m, "params").items = qs
         /\ \A i \in DOMAIN qs : Param(m, i) = qs[i]
         /\ \A i : i \notin DOMAIN qs => Param(m, i) = Absent
BY KindsDiffer DEF Param, Item

\* kad_payload_parse_request on what create_..._request has written.
LEMMA WrittenSays ==
  ASSUME NEW q \in Request
  PROVE  /\ Says(Written(q), q)
         /\ HasRequestId(Written(q)) /\ IsRequest(Written(q))
<1>1. PICK m, ps : m = Written(q) /\ ps = Params(q)
  OBVIOUS
<1>2. /\ Member(m, "id") = Num(RequestId) /\ Member(m, "method") = Str(q.type)
      /\ Member(m, "params") = Arr(ps)
  BY <1>1, WrittenForm, RequestParts
<1>3. HasRequestId(m) /\ IsRequest(m)
  BY <1>2, KindsDiffer DEF HasRequestId, IsRequest
<1>4. /\ Member(m, "params").json = "array"
      /\ \A i \in DOMAIN ps : Param(m, i) = ps[i]
  BY <1>2, ItemsOfArray
<1>5. Says(m, q)
  BY <1>1, <1>2, <1>4, ParamsSay DEF Says
<1>6. QED
  BY <1>1, <1>3, <1>5

\* Every request is taken, and heard as it was meant.
LEMMA HeardIsMeant ==
  /\ Taken = Request
  /\ \A q \in Request : Heard(q) = Meant(q)
<1>1. ASSUME NEW q \in Request
      PROVE  q \in Taken /\ ReadRequest(Written(q)) = Meant(q)
  <2>1. PICK m : m = Written(q)
    OBVIOUS
  <2>2. HasRequestId(m) /\ IsRequest(m) /\ ParsesRequest(m) /\ ReadRequest(m) = Meant(q)
    BY <2>1, WrittenSays, ReadsWhatItSays
  <2>3. QED
    BY <2>1, <2>2 DEF Taken
<1>2. Taken = Request
  BY <1>1 DEF Taken
<1>3. QED
  BY <1>1, <1>2 DEF Heard, HeardFor

-----------------------------------------------------------------------------
(* Changed messages                                                        *)
-----------------------------------------------------------------------------
\* A request of the type of q parses only if each parameter of q has a text in
\* its place.
LEMMA ParsingNeedsTexts ==
  ASSUME NEW q \in Request, NEW m, ParsesRequest(m), Member(m, "method") = Str(q.type)
  PROVE  \A i \in DOMAIN Params(q) : IsText(Param(m, i))
<1>1. IsText(Param(m, 1)) /\ Member(m, "method").text = q.type
  BY KindsDiffer DEF ParsesRequest, IsId
<1>2. PICK ps : ps = Params(q)
  OBVIOUS
<1>3. DOMAIN ps = 1..Len(ps)
  BY <1>2, ParamsSay
<1>4. CASE q.type = "ping"
  <2>1. Len(ps) = 1
    BY <1>2, <1>4, ParamsSay
  <2>2. \A i \in 1..1 : i = 1
    OBVIOUS
  <2>3. QED
    BY <1>1, <1>2, <1>3, <2>1, <2>2
<1>5. CASE q.type = "store"
  <2>1. Len(ps) = 3 /\ IsText(Param(m, 2)) /\ IsText(Param(m, 3))
    BY <1>1, <1>2, <1>5, ParamsSay DEF ParsesRequest
  <2>2. \A i \in 1..3 : i = 1 \/ i = 2 \/ i = 3
    OBVIOUS
  <2>3. QED
    BY <1>1, <1>2, <1>3, <2>1, <2>2
<1>6. CASE q.type \in {"find_node", "find_value"}
  <2>1. Len(ps) = 2 /\ IsText(Param(m, 2))
    BY <1>1, <1>2, <1>6, ParamsSay DEF ParsesRequest, IsId
  <2>2. \A i \in 1..2 : i = 1 \/ i = 2
    OBVIOUS
  <2>3. QED
    BY <1>1, <1>2, <1>3, <2>1, <2>2
<1>7. QED
  BY <1>4, <1>5, <1>6, RequestFields

\* The members of an object.
LEMMA MembersOfObject ==
  ASSUME NEW g, NEW m, m = Obj(g)
  PROVE  /\ \A n \in DOMAIN g : Member(m, n) = g[n]
         /\ \A n : n \notin DOMAIN g => Member(m, n) = Absent
BY KindsDiffer DEF Member

\* A message with the parameters of q in their places says what q does.
LEMMA SameParamsSay ==
  ASSUME NEW q \in Request, NEW m, NEW qs,
         Member(m, "method") = Str(q.type), Member(m, "params") = Arr(qs),
         \A i \in DOMAIN Params(q) : i \in DOMAIN qs /\ (i # 1 => qs[i] = Params(q)[i]),
         SaysId(qs[1], q.id)
  PROVE  Says(m, q)
<1>1. PICK ps : ps = Params(q)
  OBVIOUS
<1>2. \A i \in DOMAIN ps : Param(m, i) = qs[i] /\ (i # 1 => Param(m, i) = ps[i])
  BY <1>1, ItemsOfArray
<1>3. Member(m, "params").json = "array"
  BY ItemsOfArray
<1>4. SaysId(Param(m, 1), q.id)
  BY <1>1, <1>2, ParamsSay
<1>5. /\ q.type = "store" => SaysText(Param(m, 2), KeyText(q.key)) /\ SaysText(Param(m, 3), q.value)
      /\ q.type = "find_node" => SaysId(Param(m, 2), q.target)
      /\ q.type = "find_value" => SaysText(Param(m, 2), KeyText(q.key))
  BY <1>1, <1>2, ParamsSay
<1>6. QED
  BY <1>3, <1>4, <1>5 DEF Says

\* The texts that may come in the place of an identifier.
LEMMA ChangedIds ==
  ASSUME NEW id \in Id
  PROVE  /\ ~ IsId(Str(Front(Serialize(id))))
         /\ SaysId(Str(Append(Serialize(id), 0)), id)
<1>1. PICK M \in Nat : M = Limbs * Digits
  BY Sizes
<1>2. PICK s \in Seq(Nat) : s = Serialize(id) /\ Len(s) = 2 + M
  BY <1>1, SerializedText
<1>3. Len(Prefix) = 2
  BY DEF Prefix
<1>4. Len(Front(s)) = 1 + M
  <2>1. Front(s) = SubSeq(s, 1, Len(s) - 1)
    BY DEF Front
  <2>2. QED
    BY <1>2, <2>1
<1>5. ~ IsId(Str(Front(s)))
  BY <1>1, <1>3, <1>4, KindsDiffer DEF IsId, Deserializes
<1>6. PICK t : t = Append(s, 0)
  OBVIOUS
<1>7. Len(t) = 3 + M /\ \A k \in 1..(2 + M) : t[k] = s[k]
  BY <1>2, <1>6
<1>8. Deserialize(t) = id
  BY <1>1, <1>2, <1>7, ReadsTheId
<1>9. Len(t) >= Len(Prefix) + Limbs * Digits
  BY <1>1, <1>3, <1>7
<1>10. SaysId(Str(t), id)
  BY <1>8, <1>9, KindsDiffer DEF SaysId, IsId, IsText, Deserializes, IdAt
<1>11. QED
  BY <1>2, <1>5, <1>6, <1>10

\* The changes of a message with the members f, the parameters ps and the
\* identifier id.
IsChange(m, f, ps, id) ==
  \/ \E name \in DOMAIN f : m = Obj([n \in DOMAIN f \ {name} |-> f[n]])
  \/ \E name \in DOMAIN f : m = Obj([f EXCEPT ![name] = Null])
  \/ m = Obj([f EXCEPT !["params"] = Arr(Front(ps))])
  \/ m = Obj([f EXCEPT !["params"] = Arr(Append(ps, Null))])
  \/ \E i \in DOMAIN ps : m = Obj([f EXCEPT !["params"] = Arr([ps EXCEPT ![i] = Num(0)])])
  \/ m = Obj([f EXCEPT !["params"] = Arr([ps EXCEPT ![1] = Str(Front(id))])])
  \/ m = Obj([f EXCEPT !["params"] = Arr([ps EXCEPT ![1] = Str(Append(id, 0))])])

\* What may become of a message, change by change.
LEMMA ChangedMembers ==
  ASSUME NEW whole, NEW f, NEW ps, NEW id, NEW m \in Changed(whole),
         f = whole.members, ps = Member(whole, "params").items, id = ps[1].text
  PROVE  IsChange(m, f, ps, id)
<1> DEFINE F == whole.members
           P == Member(whole, "params").items
           D == Member(whole, "params").items[1].text
           left  == {Obj([n \in DOMAIN F \ {name} |-> F[n]]) : name \in DOMAIN F}
           empty == {Obj([F EXCEPT ![name] = Null]) : name \in DOMAIN F}
           ends  == {Front(P), Append(P, Null)}
           nums  == {[P EXCEPT ![i] = Num(0)] : i \in DOMAIN P}
           ids   == {[P EXCEPT ![1] = Str(t)] : t \in {Front(D), Append(D, 0)}}
           other == {Obj([F EXCEPT !["params"] = Arr(qs)]) : qs \in ends \cup nums \cup ids}
<1>1. Changed(whole) = left \cup empty \cup other
  BY Zenon DEF Changed
<1>2. F = f /\ P = ps /\ D = id
  OBVIOUS
<1> HIDE DEF F, P, D
<1>3. CASE m \in left
  BY <1>2, <1>3, Zenon DEF IsChange
<1>4. CASE m \in empty
  BY <1>2, <1>4, Zenon DEF IsChange
<1>5. ASSUME m \in other
      PROVE  \E qs \in ends \cup nums \cup ids : m = Obj([f EXCEPT !["params"] = Arr(qs)])
  BY <1>2, <1>5, Zenon
<1>6. CASE m \in other
  <2>1. PICK qs \in ends \cup nums \cup ids : m = Obj([f EXCEPT !["params"] = Arr(qs)])
    BY <1>5, <1>6, Zenon
  <2>2. CASE qs \in ends
    BY <1>2, <2>1, <2>2, Zenon DEF IsChange
  <2>3. CASE qs \in nums
    BY <1>2, <2>1, <2>3, Zenon DEF IsChange
  <2>4. CASE qs \in ids
    BY <1>2, <2>1, <2>4, Zenon DEF IsChange
  <2>5. QED
    BY <2>1, <2>2, <2>3, <2>4, Zenon
<1>7. QED
  BY <1>1, <1>3, <1>4, <1>6, Zenon

\* A changed request that is taken still says what was asked.
LEMMA ChangedIsTheSame ==
  ASSUME NEW q \in Request, NEW m \in Changed(Written(q)),
         HasRequestId(m), IsRequest(m), ParsesRequest(m)
  PROVE  Says(m, q)
<1>1. PICK whole, f, ps : whole = Written(q) /\ f = whole.members /\ ps = Params(q)
  OBVIOUS
<1>2. /\ DOMAIN f = {"jsonrpc", "method", "id", "params"}
      /\ f["id"] = Num(RequestId) /\ f["method"] = Str(q.type) /\ f["params"] = Arr(ps)
      /\ Member(whole, "params").items = ps
  BY <1>1, WrittenForm, RequestParts, KindsDiffer
<1>3. PICK id : id = ps[1].text
  OBVIOUS
<1>4. id = Serialize(q.id) /\ q.id \in Id
  <2>1. ps[1] = IdNode(q.id)
    BY <1>1, RequestFields
  <2>2. QED
    BY <1>3, <2>1, RequestFields, KindsDiffer DEF IdNode
<1>5. /\ DOMAIN ps = 1..Len(ps) /\ 1 \in DOMAIN ps /\ SaysId(ps[1], q.id)
      /\ Len(ps) \in DOMAIN ps /\ Len(ps) \in Nat
  <2>1. DOMAIN ps = 1..Len(ps) /\ 1 \in DOMAIN ps /\ SaysId(ps[1], q.id)
    BY <1>1, ParamsSay
  <2>2. Len(ps) = 1 \/ Len(ps) = 2 \/ Len(ps) = 3
    BY <1>1, ParamsSay, RequestFields
  <2>3. QED
    BY <2>1, <2>2
<1> DEFINE with(name, x) == Obj([f EXCEPT ![name] = x])
           Without(name) == Obj([n \in DOMAIN f \ {name} |-> f[n]])
<1>6. \/ \E name \in DOMAIN f : m = Without(name)
      \/ \E name \in DOMAIN f : m = with(name, Null)
      \/ m = with("params", Arr(Front(ps)))
      \/ m = with("params", Arr(Append(ps, Null)))
      \/ \E i \in DOMAIN ps : m = with("params", Arr([ps EXCEPT ![i] = Num(0)]))
      \/ m = with("params", Arr([ps EXCEPT ![1] = Str(Front(id))]))
      \/ m = with("params", Arr([ps EXCEPT ![1] = Str(Append(id, 0))]))
  <2>1. /\ m \in Changed(whole) /\ f = whole.members
        /\ ps = Member(whole, "params").items /\ id = ps[1].text
    BY <1>1, <1>2, <1>3
  <2>2. IsChange(m, f, ps, id)
    BY <2>1, ChangedMembers, Zenon
  <2>3. QED
    BY <2>2, Zenon DEF IsChange
<1>7. /\ Member(m, "id").json = "number" /\ Member(m, "method") # Absent
      /\ Member(m, "method").json = "string" /\ Member(m, "params").json = "array"
  BY DEF HasRequestId, IsRequest, ParsesRequest, IsText
<1>8. ASSUME Member(m, "method") = Str(q.type), Member(m, "params") = Arr(ps)
      PROVE  Says(m, q)
  BY <1>1, <1>5, <1>8, SameParamsSay
<1>9. ASSUME NEW name \in DOMAIN f, m = Without(name)
      PROVE  Says(m, q)
  <2>1. PICK g : g = [n \in DOMAIN f \ {name} |-> f[n]]
    OBVIOUS
  <2>2. m = Obj(g) /\ DOMAIN g = DOMAIN f \ {name} /\ \A n \in DOMAIN g : g[n] = f[n]
    BY <1>9, <2>1
  <2>3. /\ \A n \in DOMAIN f \ {name} : Member(m, n) = f[n]
        /\ Member(m, name) = Absent
    BY <2>2, MembersOfObject
  <2>4. name = "jsonrpc"
    BY <1>2, <1>7, <2>3, KindsDiffer
  <2>5. Member(m, "method") = Str(q.type) /\ Member(m, "params") = Arr(ps)
    BY <1>2, <2>3, <2>4
  <2>6. QED
    BY <1>8, <2>5
<1>10. ASSUME NEW name \in DOMAIN f, NEW x, m = with(name, x)
       PROVE  /\ Member(m, name) = x
              /\ \A n \in DOMAIN f : n # name => Member(m, n) = f[n]
  <2>1. PICK g : g = [f EXCEPT ![name] = x]
    OBVIOUS
  <2>2. m = Obj(g)
    BY <1>10, <2>1
  <2>3. DOMAIN g = DOMAIN f /\ g[name] = x /\ \A n \in DOMAIN f : n # name => g[n] = f[n]
    BY <2>1
  <2>4. QED
    BY <2>2, <2>3, MembersOfObject
<1>11. ASSUME NEW name \in DOMAIN f, m = with(name, Null)
       PROVE  Says(m, q)
  <2>1. Member(m, name) = Null /\ \A n \in DOMAIN f : n # name => Member(m, n) = f[n]
    BY <1>10, <1>11
  <2>2. name = "jsonrpc"
    BY <1>2, <1>7, <2>1, KindsDiffer
  <2>3. Member(m, "method") = Str(q.type) /\ Member(m, "params") = Arr(ps)
    BY <1>2, <2>1, <2>2
  <2>4. QED
    BY <1>8, <2>3
<1>12. ASSUME NEW qs, m = with("params", Arr(qs))
       PROVE  /\ Member(m, "method") = Str(q.type) /\ Member(m, "params") = Arr(qs)
              /\ \A i \in DOMAIN ps : IsText(Param(m, i)) /\ i \in DOMAIN qs /\ IsText(qs[i])
              /\ IsId(qs[1])
  <2>1. Member(m, "method") = Str(q.type) /\ Member(m, "params") = Arr(qs)
    BY <1>2, <1>10, <1>12
  <2>2. \A i \in DOMAIN ps : IsText(Param(m, i))
    BY <1>1, <2>1, ParsingNeedsTexts
  <2>3. /\ \A i \in DOMAIN qs : Param(m, i) = qs[i]
        /\ \A i : i \notin DOMAIN qs => Param(m, i) = Absent
    BY <2>1, ItemsOfArray
  <2>4. ~ IsText(Absent)
    BY KindsDiffer DEF IsText
  <2>5. \A i \in DOMAIN ps : i \in DOMAIN qs /\ IsText(qs[i])
    BY <2>2, <2>3, <2>4
  <2>6. IsId(Param(m, 1))
    BY DEF ParsesRequest
  <2>7. QED
    BY <1>5, <2>1, <2>2, <2>3, <2>5, <2>6
<1> HIDE DEF with, Without
<1>13. ASSUME m = with("params", Arr(Front(ps))) PROVE FALSE
  <2>1. Len(ps) \in DOMAIN Front(ps)
    BY <1>5, <1>12, <1>13
  <2>2. PICK n \in Nat : n = Len(ps)
    BY <1>5
  <2>3. Front(ps) = SubSeq(ps, 1, n - 1)
    BY <2>2 DEF Front
  <2>4. DOMAIN SubSeq(ps, 1, n - 1) = 1..(n - 1)
    BY <1>5, <2>2
  <2>5. QED
    BY <2>1, <2>2, <2>3, <2>4
<1>14. ASSUME m = with("params", Arr(Append(ps, Null))) PROVE Says(m, q)
  <2>1. PICK qs : qs = Append(ps, Null)
    OBVIOUS
  <2>2. PICK n \in Nat : n = Len(ps) /\ DOMAIN ps = 1..n
    BY <1>5
  <2>3. \A i \in DOMAIN ps : qs[i] = ps[i]
    BY <2>1, <2>2
  <2>4. /\ Member(m, "method") = Str(q.type) /\ Member(m, "params") = Arr(qs)
        /\ \A i \in DOMAIN ps : i \in DOMAIN qs
    BY <1>12, <1>14, <2>1
  <2>5. QED
    BY <1>1, <1>5, <2>3, <2>4, SameParamsSay
<1>15. ASSUME NEW i \in DOMAIN ps, m = with("params", Arr([ps EXCEPT ![i] = Num(0)]))
       PROVE  FALSE
  <2>1. PICK qs : qs = [ps EXCEPT ![i] = Num(0)]
    OBVIOUS
  <2>2. qs[i] = Num(0)
    BY <2>1
  <2>3. IsText(qs[i])
    BY <1>12, <1>15, <2>1
  <2>4. QED
    BY <2>2, <2>3, KindsDiffer DEF IsText
<1>16. ASSUME m = with("params", Arr([ps EXCEPT ![1] = Str(Front(id))])) PROVE FALSE
  <2>1. PICK qs : qs = [ps EXCEPT ![1] = Str(Front(id))]
    OBVIOUS
  <2>2. qs[1] = Str(Front(id))
    BY <1>5, <2>1
  <2>3. IsId(qs[1])
    BY <1>12, <1>16, <2>1
  <2>4. QED
    BY <1>4, <2>2, <2>3, ChangedIds
<1>17. ASSUME m = with("params", Arr([ps EXCEPT ![1] = Str(Append(id, 0))])) PROVE Says(m, q)
  <2>1. PICK qs : qs = [ps EXCEPT ![1] = Str(Append(id, 0))]
    OBVIOUS
  <2>2. qs[1] = Str(Append(id, 0)) /\ \A i \in DOMAIN ps : i # 1 => qs[i] = ps[i]
    BY <1>5, <2>1
  <2>3. /\ Member(m, "method") = Str(q.type) /\ Member(m, "params") = Arr(qs)
        /\ \A i \in DOMAIN ps : i \in DOMAIN qs
    BY <1>12, <1>17, <2>1
  <2>4. SaysId(qs[1], q.id)
    BY <1>4, <2>2, ChangedIds
  <2>5. QED
    BY <1>1, <2>2, <2>3, <2>4, SameParamsSay
<1>18. QED
  BY <1>6, <1>9, <1>11, <1>13, <1>14, <1>15, <1>16, <1>17

-----------------------------------------------------------------------------
(* The storage                                                             *)
-----------------------------------------------------------------------------
\* The entries of kad_storage_t.
Entry == [key : Digest, value : Value]

\* What kad_storage_lookup may return.
Stored == {Null} \cup {Str(v) : v \in Value}

\* kad_storage_lookup stops at the first entry of the key.
LEMMA FindProperties ==
  ASSUME NEW entries \in Seq(Entry), NEW k
  PROVE  /\ Find(entries, k) \in Stored
         /\ (\A i \in DOMAIN entries : entries[i].key # k) => Find(entries, k) = Null
         /\ \A i \in DOMAIN entries :
              /\ entries[i].key = k
              /\ \A j \in DOMAIN entries : entries[j].key = k => i <= j
              => Find(entries, k) = Str(entries[i].value)
         /\ Find(entries, k) = Null => \A i \in DOMAIN entries : entries[i].key # k
<1> DEFINE of == {i \in DOMAIN entries : entries[i].key = k}
           first == CHOOSE i \in of : \A j \in of : i <= j
<1>1. Find(entries, k) = IF of = {} THEN Null ELSE Str(entries[first].value)
  BY DEF Find
<1>2. of \in SUBSET Nat /\ DOMAIN entries \in SUBSET Nat
  OBVIOUS
<1>3. ASSUME of # {} PROVE first \in of /\ \A j \in of : first <= j
  BY <1>2, <1>3, LeastOf
<1>4. ASSUME of # {} PROVE Find(entries, k) \in Stored /\ Find(entries, k) # Null
  <2>1. PICK i \in DOMAIN entries : i = first
    BY <1>3, <1>4
  <2>2. entries[i] \in Entry
    OBVIOUS
  <2>3. entries[first].value \in Value
    BY <2>1, <2>2 DEF Entry
  <2>4. QED
    BY <1>1, <1>4, <2>3, KindsDiffer DEF Stored
<1>5. ASSUME NEW i \in of, \A j \in of : i <= j
      PROVE  i = first
  <2>1. first \in of /\ first <= i /\ i <= first
    BY <1>3, <1>5
  <2>2. QED
    BY <1>2, <1>5, <2>1
<1>6. of = {} => Find(entries, k) = Null /\ Null \in Stored
  BY <1>1 DEF Stored
<1> HIDE DEF first
<1>7. QED
  BY <1>1, <1>4, <1>5, <1>6

\* kad_storage_put: an entry at the tail matters only when it is the first.
LEMMA FindAppended ==
  ASSUME NEW entries \in Seq(Entry), NEW e \in Entry, NEW k
  PROVE  Find(Append(entries, e), k) = IF e.key = k /\ Find(entries, k) = Null
                                       THEN Str(e.value) ELSE Find(entries, k)
<1>1. PICK after \in Seq(Entry) : after = Append(entries, e)
  <2>1. Append(entries, e) \in Seq(Entry)
    OBVIOUS
  <2>2. QED
    BY <2>1
<1>2. PICK n \in Nat : /\ n = Len(entries) /\ DOMAIN entries = 1..n
                       /\ DOMAIN after = 1..(n + 1) /\ after[n + 1] = e
                       /\ \A i \in 1..n : after[i] = entries[i]
  BY <1>1
<1>3. CASE \A i \in DOMAIN entries : entries[i].key # k
  <2>1. Find(entries, k) = Null
    BY <1>3, FindProperties
  <2>2. CASE e.key = k
    <3>1. n + 1 \in DOMAIN after /\ \A j \in DOMAIN after : after[j].key = k => n + 1 <= j
      BY <1>2, <1>3
    <3>2. Find(after, k) = Str(after[n + 1].value)
      BY <1>2, <2>2, <3>1, FindProperties
    <3>3. QED
      BY <1>1, <1>2, <2>1, <2>2, <3>2
  <2>3. CASE e.key # k
    <3>1. \A i \in DOMAIN after : after[i].key # k
      <4>1. \A i \in 1..(n + 1) : i \in 1..n \/ i = n + 1
        OBVIOUS
      <4>2. QED
        BY <1>2, <1>3, <2>3, <4>1
    <3>2. Find(after, k) = Null
      BY <3>1, FindProperties
    <3>3. QED
      BY <1>1, <2>1, <2>3, <3>2
  <2>4. QED
    BY <2>2, <2>3
<1>4. CASE \E i \in DOMAIN entries : entries[i].key = k
  <2>1. PICK of : of = {i \in DOMAIN entries : entries[i].key = k}
    OBVIOUS
  <2>2. of \in SUBSET Nat /\ of # {}
    BY <1>2, <1>4, <2>1
  <2>3. PICK i \in of : \A j \in of : i <= j
    BY <2>2, LeastOf
  <2>4. i \in 1..n /\ entries[i].key = k /\ \A j \in 1..n : entries[j].key = k => i <= j
    BY <1>2, <2>1, <2>3
  <2>5. Find(entries, k) = Str(entries[i].value)
    BY <1>2, <2>4, FindProperties
  <2>6. Find(entries, k) # Null
    BY <1>4, FindProperties
  <2>7. i \in DOMAIN after /\ after[i] = entries[i]
    BY <1>2, <2>4
  <2>8. \A j \in DOMAIN after : after[j].key = k => i <= j
    <3>1. \A j \in 1..(n + 1) : j \in 1..n \/ (j = n + 1 /\ i <= j)
      BY <2>4
    <3>2. QED
      BY <1>2, <2>4, <3>1
  <2>9. Find(after, k) = Str(after[i].value)
    BY <2>4, <2>7, <2>8, FindProperties
  <2>10. QED
    BY <1>1, <2>5, <2>6, <2>7, <2>9
<1>5. QED
  BY <1>3, <1>4

-----------------------------------------------------------------------------
(* A request is an addition to the table                                   *)
-----------------------------------------------------------------------------
\* After kad_table_add_contact the table knows the contact, live or spare: the
\* lists of replacements have room for it.
LEMMA AddedIsKnown ==
  ASSUME IInv, NEW c \in Contact, AddContact(c)
  PROVE  \E p \in LivePeers' \cup SparePeers' : p.id = c.id
<1>1. \E bs \in Seq(SoundBucket) : \E i \in DOMAIN bs :
        /\ Tiles(bs) /\ c \in Spanned(bs[i].lo, bs[i].hi)
        /\ buckets' = [bs EXCEPT ![i] = BucketAdd(bs[i], c)]
  <2>1. PICK ix : ix = BucketIndex(c.id)
    OBVIOUS
  <2>2. /\ ix \in DOMAIN buckets /\ buckets[ix] \in SoundBucket
        /\ c \in Spanned(buckets[ix].lo, buckets[ix].hi) /\ c.id \in Id
    BY <2>1, FoundBucket DEF Spanned, Contact
  <2>3. buckets \in Seq(SoundBucket) /\ Tiles(buckets)
    BY DEF IInv
  <2>4. CASE AddInPlace(c) \/ AddPinging(c)
    <3>1. buckets' = [buckets EXCEPT ![ix] = BucketAdd(buckets[ix], c)]
      BY <2>1, <2>4 DEF AddInPlace, AddPinging
    <3>2. QED
      BY <2>2, <2>3, <3>1
  <2>5. CASE AddSplitting(c)
    <3>1. PICK b : b = BucketAdd(buckets[ix], c)
      OBVIOUS
    <3>2. PICK two : two = SplitAt(buckets, ix, b)
      OBVIOUS
    <3>3. PICK jx : jx = BucketIndexIn(two, c.id)
      OBVIOUS
    <3>4. /\ ~ TakesContact(buckets[ix], c)
          /\ buckets' = [two EXCEPT ![jx] = BucketAdd(two[jx], c)]
      BY <2>1, <2>5, <3>1, <3>2, <3>3 DEF AddSplitting
    <3>5. b \in SoundBucket /\ b.lo = buckets[ix].lo /\ b.hi = buckets[ix].hi /\ b.lo < b.hi
      BY <2>2, <3>1, <3>4, AddKeepsSound, FullSpansTwo
    <3>6. two \in Seq(SoundBucket) /\ Tiles(two)
      BY <2>2, <2>3, <3>2, <3>5, SplitKeepsTiles
    <3>7. jx \in DOMAIN two /\ c \in Spanned(two[jx].lo, two[jx].hi)
      BY <2>2, <3>3, <3>6, EveryIdHasABucket DEF InRange, Spanned
    <3>8. QED
      BY <3>4, <3>6, <3>7
  <2>6. QED
    BY <2>4, <2>5 DEF AddContact
<1>2a. PICK bs \in Seq(SoundBucket) : \E i \in DOMAIN bs :
         /\ Tiles(bs) /\ c \in Spanned(bs[i].lo, bs[i].hi)
         /\ buckets' = [bs EXCEPT ![i] = BucketAdd(bs[i], c)]
  BY <1>1
<1>2. PICK i \in DOMAIN bs : /\ Tiles(bs) /\ c \in Spanned(bs[i].lo, bs[i].hi)
                             /\ buckets' = [bs EXCEPT ![i] = BucketAdd(bs[i], c)]
  BY <1>2a
<1>3. PICK bs2 : bs2 = buckets'
  OBVIOUS
<1>4. \/ Refreshed(c, Live(bs), Spare(bs), Live(bs2), Spare(bs2))
      \/ Joined(c, Live(bs), Spare(bs), Live(bs2), Spare(bs2))
      \/ Waits(c, Live(bs), Spare(bs), Live(bs2), Spare(bs2))
      \/ Ignored(c, Live(bs), Spare(bs), Live(bs2), Spare(bs2))
  BY <1>2, <1>3, AddLearns
<1>5. ~ Ignored(c, Live(bs), Spare(bs), Live(bs2), Spare(bs2))
  <2>1. ReplacementFactor * Capacity # 1
    BY RoomAssumption, Bounds
  <2>2. QED
    BY <2>1 DEF Ignored
<1>6. Refreshed(c, Live(bs), Spare(bs), Live(bs2), Spare(bs2)) => c \in Live(bs2)
  BY DEF Refreshed
<1>7. Joined(c, Live(bs), Spare(bs), Live(bs2), Spare(bs2)) => c \in Live(bs2)
  BY DEF Joined
<1>8. Waits(c, Live(bs), Spare(bs), Live(bs2), Spare(bs2)) => c \in Spare(bs2)
  BY DEF Waits, Others
<1>9. LivePeers' = Live(bs2) /\ SparePeers' = Spare(bs2)
  BY <1>3, PeersOfTable
<1>10. QED
  BY <1>4, <1>5, <1>6, <1>7, <1>8, <1>9

\* The contact that recv_cb_request_add_contact makes of a sender.
Sender(q, port) == [id |-> q.id, addr |-> SinPort(port)]

\* What the asker of q is answered with when the table has the buckets bs and the
\* storage the given entries.
IsAnswer(bs, entries, q, m) ==
  \/ q.type = "ping" /\ m = PingResponse(Self, RequestId)
  \/ q.type = "store" /\ m = StoreResponse(RequestId)
  \/ q.type = "find_node" /\ m = FindNodeResponse(ClosestIn(bs, q.target, q.id), RequestId)
  \/ q.type = "find_value" /\
       m = FindValueResponse(Find(entries, q.key), ClosestIn(bs, KeyId(q.key), q.id), RequestId)

\* Each of the four handlers adds the sender, and answers what was asked.
LEMMA ReceiveParts ==
  ASSUME storage \in Seq(Entry), NEW q \in Request, NEW port \in Port, Receive(q, port)
  PROVE  /\ Sender(q, port) \in Contact /\ AddContact(Sender(q, port))
         /\ \E m : last' = [asked |-> q, wire |-> m] /\ IsAnswer(buckets', storage', q, m)
         /\ \/ UNCHANGED storage
            \/ q.key \in Digest /\ q.value \in Value /\ Put(q.key, q.value)
<1>1. PICK r : r = Meant(q)
  OBVIOUS
<1>2. \/ AnswerPing(q, r, port) \/ AnswerStore(q, r, port)
      \/ AnswerFindNode(q, r, port) \/ AnswerFindValue(q, r, port)
  BY <1>1, HeardIsMeant DEF Receive
<1>3. r.id = q.id /\ r.type = q.type
  BY <1>1, RequestFields DEF Meant
<1>4. Sender(q, port) \in Contact
  <2>1. q.id \in Id /\ SinPort(port) \in Addr
    BY RequestFields, AddrAssumption
  <2>2. QED
    BY <2>1 DEF Sender, Contact
<1>5. AddSender(r, port) => AddContact(Sender(q, port))
  BY <1>3 DEF AddSender, Sender
<1>6. \A k : KeyOf(KeyText(k)) = k
  BY DEF KeyOf, KeyText
<1>7. CASE AnswerPing(q, r, port)
  BY <1>3, <1>4, <1>5, <1>7 DEF AnswerPing, Answer, IsAnswer
<1>8. CASE AnswerStore(q, r, port)
  <2>1. q.type = "store"
    BY <1>3, <1>8 DEF AnswerStore
  <2>2. r.key = KeyText(q.key) /\ r.value = q.value
    BY <1>1, <2>1 DEF Meant
  <2>3. q.key \in Digest /\ q.value \in Value
    BY <2>1, RequestFields
  <2>4. Put(q.key, q.value)
    BY <1>6, <1>8, <2>2 DEF AnswerStore
  <2>5. last' = [asked |-> q, wire |-> StoreResponse(RequestId)]
    BY <1>8 DEF AnswerStore, Answer
  <2>6. IsAnswer(buckets', storage', q, StoreResponse(RequestId))
    BY <2>1 DEF IsAnswer
  <2>7. QED
    BY <1>4, <1>5, <1>8, <2>3, <2>4, <2>5, <2>6 DEF AnswerStore
<1>9. CASE AnswerFindNode(q, r, port)
  <2>1. q.type = "find_node"
    BY <1>3, <1>9 DEF AnswerFindNode
  <2>2. r.target = q.target
    BY <1>1, <2>1 DEF Meant
  <2>3. PICK m : m = FindNodeResponse(ClosestIn(buckets', q.target, q.id), RequestId)
    OBVIOUS
  <2>4. last' = [asked |-> q, wire |-> m] /\ AddSender(r, port) /\ UNCHANGED storage
    BY <1>3, <1>9, <2>2, <2>3 DEF AnswerFindNode, Answer
  <2>5. IsAnswer(buckets', storage', q, m)
    BY <2>1, <2>3 DEF IsAnswer
  <2>6. QED
    BY <1>4, <1>5, <2>4, <2>5
<1>10. CASE AnswerFindValue(q, r, port)
  <2>1. q.type = "find_value"
    BY <1>3, <1>10 DEF AnswerFindValue
  <2>2. KeyOf(r.key) = q.key
    BY <1>1, <1>6, <2>1 DEF Meant
  <2>3. PICK v \in Stored : v = Find(storage, q.key)
    BY FindProperties
  <2>4. PICK m : m = FindValueResponse(v, ClosestIn(buckets', KeyId(q.key), q.id), RequestId)
    OBVIOUS
  <2>5. last' = [asked |-> q, wire |-> m] /\ AddSender(r, port) /\ UNCHANGED storage
    BY <1>3, <1>10, <2>2, <2>3, <2>4 DEF AnswerFindValue, Answer
  <2>6. IsAnswer(buckets', storage', q, m)
    BY <2>1, <2>3, <2>4, <2>5 DEF IsAnswer
  <2>7. QED
    BY <1>4, <1>5, <2>5, <2>6
<1>11. QED
  BY <1>2, <1>7, <1>8, <1>9, <1>10

-----------------------------------------------------------------------------
(* The inductive invariant                                                 *)
-----------------------------------------------------------------------------
\* The last answer is what the handler of its request makes of the table and the
\* storage, and the table knows whoever asked.
LastIsAnswer ==
  \/ last = [asked |-> Null, wire |-> Null]
  \/ /\ last.asked \in Request
     /\ IsAnswer(buckets, storage, last.asked, last.wire)
     /\ \E p \in LivePeers \cup SparePeers : p.id = last.asked.id

\* Neither part is enough alone: what an asker reads is the answer of a table that
\* is sound.
NodeIInv == IInv /\ storage \in Seq(Entry) /\ LastIsAnswer

\* kad_table_init and kad_storage_init.
LEMMA NodeInitIsSound == NodeInit => NodeIInv
BY InitIsSound DEF NodeInit, NodeIInv, LastIsAnswer

\* What recv_cb does to the table is an addition, so the table stays sound.
LEMMA ReceiveIsSound ==
  ASSUME NodeIInv, NEW q \in Request, NEW port \in Port, Receive(q, port)
  PROVE  NodeIInv' /\ Next
<1>1. PICK c \in Contact : c = Sender(q, port) /\ AddContact(c)
  BY ReceiveParts DEF NodeIInv
<1>2. Next
  BY <1>1 DEF Next
<1>3. IInv'
  BY <1>2, StepIsSound DEF NodeIInv
<1>4. storage' \in Seq(Entry)
  <2>1. CASE UNCHANGED storage
    BY <2>1 DEF NodeIInv
  <2>2. CASE q.key \in Digest /\ q.value \in Value /\ Put(q.key, q.value)
    <3>1. PICK e \in Entry : e = [key |-> q.key, value |-> q.value]
      BY <2>2 DEF Entry
    <3>2. storage' = Append(storage, e) /\ storage \in Seq(Entry)
      BY <2>2, <3>1 DEF Put, NodeIInv
    <3>3. QED
      BY <3>1, <3>2
  <2>3. QED
    BY <2>1, <2>2, ReceiveParts DEF NodeIInv
<1>5. LastIsAnswer'
  <2>1. PICK m : last' = [asked |-> q, wire |-> m] /\ IsAnswer(buckets', storage', q, m)
    BY ReceiveParts DEF NodeIInv
  <2>2. last'.asked = q /\ last'.wire = m
    BY <2>1
  <2>3. IInv
    BY DEF NodeIInv
  <2>4. \E p \in LivePeers' \cup SparePeers' : p.id = c.id
    BY <1>1, <2>3, AddedIsKnown
  <2>5. c.id = q.id
    BY <1>1 DEF Sender
  <2>6. QED
    BY <2>1, <2>2, <2>4, <2>5 DEF LastIsAnswer
<1>6. QED
  BY <1>2, <1>3, <1>4, <1>5 DEF NodeIInv

\* The pings of the table leave the answer as it is.
LEMMA PingEndsIsSound ==
  ASSUME NodeIInv, PingEnds
  PROVE  NodeIInv' /\ Next
<1>1. Next
  BY DEF PingEnds, Next
<1>2. UNCHANGED <<buckets, storage, last>>
  BY DEF PingEnds, PingAnswered, PingFailed
<1>3. IInv'
  BY <1>1, StepIsSound DEF NodeIInv
<1>4. LivePeers' = LivePeers /\ SparePeers' = SparePeers
  BY <1>2 DEF LivePeers, SparePeers
<1>5. LastIsAnswer'
  BY <1>2, <1>4 DEF LastIsAnswer, NodeIInv
<1>6. QED
  BY <1>1, <1>2, <1>3, <1>5 DEF NodeIInv

\* Every step of the node keeps the invariant and is, for the table, a step of
\* its own or none.
LEMMA NodeStepIsSound == NodeIInv /\ [NodeNext]_nodeVars => NodeIInv' /\ [Next]_vars
<1> SUFFICES ASSUME NodeIInv, [NodeNext]_nodeVars PROVE NodeIInv' /\ [Next]_vars
  OBVIOUS
<1>1. CASE UNCHANGED nodeVars
  <2>1. UNCHANGED <<buckets, pings, status, storage, last>>
    BY <1>1 DEF nodeVars
  <2>2. LivePeers' = LivePeers /\ SparePeers' = SparePeers
    BY <2>1 DEF LivePeers, SparePeers
  <2>3. LastIsAnswer' /\ UNCHANGED vars
    BY <2>1, <2>2 DEF LastIsAnswer, NodeIInv, vars
  <2>4. IInv'
    BY <2>3, StepIsSound DEF NodeIInv
  <2>5. QED
    BY <2>1, <2>3, <2>4 DEF NodeIInv
<1>2. QED
  BY <1>1, ReceiveIsSound, PingEndsIsSound DEF NodeNext

\* Whatever requests come in whatever order and however the pings end, the table
\* is sound, the storage is a list of entries, and the last answer is that of
\* its handler.
THEOREM NodeIsSound == NodeSpec => []NodeIInv
<1>1. QED
  BY NodeInitIsSound, NodeStepIsSound, PTL DEF NodeSpec

\* protocol.c uses the table as Table says that it is used: what holds of the
\* table whatever contacts come holds of the table of a node.
THEOREM NodeUsesTheTable == NodeSpec => Spec
<1>1. NodeInit => Init
  BY DEF NodeInit
<1>2. QED
  BY <1>1, NodeStepIsSound, NodeIsSound, PTL DEF NodeSpec, Spec

\* A node keeps the promises of PeerSet to the peers that send it requests: the
\* senders are recorded, and none evicts another.
THEOREM NodeKeepsPeerSet == NodeSpec => KeepsPeerSet
BY NodeUsesTheTable, ImplementsPeerSet, PTL

-----------------------------------------------------------------------------
(* Queries are answered in full                                            *)
-----------------------------------------------------------------------------
\* kad_table_find_closest returns as many live peers as it can, none twice and
\* never the excluded one, by ascending distance: in every table, and so in that
\* of a node.
THEOREM AlwaysAnswerIsComplete ==
  (Spec => []AnswerIsComplete) /\ (NodeSpec => []AnswerIsComplete)
BY TableIsSound, AnswerIsCompleteIfSound, NodeUsesTheTable, PTL

\* The peers in the target's own bucket come first in the answer of
\* kad_table_find_closest, and no other live peer is nearer than they are.
THEOREM AlwaysOwnBucketIsNearest ==
  (Spec => []OwnBucketIsNearest) /\ (NodeSpec => []OwnBucketIsNearest)
BY TableIsSound, OwnIsNearestIfSound, NodeUsesTheTable, PTL

-----------------------------------------------------------------------------
(* The storage implements Store                                            *)
-----------------------------------------------------------------------------
\* An empty storage has no value.
LEMMA StorageBegins == NodeInit => Held!Init
<1> SUFFICES ASSUME storage = <<>>, NEW k \in Digest PROVE Find(storage, k) = Null
  BY DEF NodeInit, Held!Init
<1>1. storage \in Seq(Entry) /\ DOMAIN storage = {}
  OBVIOUS
<1>2. QED
  BY <1>1, FindProperties

\* A store request puts its value under its key if there is none yet, and no
\* other step changes what is found.
LEMMA StorageSteps ==
  NodeIInv /\ [NodeNext]_nodeVars
    => [Held!Next]_[k \in Digest |-> Find(storage, k)]
<1> SUFFICES ASSUME NodeIInv, [NodeNext]_nodeVars
             PROVE  [Held!Next]_[k \in Digest |-> Find(storage, k)]
  OBVIOUS
<1>1. CASE UNCHANGED storage
  BY <1>1
<1>2. ASSUME NEW q, q.key \in Digest, q.value \in Value, Put(q.key, q.value)
      PROVE  Held!Next
  <2>1. PICK e \in Entry : e = [key |-> q.key, value |-> q.value]
    BY <1>2 DEF Entry
  <2>2. storage' = Append(storage, e) /\ storage \in Seq(Entry)
    BY <1>2, <2>1 DEF Put, NodeIInv
  <2>3. \A k \in Digest : Find(storage', k) = IF k = q.key /\ Find(storage, k) = Null
                                             THEN Str(q.value) ELSE Find(storage, k)
    BY <2>1, <2>2, FindAppended
  <2>4. Held!Put(q.key, Str(q.value))
    BY <1>2, <2>3 DEF Held!Put
  <2>5. Str(q.value) \in {Str(v) : v \in Value}
    BY <1>2
  <2>6. QED
    BY <1>2, <2>4, <2>5 DEF Held!Next
<1>3. ASSUME NEW q \in Request, NEW port \in Port, Receive(q, port)
      PROVE  UNCHANGED storage \/ Held!Next
  BY <1>2, <1>3, ReceiveParts DEF NodeIInv
<1>4. QED
  BY <1>1, <1>3 DEF NodeNext, PingEnds, nodeVars

\* The storage keeps the promise of Store: the first value of a key is the one
\* that kad_storage_lookup finds ever after, whatever kad_storage_put adds.
THEOREM StorageKeepsFirst == NodeSpec => KeepsStore
<1>1. QED
  BY StorageBegins, StorageSteps, NodeIsSound, PTL DEF NodeSpec, KeepsStore, Held!Spec

-----------------------------------------------------------------------------
(* What the asker reads                                                    *)
-----------------------------------------------------------------------------
\* A response has its result where the reader looks for it.
LEMMA ResponseParts ==
  ASSUME NEW result
  PROVE  Member(ResponseNode(result, RequestId), "result") = result
<1>1. PICK f : f = [jsonrpc |-> Str("2.0"), result |-> result, id |-> Num(RequestId)]
  OBVIOUS
<1>2. ResponseNode(result, RequestId) = Obj(f)
  BY <1>1 DEF ResponseNode
<1>3. "result" \in DOMAIN f /\ f["result"] = result
  BY <1>1
<1>4. QED
  BY <1>2, <1>3, KindsDiffer DEF Member

\* Contacts are read as they were written.
LEMMA ContactsSurvive ==
  ASSUME NEW cs \in Seq(Contact), NEW node, node = ContactNodes(cs)
  PROVE  /\ AreContacts(node) /\ ContactsAt(node) = cs
         /\ node.json = "array"
<1> DEFINE entry(i) == Arr(<<IdNode(cs[i].id), Str(<<>>), Num(cs[i].addr)>>)
<1>1. PICK es : es = [i \in DOMAIN cs |-> entry(i)]
  OBVIOUS
<1>2. node.json = "array" /\ node.items = es /\ DOMAIN es = DOMAIN cs
  BY <1>1, KindsDiffer DEF ContactNodes
<1>3. ASSUME NEW i \in DOMAIN cs
      PROVE  /\ IsId(Item(es[i], 1)) /\ IdAt(Item(es[i], 1)) = cs[i].id
             /\ IsText(Item(es[i], 2))
             /\ Item(es[i], 3).json = "number" /\ Item(es[i], 3).number = cs[i].addr
  <2>1. PICK c \in Contact : c = cs[i]
    OBVIOUS
  <2>2. PICK a, b, d : a = IdNode(c.id) /\ b = Str(<<>>) /\ d = Num(c.addr)
    OBVIOUS
  <2>3. PICK t : t = <<a, b, d>>
    OBVIOUS
  <2>4. DOMAIN t = 1..3 /\ t[1] = a /\ t[2] = b /\ t[3] = d
    BY <2>3
  <2>5. es[i] = Arr(t)
    BY <1>1, <2>1, <2>2, <2>3
  <2>6. Item(es[i], 1) = a /\ Item(es[i], 2) = b /\ Item(es[i], 3) = d
    BY <2>4, <2>5, KindsDiffer DEF Item
  <2>7. c.id \in Id
    BY DEF Contact
  <2>8. IsId(a) /\ IdAt(a) = c.id /\ IsText(b) /\ d.json = "number" /\ d.number = c.addr
    BY <2>2, <2>7, IdSurvives, KindsDiffer DEF IsText
  <2>9. QED
    BY <2>1, <2>6, <2>8
<1>4. AreContacts(node)
  BY <1>2, <1>3 DEF AreContacts
<1>5. \A i \in DOMAIN cs : cs[i] = [id |-> IdAt(Item(es[i], 1)), addr |-> Item(es[i], 3).number]
  <2>1. ASSUME NEW i \in DOMAIN cs
        PROVE  cs[i] = [id |-> IdAt(Item(es[i], 1)), addr |-> Item(es[i], 3).number]
    <3>1. PICK c \in Contact : c = cs[i]
      OBVIOUS
    <3>2. c = [id |-> c.id, addr |-> c.addr]
      BY DEF Contact
    <3>3. QED
      BY <1>3, <3>1, <3>2
  <2>2. QED
    BY <2>1
<1>6. ContactsAt(node) = [i \in DOMAIN cs |-> cs[i]]
  BY <1>2, <1>5 DEF ContactsAt
<1>7. QED
  BY <1>2, <1>4, <1>6

\* The object that answers a find_value request.
LEMMA FoundValueParts ==
  ASSUME NEW value, NEW node, NEW result,
         result = Obj([value |-> value, contacts |-> node])
  PROVE  /\ Member(result, "value") = value /\ Member(result, "contacts") = node
         /\ result.json = "object" /\ result # Absent
<1>1. PICK f : f = [value |-> value, contacts |-> node]
  OBVIOUS
<1>2. DOMAIN f = {"value", "contacts"} /\ f["value"] = value /\ f["contacts"] = node
  BY <1>1
<1>3. QED
  BY <1>1, <1>2, KindsDiffer DEF Member

\* The identifiers of peers are as many as the peers.
LEMMA PeersAreIds ==
  ASSUME NEW P, ArePeers(P)
  PROVE  Cardinality({p.id : p \in P}) = Cardinality(P)
<1> DEFINE I == {p.id : p \in P}
           f == [p \in P |-> p.id]
<1>1. f \in Surjection(P, I)
  BY DEF Surjection
<1>2. f \in Injection(P, I)
  BY DEF Injection, IsInjective, ArePeers
<1>3. IsFiniteSet(P)
  BY DEF ArePeers
<1> HIDE DEF I, f
<1>4. Cardinality(I) = Cardinality(P)
  BY <1>1, <1>2, <1>3, FS_Surjection
<1>5. QED
  BY <1>4 DEF I

\* What the peer that asked for contacts reads is the answer of the table, and
\* what the storage has.
LEMMA GotIsClosest ==
  ASSUME NodeIInv, AskedForContacts
  PROVE  /\ last.asked \in Request
         /\ last.asked.type = "find_node" \/ last.asked.type = "find_value"
         /\ TargetOf(last.asked) \in Id
         /\ Got.contacts = ClosestIn(buckets, TargetOf(last.asked), last.asked.id)
         /\ last.asked.type = "find_value" => Got.value = Find(storage, last.asked.key)
<1>1. PICK q, m : q = last.asked /\ m = last.wire
  OBVIOUS
<1>2. q \in Request /\ IsAnswer(buckets, storage, q, m)
  BY <1>1 DEF NodeIInv, LastIsAnswer, AskedForContacts, Answered
<1>3. q.type = "find_node" \/ q.type = "find_value"
  BY <1>1 DEF AskedForContacts
<1>4. TargetOf(q) \in Id
  BY <1>2, <1>3, RequestFields, KeyIdIsId, TargetAssumption DEF TargetOf
<1>5. PICK cs \in Seq(Contact) : cs = ClosestIn(buckets, TargetOf(q), q.id)
  <2>1. buckets \in Seq(SoundBucket) /\ Tiles(buckets)
    BY DEF NodeIInv, IInv
  <2>2. ClosestIn(buckets, TargetOf(q), q.id) \in Seq(Contact)
    BY <1>4, <2>1, AnswerProperties
  <2>3. QED
    BY <2>2
<1>6. PICK node : node = ContactNodes(cs)
  OBVIOUS
<1>7. ContactsAt(node) = cs
  BY <1>6, ContactsSurvive
<1>8. CASE q.type = "find_node"
  <2>1. m = ResponseNode(node, RequestId)
    BY <1>2, <1>5, <1>6, <1>8 DEF IsAnswer, FindNodeResponse, TargetOf
  <2>2. Got = [type |-> "find_node", contacts |-> cs]
    BY <1>1, <1>7, <1>8, <2>1, ResponseParts DEF Got, ReadResult
  <2>3. QED
    BY <1>1, <1>2, <1>3, <1>4, <1>5, <1>8, <2>2
<1>9. CASE q.type = "find_value"
  <2>1. PICK value : /\ value = Find(storage, q.key)
                     /\ m = FindValueResponse(value, ClosestIn(buckets, KeyId(q.key), q.id), RequestId)
    BY <1>2, <1>9 DEF IsAnswer
  <2>2. PICK result : result = Obj([value |-> value, contacts |-> node])
    OBVIOUS
  <2>3. m = ResponseNode(result, RequestId)
    BY <1>5, <1>6, <1>9, <2>1, <2>2 DEF FindValueResponse, TargetOf
  <2>4. Member(result, "contacts") = node /\ Member(result, "value") = value
    BY <2>2, FoundValueParts
  <2>5. /\ Got.contacts = ContactsAt(Member(result, "contacts"))
        /\ Got.value = Member(result, "value")
    BY <1>1, <1>9, <2>3, ResponseParts DEF Got, ReadResult
  <2>6. QED
    BY <1>1, <1>2, <1>3, <1>4, <1>5, <1>7, <2>1, <2>4, <2>5
<1>10. QED
  BY <1>3, <1>8, <1>9

\* Whoever was answered is known, and reads what the table answers about the
\* others, from the text of the answer.
LEMMA AskerGetsIfSound == NodeIInv => AskerGetsTheOthers
<1> SUFFICES ASSUME NodeIInv PROVE AskerGetsTheOthers
  OBVIOUS
<1>1. Answered => \E p \in LivePeers \cup SparePeers : p.id = last.asked.id
  BY DEF NodeIInv, LastIsAnswer, Answered
<1>2. ASSUME AskedForContacts, NEW got, got = Got.contacts,
             NEW ids, ids = {c.id : c \in ToSet(got)}
      PROVE  /\ last.asked.id \notin ids
             /\ ToSet(got) \subseteq Eligible(last.asked.id)
             /\ Cardinality(ids) = Len(got)
             /\ Len(got) = MinOf(Capacity, Cardinality(Eligible(last.asked.id)))
             /\ \A k \in 1..(Len(got) - 1) :
                  Dist(got[k].id, TargetOf(last.asked)) < Dist(got[k + 1].id, TargetOf(last.asked))
             /\ last.asked.type = "find_value" => Got.value = Find(storage, last.asked.key)
  <2>1. PICK q, t : q = last.asked /\ t = TargetOf(q)
    OBVIOUS
  <2>2. t \in Id /\ got = ClosestIn(buckets, t, q.id)
    BY <1>2, <2>1, GotIsClosest
  <2>3. buckets \in Seq(SoundBucket) /\ Tiles(buckets)
    BY DEF NodeIInv, IInv
  <2>4. /\ got \in Seq(Contact)
        /\ ToSet(got) \subseteq OthersIn(buckets, q.id)
        /\ Cardinality(ToSet(got)) = Len(got)
        /\ Len(got) = MinOf(Capacity, Cardinality(OthersIn(buckets, q.id)))
        /\ \A i, j \in DOMAIN got : i < j => Dist(got[i].id, t) < Dist(got[j].id, t)
        /\ ArePeers(ToSet(got))
    BY <2>2, <2>3, AnswerProperties
  <2>5. Eligible(q.id) = OthersIn(buckets, q.id)
    BY PeersOfTable DEF Eligible, OthersIn
  <2>6. Cardinality(ids) = Len(got)
    BY <1>2, <2>4, PeersAreIds
  <2>7. q.id \notin ids
    BY <1>2, <2>4 DEF OthersIn
  <2>8. \A k \in 1..(Len(got) - 1) : k \in DOMAIN got /\ k + 1 \in DOMAIN got /\ k < k + 1
    BY <2>4
  <2>9. \A k \in 1..(Len(got) - 1) : Dist(got[k].id, t) < Dist(got[k + 1].id, t)
    BY <2>4, <2>8
  <2>10. last.asked.type = "find_value" => Got.value = Find(storage, last.asked.key)
    BY <1>2, GotIsClosest
  <2>11. QED
    BY <2>1, <2>4, <2>5, <2>6, <2>7, <2>9, <2>10
<1>3. QED
  BY <1>1, <1>2 DEF AskerGetsTheOthers

\* A peer that asks a node is known to it from then on, and reads in the answer
\* to find_node or find_value what the table has: as many others as the capacity
\* allows, none twice, never itself, the nearest to the target or the key first;
\* and in that to find_value what the storage has, the first value of the key or
\* none (recv_cb_request_find_node, recv_cb_request_find_value, kad_storage_lookup,
\* kad_id_serialize, kad_id_deserialize).
THEOREM AlwaysAskerGetsTheOthers == NodeSpec => []AskerGetsTheOthers
BY NodeIsSound, AskerGetsIfSound, PTL

-----------------------------------------------------------------------------
(* Answers are told apart                                                  *)
-----------------------------------------------------------------------------
\* For which types of request a result parses.
LEMMA ParsesByKind ==
  ASSUME NEW m, NEW result, result = Member(m, "result")
  PROVE  /\ IsId(result) => \A type \in {"ping", "store", "find_node", "find_value"} :
              ParsesResult(m, type) <=> type \in {"ping", "store"}
         /\ result = Null => \A type \in {"ping", "store", "find_node", "find_value"} :
              ParsesResult(m, type) <=> type = "store"
         /\ AreContacts(result) => \A type \in {"ping", "store", "find_node", "find_value"} :
              ParsesResult(m, type) <=> type \in {"find_node", "store"}
         /\ /\ result.json = "object" /\ result # Absent
            /\ Member(result, "value").json \in {"null", "string"}
            /\ AreContacts(Member(result, "contacts"))
            => \A type \in {"ping", "store", "find_node", "find_value"} :
                 ParsesResult(m, type) <=> type \in {"find_value", "store"}
<1>1. result.json # "object" => Member(result, "value") = Absent
  BY DEF Member
<1>2. IsId(result) => result.json = "string"
  BY DEF IsId, IsText
<1>3. AreContacts(result) => result.json = "array"
  BY DEF AreContacts
<1>4. Absent.json # "null" /\ Absent.json # "string" /\ Absent.json # "array"
  BY KindsDiffer
<1>5. CASE IsId(result)
  <2>1. result # Absent /\ ~ AreContacts(result) /\ Member(result, "value") = Absent
    BY <1>1, <1>2, <1>3, <1>4, <1>5
  <2>2. result.json # "object" /\ result # Null
    BY <1>2, <1>5, KindsDiffer
  <2>3. QED
    BY <1>4, <1>5, <2>1, <2>2 DEF ParsesResult
<1>6. CASE result = Null
  <2>1. result.json = "null" /\ result # Absent
    BY <1>6, KindsDiffer
  <2>2. ~ IsId(result) /\ ~ AreContacts(result) /\ Member(result, "value") = Absent
    BY <1>1, <1>2, <1>3, <2>1
  <2>3. result.json # "object"
    BY <2>1
  <2>4. QED
    BY <1>4, <1>6, <2>1, <2>2, <2>3 DEF ParsesResult
<1>7. CASE AreContacts(result)
  <2>1. result # Absent /\ ~ IsId(result) /\ Member(result, "value") = Absent
    BY <1>1, <1>2, <1>3, <1>4, <1>7
  <2>2. result.json # "object" /\ result # Null
    BY <1>3, <1>7, KindsDiffer
  <2>3. QED
    BY <1>4, <1>7, <2>1, <2>2 DEF ParsesResult
<1>8. CASE /\ result.json = "object" /\ result # Absent
           /\ Member(result, "value").json \in {"null", "string"}
           /\ AreContacts(Member(result, "contacts"))
  <2>1. ~ IsId(result) /\ ~ AreContacts(result) /\ result # Null
    BY <1>2, <1>3, <1>8, KindsDiffer
  <2>2. QED
    BY <1>8, <2>1 DEF ParsesResult
<1>9. QED
  BY <1>5, <1>6, <1>7, <1>8

\* The four forms of an answer parse for their own type, and for store.
LEMMA ToldApartIfSound == NodeIInv => AnswersAreToldApart
<1> SUFFICES ASSUME NodeIInv, Answered
             PROVE  \A type \in {"ping", "store", "find_node", "find_value"} :
                      ParsesResult(last.wire, type) <=> type \in {last.asked.type, "store"}
  BY DEF AnswersAreToldApart
<1>1. PICK q, m : q = last.asked /\ m = last.wire
  OBVIOUS
<1>2. q \in Request /\ IsAnswer(buckets, storage, q, m)
  BY <1>1 DEF NodeIInv, LastIsAnswer, Answered
<1>3. buckets \in Seq(SoundBucket) /\ Tiles(buckets)
  BY DEF NodeIInv, IInv
<1>4. ASSUME NEW t \in Id PROVE ClosestIn(buckets, t, q.id) \in Seq(Contact)
  BY <1>3, <1>4, AnswerProperties
<1>5. PICK result : result = Member(m, "result")
  OBVIOUS
<1>6. CASE q.type = "ping" /\ m = PingResponse(Self, RequestId)
  <2>1. IsId(result)
    BY <1>5, <1>6, ResponseParts, IdSurvives, SelfAssumption DEF PingResponse
  <2>2. QED
    BY <1>1, <1>5, <1>6, <2>1, ParsesByKind
<1>7. CASE q.type = "store" /\ m = StoreResponse(RequestId)
  <2>1. result = Null
    BY <1>5, <1>7, ResponseParts DEF StoreResponse
  <2>2. QED
    BY <1>1, <1>5, <1>7, <2>1, ParsesByKind
<1>8. CASE /\ q.type = "find_node"
           /\ m = FindNodeResponse(ClosestIn(buckets, q.target, q.id), RequestId)
  <2>1. PICK cs \in Seq(Contact) : cs = ClosestIn(buckets, q.target, q.id)
    BY <1>2, <1>4, <1>8, RequestFields
  <2>2. AreContacts(result)
    BY <1>5, <1>8, <2>1, ResponseParts, ContactsSurvive DEF FindNodeResponse
  <2>3. QED
    BY <1>1, <1>5, <1>8, <2>2, ParsesByKind
<1>9. CASE /\ q.type = "find_value"
           /\ m = FindValueResponse(Find(storage, q.key),
                                    ClosestIn(buckets, KeyId(q.key), q.id), RequestId)
  <2>1. PICK value \in Stored :
          m = FindValueResponse(value, ClosestIn(buckets, KeyId(q.key), q.id), RequestId)
    BY <1>9, FindProperties DEF NodeIInv
  <2>2. KeyId(q.key) \in Id
    BY <1>2, <1>9, RequestFields, KeyIdIsId, TargetAssumption
  <2>3. PICK cs \in Seq(Contact) : cs = ClosestIn(buckets, KeyId(q.key), q.id)
    BY <1>4, <2>2
  <2>4. PICK node : node = ContactNodes(cs)
    OBVIOUS
  <2>5. result = Obj([value |-> value, contacts |-> node])
    BY <1>5, <2>1, <2>3, <2>4, ResponseParts DEF FindValueResponse
  <2>6. /\ Member(result, "value") = value /\ Member(result, "contacts") = node
        /\ result.json = "object" /\ result # Absent
    BY <2>5, FoundValueParts
  <2>7. value.json \in {"null", "string"}
    BY KindsDiffer DEF Stored
  <2>8. AreContacts(node)
    BY <2>4, ContactsSurvive
  <2>9. QED
    BY <1>1, <1>5, <1>9, <2>6, <2>7, <2>8, ParsesByKind
<1>10. QED
  BY <1>2, <1>6, <1>7, <1>8, <1>9 DEF IsAnswer

\* Whatever a node answers parses as the result of the type of request that it
\* answers, and otherwise only as that of a store request (parse_result and the
\* parsers it calls, create_..._response).
THEOREM AlwaysToldApart == NodeSpec => []AnswersAreToldApart
BY NodeIsSound, ToldApartIfSound, PTL

-----------------------------------------------------------------------------
(* Only whole requests are taken                                           *)
-----------------------------------------------------------------------------
\* Changed or not, a request that is taken is read as it was meant.
LEMMA OnlyWholeIfSound == NodeIInv => OnlyWholeRequests
<1> SUFFICES ASSUME NodeIInv, Answered,
                    NEW q, q = last.asked, NEW whole, whole = Written(q)
             PROVE  /\ Taken = Request
                    /\ Heard(q).id = q.id
                    /\ q.type = "find_node" => Heard(q) = q
                    /\ \A m \in Changed(whole) :
                         HasRequestId(m) /\ IsRequest(m) /\ ParsesRequest(m) =>
                           /\ \A i \in DOMAIN Member(whole, "params").items : IsText(Param(m, i))
                           /\ ReadRequest(m) = ReadRequest(whole)
  BY DEF OnlyWholeRequests
<1>1. q \in Request
  BY DEF NodeIInv, LastIsAnswer, Answered
<1>2. Taken = Request /\ Heard(q) = Meant(q)
  BY <1>1, HeardIsMeant
<1>3. Meant(q).id = q.id /\ (q.type = "find_node" => Meant(q) = q)
  BY <1>1, RequestFields DEF Meant
<1>4. ASSUME NEW m \in Changed(whole), HasRequestId(m), IsRequest(m), ParsesRequest(m)
      PROVE  /\ \A i \in DOMAIN Member(whole, "params").items : IsText(Param(m, i))
             /\ ReadRequest(m) = ReadRequest(whole)
  <2>1. Says(m, q) /\ Says(whole, q)
    BY <1>1, <1>4, ChangedIsTheSame, WrittenSays
  <2>2. ReadRequest(m) = Meant(q) /\ ReadRequest(whole) = Meant(q)
    BY <1>1, <2>1, ReadsWhatItSays
  <2>3. Member(whole, "params").items = Params(q)
    BY <1>1, WrittenForm, RequestParts, KindsDiffer
  <2>4. \A i \in DOMAIN Params(q) : IsText(Param(m, i))
    BY <1>1, <1>4, <2>1, ParsingNeedsTexts DEF Says
  <2>5. QED
    BY <2>2, <2>3, <2>4
<1>5. QED
  BY <1>2, <1>3, <1>4

\* recv_cb makes every request out for what it is, and a changed one only if it
\* still says the same.
THEOREM AlwaysOnlyWholeRequests == NodeSpec => []OnlyWholeRequests
BY NodeIsSound, OnlyWholeIfSound, PTL
===============================================================================
