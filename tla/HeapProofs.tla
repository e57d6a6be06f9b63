----------------------------- MODULE HeapProofs ------------------------------
(***************************************************************************)
(* That kad_contactheap_t and the hash table behind its marks are what     *)
(* the crawlers take them for: a sorted set, and a set.                    *)
(*                                                                         *)
(* The argument has two parts.  The binary search, whose result splits     *)
(* the sorted array at the new distance, keeps it sorted.  The walk of an  *)
(* identifier, modulo the number of cells, meets every cell, so that it is *)
(* found wherever it was put, and a rebuilt table holds what the old one   *)
(* held.                                                                   *)
(*                                                                         *)
(* Both loops are recursive functions, and the theorems about recursion    *)
(* are out of reach of the provers.  That there are such functions, and    *)
(* what they compute, is shown by a least counterexample (LeastOf) in the  *)
(* length of what is left to search and in the number of cells visited.    *)
(***************************************************************************)
EXTENDS ContactHeap, ListProofs

Sorted(h) == \A i, j \in DOMAIN h : i < j => h[i] < h[j]

-----------------------------------------------------------------------------
(* The binary search                                                       *)
-----------------------------------------------------------------------------
Mid(lr) == (lr[1] + lr[2]) \div 2

\* One turn of the loop of kad_contactheap_push, with g for the turns after it.
Turn(h, d, g, lr) ==
  IF lr[1] >= lr[2] THEN lr[1]
  ELSE IF d < h[Mid(lr) + 1] THEN g[<<lr[1], Mid(lr)>>] ELSE g[<<Mid(lr) + 1, lr[2]>>]

\* While the loop goes on, the middle is between the bounds.
LEMMA MidIsBetween ==
  ASSUME NEW h \in Seq(Nat), NEW lr \in Bounds(h), lr[1] < lr[2]
  PROVE  /\ Mid(lr) \in 0..(Len(h) - 1) /\ lr[1] <= Mid(lr) /\ Mid(lr) < lr[2]
         /\ <<lr[1], Mid(lr)>> \in Bounds(h)
         /\ <<Mid(lr) + 1, lr[2]>> \in Bounds(h)
<1>1. PICK l \in 0..Len(h), r \in 0..Len(h) : lr = <<l, r>>
  BY DEF Bounds
<1>2. PICK m : m = (l + r) \div 2
  OBVIOUS
<1>3. Len(h) \in Nat /\ l < r
  BY <1>1
<1>4. m \in 0..(Len(h) - 1) /\ l <= m /\ m < r
  BY <1>2, <1>3
<1>5. Mid(lr) = m
  BY <1>1, <1>2 DEF Mid
<1>6. m + 1 \in 0..Len(h) /\ m \in 0..Len(h)
  BY <1>3, <1>4
<1>7. <<l, m>> \in Bounds(h) /\ <<m + 1, r>> \in Bounds(h)
  BY <1>6 DEF Bounds
<1>8. QED
  BY <1>1, <1>4, <1>5, <1>7

\* The loop ends: for some function the value at every pair of bounds is that of
\* one turn and of the turns after it.
LEMMA LoopEnds ==
  ASSUME NEW h \in Seq(Nat), NEW d \in Nat
  PROVE  \E pos : pos = [lr \in Bounds(h) |-> Turn(h, d, pos, lr)]
<1> DEFINE D == Bounds(h)
           Right(g, n) == \A lr \in D : lr[2] - lr[1] <= n => g[lr] = Turn(h, d, g, lr)
           T == {n \in Nat : ~ \E g \in [D -> Nat] : Right(g, n)}
<1>1. \A lr \in D : lr[1] \in 0..Len(h) /\ lr[2] \in 0..Len(h)
  BY DEF Bounds
<1>2. Len(h) \in Nat
  OBVIOUS
<1>3. 0 \notin T
  <2>1. PICK g : g = [lr \in D |-> lr[1]]
    OBVIOUS
  <2>2. g \in [D -> Nat]
    BY <1>1, <1>2, <2>1
  <2>3. ASSUME NEW lr \in D, lr[2] - lr[1] <= 0 PROVE g[lr] = Turn(h, d, g, lr)
    <3>1. lr[1] >= lr[2]
      BY <1>1, <1>2, <2>3
    <3>2. QED
      BY <2>1, <3>1 DEF Turn
  <2>4. QED
    BY <2>2, <2>3
<1>4. ASSUME NEW n \in Nat, n \notin T
      PROVE  n + 1 \notin T
  <2>1. PICK g \in [D -> Nat] : Right(g, n)
    BY <1>4
  <2>2. \A lr \in D : Turn(h, d, g, lr) \in Nat
    <3>1. SUFFICES ASSUME NEW lr \in D PROVE Turn(h, d, g, lr) \in Nat
      OBVIOUS
    <3>2. CASE lr[1] >= lr[2]
      BY <1>1, <1>2, <3>2 DEF Turn
    <3>3. CASE ~ (lr[1] >= lr[2])
      <4>1. lr[1] < lr[2]
        BY <1>1, <1>2, <3>3
      <4>2. <<lr[1], Mid(lr)>> \in D /\ <<Mid(lr) + 1, lr[2]>> \in D
        BY <4>1, MidIsBetween
      <4> HIDE DEF D
      <4>3. g[<<lr[1], Mid(lr)>>] \in Nat /\ g[<<Mid(lr) + 1, lr[2]>>] \in Nat
        BY <4>2
      <4>4. QED
        BY <3>3, <4>3 DEF Turn
    <3>4. QED
      BY <3>2, <3>3
  <2>3. PICK f : f = [lr \in D |-> Turn(h, d, g, lr)]
    OBVIOUS
  <2>4. f \in [D -> Nat]
    BY <2>2, <2>3
  <2>5. \A lr \in D : lr[2] - lr[1] <= n => f[lr] = g[lr]
    BY <2>1, <2>3
  <2>6. ASSUME NEW lr \in D, lr[2] - lr[1] <= n + 1
        PROVE  f[lr] = Turn(h, d, f, lr)
    <3>1. f[lr] = Turn(h, d, g, lr)
      BY <2>3
    <3>2. CASE lr[1] >= lr[2]
      BY <3>1, <3>2 DEF Turn
    <3>3. CASE ~ (lr[1] >= lr[2])
      <4>1. lr[1] < lr[2]
        BY <1>1, <1>2, <3>3
      <4>2. PICK m : m = Mid(lr)
        OBVIOUS
      <4>3. /\ <<lr[1], m>> \in D /\ <<m + 1, lr[2]>> \in D
            /\ m \in Nat /\ lr[1] <= m /\ m < lr[2]
        BY <4>1, <4>2, MidIsBetween
      <4>4. m - lr[1] <= n /\ lr[2] - (m + 1) <= n
        <5>1. PICK l \in 0..Len(h) : l = lr[1]
          BY <1>1
        <5>2. PICK r \in 0..Len(h) : r = lr[2]
          BY <1>1
        <5>3. r - l <= n + 1 /\ m \in Nat /\ l <= m /\ m < r
          BY <2>6, <4>3, <5>1, <5>2
        <5>4. m - l <= n /\ r - (m + 1) <= n
          BY <1>2, <5>3
        <5>5. QED
          BY <5>1, <5>2, <5>4
      <4>5. f[<<lr[1], m>>] = g[<<lr[1], m>>] /\ f[<<m + 1, lr[2]>>] = g[<<m + 1, lr[2]>>]
        <5>1. <<lr[1], m>>[2] - <<lr[1], m>>[1] <= n /\ <<m + 1, lr[2]>>[2] - <<m + 1, lr[2]>>[1] <= n
          BY <4>4
        <5> HIDE DEF D
        <5>2. QED
          BY <2>5, <4>3, <5>1
      <4>6. QED
        BY <3>1, <3>3, <4>2, <4>5 DEF Turn
    <3>4. QED
      BY <3>2, <3>3
  <2>7. QED
    BY <2>4, <2>6
<1>5. T = {}
  <2>1. SUFFICES ASSUME T # {} PROVE FALSE
    OBVIOUS
  <2>2. PICK n \in T : \A k \in T : n <= k
    <3>1. T \in SUBSET Nat
      OBVIOUS
    <3> HIDE DEF T
    <3>2. QED
      BY <2>1, <3>1, LeastOf
  <2>3. n \in Nat
    OBVIOUS
  <2> HIDE DEF T
  <2>4. n # 0 /\ n - 1 \in Nat /\ n - 1 \notin T
    BY <1>3, <2>2, <2>3
  <2>5. (n - 1) + 1 \notin T
    BY <1>4, <2>4
  <2>6. QED
    BY <2>2, <2>3, <2>5
<1>6. PICK g \in [D -> Nat] : Right(g, Len(h))
  BY <1>2, <1>5
<1>7. \A lr \in D : lr[2] - lr[1] <= Len(h)
  BY <1>1, <1>2
<1>8. \A lr \in D : g[lr] = Turn(h, d, g, lr)
  BY <1>6, <1>7
<1>9. g = [lr \in D |-> Turn(h, d, g, lr)]
  BY <1>6, <1>8
<1>10. QED
  BY <1>9

\* What the loop finds, from bounds that are right: the place before which no
\* distance is greater, and from which on all are.
Splits(h, d, l, r) ==
  (\A i \in 1..l : h[i] <= d) /\ (\A i \in (r + 1)..Len(h) : d < h[i])

LEMMA LoopFinds ==
  ASSUME NEW h \in Seq(Nat), Sorted(h), NEW d \in Nat,
         NEW pos, pos = [lr \in Bounds(h) |-> Turn(h, d, pos, lr)]
  PROVE  \A lr \in Bounds(h) : lr[1] <= lr[2] /\ Splits(h, d, lr[1], lr[2])
           => pos[lr] \in 0..Len(h) /\ Splits(h, d, pos[lr], pos[lr])
<1> DEFINE D == Bounds(h)
           Right(lr) == lr[1] <= lr[2] /\ Splits(h, d, lr[1], lr[2])
             => pos[lr] \in 0..Len(h) /\ Splits(h, d, pos[lr], pos[lr])
           T == {n \in Nat : \E lr \in D : lr[2] - lr[1] = n /\ ~ Right(lr)}
<1>1. \A lr \in D : lr[1] \in 0..Len(h) /\ lr[2] \in 0..Len(h)
  BY DEF Bounds
<1>2. Len(h) \in Nat /\ DOMAIN h = 1..Len(h) /\ \A i \in 1..Len(h) : h[i] \in Nat
  OBVIOUS
<1>3. ASSUME NEW lr \in D,
             \A x \in D : x[2] - x[1] \in Nat /\ x[2] - x[1] < lr[2] - lr[1] => Right(x)
      PROVE  Right(lr)
  <2>1. SUFFICES ASSUME lr[1] <= lr[2], Splits(h, d, lr[1], lr[2])
                 PROVE  pos[lr] \in 0..Len(h) /\ Splits(h, d, pos[lr], pos[lr])
    OBVIOUS
  <2>2. pos[lr] = Turn(h, d, pos, lr)
    OBVIOUS
  <2>3. CASE lr[1] >= lr[2]
    <3>1. lr[1] = lr[2]
      BY <1>1, <2>1, <2>3
    <3>2. pos[lr] = lr[1]
      BY <2>2, <2>3 DEF Turn
    <3>3. QED
      BY <1>1, <2>1, <3>1, <3>2
  <2>4. CASE ~ (lr[1] >= lr[2])
    <3>1. PICK l \in 0..Len(h) : l = lr[1]
      BY <1>1
    <3>2. PICK r \in 0..Len(h) : r = lr[2]
      BY <1>1
    <3>3. PICK m : m = Mid(lr)
      OBVIOUS
    <3>4. l < r
      BY <2>4, <3>1, <3>2
    <3>5. /\ m \in 0..(Len(h) - 1) /\ l <= m /\ m < r
          /\ <<l, m>> \in D /\ <<m + 1, r>> \in D
      BY <3>1, <3>2, <3>3, <3>4, MidIsBetween
    <3>6. m + 1 \in 1..Len(h) /\ h[m + 1] \in Nat
      BY <1>2, <3>5
    <3>7. CASE d < h[m + 1]
      <4>1. pos[lr] = pos[<<l, m>>]
        BY <2>2, <2>4, <3>1, <3>2, <3>3, <3>7 DEF Turn
      <4>2. \A i \in (m + 1)..Len(h) : d < h[i]
        <5>1. SUFFICES ASSUME NEW i \in (m + 1)..Len(h) PROVE d < h[i]
          OBVIOUS
        <5>2. i \in 1..Len(h) /\ (i = m + 1 \/ m + 1 < i)
          BY <3>5, <3>6
        <5>3. h[i] \in Nat /\ h[m + 1] <= h[i]
          BY <1>2, <3>6, <5>2 DEF Sorted
        <5>4. QED
          BY <3>6, <3>7, <5>3
      <4>3. Splits(h, d, l, m)
        BY <2>1, <3>1, <4>2 DEF Splits
      <4>4. /\ <<l, m>>[1] = l /\ <<l, m>>[2] = m
            /\ m - l \in Nat /\ m - l < r - l /\ l <= m
        BY <1>2, <3>5
      <4>5. Right(<<l, m>>)
        BY <1>3, <3>1, <3>2, <3>5, <4>4
      <4>6. QED
        BY <4>1, <4>3, <4>4, <4>5
    <3>8. CASE ~ (d < h[m + 1])
      <4>1. pos[lr] = pos[<<m + 1, r>>]
        BY <2>2, <2>4, <3>1, <3>2, <3>3, <3>8 DEF Turn
      <4>2. \A i \in 1..(m + 1) : h[i] <= d
        <5>1. SUFFICES ASSUME NEW i \in 1..(m + 1) PROVE h[i] <= d
          OBVIOUS
        <5>2. i \in 1..Len(h) /\ (i = m + 1 \/ i < m + 1)
          BY <1>2, <3>5, <3>6
        <5>3. h[i] \in Nat /\ h[i] <= h[m + 1]
          BY <1>2, <3>6, <5>2 DEF Sorted
        <5>4. QED
          BY <3>6, <3>8, <5>3
      <4>3. Splits(h, d, m + 1, r)
        BY <2>1, <3>2, <4>2 DEF Splits
      <4>4. /\ <<m + 1, r>>[1] = m + 1 /\ <<m + 1, r>>[2] = r
            /\ r - (m + 1) \in Nat /\ r - (m + 1) < r - l /\ m + 1 <= r
        BY <1>2, <3>5
      <4>5. Right(<<m + 1, r>>)
        BY <1>3, <3>1, <3>2, <3>5, <4>4
      <4>6. QED
        BY <4>1, <4>3, <4>4, <4>5
    <3>9. QED
      BY <3>7, <3>8
  <2>5. QED
    BY <2>3, <2>4
<1>4. T = {}
  <2>1. SUFFICES ASSUME T # {} PROVE FALSE
    OBVIOUS
  <2>2. T \in SUBSET Nat
    OBVIOUS
  <2>3. PICK n \in T : \A k \in T : n <= k
    <3> HIDE DEF T
    <3>1. QED
      BY <2>1, <2>2, LeastOf
  <2>4. PICK lr \in D : lr[2] - lr[1] = n /\ ~ Right(lr)
    BY <2>3
  <2>5. ASSUME NEW x \in D, x[2] - x[1] \in Nat, x[2] - x[1] < lr[2] - lr[1]
        PROVE  Right(x)
    <3>1. ~ (n <= x[2] - x[1]) /\ n \in Nat
      BY <2>2, <2>4, <2>5
    <3>2. x[2] - x[1] \notin T
      <4> HIDE DEF T
      <4>1. QED
        BY <2>3, <3>1
    <3> HIDE DEF Right
    <3>3. QED
      BY <2>5, <3>2
  <2> HIDE DEF Right, D
  <2>6. QED
    BY <1>3, <2>4, <2>5
<1>5. ASSUME NEW lr \in D
      PROVE  Right(lr)
  <2>1. CASE lr[1] <= lr[2]
    <3>1. lr[2] - lr[1] \in Nat
      BY <1>1, <2>1
    <3>2. lr[2] - lr[1] \notin T
      BY <1>4
    <3> HIDE DEF Right, D
    <3>3. QED
      BY <3>1, <3>2
  <2>2. QED
    BY <2>1
<1>6. QED
  BY <1>5

\* The position that kad_contactheap_push finds.
LEMMA SearchSplits ==
  ASSUME NEW h \in Seq(Nat), Sorted(h), NEW d \in Nat
  PROVE  Search(h, d) \in 0..Len(h) /\ Splits(h, d, Search(h, d), Search(h, d))
<1> DEFINE Loop(pos) == pos = [lr \in Bounds(h) |-> Turn(h, d, pos, lr)]
<1>1. PICK pos : pos = CHOOSE f : Loop(f)
  OBVIOUS
<1>2. Search(h, d) = pos[<<0, Len(h)>>]
  BY <1>1 DEF Search, Turn, Mid
<1>3. \E f : Loop(f)
  BY LoopEnds
<1> HIDE DEF Loop
<1>4. Loop(pos)
  BY <1>1, <1>3, Zenon
<1>5. \A lr \in Bounds(h) : lr[1] <= lr[2] /\ Splits(h, d, lr[1], lr[2])
           => pos[lr] \in 0..Len(h) /\ Splits(h, d, pos[lr], pos[lr])
  BY <1>4, LoopFinds DEF Loop
<1>6. /\ <<0, Len(h)>> \in Bounds(h) /\ <<0, Len(h)>>[1] = 0 /\ <<0, Len(h)>>[2] = Len(h)
      /\ 0 <= Len(h)
  BY DEF Bounds
<1>7. Splits(h, d, 0, Len(h))
  BY DEF Splits
<1>8. QED
  BY <1>2, <1>5, <1>6, <1>7

-----------------------------------------------------------------------------
(* The array                                                               *)
-----------------------------------------------------------------------------
\* The list t is s with x put in at place i: the places before stay, those from
\* there on move by one.
IsInserted(t, s, i, x) == /\ t \in Seq(Nat) /\ DOMAIN t = 1..(Len(s) + 1)
                          /\ i \in 1..(Len(s) + 1)
                          /\ \A k \in 1..(i - 1) : t[k] = s[k]
                          /\ t[i] = x
                          /\ \A k \in i..Len(s) : t[k + 1] = s[k]
                          /\ ToSet(t) = ToSet(s) \cup {x}

LEMMA InsertAtProperties ==
  ASSUME NEW s \in Seq(Nat), NEW x \in Nat,
         NEW i \in 1..(Len(s) + 1)
  PROVE  IsInserted(InsertAt(s, i, x), s, i, x)
<1>1. PICK a : a = SubSeq(s, 1, i - 1)
  OBVIOUS
<1>2. PICK b : b = SubSeq(s, i, Len(s))
  OBVIOUS
<1>3. PICK ins : ins = InsertAt(s, i, x)
  OBVIOUS
<1>4. Len(s) \in Nat /\ DOMAIN s = 1..Len(s) /\ i \in Nat /\ 1 <= i /\ i <= Len(s) + 1
  OBVIOUS
<1>5. /\ a \in Seq(Nat) /\ Len(a) = i - 1
      /\ \A k \in 1..(i - 1) : a[k] = s[k]
  BY <1>1, <1>4, SubSeqProperties
<1>6. /\ b \in Seq(Nat) /\ Len(b) = Len(s) - i + 1
      /\ \A k \in 1..(Len(s) - i + 1) : b[k] = s[k + i - 1]
  BY <1>2, <1>4, SubSeqProperties
<1>7. PICK c : c = a \o <<x>>
  OBVIOUS
<1>8. ins = c \o b
  BY <1>1, <1>2, <1>3, <1>7 DEF InsertAt
<1>9. /\ c \in Seq(Nat) /\ Len(c) = i
      /\ \A k \in 1..(i - 1) : c[k] = s[k]
      /\ c[i] = x
  <2>1. PICK e : e = <<x>>
    OBVIOUS
  <2>2. e \in Seq(Nat) /\ Len(e) = 1 /\ e[1] = x
    BY <2>1
  <2>3. /\ c \in Seq(Nat) /\ Len(c) = Len(a) + Len(e)
        /\ \A k \in 1..(Len(a) + Len(e)) : c[k] = IF k <= Len(a) THEN a[k] ELSE e[k - Len(a)]
    BY <1>5, <1>7, <2>1, <2>2, ConcatProperties
  <2>4. Len(c) = i
    BY <1>4, <1>5, <2>2, <2>3
  <2>5. ASSUME NEW k \in 1..(i - 1) PROVE c[k] = s[k]
    <3>1. k \in 1..(Len(a) + Len(e)) /\ k <= Len(a)
      BY <1>4, <1>5, <2>2
    <3>2. QED
      BY <1>5, <2>3, <3>1
  <2>6. c[i] = x
    <3>1. i \in 1..(Len(a) + Len(e)) /\ ~ (i <= Len(a)) /\ i - Len(a) = 1
      BY <1>4, <1>5, <2>2
    <3>2. QED
      BY <2>2, <2>3, <3>1
  <2>7. QED
    BY <2>3, <2>4, <2>5, <2>6
<1>10. /\ ins \in Seq(Nat) /\ Len(ins) = Len(s) + 1
       /\ \A k \in 1..(Len(s) + 1) : ins[k] = IF k <= i THEN c[k] ELSE b[k - i]
  <2>1. /\ ins \in Seq(Nat) /\ Len(ins) = Len(c) + Len(b)
        /\ \A k \in 1..(Len(c) + Len(b)) : ins[k] = IF k <= Len(c) THEN c[k] ELSE b[k - Len(c)]
    BY <1>6, <1>8, <1>9, ConcatProperties
  <2>2. Len(c) = i /\ Len(c) + Len(b) = Len(s) + 1
    BY <1>4, <1>6, <1>9
  <2>3. QED
    BY <2>1, <2>2
<1>11. /\ ins \in Seq(Nat) /\ Len(ins) = Len(s) + 1 /\ DOMAIN ins = 1..(Len(s) + 1)
  BY <1>4, <1>10
<1>12. ASSUME NEW k \in 1..(Len(s) + 1)
       PROVE  ins[k] = IF k < i THEN s[k] ELSE IF k = i THEN x ELSE s[k - 1]
  <2>1. CASE k < i
    <3>1. k \in 1..(i - 1) /\ k <= i
      BY <1>4, <2>1
    <3>2. QED
      BY <1>9, <1>10, <2>1, <3>1
  <2>2. CASE k = i
    <3>1. k <= i /\ ~ (k < i)
      BY <1>4, <2>2
    <3>2. QED
      BY <1>9, <1>10, <2>2, <3>1
  <2>3. CASE k > i
    <3>1. k - i \in 1..(Len(s) - i + 1) /\ (k - i) + i - 1 = k - 1
          /\ ~ (k <= i) /\ ~ (k < i) /\ k # i
      BY <1>4, <2>3
    <3>2. ins[k] = b[k - i] /\ b[k - i] = s[(k - i) + i - 1]
      BY <1>6, <1>10, <3>1
    <3>3. QED
      BY <3>1, <3>2
  <2>4. k < i \/ k = i \/ k > i
    BY <1>4
  <2>5. QED
    BY <2>1, <2>2, <2>3, <2>4
<1>13. ToSet(ins) = ToSet(s) \cup {x}
  <2>1. \A k \in DOMAIN ins :
          \/ k < i
          \/ k = i
          \/ k - 1 \in DOMAIN s /\ ~ (k < i) /\ k # i
    BY <1>4, <1>11
  <2>2. \A k \in DOMAIN ins : k < i => k \in DOMAIN s
    BY <1>4, <1>11
  <2>3. \A k \in DOMAIN ins : ins[k] \in ToSet(s) \cup {x}
    BY <1>11, <1>12, <2>1, <2>2 DEF ToSet
  <2>4. \A j \in DOMAIN s : j < i => j \in DOMAIN ins /\ ins[j] = s[j]
    BY <1>4, <1>11, <1>12
  <2>5. \A j \in DOMAIN s : ~ (j < i) => j + 1 \in DOMAIN ins /\ ins[j + 1] = s[j]
    <3>1. ASSUME NEW j \in DOMAIN s, ~ (j < i)
          PROVE  j + 1 \in DOMAIN ins /\ ins[j + 1] = s[j]
      <4>1. /\ j + 1 \in 1..(Len(s) + 1) /\ ~ (j + 1 < i) /\ j + 1 # i
            /\ (j + 1) - 1 = j
        BY <1>4, <3>1
      <4>2. ins[j + 1] = s[(j + 1) - 1]
        BY <1>12, <4>1
      <4>3. QED
        BY <1>11, <4>1, <4>2
    <3>2. QED
      BY <3>1
  <2>6. i \in DOMAIN ins /\ ins[i] = x
    BY <1>4, <1>11, <1>12
  <2>7. \A y \in ToSet(s) \cup {x} : y \in ToSet(ins)
    BY <2>4, <2>5, <2>6 DEF ToSet
  <2>8. \A y \in ToSet(ins) : y \in ToSet(s) \cup {x}
    BY <2>3 DEF ToSet
  <2>9. QED
    BY <2>7, <2>8
<1>14. \A k \in 1..(i - 1) : ins[k] = s[k]
  BY <1>4, <1>12
<1>15. ins[i] = x
  BY <1>4, <1>12
<1>16. ASSUME NEW k \in i..Len(s) PROVE ins[k + 1] = s[k]
  <2>1. PICK m \in 1..(Len(s) + 1) : m = k + 1
    BY <1>4
  <2>2. ~ (m < i) /\ m # i /\ m - 1 = k
    BY <1>4, <2>1
  <2>3. ins[m] = s[m - 1]
    BY <1>12, <2>2
  <2>4. QED
    BY <2>1, <2>2, <2>3
<1>17. QED
  BY <1>3, <1>11, <1>13, <1>14, <1>15, <1>16 DEF IsInserted

\* A push keeps the array sorted, and adds the contact to it.
LEMMA PushKeepsSorted ==
  ASSUME NEW h \in Seq(Nat), Sorted(h), NEW d \in Nat, d \notin ToSet(h)
  PROVE  /\ Sorted(InsertAt(h, Search(h, d) + 1, d))
         /\ InsertAt(h, Search(h, d) + 1, d) \in Seq(Nat)
         /\ ToSet(InsertAt(h, Search(h, d) + 1, d)) = ToSet(h) \cup {d}
<1>1. PICK p : p = Search(h, d)
  OBVIOUS
<1>2. p \in 0..Len(h) /\ Splits(h, d, p, p)
  BY <1>1, SearchSplits
<1>3. Len(h) \in Nat /\ DOMAIN h = 1..Len(h) /\ \A i \in 1..Len(h) : h[i] \in Nat
  OBVIOUS
<1>4. p + 1 \in 1..(Len(h) + 1)
  BY <1>2, <1>3
<1>5. PICK q \in 1..(Len(h) + 1) : q = p + 1
  BY <1>4
<1>6. PICK n : n = InsertAt(h, q, d)
  OBVIOUS
<1>11. IsInserted(n, h, q, d)
  BY <1>6, InsertAtProperties
<1>12. /\ n \in Seq(Nat) /\ DOMAIN n = 1..(Len(h) + 1)
       /\ \A k \in 1..(q - 1) : n[k] = h[k]
       /\ n[q] = d
       /\ \A k \in q..Len(h) : n[k + 1] = h[k]
       /\ ToSet(n) = ToSet(h) \cup {d}
       /\ q \in Nat /\ 1 <= q /\ q <= Len(h) + 1
  BY <1>3, <1>11 DEF IsInserted
<1>7. \A i \in 1..p : i \in 1..Len(h) /\ h[i] < d
  <2>1. SUFFICES ASSUME NEW i \in 1..p PROVE i \in 1..Len(h) /\ h[i] < d
    OBVIOUS
  <2>2. i \in 1..Len(h)
    BY <1>2, <1>3
  <2>3. h[i] # d /\ h[i] <= d /\ h[i] \in Nat
    BY <1>2, <1>3, <2>2 DEF Splits, ToSet
  <2>4. QED
    BY <2>2, <2>3
<1>8. \A i \in (p + 1)..Len(h) : i \in 1..Len(h) /\ d < h[i]
  BY <1>2, <1>3 DEF Splits
<1>9. ASSUME NEW i \in 1..(Len(h) + 1), NEW j \in 1..(Len(h) + 1), i < j
      PROVE  n[i] < n[j]
  <2>1. CASE j < q
    <3>1. i \in 1..(q - 1) /\ j \in 1..(q - 1) /\ i \in DOMAIN h /\ j \in DOMAIN h
      BY <1>3, <1>12, <1>9, <2>1
    <3>2. QED
      BY <1>12, <1>9, <3>1 DEF Sorted
  <2>2. CASE j = q
    <3>1. i \in 1..(q - 1) /\ i \in 1..p
      BY <1>2, <1>3, <1>12, <1>5, <1>9, <2>2
    <3>2. QED
      BY <1>12, <1>7, <2>2, <3>1
  <2>3. CASE j > q
    <3>1. PICK b \in q..Len(h) : j = b + 1
      <4>1. j - 1 \in q..Len(h) /\ j = (j - 1) + 1
        BY <1>3, <1>12, <1>9, <2>3
      <4>2. QED
        BY <4>1
    <3>2. b \in DOMAIN h /\ b \in (p + 1)..Len(h) /\ n[j] = h[b]
      BY <1>3, <1>12, <1>5, <3>1
    <3>3. d < h[b] /\ h[b] \in Nat
      BY <1>3, <1>12, <1>8, <3>2
    <3>4. CASE i < q
      <4>1. i \in 1..(q - 1) /\ i \in 1..p
        BY <1>2, <1>3, <1>12, <1>5, <3>4
      <4>2. n[i] = h[i] /\ h[i] < d /\ h[i] \in Nat
        BY <1>3, <1>12, <1>7, <4>1
      <4>3. QED
        BY <3>2, <3>3, <4>2
    <3>5. CASE i = q
      BY <1>12, <3>2, <3>3, <3>5
    <3>6. CASE i > q
      <4>1. PICK a \in q..Len(h) : i = a + 1
        <5>1. i - 1 \in q..Len(h) /\ i = (i - 1) + 1
          BY <1>3, <1>12, <3>6
        <5>2. QED
          BY <5>1
      <4>2. n[i] = h[a] /\ a \in DOMAIN h /\ a < b
        BY <1>3, <1>12, <1>9, <3>1, <4>1
      <4>3. QED
        BY <3>2, <4>2 DEF Sorted
    <3>7. QED
      BY <1>3, <1>12, <3>4, <3>5, <3>6
  <2>4. QED
    BY <1>3, <1>12, <2>1, <2>2, <2>3
<1>10. QED
  BY <1>1, <1>5, <1>6, <1>9, <1>12 DEF Sorted

\* The loop of kad_contactheap_remove finds the contact.
LEMMA RemoveFirstIs ==
  ASSUME NEW h \in Seq(Nat), NEW d \in ToSet(h)
  PROVE  \E i \in 1..Len(h) : h[i] = d /\ RemoveFirst(h, d) = RemoveAt(h, i)
<1> DEFINE I == {i \in 1..Len(h) : h[i] = d}
<1>1. DOMAIN h = 1..Len(h)
  OBVIOUS
<1>2. I # {} /\ I \in SUBSET Nat
  BY <1>1 DEF ToSet
<1>3. PICK m \in I : \A n \in I : m <= n
  <2> HIDE DEF I
  <2>1. QED
    BY <1>2, LeastOf
<1>4. Min(I) \in I
  <2> HIDE DEF I
  <2>1. QED
    BY <1>3 DEF Min
<1>5. RemoveFirst(h, d) = RemoveAt(h, Min(I))
  <2>1. \E i \in 1..Len(h) : h[i] = d
    BY <1>2
  <2>2. SelectInSeq(h, LAMBDA v : v = d) = Min(I)
    BY <1>2 DEF SelectInSeq
  <2>3. QED
    BY <2>1, <2>2 DEF RemoveFirst
<1>6. QED
  BY <1>4, <1>5

\* A removal keeps the array sorted, and takes the contact out of it.
LEMMA RemoveKeepsSorted ==
  ASSUME NEW h \in Seq(Nat), Sorted(h), NEW d \in ToSet(h)
  PROVE  /\ Sorted(RemoveFirst(h, d)) /\ RemoveFirst(h, d) \in Seq(Nat)
         /\ ToSet(RemoveFirst(h, d)) = ToSet(h) \ {d}
<1>1. PICK i \in 1..Len(h) : h[i] = d /\ RemoveFirst(h, d) = RemoveAt(h, i)
  BY RemoveFirstIs
<1>2. PICK r : r = RemoveAt(h, i)
  OBVIOUS
<1>3. /\ r \in Seq(Nat) /\ Len(r) = Len(h) - 1
      /\ \A k \in 1..(Len(h) - 1) : r[k] = IF k < i THEN h[k] ELSE h[k + 1]
  BY <1>2, RemoveAtProperties
<1>4. Len(h) \in Nat /\ DOMAIN h = 1..Len(h) /\ DOMAIN r = 1..(Len(h) - 1)
      /\ \A k \in 1..Len(h) : h[k] \in Nat
  BY <1>3
<1>5. IsInjective(h)
  <2>1. SUFFICES ASSUME NEW j \in DOMAIN h, NEW k \in DOMAIN h, j # k
                 PROVE  h[j] # h[k]
    BY DEF IsInjective
  <2>2. j < k \/ k < j
    BY <1>4, <2>1
  <2>3. h[j] < h[k] \/ h[k] < h[j]
    BY <2>2 DEF Sorted
  <2>4. QED
    BY <1>4, <2>3
<1>6. ToSet(r) = ToSet(h) \ {d}
  BY <1>1, <1>2, <1>5, RemoveAtMembers
<1>7. ASSUME NEW j \in DOMAIN r, NEW k \in DOMAIN r, j < k
      PROVE  r[j] < r[k]
  <2> DEFINE from(x) == IF x < i THEN x ELSE x + 1
  <2>0. ASSUME NEW x \in DOMAIN r
        PROVE  from(x) \in DOMAIN h /\ r[x] = h[from(x)]
    <3>1. x \in 1..(Len(h) - 1) /\ x \in 1..Len(h) /\ x + 1 \in 1..Len(h)
      BY <1>4
    <3>2. r[x] = IF x < i THEN h[x] ELSE h[x + 1]
      BY <1>3, <3>1
    <3>3. QED
      BY <1>4, <3>1, <3>2
  <2>1. PICK a \in DOMAIN h : r[j] = h[a] /\ a = from(j)
    <3> HIDE DEF from
    <3>1. QED
      BY <2>0
  <2>2. PICK b \in DOMAIN h : r[k] = h[b] /\ b = from(k)
    <3> HIDE DEF from
    <3>1. QED
      BY <2>0
  <2>3. a < b
    BY <1>4, <1>7, <2>1, <2>2
  <2>4. QED
    BY <2>1, <2>2, <2>3 DEF Sorted
<1>8. QED
  BY <1>1, <1>2, <1>3, <1>6, <1>7 DEF Sorted

-----------------------------------------------------------------------------
(* The first contacts of the array                                         *)
-----------------------------------------------------------------------------
\* In a sorted array as many members are less than an element as there are
\* places before it.
LEMMA PlaceIsRank ==
  ASSUME NEW h \in Seq(Nat), Sorted(h), NEW i \in DOMAIN h
  PROVE  /\ IsFiniteSet({q \in ToSet(h) : q < h[i]})
         /\ Cardinality({q \in ToSet(h) : q < h[i]}) = i - 1
<1> DEFINE L == {q \in ToSet(h) : q < h[i]}
<1>1. Len(h) \in Nat /\ DOMAIN h = 1..Len(h) /\ \A j \in DOMAIN h : h[j] \in Nat
  OBVIOUS
<1>2. i \in 1..Len(h) /\ i - 1 \in Nat
  BY <1>1
<1>3. PICK f : f = [j \in 1..(i - 1) |-> h[j]]
  OBVIOUS
<1>4. \A j \in 1..(i - 1) : j \in DOMAIN h /\ h[j] \in L
  <2>1. \A j \in 1..(i - 1) : j \in DOMAIN h /\ j < i
    BY <1>1, <1>2
  <2>2. QED
    BY <2>1 DEF Sorted, ToSet
<1>5. ASSUME NEW j \in 1..(i - 1), NEW k \in 1..(i - 1), h[j] = h[k]
      PROVE  j = k
  <2>1. j \in DOMAIN h /\ k \in DOMAIN h /\ h[j] \in Nat /\ h[k] \in Nat
    BY <1>1, <1>4
  <2>2. ~ (j < k) /\ ~ (k < j)
    BY <1>5, <2>1 DEF Sorted
  <2>3. QED
    BY <1>2, <2>2
<1>6. \A q \in L : \E j \in 1..(i - 1) : h[j] = q
  <2>1. SUFFICES ASSUME NEW q \in L PROVE \E j \in 1..(i - 1) : h[j] = q
    OBVIOUS
  <2>2. PICK j \in DOMAIN h : h[j] = q
    BY DEF ToSet
  <2>3. h[j] < h[i] /\ h[j] \in Nat /\ h[i] \in Nat
    BY <1>1, <2>2
  <2>4. ~ (i < j) /\ i # j
    BY <2>3 DEF Sorted
  <2>5. j \in 1..(i - 1)
    BY <1>1, <1>2, <2>4
  <2>6. QED
    BY <2>2, <2>5
<1> HIDE DEF L
<1>7. f \in Bijection(1..(i - 1), L)
  <2>1. f \in [1..(i - 1) -> L]
    BY <1>3, <1>4
  <2>2. \A j, k \in 1..(i - 1) : f[j] = f[k] => j = k
    BY <1>3, <1>5
  <2>3. \A q \in L : \E j \in 1..(i - 1) : f[j] = q
    BY <1>3, <1>6
  <2>4. QED
    BY <2>1, <2>2, <2>3 DEF Bijection, Injection, Surjection, IsInjective
<1>8. IsFiniteSet(1..(i - 1)) /\ Cardinality(1..(i - 1)) = i - 1
  <2>1. PICK n \in Nat : n = i - 1
    BY <1>2
  <2>2. IsFiniteSet(1..n) /\ Cardinality(1..n) = n
    BY <2>1, FS_Interval
  <2>3. QED
    BY <2>1, <2>2
<1>9. QED
  BY <1>7, <1>8, FS_Bijection, FS_CountingElements DEF ExistsBijection, L

-----------------------------------------------------------------------------
(* The hash table                                                          *)
-----------------------------------------------------------------------------
\* A table of n cells, in which no identifier has two.
IsTable(cs, n) == /\ cs \in [0..(n - 1) -> Member \cup {Empty}]
                  /\ \A i, j \in DOMAIN cs : cs[i] = cs[j] /\ cs[i] # Empty => i = j

\* The identifiers in a table.
Held(cs) == {cs[i] : i \in Occupied(cs)}

\* A number of cells and the cells in use are finite.
LEMMA TableSize ==
  ASSUME NEW n \in Nat \ {0}, NEW cs, IsTable(cs, n)
  PROVE  /\ DOMAIN cs = 0..(n - 1) /\ NumCells(cs) = n
         /\ Occupied(cs) \subseteq 0..(n - 1) /\ IsFiniteSet(Occupied(cs))
         /\ Cardinality(Occupied(cs)) \in Nat
         /\ Cardinality(Occupied(cs)) < n => Occupied(cs) # DOMAIN cs
<1>1. DOMAIN cs = 0..(n - 1)
  BY DEF IsTable
<1>2. PICK m \in Int : m = n - 1
  OBVIOUS
<1>3. IsFiniteSet(0..m) /\ Cardinality(0..m) = n
  BY <1>2, FS_Interval
<1>4. Occupied(cs) \subseteq 0..m
  BY <1>1, <1>2 DEF Occupied
<1>5. IsFiniteSet(Occupied(cs)) /\ Cardinality(Occupied(cs)) \in Nat
  BY <1>3, <1>4, FS_Subset, FS_CardinalityType
<1>6. QED
  BY <1>1, <1>2, <1>3, <1>4, <1>5 DEF NumCells

\* The remainder of a division is unique.
LEMMA RemainderIsUnique ==
  ASSUME NEW n \in Nat \ {0}, NEW q1 \in Int, NEW q2 \in Int,
         NEW r1 \in 0..(n - 1), NEW r2 \in 0..(n - 1), n * q1 + r1 = n * q2 + r2
  PROVE  r1 = r2
<1>1. n * (q1 - q2) = r2 - r1
  OBVIOUS
<1>2. CASE q1 - q2 >= 1
  <2>1. n * (q1 - q2) >= n
    BY <1>2
  <2>2. QED
    BY <1>1, <2>1
<1>3. CASE q2 - q1 >= 1
  <2>1. n * (q2 - q1) >= n
    BY <1>3
  <2>2. n * (q2 - q1) = r1 - r2
    OBVIOUS
  <2>3. QED
    BY <2>1, <2>2
<1>4. CASE q1 = q2
  BY <1>4
<1>5. QED
  BY <1>2, <1>3, <1>4

\* The walk from cell h, modulo the number of cells, meets every cell.
LEMMA WalkMeetsAll ==
  ASSUME NEW n \in Nat \ {0}, NEW h \in Nat, NEW c \in 0..(n - 1)
  PROVE  \E k \in 0..(n - 1) : (h + k) % n = c
<1>1. PICK s \in 0..(n - 1), q \in Nat : h = n * q + s
  <2>1. h % n \in 0..(n - 1) /\ h \div n \in Nat /\ h = n * (h \div n) + (h % n)
    OBVIOUS
  <2>2. QED
    BY <2>1
<1>2. PICK k \in 0..(n - 1), p \in Nat : h + k = n * p + c
  <2>1. CASE s <= c
    <3>1. c - s \in 0..(n - 1) /\ h + (c - s) = n * q + c
      BY <1>1, <2>1
    <3>2. QED
      BY <3>1
  <2>2. CASE c < s
    <3>1. c - s + n \in 0..(n - 1) /\ n * (q + 1) = n * q + n
      BY <2>2
    <3>2. h + (c - s + n) = n * (q + 1) + c
      BY <1>1, <3>1
    <3>3. q + 1 \in Nat
      OBVIOUS
    <3>4. QED
      BY <3>1, <3>2, <3>3
  <2>3. QED
    BY <2>1, <2>2
<1>3. PICK a \in Nat : a = h + k
  OBVIOUS
<1>4. /\ a % n \in 0..(n - 1) /\ a \div n \in Nat
      /\ a = n * (a \div n) + (a % n)
  OBVIOUS
<1>5. PICK r \in 0..(n - 1), u \in Nat : r = a % n /\ a = n * u + r
  BY <1>4
<1>6. r = c
  <2>1. n * p + c = n * u + r
    BY <1>2, <1>3, <1>5
  <2>2. QED
    BY <2>1, RemainderIsUnique
<1>7. QED
  BY <1>3, <1>5, <1>6

\* A walk stays in a table of n cells and meets every cell.
IsWalk(p, n) == /\ DOMAIN p = 0..(n - 1)
                /\ \A k \in 0..(n - 1) : p[k] \in 0..(n - 1)
                /\ \A c \in 0..(n - 1) : \E k \in 0..(n - 1) : p[k] = c

\* So does that of an identifier.
LEMMA ProbeMeetsAll ==
  ASSUME NEW n \in Nat \ {0}, NEW cs, IsTable(cs, n),
         hash \in [Member -> HashValue], NEW id \in Member
  PROVE  IsWalk(Probe(cs, id), n)
<1>1. NumCells(cs) = n
  BY TableSize
<1>2. PICK h \in Nat : h = hash[id]
  BY HashAssumption
<1>3. PICK p : p = Probe(cs, id)
  OBVIOUS
<1>4. p = [k \in 0..(n - 1) |-> (h + k) % n]
  BY <1>1, <1>2, <1>3 DEF Probe
<1>5. \A k \in 0..(n - 1) : (h + k) % n \in 0..(n - 1)
  OBVIOUS
<1>6. \A c \in 0..(n - 1) : \E k \in 0..(n - 1) : (h + k) % n = c
  BY WalkMeetsAll
<1>7. QED
  BY <1>3, <1>4, <1>5, <1>6 DEF IsWalk

\* kad_contactset_contains finds what is in the table.
LEMMA FindsIsHeld ==
  ASSUME NEW n \in Nat \ {0}, NEW cs, IsTable(cs, n),
         hash \in [Member -> HashValue], NEW id \in Member
  PROVE  Finds(cs, id) <=> id \in Held(cs)
<1>1. PICK p : p = Probe(cs, id)
  OBVIOUS
<1>2. IsWalk(p, n)
  BY <1>1, ProbeMeetsAll
<1>3. DOMAIN cs = 0..(n - 1)
  BY TableSize
<1>4. id # Empty
  BY CellAssumption
<1>5. Finds(cs, id) <=> \E k \in DOMAIN p : cs[p[k]] = id
  BY <1>1 DEF Finds
<1>6. ASSUME NEW k \in DOMAIN p, cs[p[k]] = id PROVE id \in Held(cs)
  <2>1. p[k] \in DOMAIN cs
    BY <1>2, <1>3 DEF IsWalk
  <2>2. p[k] \in Occupied(cs)
    BY <1>4, <1>6, <2>1 DEF Occupied
  <2>3. QED
    BY <1>6, <2>2 DEF Held
<1>7. ASSUME id \in Held(cs) PROVE \E k \in DOMAIN p : cs[p[k]] = id
  <2>1. PICK c \in DOMAIN cs : cs[c] = id
    BY <1>7 DEF Held, Occupied
  <2>2. PICK k \in DOMAIN p : p[k] = c
    BY <1>2, <1>3 DEF IsWalk
  <2>3. QED
    BY <2>1, <2>2
<1>8. QED
  BY <1>5, <1>6, <1>7

\* kad_contactset_add puts a new identifier into an empty cell of a table that is
\* not full.
LEMMA PutAdds ==
  ASSUME NEW n \in Nat \ {0}, NEW cs, IsTable(cs, n),
         hash \in [Member -> HashValue], NEW id \in Member,
         id \notin Held(cs), Cardinality(Occupied(cs)) < n
  PROVE  /\ IsTable(Put(cs, id), n) /\ Held(Put(cs, id)) = Held(cs) \cup {id}
         /\ Cardinality(Occupied(Put(cs, id))) = Cardinality(Occupied(cs)) + 1
<1>1. PICK p : p = Probe(cs, id)
  OBVIOUS
<1>2. IsWalk(p, n)
  BY <1>1, ProbeMeetsAll
<1>3. /\ DOMAIN cs = 0..(n - 1) /\ IsFiniteSet(Occupied(cs))
      /\ Occupied(cs) \subseteq DOMAIN cs /\ Occupied(cs) # DOMAIN cs
      /\ Cardinality(Occupied(cs)) \in Nat
  BY TableSize
<1>4. id # Empty
  BY CellAssumption
<1> DEFINE Free == {k \in DOMAIN p : cs[p[k]] = Empty}
<1>5. Free \in SUBSET Nat /\ Free # {}
  <2>1. PICK c \in DOMAIN cs : cs[c] = Empty
    BY <1>3 DEF Occupied
  <2>2. PICK k \in DOMAIN p : p[k] = c
    BY <1>2, <1>3 DEF IsWalk
  <2>3. DOMAIN p \subseteq Nat
    BY <1>2 DEF IsWalk
  <2>4. QED
    BY <2>1, <2>2, <2>3
<1>6. PICK m \in Free : \A k \in Free : m <= k
  <2> HIDE DEF Free
  <2>1. QED
    BY <1>5, LeastOf
<1>7. \A j \in 0..(m - 1) : j \in DOMAIN p /\ cs[p[j]] # Empty
  <2>1. SUFFICES ASSUME NEW j \in 0..(m - 1)
                 PROVE  j \in DOMAIN p /\ cs[p[j]] # Empty
    OBVIOUS
  <2>2. m \in 0..(n - 1) /\ DOMAIN p = 0..(n - 1)
    BY <1>2 DEF IsWalk
  <2>3. j \in DOMAIN p /\ ~ (m <= j)
    BY <2>2
  <2>4. QED
    BY <1>6, <2>3
<1>8. PICK f : f = FirstFree(cs, id)
  OBVIOUS
<1>9. f \in DOMAIN p /\ cs[p[f]] = Empty
  <2>1. \E k \in DOMAIN p : cs[p[k]] = Empty /\ \A j \in 0..(k - 1) : ~ (cs[p[j]] = Empty)
    BY <1>6, <1>7
  <2>2. f = CHOOSE k \in DOMAIN p : cs[p[k]] = Empty /\ \A j \in 0..(k - 1) : ~ (cs[p[j]] = Empty)
    BY <1>1, <1>8 DEF FirstFree, IsFree
  <2>3. QED
    BY <2>1, <2>2
<1>10. PICK c \in DOMAIN cs : c = p[f] /\ cs[c] = Empty
  BY <1>2, <1>3, <1>9 DEF IsWalk
<1>11. PICK t : t = [cs EXCEPT ![c] = id]
  OBVIOUS
<1>12. Put(cs, id) = t
  BY <1>1, <1>3, <1>8, <1>10, <1>11 DEF Put
<1>13. /\ DOMAIN t = DOMAIN cs /\ t[c] = id
       /\ \A i \in DOMAIN cs : i # c => t[i] = cs[i]
  BY <1>11
<1>14. Occupied(t) = Occupied(cs) \cup {c} /\ c \notin Occupied(cs)
  BY <1>4, <1>10, <1>13 DEF Occupied
<1>15. Held(t) = Held(cs) \cup {id}
  <2>1. \A i \in Occupied(cs) : t[i] = cs[i]
    BY <1>10, <1>13 DEF Occupied
  <2>2. QED
    BY <1>13, <1>14, <2>1 DEF Held
<1>16. IsTable(t, n)
  <2>1. t \in [0..(n - 1) -> Member \cup {Empty}]
    BY <1>3, <1>11 DEF IsTable
  <2>2. \A i \in DOMAIN cs : cs[i] # id
    BY <1>4 DEF Held, Occupied
  <2>3. ASSUME NEW i \in DOMAIN t, NEW j \in DOMAIN t, t[i] = t[j], t[i] # Empty
        PROVE  i = j
    BY <1>13, <2>2, <2>3 DEF IsTable
  <2>4. QED
    BY <2>1, <2>3 DEF IsTable
<1>17. Cardinality(Occupied(t)) = Cardinality(Occupied(cs)) + 1
  BY <1>3, <1>14, FS_AddElement
<1>18. QED
  BY <1>12, <1>15, <1>16, <1>17

\* One turn of the loop of kad_contactset_iter, which calls
\* kad_contactset_reserve_cb, with g for the turns before it.
Moved(cs, new, g, k) ==
  IF k = 0 THEN new
  ELSE IF cs[k - 1] = Empty THEN g[k - 1] ELSE Replace(g[k - 1], cs[k - 1])

\* For some function the value at every number of cells is that of one turn and of
\* the turns before it.
LEMMA RebuildEnds ==
  ASSUME NEW n \in Nat, NEW cs, NEW new
  PROVE  \E moved : moved = [k \in 0..n |-> Moved(cs, new, moved, k)]
<1> DEFINE Right(g, m) == \A k \in 0..n : k <= m => g[k] = Moved(cs, new, g, k)
           T == {m \in Nat : ~ \E g : DOMAIN g = 0..n /\ Right(g, m)}
<1>1. 0 \notin T
  <2>1. PICK g : g = [k \in 0..n |-> new]
    OBVIOUS
  <2>2. \A k \in 0..n : k <= 0 => k = 0
    OBVIOUS
  <2>3. DOMAIN g = 0..n /\ Right(g, 0)
    BY <2>1, <2>2 DEF Moved
  <2>4. QED
    BY <2>3
<1>2. ASSUME NEW m \in Nat, m \notin T PROVE m + 1 \notin T
  <2>1. PICK g : DOMAIN g = 0..n /\ Right(g, m)
    BY <1>2
  <2>2. PICK f : f = [k \in 0..n |-> Moved(cs, new, g, k)]
    OBVIOUS
  <2>3. \A k \in 0..n : k <= m => f[k] = g[k]
    BY <2>1, <2>2
  <2>4. ASSUME NEW k \in 0..n, k <= m + 1
        PROVE  f[k] = Moved(cs, new, f, k)
    <3>1. f[k] = Moved(cs, new, g, k)
      BY <2>2
    <3>2. CASE k = 0
      BY <3>1, <3>2 DEF Moved
    <3>3. CASE k # 0
      <4>1. k - 1 \in 0..n /\ k - 1 <= m
        BY <2>4, <3>3
      <4>2. f[k - 1] = g[k - 1]
        BY <2>3, <4>1
      <4>3. QED
        BY <3>1, <3>3, <4>2 DEF Moved
    <3>4. QED
      BY <3>2, <3>3
  <2>5. DOMAIN f = 0..n
    BY <2>2
  <2>6. QED
    BY <2>4, <2>5
<1>3. T = {}
  <2>1. SUFFICES ASSUME T # {} PROVE FALSE
    OBVIOUS
  <2>2. T \in SUBSET Nat
    OBVIOUS
  <2> HIDE DEF T
  <2>3. PICK m \in T : \A k \in T : m <= k
    BY <2>1, <2>2, LeastOf
  <2>4. m \in Nat /\ m # 0
    BY <1>1, <2>2
  <2>5. m - 1 \in Nat /\ m - 1 \notin T
    BY <2>2, <2>3, <2>4
  <2>6. (m - 1) + 1 \notin T
    BY <1>2, <2>5
  <2>7. QED
    BY <2>4, <2>6
<1>4. PICK g : DOMAIN g = 0..n /\ Right(g, n)
  <2>1. n \notin T
    BY <1>3
  <2>2. QED
    BY <2>1
<1>5. \A k \in 0..n : k <= n
  OBVIOUS
<1>6. QED
  <2>1. PICK f : f = [k \in 0..n |-> Moved(cs, new, g, k)]
    OBVIOUS
  <2>2. \A k \in 0..n : f[k] = g[k]
    BY <1>4, <1>5, <2>1
  <2>3. \A k \in 0..n : Moved(cs, new, g, k) = Moved(cs, new, f, k)
    <3>1. SUFFICES ASSUME NEW k \in 0..n
                   PROVE  Moved(cs, new, g, k) = Moved(cs, new, f, k)
      OBVIOUS
    <3>2. CASE k = 0
      BY <3>2 DEF Moved
    <3>3. CASE k # 0
      <4>1. k - 1 \in 0..n
        BY <3>3
      <4>2. f[k - 1] = g[k - 1]
        BY <2>2, <4>1
      <4>3. QED
        BY <3>3, <4>2 DEF Moved
    <3>4. QED
      BY <3>2, <3>3
  <2>4. f = [k \in 0..n |-> Moved(cs, new, f, k)]
    BY <2>1, <2>3
  <2>5. QED
    BY <2>4

\* A new table has room for twice the contacts that it is made for.
LEMMA FreshIsRoomy ==
  ASSUME NEW n \in Nat \ {0}, NEW m, m = n * GrowFactor + GrowBase
  PROVE  /\ m \in Nat \ {0} /\ 2 * n <= m
         /\ IsTable(Fresh(n), m) /\ Occupied(Fresh(n)) = {}
<1>1. PICK g \in Nat : g = GrowFactor /\ g >= 2
  BY GrowthAssumption
<1>2. n * g = n * 2 + n * (g - 2)
  OBVIOUS
<1>3. g - 2 \in Nat
  BY <1>1
<1>4. n * (g - 2) \in Nat
  BY <1>3
<1>5. 2 * n <= n * g /\ n * g \in Nat
  BY <1>2, <1>4
<1>6. m \in Nat \ {0} /\ 2 * n <= m
  BY <1>1, <1>5, GrowthAssumption
<1>7. PICK t : t = Fresh(n)
  OBVIOUS
<1>8. t = [i \in 0..(m - 1) |-> Empty]
  <2>1. PICK b : b = n * GrowFactor + GrowBase - 1
    OBVIOUS
  <2>2. b = m - 1
    BY <1>1, <2>1, GrowthAssumption
  <2>3. t = [i \in 0..b |-> Empty]
    BY <1>7, <2>1 DEF Fresh
  <2>4. QED
    BY <2>2, <2>3
<1>9. QED
  BY <1>6, <1>7, <1>8 DEF IsTable, Occupied

\* kad_contactset_reserve moves every contact into the new table.
LEMMA RebuiltHolds ==
  ASSUME NEW c \in Nat \ {0}, NEW cs, IsTable(cs, c),
         hash \in [Member -> HashValue],
         NEW n \in Nat \ {0}, Cardinality(Occupied(cs)) < n,
         NEW m, m = n * GrowFactor + GrowBase
  PROVE  /\ IsTable(Rebuilt(cs, n), m) /\ Held(Rebuilt(cs, n)) = Held(cs)
         /\ Cardinality(Occupied(Rebuilt(cs, n))) = Cardinality(Occupied(cs))
<1> DEFINE Loop(f) == f = [k \in 0..c |-> Moved(cs, Fresh(n), f, k)]
           Upto(k) == {i \in Occupied(cs) : i < k}
           Right(t, k) == /\ IsTable(t, m) /\ Held(t) = {cs[i] : i \in Upto(k)}
                          /\ Cardinality(Occupied(t)) = Cardinality(Upto(k))
<1>1. /\ DOMAIN cs = 0..(c - 1) /\ NumCells(cs) = c
      /\ Occupied(cs) \subseteq 0..(c - 1) /\ IsFiniteSet(Occupied(cs))
      /\ Cardinality(Occupied(cs)) \in Nat
  BY TableSize
<1>2. /\ m \in Nat \ {0} /\ 2 * n <= m
      /\ IsTable(Fresh(n), m) /\ Occupied(Fresh(n)) = {}
  BY FreshIsRoomy
<1>3. PICK f : f = CHOOSE g : Loop(g)
  OBVIOUS
<1>4. Loop(f)
  <2>1. \E g : Loop(g)
    BY RebuildEnds
  <2> HIDE DEF Loop
  <2>2. QED
    BY <1>3, <2>1, Zenon
<1>5. Rebuilt(cs, n) = f[c]
  BY <1>1, <1>3 DEF Rebuilt, Moved
<1>6. \A k \in Nat : /\ IsFiniteSet(Upto(k)) /\ Cardinality(Upto(k)) \in Nat
                     /\ Cardinality(Upto(k)) < n
  <2>1. SUFFICES ASSUME NEW k \in Nat
                 PROVE  /\ IsFiniteSet(Upto(k)) /\ Cardinality(Upto(k)) \in Nat
                        /\ Cardinality(Upto(k)) < n
    OBVIOUS
  <2>2. Upto(k) \in SUBSET Occupied(cs)
    OBVIOUS
  <2> HIDE DEF Upto
  <2>3. IsFiniteSet(Upto(k)) /\ Cardinality(Upto(k)) <= Cardinality(Occupied(cs))
    BY <1>1, <2>2, FS_Subset
  <2>4. Cardinality(Upto(k)) \in Nat
    BY <2>3, FS_CardinalityType
  <2>5. QED
    BY <1>1, <2>3, <2>4
<1>7. Right(f[0], 0)
  <2>1. f[0] = Fresh(n)
    BY <1>4 DEF Moved
  <2>2. Upto(0) = {}
    BY <1>1
  <2> HIDE DEF Upto
  <2>3. Held(Fresh(n)) = {}
    BY <1>2 DEF Held
  <2>4. QED
    BY <1>2, <2>1, <2>2, <2>3
<1>8. ASSUME NEW k \in 0..(c - 1), Right(f[k], k)
      PROVE  Right(f[k + 1], k + 1)
  <2>1. k \in Nat /\ k \in DOMAIN cs /\ k + 1 \in 0..c
    BY <1>1
  <2>2. PICK t : t = f[k]
    OBVIOUS
  <2>3. PICK l : l = k + 1
    OBVIOUS
  <2>4. l # 0 /\ l - 1 = k /\ l \in 0..c
    BY <2>1, <2>3
  <2>5. f[l] = IF cs[k] = Empty THEN t ELSE Replace(t, cs[k])
    BY <1>4, <2>2, <2>4 DEF Moved
  <2>6. \A i \in Occupied(cs) : i < l <=> i < k \/ i = k
    BY <1>1, <2>1, <2>3
  <2>7. CASE cs[k] = Empty
    <3>1. Upto(l) = Upto(k)
      BY <2>6, <2>7 DEF Occupied
    <3> HIDE DEF Upto
    <3>2. QED
      BY <1>8, <2>2, <2>3, <2>5, <2>7, <3>1
  <2>8. CASE cs[k] # Empty
    <3>1. k \in Occupied(cs) /\ cs[k] \in Member
      BY <1>1, <2>1, <2>8 DEF Occupied, IsTable
    <3>2. Upto(l) = Upto(k) \cup {k} /\ k \notin Upto(k)
      <4>1. ~ (k < k)
        BY <2>1
      <4>2. QED
        BY <2>6, <3>1, <4>1, Zenon
    <3>3. cs[k] \notin Held(t)
      <4>1. \A i \in Upto(k) : i \in DOMAIN cs /\ i # k
        BY <2>1 DEF Occupied
      <4>2. \A i \in Upto(k) : cs[i] # cs[k]
        BY <2>1, <2>8, <4>1 DEF IsTable
      <4> HIDE DEF Upto
      <4>3. QED
        BY <1>8, <2>2, <4>2
    <3> HIDE DEF Upto
    <3>4. IsTable(t, m) /\ Cardinality(Occupied(t)) < m
      <4>1. Cardinality(Occupied(t)) = Cardinality(Upto(k)) /\ IsTable(t, m)
        BY <1>8, <2>2
      <4>2. QED
        BY <1>2, <1>6, <2>1, <4>1
    <3>5. Replace(t, cs[k]) = Put(t, cs[k])
      BY <1>2, <3>1, <3>3, <3>4, FindsIsHeld DEF Replace
    <3>6. PICK u : u = Put(t, cs[k])
      OBVIOUS
    <3>7. /\ IsTable(u, m) /\ Held(u) = Held(t) \cup {cs[k]}
          /\ Cardinality(Occupied(u)) = Cardinality(Occupied(t)) + 1
      BY <1>2, <3>1, <3>3, <3>4, <3>6, PutAdds
    <3>8. Held(u) = {cs[i] : i \in Upto(l)}
      BY <1>8, <2>2, <3>2, <3>7
    <3>9. Cardinality(Upto(l)) = Cardinality(Upto(k)) + 1
      BY <1>6, <2>1, <3>2, FS_AddElement
    <3>10. Cardinality(Occupied(u)) = Cardinality(Upto(l))
      BY <1>8, <2>2, <3>7, <3>9
    <3>11. f[l] = u
      BY <2>5, <2>8, <3>5, <3>6
    <3>12. QED
      BY <2>3, <3>7, <3>8, <3>10, <3>11
  <2>9. QED
    BY <2>7, <2>8
<1>9. Right(f[c], c)
  <2> DEFINE T == {k \in 0..c : ~ Right(f[k], k)}
  <2>1. SUFFICES ASSUME T # {} PROVE FALSE
    <3> HIDE DEF Right
    <3>1. c \in 0..c
      OBVIOUS
    <3>2. QED
      BY <3>1
  <2>2. T \in SUBSET Nat /\ T \subseteq 0..c
    OBVIOUS
  <2>3. PICK k \in T : \A j \in T : k <= j
    <3> HIDE DEF T
    <3>1. QED
      BY <2>1, <2>2, LeastOf
  <2> HIDE DEF Right
  <2>4. k \in 0..c /\ k # 0
    BY <1>7
  <2>5. k - 1 \in 0..(c - 1) /\ ~ (k <= k - 1) /\ k - 1 \in 0..c
    BY <2>4
  <2>6. Right(f[k - 1], k - 1)
    BY <2>3, <2>5
  <2>7. PICK j \in 0..(c - 1) : j = k - 1
    BY <2>5
  <2>8. Right(f[j + 1], j + 1)
    BY <1>8, <2>6, <2>7
  <2>9. j + 1 = k
    BY <2>4, <2>7
  <2>10. QED
    BY <2>8, <2>9
<1>10. Upto(c) = Occupied(cs)
  BY <1>1
<1> HIDE DEF Upto
<1>11. QED
  BY <1>5, <1>9, <1>10 DEF Held

-----------------------------------------------------------------------------
(* The heap                                                                *)
-----------------------------------------------------------------------------
\* The array holds contacts, and is sorted.
ArrayIsKept == heap \in Seq(Member) /\ ArrayIsSorted

\* The hash table holds what was marked, and is at most half full.
MarksAreKept == /\ hash \in [Member -> HashValue] /\ marked \subseteq Member
                /\ \E n \in Nat \ {0} :
                     /\ IsTable(cells, n) /\ Held(cells) = marked
                     /\ size = Cardinality(Occupied(cells)) /\ 2 * size <= n

\* The inductive invariant.
IInv == ArrayIsKept /\ MarksAreKept

\* A list of numbers whose elements are contacts is a list of contacts.
LEMMA OnlyContacts ==
  ASSUME NEW h \in Seq(Nat), ToSet(h) \subseteq Member
  PROVE  h \in Seq(Member)
<1>1. Len(h) \in Nat /\ DOMAIN h = 1..Len(h)
  OBVIOUS
<1>2. \A k \in 1..Len(h) : h[k] \in Member
  BY <1>1 DEF ToSet
<1>3. QED
  BY <1>1, <1>2

\* An array of contacts is one of numbers.
LEMMA HeapIsNumbers ==
  ASSUME ArrayIsKept
  PROVE  heap \in Seq(Nat) /\ Sorted(heap) /\ ToSet(heap) \subseteq Member
<1>1. heap \in Seq(Member) /\ Len(heap) \in Nat /\ DOMAIN heap = 1..Len(heap)
  BY DEF ArrayIsKept
<1>2. \A k \in 1..Len(heap) : heap[k] \in Nat /\ heap[k] \in Member
  <2>1. \A k \in 1..Len(heap) : heap[k] \in Member
    BY <1>1
  <2>2. QED
    BY <2>1, DistanceAssumption
<1>3. QED
  BY <1>1, <1>2 DEF ArrayIsKept, ArrayIsSorted, Sorted, ToSet

\* Every operation keeps the array sorted.
LEMMA StepKeepsArray ==
  ASSUME ArrayIsKept, [Next]_vars
  PROVE  ArrayIsKept'
<1>1. ArrayIsKept /\ [Next]_vars
  OBVIOUS
<1>2. heap \in Seq(Nat) /\ Sorted(heap) /\ ToSet(heap) \subseteq Member
  BY <1>1, HeapIsNumbers
<1>3. CASE UNCHANGED heap
  BY <1>1, <1>3 DEF ArrayIsKept, ArrayIsSorted
<1>4. ASSUME NEW n \in Seq(Nat), heap' = n, Sorted(n), ToSet(n) \subseteq Member
      PROVE  ArrayIsKept'
  BY <1>4, OnlyContacts DEF ArrayIsKept, ArrayIsSorted, Sorted
<1>5. ASSUME NEW d \in Member, Push(d) PROVE ArrayIsKept'
  <2>1. CASE d \in Members
    BY <1>3, <1>5, <2>1 DEF Push
  <2>2. CASE d \notin Members
    <3>1. d \in Nat /\ d \notin ToSet(heap)
      BY <2>2, DistanceAssumption DEF Members
    <3>2. PICK n : n = InsertAt(heap, Search(heap, d) + 1, d)
      OBVIOUS
    <3>3. Sorted(n) /\ n \in Seq(Nat) /\ ToSet(n) = ToSet(heap) \cup {d}
      BY <1>2, <3>1, <3>2, PushKeepsSorted
    <3>4. heap' = n
      BY <1>5, <2>2, <3>2 DEF Push
    <3>5. QED
      BY <1>2, <1>4, <3>3, <3>4
  <2>3. QED
    BY <2>1, <2>2
<1>6. ASSUME NEW d \in Member, Mark(d) PROVE ArrayIsKept'
  BY <1>3, <1>6 DEF Mark
<1>7. ASSUME NEW d \in Member, Discard(d) PROVE ArrayIsKept'
  <2>1. CASE d \notin Members
    BY <1>3, <1>7, <2>1 DEF Discard
  <2>2. CASE d \in Members
    <3>1. PICK n : n = RemoveFirst(heap, d)
      OBVIOUS
    <3>2. Sorted(n) /\ n \in Seq(Nat) /\ ToSet(n) = ToSet(heap) \ {d}
      BY <1>2, <2>2, <3>1, RemoveKeepsSorted DEF Members
    <3>3. heap' = n
      BY <1>7, <2>2, <3>1 DEF Discard
    <3>4. QED
      BY <1>2, <1>4, <3>2, <3>3
  <2>3. QED
    BY <2>1, <2>2
<1>8. CASE UNCHANGED vars
  BY <1>3, <1>8 DEF vars
<1>9. QED
  BY <1>1, <1>5, <1>6, <1>7, <1>8 DEF Next

\* kad_contactset_add adds one identifier, in a table that may be a new one.
LEMMA AddMarks ==
  ASSUME hash \in [Member -> HashValue], NEW d \in Member, SetAdd(d),
         NEW n \in Nat \ {0}, IsTable(cells, n),
         size = Cardinality(Occupied(cells)), 2 * size <= n
  PROVE  \E m \in Nat \ {0} :
           /\ IsTable(cells', m) /\ Held(cells') = Held(cells) \cup {d}
           /\ size' = Cardinality(Occupied(cells')) /\ 2 * size' <= m
<1>1. Finds(cells, d) <=> d \in Held(cells)
  BY FindsIsHeld
<1>2. size \in Nat /\ NumCells(cells) = n
  BY TableSize
<1>3. CASE Finds(cells, d)
  <2>1. cells' = cells /\ size' = size
    BY <1>3 DEF SetAdd
  <2>2. Held(cells) = Held(cells) \cup {d}
    BY <1>1, <1>3
  <2>3. QED
    BY <2>1, <2>2
<1>4. CASE ~ Finds(cells, d)
  <2>1. PICK r : r = Reserve(cells, size + 1)
    OBVIOUS
  <2>2. cells' = Put(r, d) /\ size' = (IF r = cells THEN size ELSE Cardinality(Occupied(r))) + 1
    BY <1>4, <2>1 DEF SetAdd
  <2>3. PICK m \in Nat \ {0} :
          /\ IsTable(r, m) /\ Held(r) = Held(cells)
          /\ Cardinality(Occupied(r)) = size /\ 2 * (size + 1) <= m
    <3>1. CASE size + 1 <= NumCells(cells) \div 2
      <4>1. r = cells
        BY <2>1, <3>1 DEF Reserve
      <4>2. 2 * (size + 1) <= n
        BY <1>2, <3>1
      <4>3. QED
        BY <4>1, <4>2
    <3>2. CASE ~ (size + 1 <= NumCells(cells) \div 2)
      <4>1. r = Rebuilt(cells, size + 1)
        BY <2>1, <3>2 DEF Reserve
      <4>2. PICK s \in Nat \ {0} : s = size + 1
        BY <1>2
      <4>3. PICK m : m = s * GrowFactor + GrowBase
        OBVIOUS
      <4>4. m \in Nat \ {0} /\ 2 * s <= m
        BY <4>3, FreshIsRoomy
      <4>5. Cardinality(Occupied(cells)) < s
        BY <1>2, <4>2
      <4>6. /\ IsTable(Rebuilt(cells, s), m) /\ Held(Rebuilt(cells, s)) = Held(cells)
            /\ Cardinality(Occupied(Rebuilt(cells, s))) = Cardinality(Occupied(cells))
        BY <4>3, <4>5, RebuiltHolds
      <4>7. QED
        BY <4>1, <4>2, <4>4, <4>6
    <3>3. QED
      BY <3>1, <3>2
  <2>4. d \notin Held(r) /\ Cardinality(Occupied(r)) < m
    BY <1>1, <1>2, <1>4, <2>3
  <2>5. PICK t : t = Put(r, d)
    OBVIOUS
  <2>6. /\ IsTable(t, m) /\ Held(t) = Held(r) \cup {d}
        /\ Cardinality(Occupied(t)) = Cardinality(Occupied(r)) + 1
    BY <2>3, <2>4, <2>5, PutAdds
  <2>7. cells' = t /\ size' = size + 1
    BY <2>2, <2>3, <2>5
  <2>8. size' = Cardinality(Occupied(t)) /\ 2 * size' <= m
    BY <1>2, <2>3, <2>6, <2>7
  <2>9. QED
    BY <2>3, <2>6, <2>7, <2>8
<1>5. QED
  BY <1>3, <1>4

\* Only marking changes the hash table.
LEMMA StepKeepsMarks ==
  ASSUME MarksAreKept, [Next]_vars
  PROVE  MarksAreKept'
<1>1. CASE UNCHANGED <<cells, size, hash, marked>>
  BY <1>1 DEF MarksAreKept, IsTable, Held, Occupied
<1>2. ASSUME NEW d \in Member, Mark(d) PROVE MarksAreKept'
  <2>1. SetAdd(d) /\ marked' = marked \cup {d}
    BY <1>2 DEF Mark
  <2>2. hash' = hash /\ hash \in [Member -> HashValue] /\ marked \subseteq Member
    BY <2>1 DEF SetAdd, MarksAreKept
  <2>3. PICK n \in Nat \ {0} :
          /\ IsTable(cells, n) /\ Held(cells) = marked
          /\ size = Cardinality(Occupied(cells)) /\ 2 * size <= n
    BY DEF MarksAreKept
  <2>4. PICK m \in Nat \ {0} :
          /\ IsTable(cells', m) /\ Held(cells') = Held(cells) \cup {d}
          /\ size' = Cardinality(Occupied(cells')) /\ 2 * size' <= m
    BY <2>1, <2>2, <2>3, AddMarks
  <2>5. PICK c : c = cells'
    OBVIOUS
  <2>6. /\ IsTable(c, m) /\ Held(c) = marked'
        /\ size' = Cardinality(Occupied(c)) /\ 2 * size' <= m
    BY <2>1, <2>3, <2>4, <2>5
  <2>7. /\ IsTable(cells, m)' /\ Held(cells)' = marked'
        /\ size' = Cardinality(Occupied(cells))' /\ 2 * size' <= m
    BY <2>5, <2>6 DEF IsTable, Held, Occupied
  <2>8. QED
    BY <2>1, <2>2, <2>7 DEF MarksAreKept
<1>3. ASSUME NEW d \in Member, Push(d) PROVE MarksAreKept'
  BY <1>1, <1>3 DEF Push
<1>4. ASSUME NEW d \in Member, Discard(d) PROVE MarksAreKept'
  BY <1>1, <1>4 DEF Discard
<1>5. CASE UNCHANGED vars
  BY <1>1, <1>5 DEF vars
<1>6. QED
  BY <1>2, <1>3, <1>4, <1>5 DEF Next

\* The array and the hash table start empty.
LEMMA InitIInv == Init => IInv
<1>1. SUFFICES ASSUME Init PROVE IInv
  OBVIOUS
<1>2. ArrayIsKept
  BY <1>1 DEF Init, ArrayIsKept, ArrayIsSorted
<1>3. /\ hash \in [Member -> HashValue] /\ marked = {} /\ size = 0
      /\ cells = Fresh(InitialSize)
  BY <1>1 DEF Init, SetInit
<1>4. PICK m : m = InitialSize * GrowFactor + GrowBase
  OBVIOUS
<1>5. /\ m \in Nat \ {0} /\ IsTable(Fresh(InitialSize), m)
      /\ Occupied(Fresh(InitialSize)) = {}
  BY <1>4, FreshIsRoomy, GrowthAssumption
<1>6. Held(Fresh(InitialSize)) = {}
  BY <1>5 DEF Held
<1>7. Cardinality({}) = 0 /\ 2 * 0 <= m
  BY <1>5, FS_EmptySet
<1>8. QED
  BY <1>2, <1>3, <1>5, <1>6, <1>7 DEF IInv, MarksAreKept

\* The invariant is inductive.
LEMMA StepIInv == IInv /\ [Next]_vars => IInv'
BY StepKeepsArray, StepKeepsMarks DEF IInv

\* A kept table finds what was marked and nothing else.
LEMMA MarksAreFound ==
  ASSUME MarksAreKept
  PROVE  /\ \A d \in Member : Finds(cells, d) <=> d \in marked
         /\ Cardinality(Occupied(cells)) = Cardinality(marked)
<1>1. PICK n \in Nat \ {0} : IsTable(cells, n) /\ Held(cells) = marked
  BY DEF MarksAreKept
<1>2. \A d \in Member : Finds(cells, d) <=> d \in marked
  BY <1>1, FindsIsHeld DEF MarksAreKept
<1>3. PICK O : O = Occupied(cells)
  OBVIOUS
<1>4. IsFiniteSet(O)
  BY <1>1, <1>3, TableSize
<1>5. marked = {cells[i] : i \in O}
  BY <1>1, <1>3 DEF Held
<1>6. \A i, j \in O : cells[i] = cells[j] => i = j
  BY <1>1, <1>3 DEF IsTable, Occupied
<1>7. PICK f : f = [i \in O |-> cells[i]]
  OBVIOUS
<1>8. f \in Bijection(O, marked)
  <2>1. f \in [O -> marked] /\ \A q \in marked : \E i \in O : f[i] = q
    BY <1>5, <1>7
  <2>2. \A i, j \in O : f[i] = f[j] => i = j
    BY <1>6, <1>7
  <2>3. QED
    BY <2>1, <2>2 DEF Bijection, Injection, Surjection, IsInjective
<1>9. Cardinality(marked) = Cardinality(O)
  BY <1>4, <1>8, FS_Bijection DEF ExistsBijection
<1>10. QED
  BY <1>2, <1>3, <1>9

\* kad_contactheap_iter: what it walks over are the Capacity members nearest to
\* the target, those that Nearness names.
LEMMA IterationGivesNearest ==
  ASSUME ArrayIsKept
  PROVE  /\ Iterated \in Seq(Member)
         /\ ToSet(Iterated) = Nearest(Members, Capacity)
<1>1. heap \in Seq(Nat) /\ Sorted(heap)
  BY HeapIsNumbers
<1>2. PICK h \in Seq(Nat) : h = heap
  BY <1>1
<1>3. PICK n : n = IF Len(h) < Capacity THEN Len(h) ELSE Capacity
  OBVIOUS
<1>4. Len(h) \in Nat /\ DOMAIN h = 1..Len(h) /\ Capacity \in Nat
  BY CapacityAssumption
<1>5. /\ n \in Nat /\ n <= Len(h)
      /\ \A i \in 1..Len(h) : i - 1 < Capacity <=> i \in 1..n
  BY <1>3, <1>4
<1>6. PICK t : t = SubSeq(h, 1, n)
  OBVIOUS
<1>7. Iterated = t
  BY <1>2, <1>3, <1>6 DEF Iterated
<1>8. /\ t \in Seq(Nat) /\ Len(t) = n
      /\ \A i \in 1..n : t[i] = h[i]
  <2>1. \A i \in 1..n : h[i] \in Nat
    BY <1>4, <1>5
  <2>2. QED
    BY <1>5, <1>6, <2>1, SubSeqProperties
<1>9. DOMAIN t = 1..n /\ \A i \in 1..n : i \in DOMAIN h
  BY <1>4, <1>5, <1>8
<1>10. ToSet(t) = {h[i] : i \in 1..n}
  BY <1>8, <1>9 DEF ToSet
<1>11. \A i \in DOMAIN h : Cardinality({q \in ToSet(h) : q < h[i]}) = i - 1
  BY <1>1, <1>2, PlaceIsRank
<1>12. \A i \in DOMAIN h : h[i] \in Nearest(ToSet(h), Capacity) <=> i \in 1..n
  BY <1>4, <1>5, <1>11 DEF Nearest, ToSet
<1>13. \A x \in Nearest(ToSet(h), Capacity) : x \in ToSet(h)
  BY DEF Nearest
<1>14. Nearest(ToSet(h), Capacity) = {h[i] : i \in 1..n}
  BY <1>9, <1>12, <1>13 DEF ToSet
<1>15. t \in Seq(Member)
  <2>1. \A i \in 1..n : h[i] \in Member
    BY <1>2, <1>9 DEF ArrayIsKept
  <2>2. ToSet(t) \subseteq Member
    BY <1>10, <2>1
  <2>3. QED
    BY <1>8, <2>2, OnlyContacts
<1>16. QED
  BY <1>2, <1>7, <1>10, <1>14, <1>15 DEF Members

\* What is left of a list are its contacts that are not marked.
LEMMA UnmarkedIs ==
  ASSUME MarksAreKept, NEW l \in Seq(Member)
  PROVE  /\ ToSet(Unmarked(l)) = ToSet(l) \ marked
         /\ Unmarked(l) = <<>> <=> ToSet(l) \subseteq marked
<1> DEFINE P == {i \in DOMAIN l : ~ Finds(cells, l[i])}
<1>1. DOMAIN l = 1..Len(l) /\ Len(l) \in Nat
  OBVIOUS
<1>2. P \in SUBSET Nat /\ IsFiniteSet(P)
  <2>1. IsFiniteSet(1..Len(l))
    BY <1>1, FS_Interval
  <2>2. P \in SUBSET (1..Len(l))
    BY <1>1
  <2>3. QED
    BY <2>1, <2>2, FS_Subset
<1>3. P = {i \in DOMAIN l : l[i] \notin marked}
  <2>1. \A i \in DOMAIN l : l[i] \in Member
    BY <1>1
  <2>2. QED
    BY <2>1, MarksAreFound
<1>4. PICK left : left = InOrder(P)
  OBVIOUS
<1>5. PICK u : u = Unmarked(l)
  OBVIOUS
<1>6. u = [k \in DOMAIN left |-> l[left[k]]]
  BY <1>4, <1>5 DEF Unmarked
<1> HIDE DEF P
<1>7. left \in Seq(P) /\ ToSet(left) = P
  BY <1>2, <1>4, InOrderProperties
<1>8. DOMAIN left = 1..Len(left) /\ Len(left) \in Nat
  BY <1>7
<1>9. \A k \in DOMAIN left : left[k] \in P
  BY <1>7, <1>8
<1>10. \A i \in P : \E k \in DOMAIN left : left[k] = i
  BY <1>7 DEF ToSet
<1>11. DOMAIN u = DOMAIN left /\ \A k \in DOMAIN left : u[k] = l[left[k]]
  BY <1>6
<1>12. ToSet(u) = ToSet(l) \ marked
  <2>1. \A x \in ToSet(u) : x \in ToSet(l) \ marked
    BY <1>3, <1>9, <1>11 DEF ToSet
  <2>2. \A x \in ToSet(l) \ marked : x \in ToSet(u)
    <3>1. SUFFICES ASSUME NEW i \in DOMAIN l, l[i] \notin marked PROVE l[i] \in ToSet(u)
      BY DEF ToSet
    <3>2. PICK k \in DOMAIN left : left[k] = i
      BY <1>3, <1>10, <3>1
    <3>3. QED
      BY <1>11, <3>2 DEF ToSet
  <2>3. QED
    BY <2>1, <2>2
<1>13. u = <<>> <=> ToSet(u) = {}
  <2>1. u = <<>> => ToSet(u) = {}
    BY DEF ToSet
  <2>2. ASSUME ToSet(u) = {} PROVE u = <<>>
    <3>1. DOMAIN u = {}
      BY <2>2 DEF ToSet
    <3>2. Len(left) = 0
      <4>1. 1 \notin DOMAIN left
        BY <1>11, <3>1
      <4>2. QED
        BY <1>8, <4>1
    <3>3. u \in Seq({}) /\ Len(u) = 0
      BY <1>6, <1>8, <3>2
    <3>4. QED
      BY <3>3
  <2>3. QED
    BY <2>1, <2>2
<1>14. QED
  BY <1>5, <1>12, <1>13

\* ContactHeap.ArrayIsSorted: in every array and for every order of pushes, marks
\* and removals the array of kad_contactheap_t is sorted by distance, without
\* repetitions, and so every binary search of kad_contactheap_push is right.
THEOREM AlwaysSorted == Spec => []ArrayIsSorted
<1>1. IInv => ArrayIsSorted
  BY DEF IInv, ArrayIsKept
<1>2. QED
  BY InitIInv, StepIInv, <1>1, PTL DEF Spec

\* ContactHeap.HeapTypeOK: the hash table has the size it records and is at most half
\* full, so that kad_contactset_add always finds a cell, for every hash function
\* and every way of growing by at least two cells per contact.
THEOREM HeapTypeCorrect == Spec => []HeapTypeOK
<1>1. ASSUME IInv PROVE HeapTypeOK
  <2>1. PICK n \in Nat \ {0} :
          IsTable(cells, n) /\ size = Cardinality(Occupied(cells)) /\ 2 * size <= n
    BY <1>1 DEF IInv, MarksAreKept
  <2>2. NumCells(cells) = n
    BY <2>1, TableSize
  <2>3. cells \in [0..(n - 1) -> Member \cup {Empty}]
    BY <2>1 DEF IsTable
  <2>4. QED
    BY <1>1, <2>1, <2>2, <2>3 DEF HeapTypeOK, IInv, ArrayIsKept, MarksAreKept
<1>2. QED
  BY InitIInv, StepIInv, <1>1, PTL DEF Spec

\* ContactHeap.MarkedIffFound: kad_contactset_contains finds an identifier exactly
\* if it was marked, through every collision, wrap-around and rebuild, and an
\* identifier is in one cell.
THEOREM AlwaysFound == Spec => []MarkedIffFound
<1>1. IInv => MarkedIffFound
  BY MarksAreFound DEF IInv, MarkedIffFound
<1>2. QED
  BY InitIInv, StepIInv, <1>1, PTL DEF Spec

\* ContactHeap.IterationIsNearest: the unmarked contacts that a crawl asks next are
\* those of the Capacity nearest members that are not marked, and it is done when
\* there are none.  On this NodeCrawler and ValueCrawler take the heap as a set.
THEOREM AlwaysNearest == Spec => []IterationIsNearest
<1>1. ASSUME IInv PROVE IterationIsNearest
  <2>1. ArrayIsKept /\ MarksAreKept
    BY <1>1 DEF IInv
  <2>2. PICK l \in Seq(Member) : l = Iterated /\ ToSet(l) = Nearest(Members, Capacity)
    BY <2>1, IterationGivesNearest
  <2>3. /\ ToSet(Unmarked(l)) = ToSet(l) \ marked
        /\ Unmarked(l) = <<>> <=> ToSet(l) \subseteq marked
    BY <2>1, UnmarkedIs
  <2>4. QED
    BY <2>2, <2>3 DEF IterationIsNearest, UnmarkedInOrder, Done
<1>2. QED
  BY InitIInv, StepIInv, <1>1, PTL DEF Spec
==============================================================================
