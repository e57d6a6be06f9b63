----------------------------- MODULE ClientProofs ------------------------------
(***************************************************************************)
(* That Client keeps its word, for any hosts, operations, peers and        *)
(* capacity: its invariants and its action properties.                     *)
(*                                                                         *)
(* The argument has two parts.  One is about the list of those that store: *)
(* insort_compare finds every contact equal to itself, so this node always *)
(* comes first and the nearest of the others follow.  The other is about   *)
(* the results that an operation waits for: those that came and those to   *)
(* come are always as many as it counts on, so the last one is recognised, *)
(* and there is no result after it.                                        *)
(***************************************************************************)
EXTENDS Client, ListProofs

Phases == {"idle", "pinging", "crawling", "storing", "stranded", "lost", "done"}

\* The shape of the state.  The structure is cleared when it is closed, the
\* loop of kad_client_insert_callback never reads a context that was freed, and
\* the `then' of an operation was called if the operation is done.
TypeOK ==
  /\ open \in BOOLEAN /\ known \in BOOLEAN
  /\ capacity = IF open THEN Capacity ELSE 0
  /\ fault \in {"none", "undefined", "abort"}
  /\ storage \in Seq(Inserts)
  /\ phase \in [Operation -> Phases]
  /\ calls = [o \in Operation |-> IF phase[o] = "done" THEN 1 ELSE 0]
  /\ count \in [Operation -> Nat] /\ total \in [Operation -> Nat]
  /\ awaited \in SUBSET Host /\ answered \in SUBSET Host
  /\ found \in [Inserts -> SUBSET Peer]
  /\ asked \in [Inserts -> SUBSET Peer]
  /\ pending \in [Inserts -> SUBSET Peer]

\* Of a bootstrap: the pings that ended and those awaited are as many as the
\* hosts, or fewer if one is lost, and a host that answered is not awaited any
\* more.
PingsAddUp ==
  /\ phase[Bootstrap] = "idle" =>
       awaited = {} /\ answered = {} /\ total[Bootstrap] = 0
  /\ awaited # {} => phase[Bootstrap] \in {"pinging", "lost"}
  /\ phase[Bootstrap] = "pinging" /\ Alive =>
       awaited # {} /\ total[Bootstrap] = count[Bootstrap] + Cardinality(awaited)
  /\ phase[Bootstrap] = "lost" /\ awaited # {} =>
       count[Bootstrap] + Cardinality(awaited) < total[Bootstrap]
  /\ awaited \cap answered = {}
  /\ size = Cardinality(answered)

\* A bootstrap that found anybody has left its contact in the table.
FoundIsKnown ==
  open /\ phase[Bootstrap] \in {"crawling", "done"} /\ total[Bootstrap] # 0 => known

\* Of an insert: the stores that ended and those that did not are as many as were
\* asked, or fewer if one is lost; only who was found is asked, and before the
\* crawl ends nobody is.
StoresAddUp(i) ==
  /\ asked[i] \subseteq found[i]
  /\ phase[i] \in {"idle", "crawling"} => found[i] = {} /\ asked[i] = {}
  /\ pending[i] # {} => phase[i] \in {"storing", "lost"}
  /\ phase[i] = "storing" =>
       pending[i] # {} /\ total[i] = count[i] + Cardinality(pending[i])
  /\ phase[i] = "lost" /\ pending[i] # {} =>
       count[i] + Cardinality(pending[i]) < total[i]

\* Who stores what an insert found somebody for: this node, and the nearest of
\* those who were found, as many as there is room for beside it.
ClosestStore(i) ==
  open /\ found[i] # {} =>
    /\ \E k \in DOMAIN storage : storage[k] = i
    /\ \A p \in asked[i], q \in found[i] \ asked[i] : p < q
    /\ \/ Cardinality(asked[i]) = Capacity - 1
       \/ Cardinality(asked[i]) < Capacity - 1 /\ asked[i] = found[i]

\* The inductive invariant.
IInv == /\ TypeOK /\ PingsAddUp /\ FoundIsKnown
        /\ \A i \in Inserts : StoresAddUp(i) /\ ClosestStore(i)

-----------------------------------------------------------------------------
(* Who stores                                                              *)
-----------------------------------------------------------------------------
\* insort_compare puts this node before whatever the list holds.
LEMMA SelfComesFirst ==
  ASSUME NEW list \in Seq(Nat)
  PROVE  Insort(list, Self) = <<Self>> \o list
<1>1. {j \in DOMAIN list : InsortCompare(list[j], Self) < 0} = {}
  <2>1. \A j \in DOMAIN list : list[j] \in Nat
    OBVIOUS
  <2>2. \A j \in DOMAIN list : ~ (list[j] - list[j] < 0)
    BY <2>1
  <2>3. QED
    BY <2>2, Zenon DEF InsortCompare
<1>2. Insort(list, Self) = InsertAt(list, 1, Self)
  <2>1. PICK l : l = Cardinality({j \in DOMAIN list : InsortCompare(list[j], Self) < 0})
    OBVIOUS
  <2>2. l + 1 = 1
    <3>1. l = Cardinality({})
      BY <1>1, <2>1, Zenon
    <3>2. QED
      BY <3>1, FS_EmptySet
  <2>3. Insort(list, Self) = InsertAt(list, l + 1, Self)
    BY <2>1, Zenon DEF Insort
  <2>4. QED
    BY <2>2, <2>3
<1>3. SubSeq(list, 1, 0) = <<>> /\ SubSeq(list, 1, Len(list)) = list
  OBVIOUS
<1>4. InsertAt(list, 1, Self) = SubSeq(list, 1, 0) \o <<Self>> \o SubSeq(list, 1, Len(list))
  BY DEF InsertAt
<1>5. <<>> \o <<Self>> = <<Self>>
  OBVIOUS
<1>6. QED
  BY <1>2, <1>3, <1>4, <1>5, Zenon

\* The list of those that store: this node and, after it, the nearest of the
\* peers that were found, as many as there is room for.
LEMMA IntoProperties ==
  ASSUME NEW peers \in SUBSET Peer, capacity \in Nat
  PROVE  LET out == Others(InsertInto(peers)) IN
         /\ out \subseteq peers /\ IsFiniteSet(out)
         /\ capacity = 0 => Self \notin ToSet(InsertInto(peers)) /\ out = {}
         /\ capacity # 0 => Self \in ToSet(InsertInto(peers))
         /\ SelfComesLast(InsertInto(peers)) => out = {}
         /\ \A p \in out, q \in peers \ out : p < q
         /\ capacity # 0 => \/ Cardinality(out) = capacity - 1
                            \/ Cardinality(out) < capacity - 1 /\ out = peers
<1>1. PICK list : list = InOrder(peers)
  OBVIOUS
<1>2. PICK into : into = InsertInto(peers)
  OBVIOUS
<1>3. PICK n : n = InsertSize(peers)
  OBVIOUS
<1>4. PICK out : out = Others(into)
  OBVIOUS
<1>5. /\ peers \in SUBSET Nat /\ IsFiniteSet(peers) /\ Cardinality(peers) \in Nat
      /\ Self \in Nat /\ Self \notin peers
  BY DistanceAssumption, FS_Subset, FS_CardinalityType
<1>6. /\ list \in Seq(Nat) /\ Len(list) = Cardinality(peers)
      /\ DOMAIN list = 1..Cardinality(peers)
      /\ ToSet(list) = peers
      /\ \A i, j \in DOMAIN list : i < j => list[i] < list[j]
  <2>1. /\ list \in Seq(peers) /\ Len(list) = Cardinality(peers)
        /\ ToSet(list) = peers
        /\ \A i, j \in DOMAIN list : i < j => list[i] < list[j]
    BY <1>1, <1>5, InOrderProperties
  <2>2. list \in Seq(Nat)
    <3>1. list \in [1..Len(list) -> peers]
      BY <2>1
    <3>2. list \in [1..Len(list) -> Nat]
      BY <1>5, <3>1
    <3>3. Len(list) \in Nat
      BY <2>1
    <3>4. QED
      BY <3>2, <3>3
  <2>3. DOMAIN list = 1..Cardinality(peers)
    BY <2>1
  <2>4. QED
    BY <2>1, <2>2, <2>3
<1>7. /\ n \in Nat /\ n <= Cardinality(peers) + 1 /\ n <= capacity
      /\ n = capacity \/ n = Cardinality(peers) + 1
  BY <1>3, <1>5 DEF InsertSize
<1>8. PICK all : all = <<Self>> \o list
  OBVIOUS
<1>9. /\ all \in Seq(Nat) /\ Len(all) = Cardinality(peers) + 1
      /\ all[1] = Self /\ \A k \in 2..(Cardinality(peers) + 1) : all[k] = list[k - 1]
  BY <1>5, <1>6, <1>8
<1>10. into = SubSeq(all, 1, n)
  <2>1. Insort(list, Self) = all
    BY <1>6, <1>8, SelfComesFirst
  <2>2. QED
    BY <1>1, <1>2, <1>3, <2>1 DEF InsertInto
<1>11. /\ into \in Seq(Nat) /\ Len(into) = n /\ DOMAIN into = 1..n
       /\ \A k \in 1..n : into[k] = all[k]
  BY <1>7, <1>9, <1>10
<1>12. /\ n > 0 => into[1] = Self
       /\ \A k \in 2..n : into[k] = list[k - 1]
  BY <1>5, <1>7, <1>9, <1>11
<1>13. \A k \in DOMAIN list : list[k] \in peers
  BY <1>6 DEF ToSet
\* The others have the places after the first.
<1>14. PICK first : first = SubSeq(list, 1, n - 1)
  OBVIOUS
<1>15. CASE n = 0
  <2>1. into = <<>> /\ DOMAIN into = {}
    BY <1>11, <1>15
  <2>2. ToSet(into) = {}
    BY <2>1 DEF ToSet
  <2>3. out = {}
    BY <1>4, <2>2 DEF Others
  <2>4. capacity = 0
    BY <1>5, <1>7, <1>15
  <2>5. IsFiniteSet({})
    BY FS_EmptySet
  <2>6. ~ SelfComesLast(into)
    BY <2>1 DEF SelfComesLast
  <2>7. QED
    BY <1>2, <1>4, <2>2, <2>3, <2>4, <2>5
<1>16. CASE n # 0
  <2>1. /\ first \in Seq(Nat) /\ Len(first) = n - 1 /\ DOMAIN first = 1..(n - 1)
        /\ \A k \in 1..(n - 1) : first[k] = list[k]
    BY <1>5, <1>6, <1>7, <1>14, <1>16
  <2>2. \A k \in 1..(n - 1) : k \in DOMAIN list /\ k + 1 \in 2..n /\ into[k + 1] = first[k]
    BY <1>5, <1>6, <1>7, <1>12, <2>1
  <2>3. ASSUME NEW k \in 2..n
        PROVE  k - 1 \in 1..(n - 1) /\ into[k] = first[k - 1]
    <3>1. k - 1 \in 1..(n - 1)
      BY <1>7
    <3>2. first[k - 1] = list[k - 1] /\ into[k] = list[k - 1]
      BY <1>12, <2>1, <3>1
    <3>3. QED
      BY <3>1, <3>2
  <2>4. \A k \in 1..(n - 1) : first[k] \in peers
    BY <1>13, <2>1, <2>2
  <2>5. 1 \in DOMAIN into /\ into[1] = Self /\ \A k \in DOMAIN into : k = 1 \/ k \in 2..n
    BY <1>7, <1>11, <1>12, <1>16
  <2>6. \A k \in 2..n : k \in DOMAIN into
    BY <1>11
  <2>7. Self \in ToSet(into)
    BY <2>5 DEF ToSet
  <2>8. out = ToSet(first)
    <3>1. \A x \in out : \E k \in 2..n : into[k] = x
      BY <1>4, <2>5 DEF Others, ToSet
    <3>2. \A x \in out : x \in ToSet(first)
      BY <2>1, <2>3, <3>1 DEF ToSet
    <3>3. \A x \in ToSet(first) : x \in ToSet(into) /\ x \in peers
      BY <2>1, <2>2, <2>4, <2>6 DEF ToSet
    <3>4. \A x \in ToSet(first) : x \in out
      BY <1>4, <1>5, <3>3 DEF Others
    <3>5. QED
      BY <3>2, <3>4
  <2>9. out \subseteq peers
    BY <2>1, <2>4, <2>8 DEF ToSet
  <2>10. IsFiniteSet(out) /\ Cardinality(out) = n - 1
    <3>1. \A i, j \in 1..(n - 1) : i < j => first[i] < first[j]
      BY <1>6, <2>1, <2>2
    <3>2. \A i \in 1..(n - 1) : first[i] \in Nat
      BY <2>1
    <3>3. \A i, j \in 1..(n - 1) : first[i] = first[j] => i = j
      <4>1. SUFFICES ASSUME NEW i \in 1..(n - 1), NEW j \in 1..(n - 1), i # j
                     PROVE  first[i] # first[j]
        OBVIOUS
      <4>2. i < j \/ j < i
        BY <4>1
      <4>3. first[i] < first[j] \/ first[j] < first[i]
        BY <3>1, <4>2
      <4>4. QED
        BY <3>2, <4>3
    <3>4. IsInjective(first)
      BY <2>1, <3>3 DEF IsInjective
    <3>5. /\ IsFiniteSet(ToSet(first) \cap ToSet(first))
          /\ Cardinality({k \in DOMAIN first : first[k] \in ToSet(first)})
               = Cardinality(ToSet(first) \cap ToSet(first))
      BY <2>1, <3>4, PlacesAndMembers
    <3>6. {k \in DOMAIN first : first[k] \in ToSet(first)} = 1..(n - 1)
          /\ ToSet(first) \cap ToSet(first) = out
      BY <2>1, <2>8 DEF ToSet
    <3>7. Cardinality(1..(n - 1)) = IF 1 > n - 1 THEN 0 ELSE (n - 1) - 1 + 1
      BY <1>7, FS_Interval
    <3>8. Cardinality(1..(n - 1)) = n - 1
      BY <1>7, <1>16, <3>7
    <3>9. QED
      BY <3>5, <3>6, <3>8
  <2>11. SelfComesLast(into) => out = {}
    <3>1. CASE n = 1
      <4>1. Cardinality(out) = 0
        BY <2>10, <3>1
      <4>2. QED
        BY <2>10, <4>1, FS_EmptySet
    <3>2. CASE n # 1
      <4>1. n \in 2..n /\ n - 1 \in 1..(n - 1)
        BY <1>7, <1>16, <3>2
      <4>2. into[n] \in peers
        BY <2>3, <2>4, <4>1
      <4>3. Last(into) = into[n]
        BY <1>11 DEF Last
      <4>4. QED
        BY <1>5, <4>2, <4>3 DEF SelfComesLast
    <3>3. QED
      BY <3>1, <3>2
  <2>12. \A p \in out, q \in peers \ out : p < q
    <3>1. SUFFICES ASSUME NEW p \in out, NEW q \in peers \ out
                   PROVE  p < q
      OBVIOUS
    <3>2. PICK i \in 1..(n - 1) : p = first[i]
      BY <2>1, <2>8 DEF ToSet
    <3>3. PICK j \in DOMAIN list : q = list[j]
      BY <1>6 DEF ToSet
    <3>4. j \notin 1..(n - 1)
      <4>1. \A k \in 1..(n - 1) : first[k] \in out
        BY <2>1, <2>8 DEF ToSet
      <4>2. QED
        BY <2>1, <3>3, <4>1
    <3>5. i \in DOMAIN list /\ i < j /\ p = list[i]
      BY <1>6, <2>1, <2>2, <3>2, <3>4
    <3>6. QED
      BY <1>6, <3>3, <3>5
  <2>13. \/ Cardinality(out) = capacity - 1
         \/ Cardinality(out) < capacity - 1 /\ out = peers
    <3>1. CASE n = capacity
      BY <2>10, <3>1
    <3>2. CASE n # capacity
      <4>1. n - 1 = Cardinality(peers) /\ n - 1 < capacity - 1
        BY <1>5, <1>7, <3>2
      <4>2. Cardinality(out) = Cardinality(peers)
        BY <2>10, <4>1
      <4>3. out = peers
        BY <1>5, <2>9, <4>2, FS_Subset
      <4>4. QED
        BY <2>10, <4>1, <4>3
    <3>3. QED
      BY <3>1, <3>2
  <2>14. capacity # 0
    BY <1>7, <1>16
  <2>15. QED
    BY <1>2, <1>4, <2>7, <2>9, <2>10, <2>11, <2>12, <2>13, <2>14
<1>17. QED
  BY <1>15, <1>16

-----------------------------------------------------------------------------
(* What an operation that does not end, or ends, does to the others        *)
-----------------------------------------------------------------------------
\* The value of calls that TypeOK asks for.
CallsOf(ph) == [o \in Operation |-> IF ph[o] = "done" THEN 1 ELSE 0]

\* An operation that goes on, but is not done, calls nobody.
LEMMA GoesOn ==
  ASSUME TypeOK, NEW o \in Operation, NEW to \in Phases, to # "done", phase[o] # "done",
         Moves(o, to), UNCHANGED calls
  PROVE  /\ phase' \in [Operation -> Phases] /\ calls' = CallsOf(phase')
         /\ phase'[o] = to /\ \A x \in Operation : x # o => phase'[x] = phase[x]
<1>1. /\ phase \in [Operation -> Phases]
      /\ calls = [x \in Operation |-> IF phase[x] = "done" THEN 1 ELSE 0]
      /\ phase' = [phase EXCEPT ![o] = to]
  BY DEF TypeOK, Moves
<1>2. phase' \in [Operation -> Phases]
  BY <1>1
<1>3. phase'[o] = to /\ \A x \in Operation : x # o => phase'[x] = phase[x]
  BY <1>1
<1>4. \A x \in Operation : phase'[x] = "done" <=> phase[x] = "done"
  BY <1>3
<1>5. QED
  BY <1>1, <1>2, <1>3, <1>4 DEF CallsOf

\* One that ends calls its `then' once.
LEMMA EndsOnce ==
  ASSUME TypeOK, NEW o \in Operation, phase[o] # "done", Moves(o, "done"), Calls(o)
  PROVE  /\ phase' \in [Operation -> Phases] /\ calls' = CallsOf(phase')
         /\ phase'[o] = "done" /\ \A x \in Operation : x # o => phase'[x] = phase[x]
<1>1. /\ phase \in [Operation -> Phases]
      /\ calls = [x \in Operation |-> IF phase[x] = "done" THEN 1 ELSE 0]
      /\ phase' = [phase EXCEPT ![o] = "done"]
      /\ calls' = [calls EXCEPT ![o] = @ + 1]
  BY DEF TypeOK, Moves, Calls
<1>2. phase' \in [Operation -> Phases]
  BY <1>1 DEF Phases
<1>3. phase'[o] = "done" /\ \A x \in Operation : x # o => phase'[x] = phase[x]
  BY <1>1
<1>4. calls[o] = 0
  BY <1>1
<1>5. calls' = [x \in Operation |-> IF x = o THEN calls[o] + 1 ELSE calls[x]]
  BY <1>1
<1>6. \A x \in Operation : (IF x = o THEN calls[o] + 1 ELSE calls[x])
                             = IF phase'[x] = "done" THEN 1 ELSE 0
  BY <1>1, <1>3, <1>4
<1>7. QED
  BY <1>2, <1>3, <1>5, <1>6 DEF CallsOf

\* Nothing happens to an insert.
Untouched(i) == /\ phase'[i] = phase[i] /\ count'[i] = count[i] /\ total'[i] = total[i]
                /\ found'[i] = found[i] /\ asked'[i] = asked[i] /\ pending'[i] = pending[i]

\* What was stored stays there as long as the client is open.
StorageGrows ==
  open' => open /\ \A k \in DOMAIN storage : k \in DOMAIN storage' /\ storage'[k] = storage[k]

\* Then its books are as they were.
LEMMA UntouchedInsert ==
  ASSUME NEW i \in Inserts, StoresAddUp(i), ClosestStore(i), Untouched(i), StorageGrows
  PROVE  StoresAddUp(i)' /\ ClosestStore(i)'
<1>1. StoresAddUp(i)'
  BY DEF StoresAddUp, Untouched
<1>2. (\E k \in DOMAIN storage : storage[k] = i) /\ open'
        => \E k \in DOMAIN storage' : storage'[k] = i
  BY DEF StorageGrows
<1>3. ClosestStore(i)'
  BY <1>2 DEF ClosestStore, Untouched, StorageGrows
<1>4. QED
  BY <1>1, <1>3

\* Nothing happens to the bootstrap.
BootstrapUntouched ==
  /\ phase'[Bootstrap] = phase[Bootstrap] /\ count'[Bootstrap] = count[Bootstrap]
  /\ total'[Bootstrap] = total[Bootstrap] /\ UNCHANGED bootstrap
  /\ open' => open /\ (known => known')

\* Then its books are as they were, too.
LEMMA UntouchedBootstrap ==
  ASSUME PingsAddUp, FoundIsKnown, BootstrapUntouched, Alive
  PROVE  PingsAddUp' /\ FoundIsKnown'
<1> USE DEF BootstrapUntouched, bootstrap
<1>1. PingsAddUp'
  BY DEF PingsAddUp
<1>2. FoundIsKnown'
  BY DEF FoundIsKnown
<1>3. QED
  BY <1>1, <1>2

\* Nothing happens to any insert: its part of the state is left alone.
LEMMA UntouchedInserts ==
  ASSUME IInv, UNCHANGED insert, StorageGrows,
         \A i \in Inserts : phase'[i] = phase[i] /\ count'[i] = count[i] /\ total'[i] = total[i]
  PROVE  \A i \in Inserts : StoresAddUp(i)' /\ ClosestStore(i)'
<1> SUFFICES ASSUME NEW i \in Inserts
             PROVE  StoresAddUp(i)' /\ ClosestStore(i)'
  OBVIOUS
<1>1. Untouched(i)
  BY DEF Untouched, insert
<1>2. StoresAddUp(i) /\ ClosestStore(i)
  BY DEF IInv
<1>3. QED
  BY <1>1, <1>2, UntouchedInsert

-----------------------------------------------------------------------------
(* The steps of a bootstrap                                                *)
-----------------------------------------------------------------------------
\* The operations are told apart.
LEMMA BootstrapIsNoInsert ==
  /\ Bootstrap \in Operation /\ Inserts \subseteq Operation /\ Lookups \subseteq Operation
  /\ \A i \in Inserts \cup Lookups : i # Bootstrap
  /\ \A l \in Lookups : l \notin Inserts
BY OperationAssumption DEF Operation

\* kad_client_init: nothing is under way.
LEMMA InitKeepsBooks == Init => IInv
<1> SUFFICES ASSUME Init PROVE IInv
  OBVIOUS
<1> USE BootstrapIsNoInsert
<1>1. TypeOK
  <2>1. phase \in [Operation -> Phases] /\ storage \in Seq(Inserts)
    BY DEF Init, Phases
  <2>2. calls = [o \in Operation |-> IF phase[o] = "done" THEN 1 ELSE 0]
    BY DEF Init
  <2>3. count \in [Operation -> Nat] /\ total \in [Operation -> Nat]
    BY DEF Init
  <2>4. /\ found \in [Inserts -> SUBSET Peer] /\ asked \in [Inserts -> SUBSET Peer]
        /\ pending \in [Inserts -> SUBSET Peer]
    BY DEF Init
  <2>5. /\ open = TRUE /\ known = FALSE /\ capacity = Capacity /\ fault = "none"
        /\ awaited = {} /\ answered = {}
    BY DEF Init
  <2>6. QED
    BY <2>1, <2>2, <2>3, <2>4, <2>5 DEF TypeOK
<1>2. PingsAddUp
  BY FS_EmptySet DEF Init, PingsAddUp
<1>3. FoundIsKnown
  BY DEF Init, FoundIsKnown
<1>4. ASSUME NEW i \in Inserts PROVE StoresAddUp(i) /\ ClosestStore(i)
  BY DEF Init, StoresAddUp, ClosestStore
<1>5. QED
  BY <1>1, <1>2, <1>3, <1>4 DEF IInv

\* Hear: the table has a contact from then on.
LEMMA HearKeepsBooks ==
  ASSUME IInv, Hear
  PROVE  IInv'
<1> USE DEF Hear, IInv
<1>1. TypeOK'
  BY DEF TypeOK, insert, bootstrap
<1>2. BootstrapUntouched
  BY DEF BootstrapUntouched
<1>3. PingsAddUp' /\ FoundIsKnown'
  BY <1>2, UntouchedBootstrap
<1>4. StorageGrows
  BY DEF StorageGrows
<1>5. QED
  BY <1>1, <1>3, <1>4, UntouchedInserts

\* kad_client_bootstrap without hosts.
LEMMA BootstrapNobodyKeepsBooks ==
  ASSUME IInv, BootstrapNobody
  PROVE  IInv'
<1> USE BootstrapIsNoInsert
<1>1. TypeOK /\ PingsAddUp /\ FoundIsKnown
  BY DEF IInv
<1>2. /\ phase' \in [Operation -> Phases] /\ calls' = CallsOf(phase')
      /\ phase'[Bootstrap] = "done"
      /\ \A x \in Operation : x # Bootstrap => phase'[x] = phase[x]
  BY <1>1, EndsOnce DEF BootstrapNobody
<1>3. UNCHANGED <<open, capacity, known, storage, fault, count, total>>
      /\ UNCHANGED insert /\ UNCHANGED bootstrap /\ phase[Bootstrap] = "idle"
  BY DEF BootstrapNobody, client
<1>4. TypeOK'
  BY <1>1, <1>2, <1>3 DEF TypeOK, CallsOf, insert, bootstrap
<1>5. PingsAddUp'
  BY <1>1, <1>2, <1>3 DEF PingsAddUp, bootstrap
<1>6. FoundIsKnown'
  BY <1>1, <1>2, <1>3 DEF PingsAddUp, FoundIsKnown, bootstrap
<1>7. StorageGrows
  BY <1>3 DEF StorageGrows
<1>8. \A i \in Inserts : StoresAddUp(i)' /\ ClosestStore(i)'
  BY <1>2, <1>3, <1>7, UntouchedInserts
<1>9. QED
  BY <1>4, <1>5, <1>6, <1>8 DEF IInv

\* kad_client_bootstrap: as many pings are awaited as were not refused.
LEMMA BootstrapHostsKeepsBooks ==
  ASSUME IInv, NEW hosts \in SUBSET Host, NEW refused \in SUBSET hosts,
         BootstrapHosts(hosts, refused)
  PROVE  IInv'
<1> USE BootstrapIsNoInsert
<1>1. TypeOK /\ PingsAddUp /\ FoundIsKnown
  BY DEF IInv
<1>2. /\ IsFiniteSet(hosts) /\ IsFiniteSet(refused) /\ IsFiniteSet(hosts \ refused)
      /\ Cardinality(hosts) \in Nat /\ Cardinality(refused) \in Nat
      /\ Cardinality(hosts \ refused) \in Nat
  BY HostAssumption, FS_Subset, FS_CardinalityType
<1>3. Cardinality(hosts) = Cardinality(refused) + Cardinality(hosts \ refused)
  <2>1. hosts \cap refused = refused
    OBVIOUS
  <2>2. Cardinality(hosts \ refused) = Cardinality(hosts) - Cardinality(hosts \cap refused)
    BY <1>2, FS_Difference
  <2>3. Cardinality(hosts \cap refused) = Cardinality(refused)
    BY <2>1, Zenon
  <2>4. QED
    BY <1>2, <2>2, <2>3
<1>4. PICK to \in {"stranded", "pinging"} :
        Moves(Bootstrap, to) /\ (to = "stranded" <=> refused = hosts)
  BY DEF BootstrapHosts, Crawls
<1>5. /\ UNCHANGED <<open, capacity, known, storage, fault, calls, answered, size>>
      /\ UNCHANGED insert /\ phase[Bootstrap] = "idle"
      /\ total' = [total EXCEPT ![Bootstrap] = Cardinality(hosts)]
      /\ count' = [count EXCEPT ![Bootstrap] = Cardinality(refused)]
      /\ awaited' = hosts \ refused
  BY DEF BootstrapHosts, client
<1>6. /\ phase' \in [Operation -> Phases] /\ calls' = CallsOf(phase')
      /\ phase'[Bootstrap] = to
      /\ \A x \in Operation : x # Bootstrap => phase'[x] = phase[x]
  BY <1>1, <1>4, <1>5, GoesOn DEF Phases
<1>7. TypeOK'
  BY <1>1, <1>2, <1>5, <1>6 DEF TypeOK, CallsOf, insert
<1>8. /\ total'[Bootstrap] = Cardinality(hosts) /\ count'[Bootstrap] = Cardinality(refused)
      /\ \A x \in Operation : x # Bootstrap => total'[x] = total[x] /\ count'[x] = count[x]
  BY <1>1, <1>5 DEF TypeOK
<1>9. PingsAddUp'
  <2>1. answered = {} /\ size = Cardinality(answered)
    BY <1>1, <1>5 DEF PingsAddUp
  <2>2. to = "pinging" => awaited' # {}
    BY <1>4, <1>5
  <2>3. awaited' # {} => to = "pinging"
    BY <1>4, <1>5
  <2>4. to # "idle"
    BY <1>4
  <2>5. QED
    BY <1>3, <1>5, <1>6, <1>8, <2>1, <2>2, <2>3, <2>4 DEF PingsAddUp
<1>10. FoundIsKnown'
  BY <1>1, <1>4, <1>5, <1>6 DEF FoundIsKnown
<1>11. StorageGrows
  BY <1>5 DEF StorageGrows
<1>12. \A i \in Inserts : StoresAddUp(i)' /\ ClosestStore(i)'
  BY <1>5, <1>6, <1>8, <1>11, UntouchedInserts
<1>13. QED
  BY <1>7, <1>9, <1>10, <1>12 DEF IInv

\* The program dies, and nothing else changes.
LEMMA DieKeepsBooks ==
  ASSUME IInv, NEW how \in {"undefined", "abort"}, Die(how)
  PROVE  IInv'
<1>1. /\ UNCHANGED <<open, capacity, known, storage, phase, calls, count, total>>
      /\ UNCHANGED bootstrap /\ UNCHANGED insert /\ fault' = how
  BY DEF Die, client
<1>2. TypeOK'
  BY <1>1 DEF IInv, TypeOK, bootstrap, insert
<1>3. PingsAddUp'
  BY <1>1 DEF IInv, PingsAddUp, bootstrap, Alive
<1>4. FoundIsKnown'
  BY <1>1 DEF IInv, FoundIsKnown, bootstrap
<1>5. StorageGrows
  BY <1>1 DEF StorageGrows
<1>6. \A i \in Inserts : StoresAddUp(i)' /\ ClosestStore(i)'
  BY <1>1, <1>5, UntouchedInserts
<1>7. QED
  BY <1>2, <1>3, <1>4, <1>6 DEF IInv

\* A result is counted: there is one more of them and one less is awaited.  If no
\* ping is lost it is the last exactly if none is awaited any more; else it never
\* is the last.
LEMMA ResultIsCounted ==
  ASSUME IInv, Alive, NEW h \in awaited, NEW ok \in BOOLEAN, PingResult(h, ok)
  PROVE  /\ phase[Bootstrap] \in {"pinging", "lost"}
         /\ awaited' \in SUBSET Host /\ answered' \in SUBSET Host
         /\ awaited' \cap answered' = {}
         /\ size' = Cardinality(answered') /\ size' \in Nat
         /\ (ok => size' # 0)
         /\ phase[Bootstrap] = "pinging" =>
              total[Bootstrap] = count'[Bootstrap] + Cardinality(awaited')
         /\ phase[Bootstrap] = "lost" =>
              count'[Bootstrap] + Cardinality(awaited') < total[Bootstrap]
         /\ LastResult(count'[Bootstrap]) <=> phase[Bootstrap] = "pinging" /\ awaited' = {}
<1> USE BootstrapIsNoInsert
<1>1. /\ phase[Bootstrap] \in {"pinging", "lost"}
      /\ phase[Bootstrap] = "pinging" =>
           total[Bootstrap] = count[Bootstrap] + Cardinality(awaited)
      /\ phase[Bootstrap] = "lost" =>
           count[Bootstrap] + Cardinality(awaited) < total[Bootstrap]
      /\ awaited \cap answered = {} /\ size = Cardinality(answered)
  BY DEF IInv, PingsAddUp
<1>2. /\ awaited' = awaited \ {h}
      /\ answered' = IF ok THEN answered \cup {h} ELSE answered
      /\ size' = Learned(ok)
  BY DEF PingResult
<1>3. /\ awaited \in SUBSET Host /\ answered \in SUBSET Host
      /\ count[Bootstrap] \in Nat /\ total[Bootstrap] \in Nat
      /\ count'[Bootstrap] = count[Bootstrap] + 1
  BY DEF IInv, TypeOK, PingResult
<1>4. /\ IsFiniteSet(awaited) /\ Cardinality(awaited) \in Nat
      /\ IsFiniteSet(answered) /\ Cardinality(answered) \in Nat
  BY <1>3, HostAssumption, FS_Subset, FS_CardinalityType
<1>5. /\ IsFiniteSet(awaited') /\ Cardinality(awaited') \in Nat
      /\ Cardinality(awaited') = Cardinality(awaited) - 1
  <2>1. /\ IsFiniteSet(awaited \ {h})
        /\ Cardinality(awaited \ {h}) = Cardinality(awaited) - 1
    BY <1>4, FS_RemoveElement
  <2>2. Cardinality(awaited \ {h}) \in Nat
    BY <2>1, FS_CardinalityType
  <2>3. QED
    BY <1>2, <2>1, <2>2
<1>6. h \notin answered /\ h \in Host
  BY <1>1, <1>3
<1>7. /\ size' = Cardinality(answered') /\ size' \in Nat
      /\ ok => size' # 0
  <2>1. CASE ok
    <3>1. answered' = answered \cup {h} /\ size' = size + 1
      BY <1>2, <2>1 DEF Learned
    <3>2. Cardinality(answered \cup {h}) = Cardinality(answered) + 1
      BY <1>4, <1>6, FS_AddElement
    <3>3. QED
      BY <1>1, <1>4, <3>1, <3>2
  <2>2. CASE ~ ok
    BY <1>1, <1>2, <1>4, <2>2 DEF Learned
  <2>3. QED
    BY <2>1, <2>2
<1>8. PICK n : n = Cardinality(awaited')
  OBVIOUS
<1>9. PICK c : c = count'[Bootstrap]
  OBVIOUS
<1>10. /\ n \in Nat /\ c \in Nat
       /\ phase[Bootstrap] = "pinging" => total[Bootstrap] = c + n
       /\ phase[Bootstrap] = "lost" => c + n < total[Bootstrap]
  BY <1>1, <1>3, <1>4, <1>5, <1>8, <1>9
<1>11. LastResult(c) <=> phase[Bootstrap] = "pinging" /\ awaited' = {}
  <2>1. n = 0 <=> awaited' = {}
    BY <1>5, <1>8, FS_EmptySet
  <2>2. LastResult(c) <=> c = total[Bootstrap]
    BY DEF LastResult
  <2>3. c = total[Bootstrap] <=> phase[Bootstrap] = "pinging" /\ n = 0
    BY <1>1, <1>3, <1>10
  <2>4. QED
    BY <2>1, <2>2, <2>3
<1>12. /\ awaited' \in SUBSET Host /\ answered' \in SUBSET Host
       /\ awaited' \cap answered' = {}
  BY <1>1, <1>2, <1>3, <1>6
<1>13. QED
  BY <1>1, <1>7, <1>8, <1>9, <1>10, <1>11, <1>12, Zenon

\* kad_client_bootstrap_ping_callback.  After the last result the bootstrap crawls,
\* is stranded or brings down the program; there is no result after it.
LEMMA PingResultKeepsBooks ==
  ASSUME IInv, Alive, NEW h \in awaited, NEW ok \in BOOLEAN, PingResult(h, ok)
  PROVE  IInv'
<1> USE BootstrapIsNoInsert
<1>1. TypeOK /\ PingsAddUp /\ FoundIsKnown
  BY DEF IInv
<1>2. /\ phase[Bootstrap] \in {"pinging", "lost"}
      /\ awaited' \in SUBSET Host /\ answered' \in SUBSET Host
      /\ awaited' \cap answered' = {}
      /\ size' = Cardinality(answered') /\ size' \in Nat
      /\ (ok => size' # 0)
      /\ phase[Bootstrap] = "pinging" =>
           total[Bootstrap] = count'[Bootstrap] + Cardinality(awaited')
      /\ phase[Bootstrap] = "lost" =>
           count'[Bootstrap] + Cardinality(awaited') < total[Bootstrap]
      /\ LastResult(count'[Bootstrap]) <=> phase[Bootstrap] = "pinging" /\ awaited' = {}
  BY ResultIsCounted
<1>3. /\ UNCHANGED <<open, capacity, storage, calls, total>> /\ UNCHANGED insert
      /\ count' = [count EXCEPT ![Bootstrap] = @ + 1]
  BY DEF PingResult
<1>4. /\ count' \in [Operation -> Nat]
      /\ \A x \in Operation : x # Bootstrap => count'[x] = count[x]
  BY <1>1, <1>3 DEF TypeOK
<1>5. StorageGrows
  BY <1>3 DEF StorageGrows
\* What each outcome leaves to be shown.
<1>6. ASSUME /\ phase' \in [Operation -> Phases] /\ calls' = CallsOf(phase')
             /\ \A x \in Operation : x # Bootstrap => phase'[x] = phase[x],
             known' \in BOOLEAN, fault' \in {"none", "undefined", "abort"},
             PingsAddUp', FoundIsKnown'
      PROVE  IInv'
  <2>1. TypeOK'
    BY <1>1, <1>2, <1>3, <1>4, <1>6 DEF TypeOK, CallsOf, insert
  <2>2. \A i \in Inserts : StoresAddUp(i)' /\ ClosestStore(i)'
    BY <1>3, <1>4, <1>5, <1>6, UntouchedInserts
  <2>3. QED
    BY <1>6, <2>1, <2>2 DEF IInv
<1>7. UNCHANGED phase => /\ phase' \in [Operation -> Phases] /\ calls' = CallsOf(phase')
                         /\ \A x \in Operation : x # Bootstrap => phase'[x] = phase[x]
  BY <1>1, <1>3 DEF TypeOK, CallsOf
<1>8. fault = "none" /\ known \in BOOLEAN
  BY <1>1 DEF TypeOK, Alive
<1>9. CASE ~ LastResult(count'[Bootstrap])
  <2>1. UNCHANGED <<known, phase, fault>>
    BY <1>9 DEF PingResult
  <2>2. PingsAddUp'
    BY <1>2, <1>3, <1>9, <2>1 DEF PingsAddUp
  <2>3. FoundIsKnown'
    BY <1>2, <2>1 DEF FoundIsKnown
  <2>4. QED
    BY <1>6, <1>7, <1>8, <2>1, <2>2, <2>3
<1>10. CASE LastResult(count'[Bootstrap]) /\ ok
  <2>1. known' = TRUE /\ Moves(Bootstrap, "crawling") /\ UNCHANGED fault
    BY <1>10 DEF PingResult, ProcessResults, Crawls
  <2>2. /\ phase' \in [Operation -> Phases] /\ calls' = CallsOf(phase')
        /\ phase'[Bootstrap] = "crawling"
        /\ \A x \in Operation : x # Bootstrap => phase'[x] = phase[x]
    BY <1>1, <1>2, <1>3, <2>1, GoesOn DEF Phases
  <2>3. PingsAddUp'
    BY <1>2, <1>10, <2>1, <2>2 DEF PingsAddUp
  <2>4. FoundIsKnown'
    BY <2>1 DEF FoundIsKnown
  <2>5. QED
    BY <1>6, <1>8, <2>1, <2>2, <2>3, <2>4
<1>11. CASE LastResult(count'[Bootstrap]) /\ ~ ok /\ size' = 0
  <2>1. Moves(Bootstrap, "stranded") /\ UNCHANGED <<known, fault>>
    BY <1>11 DEF PingResult, ProcessResults, Crawls
  <2>2. /\ phase' \in [Operation -> Phases] /\ calls' = CallsOf(phase')
        /\ phase'[Bootstrap] = "stranded"
        /\ \A x \in Operation : x # Bootstrap => phase'[x] = phase[x]
    BY <1>1, <1>2, <1>3, <2>1, GoesOn DEF Phases
  <2>3. PingsAddUp'
    BY <1>2, <1>11, <2>1, <2>2 DEF PingsAddUp
  <2>4. FoundIsKnown'
    BY <2>2 DEF FoundIsKnown
  <2>5. QED
    BY <1>6, <1>8, <2>1, <2>2, <2>3, <2>4
<1>12. CASE LastResult(count'[Bootstrap]) /\ ~ ok /\ size' # 0
  <2>1. fault' = "undefined" /\ UNCHANGED <<known, phase>>
    BY <1>12 DEF PingResult, ProcessResults
  <2>2. PingsAddUp'
    BY <1>2, <1>12, <2>1 DEF PingsAddUp, Alive
  <2>3. FoundIsKnown'
    BY <1>2, <1>12, <2>1 DEF FoundIsKnown
  <2>4. QED
    BY <1>6, <1>7, <1>8, <2>1, <2>2, <2>3
<1>13. QED
  BY <1>2, <1>9, <1>10, <1>11, <1>12

\* A ping calls back, or reading the host that answered brings down the program.
LEMMA PingEndsKeepsBooks ==
  ASSUME IInv, NEW h \in Host, PingEnds(h)
  PROVE  IInv'
<1>1. Alive /\ h \in awaited
  BY DEF PingEnds
<1>2. PingResult(h, FALSE) \/ PingResult(h, TRUE) \/ Die("undefined")
  BY DEF PingEnds
<1>3. QED
  BY <1>1, <1>2, PingResultKeepsBooks, DieKeepsBooks

\* kad_client_bootstrap_crawler_callback.
LEMMA BootstrapCrawlEndsKeepsBooks ==
  ASSUME IInv, BootstrapCrawlEnds
  PROVE  IInv'
<1> USE BootstrapIsNoInsert
<1>1. CASE Die("abort")
  BY <1>1, DieKeepsBooks
<1>2. CASE ~ Die("abort")
  <2>1. TypeOK /\ PingsAddUp /\ FoundIsKnown
    BY DEF IInv
  <2>2. /\ phase[Bootstrap] = "crawling" /\ Moves(Bootstrap, "done") /\ Calls(Bootstrap)
        /\ UNCHANGED <<open, capacity, known, storage, fault, count, total>>
        /\ UNCHANGED insert /\ UNCHANGED bootstrap
    BY <1>2 DEF BootstrapCrawlEnds, client
  <2>3. /\ phase' \in [Operation -> Phases] /\ calls' = CallsOf(phase')
        /\ phase'[Bootstrap] = "done"
        /\ \A x \in Operation : x # Bootstrap => phase'[x] = phase[x]
    BY <2>1, <2>2, EndsOnce
  <2>4. TypeOK'
    BY <2>1, <2>2, <2>3 DEF TypeOK, CallsOf, insert, bootstrap
  <2>5. PingsAddUp'
    BY <2>1, <2>2, <2>3 DEF PingsAddUp, bootstrap
  <2>6. FoundIsKnown'
    BY <2>1, <2>2, <2>3 DEF FoundIsKnown, bootstrap
  <2>7. StorageGrows
    BY <2>2 DEF StorageGrows
  <2>8. \A i \in Inserts : StoresAddUp(i)' /\ ClosestStore(i)'
    BY <2>2, <2>3, <2>7, UntouchedInserts
  <2>9. QED
    BY <2>4, <2>5, <2>6, <2>8 DEF IInv
<1>3. QED
  BY <1>1, <1>2

-----------------------------------------------------------------------------
(* The steps of an insert and of a lookup                                  *)
-----------------------------------------------------------------------------
\* kad_client_insert and kad_client_lookup.
LEMMA BeginsKeepsBooks ==
  ASSUME IInv, NEW o \in Inserts \cup Lookups, InsertBegins(o) \/ LookupBegins(o)
  PROVE  IInv'
<1> USE BootstrapIsNoInsert
<1>1. TypeOK /\ PingsAddUp /\ FoundIsKnown
  BY DEF IInv
<1>2. /\ Alive /\ open /\ phase[o] = "idle" /\ Crawls(o, known)
      /\ UNCHANGED <<open, capacity, known, storage, fault, calls, count, total>>
      /\ UNCHANGED insert /\ UNCHANGED bootstrap
  BY DEF InsertBegins, LookupBegins, client
<1>3. PICK to \in {"crawling", "stranded"} : Moves(o, to)
  BY <1>2 DEF Crawls
<1>4. o \in Operation /\ o # Bootstrap
  OBVIOUS
<1>5. /\ phase' \in [Operation -> Phases] /\ calls' = CallsOf(phase')
      /\ phase'[o] = to
      /\ \A x \in Operation : x # o => phase'[x] = phase[x]
  BY <1>1, <1>2, <1>3, <1>4, GoesOn DEF Phases
<1>6. TypeOK'
  BY <1>1, <1>2, <1>5 DEF TypeOK, CallsOf, insert, bootstrap
<1>7. BootstrapUntouched
  BY <1>2, <1>4, <1>5 DEF BootstrapUntouched
<1>8. StorageGrows
  BY <1>2 DEF StorageGrows
<1>9. ASSUME NEW i \in Inserts
      PROVE  StoresAddUp(i)' /\ ClosestStore(i)'
  <2>1. StoresAddUp(i) /\ ClosestStore(i)
    BY DEF IInv
  <2>2. CASE i = o
    <3>1. StoresAddUp(i)'
      BY <1>2, <1>5, <2>1, <2>2 DEF StoresAddUp, insert
    <3>2. found'[i] = {}
      BY <1>2, <2>1, <2>2 DEF StoresAddUp, insert
    <3>3. QED
      BY <3>1, <3>2 DEF ClosestStore
  <2>3. CASE i # o
    <3>1. Untouched(i)
      BY <1>2, <1>5, <2>3 DEF Untouched, insert
    <3>2. QED
      BY <1>8, <2>1, <3>1, UntouchedInsert
  <2>4. QED
    BY <2>2, <2>3
<1>10. PingsAddUp' /\ FoundIsKnown'
  BY <1>1, <1>2, <1>7, UntouchedBootstrap
<1>11. QED
  BY <1>6, <1>9, <1>10 DEF IInv

\* kad_client_lookup_callback.
LEMMA LookupCrawlEndsKeepsBooks ==
  ASSUME IInv, NEW l \in Lookups, LookupCrawlEnds(l)
  PROVE  IInv'
<1> USE BootstrapIsNoInsert
<1>1. TypeOK /\ PingsAddUp /\ FoundIsKnown
  BY DEF IInv
<1>2. /\ Alive /\ phase[l] = "crawling" /\ Moves(l, "done") /\ Calls(l)
      /\ UNCHANGED <<open, capacity, known, storage, fault, count, total>>
      /\ UNCHANGED insert /\ UNCHANGED bootstrap
  BY DEF LookupCrawlEnds, client
<1>3. l \in Operation /\ l # Bootstrap /\ \A i \in Inserts : i # l
  OBVIOUS
<1>4. /\ phase' \in [Operation -> Phases] /\ calls' = CallsOf(phase')
      /\ \A x \in Operation : x # l => phase'[x] = phase[x]
  BY <1>1, <1>2, <1>3, EndsOnce
<1>5. TypeOK'
  BY <1>1, <1>2, <1>4 DEF TypeOK, CallsOf, insert, bootstrap
<1>6. BootstrapUntouched
  BY <1>2, <1>3, <1>4 DEF BootstrapUntouched
<1>7. PingsAddUp' /\ FoundIsKnown'
  BY <1>1, <1>2, <1>6, UntouchedBootstrap
<1>8. StorageGrows
  BY <1>2 DEF StorageGrows
<1>9. \A i \in Inserts : StoresAddUp(i)' /\ ClosestStore(i)'
  BY <1>2, <1>3, <1>4, <1>8, UntouchedInserts
<1>10. QED
  BY <1>5, <1>7, <1>9 DEF IInv

\* What kad_client_insert_callback does with what the crawl found: as many stores
\* are to come as were not refused, it never reads a context that was freed, and
\* once the structure was cleared it stores nothing and asks nobody.
LEMMA DistributeIsSound ==
  ASSUME IInv, Alive, NEW i \in Inserts, phase[i] = "crawling",
         NEW peers \in SUBSET Peer, NEW refused, Distribute(i, peers, refused)
  PROVE  /\ phase' \in [Operation -> Phases] /\ calls' = CallsOf(phase')
         /\ \A x \in Operation : x # i => phase'[x] = phase[x]
         /\ UNCHANGED fault
         /\ storage' \in Seq(Inserts)
         /\ \A k \in DOMAIN storage : k \in DOMAIN storage' /\ storage'[k] = storage[k]
         /\ count' \in [Operation -> Nat] /\ total' \in [Operation -> Nat]
         /\ found' \in [Inserts -> SUBSET Peer] /\ asked' \in [Inserts -> SUBSET Peer]
         /\ pending' \in [Inserts -> SUBSET Peer]
         /\ \A x \in Operation : x # i => count'[x] = count[x] /\ total'[x] = total[x]
         /\ \A x \in Inserts : x # i =>
              found'[x] = found[x] /\ asked'[x] = asked[x] /\ pending'[x] = pending[x]
         /\ phase'[i] \in {"done", "stranded", "storing"}
         /\ phase'[i] = "storing" <=> pending'[i] # {}
         /\ total'[i] = count'[i] + Cardinality(pending'[i])
         /\ found'[i] = peers /\ asked'[i] \subseteq peers
         /\ ~ open => UNCHANGED <<storage, asked>>
         /\ open => /\ \E k \in DOMAIN storage' : storage'[k] = i
                    /\ \A p \in asked'[i], q \in peers \ asked'[i] : p < q
                    /\ \/ Cardinality(asked'[i]) = Capacity - 1
                       \/ Cardinality(asked'[i]) < Capacity - 1 /\ asked'[i] = peers
<1> USE BootstrapIsNoInsert
<1>1. PICK into : into = InsertInto(peers)
  OBVIOUS
<1>2. PICK out : out = Others(into)
  OBVIOUS
<1>3. PICK ends : ends = (Cardinality(refused) = Outbound(into) /\ refused # {})
  OBVIOUS
<1>4. TypeOK /\ StoresAddUp(i) /\ fault = "none"
  BY DEF IInv, Alive
<1>5. capacity \in Nat /\ (capacity # 0 <=> open) /\ (open => capacity = Capacity)
  BY <1>4, CapacityAssumption DEF TypeOK
<1>6. /\ out \subseteq peers /\ IsFiniteSet(out)
      /\ capacity = 0 => Self \notin ToSet(into) /\ out = {}
      /\ capacity # 0 => Self \in ToSet(into)
      /\ SelfComesLast(into) => out = {}
      /\ \A p \in out, q \in peers \ out : p < q
      /\ capacity # 0 => \/ Cardinality(out) = capacity - 1
                         \/ Cardinality(out) < capacity - 1 /\ out = peers
  BY <1>1, <1>2, <1>5, IntoProperties
<1>7. /\ refused \subseteq out
      /\ found' = [found EXCEPT ![i] = peers]
      /\ asked' = [asked EXCEPT ![i] = out]
      /\ pending' = [pending EXCEPT ![i] = out \ refused]
      /\ total' = [total EXCEPT ![i] = Outbound(into)]
      /\ count' = [count EXCEPT ![i] = Cardinality(refused)]
      /\ storage' = IF Self \in ToSet(into) THEN Append(storage, i) ELSE storage
      /\ \/ ends /\ Moves(i, "done") /\ Calls(i)
         \/ ~ ends /\ Moves(i, IF out = {} THEN "stranded" ELSE "storing") /\ UNCHANGED calls
      /\ fault' = IF ends /\ SelfComesLast(into) THEN "freed"
                  ELSE IF ~ open /\ out # {} THEN "null"
                  ELSE fault
  BY <1>1, <1>2, <1>3 DEF Distribute
<1>8. Outbound(into) = Cardinality(out)
  BY <1>2 DEF Outbound
<1>9. /\ IsFiniteSet(refused) /\ IsFiniteSet(out \ refused)
      /\ Cardinality(out) \in Nat /\ Cardinality(refused) \in Nat
      /\ Cardinality(out \ refused) \in Nat
      /\ Cardinality(out) = Cardinality(refused) + Cardinality(out \ refused)
  <2>1. /\ IsFiniteSet(refused) /\ IsFiniteSet(out \ refused)
        /\ Cardinality(out) \in Nat /\ Cardinality(refused) \in Nat
        /\ Cardinality(out \ refused) \in Nat
    BY <1>6, <1>7, FS_Subset, FS_CardinalityType
  <2>2. out \cap refused = refused
    BY <1>7
  <2>3. Cardinality(out \ refused) = Cardinality(out) - Cardinality(out \cap refused)
    BY <1>6, <2>1, FS_Difference
  <2>4. Cardinality(out \cap refused) = Cardinality(refused)
    BY <2>2, Zenon
  <2>5. QED
    BY <2>1, <2>3, <2>4
<1>10. ends <=> out \ refused = {} /\ out # {}
  <2>1. Cardinality(refused) = Cardinality(out) <=> Cardinality(out \ refused) = 0
    BY <1>9
  <2>2. Cardinality(out \ refused) = 0 <=> out \ refused = {}
    BY <1>9, FS_EmptySet
  <2>3. ends <=> out \ refused = {} /\ refused # {}
    BY <1>3, <1>8, <2>1, <2>2
  <2>4. QED
    BY <1>7, <2>3
<1>11. UNCHANGED fault
  <2>1. ~ (ends /\ SelfComesLast(into))
    BY <1>6, <1>10
  <2>2. ~ (~ open /\ out # {})
    BY <1>5, <1>6
  <2>3. QED
    BY <1>7, <2>1, <2>2
<1>12. PICK to \in {"done", "stranded", "storing"} :
         /\ to = "storing" <=> out \ refused # {}
         /\ phase' \in [Operation -> Phases] /\ calls' = CallsOf(phase')
         /\ phase'[i] = to
         /\ \A x \in Operation : x # i => phase'[x] = phase[x]
  <2>1. i \in Operation /\ phase[i] # "done" /\ phase[i] = "crawling"
    OBVIOUS
  <2>2. CASE ends
    <3>1. Moves(i, "done") /\ Calls(i)
      BY <1>7, <2>2
    <3>2. /\ phase' \in [Operation -> Phases] /\ calls' = CallsOf(phase')
          /\ phase'[i] = "done"
          /\ \A x \in Operation : x # i => phase'[x] = phase[x]
      BY <1>4, <2>1, <3>1, EndsOnce
    <3>3. QED
      BY <1>10, <2>2, <3>2
  <2>3. CASE ~ ends
    <3>1. PICK to \in {"stranded", "storing"} :
            Moves(i, to) /\ UNCHANGED calls /\ (to = "stranded" <=> out = {})
      BY <1>7, <2>3
    <3>2. to \in Phases /\ to # "done"
      BY <3>1 DEF Phases
    <3>3. /\ phase' \in [Operation -> Phases] /\ calls' = CallsOf(phase')
          /\ phase'[i] = to
          /\ \A x \in Operation : x # i => phase'[x] = phase[x]
      BY <1>4, <2>1, <3>1, <3>2, GoesOn
    <3>4. to = "storing" <=> out \ refused # {}
      BY <1>10, <2>3, <3>1
    <3>5. QED
      BY <3>1, <3>3, <3>4
  <2>4. QED
    BY <2>2, <2>3
<1>13. /\ storage' \in Seq(Inserts)
       /\ \A k \in DOMAIN storage : k \in DOMAIN storage' /\ storage'[k] = storage[k]
       /\ open => \E k \in DOMAIN storage' : storage'[k] = i
       /\ ~ open => storage' = storage
  <2>1. storage \in Seq(Inserts)
    BY <1>4 DEF TypeOK
  <2>2. CASE open
    <3>1. storage' = Append(storage, i)
      BY <1>5, <1>6, <1>7, <2>2
    <3>2. /\ storage' \in Seq(Inserts)
          /\ DOMAIN storage' = 1..(Len(storage) + 1) /\ DOMAIN storage = 1..Len(storage)
          /\ \A k \in 1..Len(storage) : storage'[k] = storage[k]
          /\ storage'[Len(storage) + 1] = i /\ Len(storage) \in Nat
      BY <2>1, <3>1
    <3>3. Len(storage) + 1 \in DOMAIN storage'
          /\ \A k \in DOMAIN storage : k \in DOMAIN storage'
      BY <3>2
    <3>4. QED
      BY <2>2, <3>2, <3>3
  <2>3. CASE ~ open
    BY <1>5, <1>6, <1>7, <2>1, <2>3
  <2>4. QED
    BY <2>2, <2>3
<1>14. /\ found \in [Inserts -> SUBSET Peer] /\ asked \in [Inserts -> SUBSET Peer]
       /\ pending \in [Inserts -> SUBSET Peer]
       /\ count \in [Operation -> Nat] /\ total \in [Operation -> Nat]
  BY <1>4 DEF TypeOK
<1>15. out \in SUBSET Peer /\ out \ refused \in SUBSET Peer
  BY <1>6
<1>16. /\ found' \in [Inserts -> SUBSET Peer] /\ found'[i] = peers
       /\ asked' \in [Inserts -> SUBSET Peer] /\ asked'[i] = out
       /\ pending' \in [Inserts -> SUBSET Peer] /\ pending'[i] = out \ refused
       /\ \A x \in Inserts : x # i =>
            found'[x] = found[x] /\ asked'[x] = asked[x] /\ pending'[x] = pending[x]
  BY <1>7, <1>14, <1>15
<1>17. /\ count' \in [Operation -> Nat] /\ total' \in [Operation -> Nat]
       /\ count'[i] = Cardinality(refused) /\ total'[i] = Cardinality(out)
       /\ \A x \in Operation : x # i => count'[x] = count[x] /\ total'[x] = total[x]
  BY <1>7, <1>8, <1>9, <1>14
<1>18. ~ open => asked' = asked
  <2>1. asked[i] = {}
    BY <1>4 DEF StoresAddUp
  <2>2. ~ open => out = {}
    BY <1>5, <1>6
  <2>3. QED
    BY <1>7, <1>14, <2>1, <2>2
<1>19. total'[i] = count'[i] + Cardinality(pending'[i])
  BY <1>9, <1>16, <1>17
<1>20. open => /\ \A p \in asked'[i], q \in peers \ asked'[i] : p < q
               /\ \/ Cardinality(asked'[i]) = Capacity - 1
                  \/ Cardinality(asked'[i]) < Capacity - 1 /\ asked'[i] = peers
  BY <1>5, <1>6, <1>16
<1>21. asked'[i] \subseteq peers
  BY <1>6, <1>16
<1>22. phase'[i] \in {"done", "stranded", "storing"} /\ (phase'[i] = "storing" <=> pending'[i] # {})
  BY <1>12, <1>16
<1>23. QED
  BY <1>11, <1>12, <1>13, <1>16, <1>17, <1>18, <1>19, <1>20, <1>21, <1>22, Zenon

\* kad_client_insert_callback.
LEMMA InsertCrawlEndsKeepsBooks ==
  ASSUME IInv, NEW i \in Inserts, InsertCrawlEnds(i)
  PROVE  IInv'
<1> USE BootstrapIsNoInsert
<1>1. PICK peers \in SUBSET Peer, refused \in SUBSET Peer : Distribute(i, peers, refused)
  BY DEF InsertCrawlEnds
<1>2. Alive /\ phase[i] = "crawling" /\ UNCHANGED <<open, capacity, known>>
      /\ UNCHANGED bootstrap
  BY DEF InsertCrawlEnds
<1>3. TypeOK /\ PingsAddUp /\ FoundIsKnown
  BY DEF IInv
<1>4. /\ phase' \in [Operation -> Phases] /\ calls' = CallsOf(phase')
      /\ \A x \in Operation : x # i => phase'[x] = phase[x]
      /\ UNCHANGED fault
      /\ storage' \in Seq(Inserts)
      /\ \A k \in DOMAIN storage : k \in DOMAIN storage' /\ storage'[k] = storage[k]
      /\ count' \in [Operation -> Nat] /\ total' \in [Operation -> Nat]
      /\ found' \in [Inserts -> SUBSET Peer] /\ asked' \in [Inserts -> SUBSET Peer]
      /\ pending' \in [Inserts -> SUBSET Peer]
      /\ \A x \in Operation : x # i => count'[x] = count[x] /\ total'[x] = total[x]
      /\ \A x \in Inserts : x # i =>
           found'[x] = found[x] /\ asked'[x] = asked[x] /\ pending'[x] = pending[x]
      /\ phase'[i] \in {"done", "stranded", "storing"}
      /\ phase'[i] = "storing" <=> pending'[i] # {}
      /\ total'[i] = count'[i] + Cardinality(pending'[i])
      /\ found'[i] = peers /\ asked'[i] \subseteq peers
      /\ open => /\ \E k \in DOMAIN storage' : storage'[k] = i
                 /\ \A p \in asked'[i], q \in peers \ asked'[i] : p < q
                 /\ \/ Cardinality(asked'[i]) = Capacity - 1
                    \/ Cardinality(asked'[i]) < Capacity - 1 /\ asked'[i] = peers
  BY <1>1, <1>2, DistributeIsSound, Zenon
<1>5. TypeOK'
  BY <1>2, <1>3, <1>4 DEF TypeOK, CallsOf, bootstrap
<1>6. BootstrapUntouched
  BY <1>2, <1>4 DEF BootstrapUntouched
<1>7. PingsAddUp' /\ FoundIsKnown'
  BY <1>2, <1>3, <1>6, UntouchedBootstrap
<1>8. StorageGrows
  BY <1>2, <1>4 DEF StorageGrows
<1>9. ASSUME NEW x \in Inserts
      PROVE  StoresAddUp(x)' /\ ClosestStore(x)'
  <2>1. CASE x = i
    <3>1. StoresAddUp(i)'
      BY <1>4 DEF StoresAddUp
    <3>2. ClosestStore(i)'
      BY <1>2, <1>4 DEF ClosestStore
    <3>3. QED
      BY <2>1, <3>1, <3>2
  <2>2. CASE x # i
    <3>1. Untouched(x)
      BY <1>4, <2>2 DEF Untouched
    <3>2. StoresAddUp(x) /\ ClosestStore(x)
      BY DEF IInv
    <3>3. QED
      BY <1>8, <3>1, <3>2, UntouchedInsert
  <2>3. QED
    BY <2>1, <2>2
<1>10. QED
  BY <1>5, <1>7, <1>9 DEF IInv

\* kad_client_insert_callback_store: the last result is the one after which none is
\* to come, and if a store is lost there is no last one.
LEMMA StoreEndsKeepsBooks ==
  ASSUME IInv, NEW i \in Inserts, NEW p \in Peer, StoreEnds(i, p)
  PROVE  IInv'
<1> USE BootstrapIsNoInsert
<1>1. TypeOK /\ PingsAddUp /\ FoundIsKnown
      /\ StoresAddUp(i) /\ ClosestStore(i)
  BY DEF IInv
<1>2. /\ Alive /\ p \in pending[i]
      /\ UNCHANGED <<open, capacity, known, storage, fault, total, found, asked>>
      /\ UNCHANGED bootstrap
      /\ pending' = [pending EXCEPT ![i] = @ \ {p}]
      /\ count' = [count EXCEPT ![i] = @ + 1]
      /\ \/ count'[i] = total[i] /\ Moves(i, "done") /\ Calls(i)
         \/ count'[i] # total[i] /\ UNCHANGED <<phase, calls>>
  BY DEF StoreEnds, client
<1>3. /\ pending' \in [Inserts -> SUBSET Peer] /\ pending'[i] = pending[i] \ {p}
      /\ count' \in [Operation -> Nat] /\ count'[i] = count[i] + 1
      /\ \A x \in Operation : x # i => count'[x] = count[x]
      /\ \A x \in Inserts : x # i => pending'[x] = pending[x]
  BY <1>1, <1>2 DEF TypeOK
<1>4. /\ phase[i] \in {"storing", "lost"}
      /\ phase[i] = "storing" => total[i] = count[i] + Cardinality(pending[i])
      /\ phase[i] = "lost" => count[i] + Cardinality(pending[i]) < total[i]
  BY <1>1, <1>2 DEF StoresAddUp
<1>5. /\ IsFiniteSet(pending[i] \ {p}) /\ Cardinality(pending[i] \ {p}) \in Nat
      /\ Cardinality(pending[i] \ {p}) = Cardinality(pending[i]) - 1
      /\ Cardinality(pending[i]) \in Nat
  <2>1. pending[i] \in SUBSET Peer /\ IsFiniteSet(pending[i])
    BY <1>1, DistanceAssumption, FS_Subset DEF TypeOK
  <2>2. /\ IsFiniteSet(pending[i] \ {p})
        /\ Cardinality(pending[i] \ {p}) = Cardinality(pending[i]) - 1
    <3>1. PICK P : P = pending[i]
      OBVIOUS
    <3>2. IsFiniteSet(P) /\ p \in P
      BY <1>2, <2>1, <3>1
    <3>3. IsFiniteSet(P \ {p}) /\ Cardinality(P \ {p}) = Cardinality(P) - 1
      BY <3>2, FS_RemoveElement
    <3>4. QED
      BY <3>1, <3>3
  <2>3. QED
    BY <2>1, <2>2, FS_CardinalityType
<1>6. count[i] \in Nat /\ total[i] \in Nat
  BY <1>1 DEF TypeOK
<1>7. /\ phase[i] = "storing" => total[i] = count'[i] + Cardinality(pending'[i])
      /\ phase[i] = "lost" => count'[i] + Cardinality(pending'[i]) < total[i]
  BY <1>3, <1>4, <1>5, <1>6
<1>8. count'[i] = total[i] <=> phase[i] = "storing" /\ pending'[i] = {}
  <2>1. Cardinality(pending'[i]) = 0 <=> pending'[i] = {}
    BY <1>3, <1>5, FS_EmptySet
  <2>2. PICK n : n = Cardinality(pending'[i])
    OBVIOUS
  <2>3. PICK c : c = count'[i]
    OBVIOUS
  <2>4. /\ n \in Nat /\ c \in Nat
        /\ phase[i] = "storing" => total[i] = c + n
        /\ phase[i] = "lost" => c + n < total[i]
    BY <1>3, <1>5, <1>6, <1>7, <2>2, <2>3
  <2>5. c = total[i] <=> phase[i] = "storing" /\ n = 0
    BY <1>4, <1>6, <2>4
  <2>6. QED
    BY <2>1, <2>2, <2>3, <2>5
<1>9. /\ phase' \in [Operation -> Phases] /\ calls' = CallsOf(phase')
      /\ phase'[i] = IF phase[i] = "storing" /\ pending'[i] = {} THEN "done" ELSE phase[i]
      /\ \A x \in Operation : x # i => phase'[x] = phase[x]
  <2>1. CASE phase[i] = "storing" /\ pending'[i] = {}
    <3>1. Moves(i, "done") /\ Calls(i) /\ phase[i] # "done" /\ i \in Operation
      BY <1>2, <1>4, <1>8, <2>1
    <3>2. QED
      BY <1>1, <2>1, <3>1, EndsOnce
  <2>2. CASE ~ (phase[i] = "storing" /\ pending'[i] = {})
    <3>1. UNCHANGED <<phase, calls>>
      BY <1>2, <1>8, <2>2
    <3>2. QED
      BY <1>1, <2>2, <3>1 DEF TypeOK, CallsOf
  <2>3. QED
    BY <2>1, <2>2
<1>10. TypeOK'
  BY <1>1, <1>2, <1>3, <1>9 DEF TypeOK, CallsOf, bootstrap
<1>11. BootstrapUntouched
  BY <1>2, <1>3, <1>9 DEF BootstrapUntouched
<1>12. PingsAddUp' /\ FoundIsKnown'
  BY <1>1, <1>2, <1>11, UntouchedBootstrap
<1>13. StorageGrows
  BY <1>2 DEF StorageGrows
<1>14. ASSUME NEW x \in Inserts
       PROVE  StoresAddUp(x)' /\ ClosestStore(x)'
  <2>1. CASE x = i
    <3>1. StoresAddUp(i)'
      <4>1. total'[i] = total[i] /\ found'[i] = found[i] /\ asked'[i] = asked[i]
        BY <1>2
      <4>2. QED
        BY <1>1, <1>4, <1>7, <1>9, <4>1 DEF StoresAddUp
    <3>2. ClosestStore(i)'
      BY <1>1, <1>2, <1>4 DEF ClosestStore
    <3>3. QED
      BY <2>1, <3>1, <3>2
  <2>2. CASE x # i
    <3>1. Untouched(x)
      BY <1>2, <1>3, <1>9, <2>2 DEF Untouched
    <3>2. StoresAddUp(x) /\ ClosestStore(x)
      BY DEF IInv
    <3>3. QED
      BY <1>13, <3>1, <3>2, UntouchedInsert
  <2>3. QED
    BY <2>1, <2>2
<1>15. QED
  BY <1>10, <1>12, <1>14 DEF IInv

-----------------------------------------------------------------------------
(* The end of the client, and the theorems                                 *)
-----------------------------------------------------------------------------
\* Those who are left when some are lost are too few.
LEMMA FewerAreLeft ==
  ASSUME NEW P, IsFiniteSet(P), NEW lost \in SUBSET P, lost # {},
         NEW c \in Nat, NEW t \in Nat, c + Cardinality(P) <= t
  PROVE  c + Cardinality(P \ lost) < t
<1>1. PICK x \in lost : TRUE
  OBVIOUS
<1>2. PICK n : n = Cardinality(P)
  OBVIOUS
<1>3. PICK m : m = Cardinality(P \ lost)
  OBVIOUS
<1>4. IsFiniteSet(P \ {x}) /\ Cardinality(P \ {x}) = n - 1
  BY <1>1, <1>2, FS_RemoveElement
<1>5. P \ lost \subseteq P \ {x}
  BY <1>1
<1>6. IsFiniteSet(P \ lost) /\ m <= n - 1
  BY <1>3, <1>4, <1>5, FS_Subset
<1>7. m \in Nat /\ n \in Nat
  BY <1>2, <1>3, <1>6, FS_CardinalityType
<1>8. c + m < t
  BY <1>2, <1>6, <1>7
<1>9. QED
  BY <1>3, <1>8

\* Whatever is lost, and whether or not kad_client_fini clears the structure: those
\* who wait for it wait for ever.
LEMMA DropKeepsBooks ==
  ASSUME IInv, Alive, NEW pings \in SUBSET awaited, NEW stores \in [Inserts -> SUBSET Peer],
         \A i \in Inserts : stores[i] \subseteq pending[i],
         NEW crawls \in SUBSET Waiting, Drop(pings, stores, crawls),
         \/ UNCHANGED client
         \/ open' = FALSE /\ known' = FALSE /\ capacity' = 0 /\ storage' = <<>>
  PROVE  IInv'
<1> USE BootstrapIsNoInsert
<1>1. TypeOK /\ PingsAddUp /\ FoundIsKnown
      /\ \A i \in Inserts : StoresAddUp(i) /\ ClosestStore(i)
  BY DEF IInv
<1>2. /\ awaited' = awaited \ pings
      /\ pending' = [i \in Inserts |-> pending[i] \ stores[i]]
      /\ phase' = [o \in Operation |->
                    IF \/ o = Bootstrap /\ pings # {}
                       \/ o \in Inserts /\ stores[o] # {}
                       \/ o \in crawls
                    THEN "lost" ELSE phase[o]]
      /\ UNCHANGED <<fault, calls, count, total, answered, size, found, asked>>
  BY DEF Drop
<1>3. /\ phase \in [Operation -> Phases] /\ awaited \in SUBSET Host
      /\ pending \in [Inserts -> SUBSET Peer]
      /\ count \in [Operation -> Nat] /\ total \in [Operation -> Nat]
  BY <1>1 DEF TypeOK
<1>4. /\ phase' \in [Operation -> Phases] /\ awaited' \in SUBSET Host
      /\ pending' \in [Inserts -> SUBSET Peer]
  BY <1>2, <1>3 DEF Phases
\* Only what is under way is lost.
<1>5. /\ pings # {} => phase[Bootstrap] \in {"pinging", "lost"}
      /\ \A i \in Inserts : stores[i] # {} => phase[i] \in {"storing", "lost"}
      /\ \A o \in crawls : phase[o] = "crawling"
  BY <1>1 DEF PingsAddUp, StoresAddUp, Waiting
<1>6. ASSUME NEW o \in Operation
      PROVE  /\ phase'[o] = phase[o] \/ phase'[o] = "lost"
             /\ phase'[o] # phase[o] => phase[o] \in {"pinging", "crawling", "storing"}
  BY <1>2, <1>3, <1>5
<1>7. calls' = CallsOf(phase')
  <2>1. calls' = [o \in Operation |-> IF phase[o] = "done" THEN 1 ELSE 0]
    BY <1>1, <1>2 DEF TypeOK
  <2>2. \A o \in Operation : phase'[o] = "done" <=> phase[o] = "done"
    BY <1>6
  <2>3. QED
    BY <2>1, <2>2 DEF CallsOf
<1>8. TypeOK'
  <2>1. /\ open' \in BOOLEAN /\ known' \in BOOLEAN
        /\ capacity' = IF open' THEN Capacity ELSE 0
        /\ storage' \in Seq(Inserts)
    <3>1. CASE UNCHANGED client
      BY <1>1, <3>1 DEF TypeOK, client
    <3>2. CASE open' = FALSE /\ known' = FALSE /\ capacity' = 0 /\ storage' = <<>>
      <4>1. <<>> \in Seq(Inserts)
        OBVIOUS
      <4>2. open' = FALSE /\ known' = FALSE /\ capacity' = 0 /\ storage' = <<>>
        BY <3>2
      <4>3. storage' \in Seq(Inserts)
        BY <4>1, <4>2, Zenon
      <4>4. QED
        BY <4>2, <4>3
    <3>3. QED
      BY <3>1, <3>2
  <2>2. QED
    BY <1>1, <1>2, <1>4, <1>7, <2>1 DEF TypeOK, CallsOf
<1>9. PingsAddUp'
  <2>1. CASE pings = {}
    <3>1. awaited' = awaited
      BY <1>2, <2>1
    <3>2. CASE Bootstrap \in crawls
      <4>1. phase'[Bootstrap] = "lost" /\ awaited = {}
        BY <1>1, <1>2, <1>5, <3>2 DEF PingsAddUp
      <4>2. QED
        BY <1>1, <1>2, <3>1, <4>1 DEF PingsAddUp
    <3>3. CASE Bootstrap \notin crawls
      <4>1. phase'[Bootstrap] = phase[Bootstrap]
        BY <1>2, <2>1, <3>3
      <4>2. QED
        BY <1>1, <1>2, <3>1, <4>1 DEF PingsAddUp, Alive
    <3>4. QED
      BY <3>2, <3>3
  <2>2. CASE pings # {}
    <3>1. phase'[Bootstrap] = "lost"
      BY <1>2, <2>2
    <3>2. PICK c : c = count[Bootstrap]
      OBVIOUS
    <3>3. PICK t : t = total[Bootstrap]
      OBVIOUS
    <3>4. PICK n : n = Cardinality(awaited)
      OBVIOUS
    <3>5. IsFiniteSet(awaited) /\ n \in Nat /\ c \in Nat /\ t \in Nat
      BY <1>3, <3>2, <3>3, <3>4, HostAssumption, FS_Subset, FS_CardinalityType
    <3>6. t = c + n \/ c + n < t
      BY <1>1, <1>5, <2>2, <3>2, <3>3, <3>4 DEF PingsAddUp
    <3>7. c + Cardinality(awaited) <= t
      BY <3>4, <3>5, <3>6
    <3>8. c + Cardinality(awaited \ pings) < t
      BY <2>2, <3>5, <3>7, FewerAreLeft
    <3>9. QED
      BY <1>1, <1>2, <3>1, <3>2, <3>3, <3>8 DEF PingsAddUp
  <2>3. QED
    BY <2>1, <2>2
<1>10. FoundIsKnown'
  BY <1>1, <1>2, <1>6 DEF FoundIsKnown, client
<1>11. ASSUME NEW i \in Inserts
       PROVE  StoresAddUp(i)'
  <2>1. pending'[i] = pending[i] \ stores[i]
    BY <1>2
  <2>2. CASE stores[i] = {}
    <3>1. pending'[i] = pending[i]
      BY <2>1, <2>2
    <3>2. CASE i \in crawls
      <4>1. phase'[i] = "lost" /\ pending[i] = {}
        BY <1>1, <1>2, <1>5, <3>2 DEF StoresAddUp
      <4>2. asked'[i] \subseteq found'[i]
        BY <1>1, <1>2 DEF StoresAddUp
      <4>3. QED
        BY <3>1, <4>1, <4>2 DEF StoresAddUp
    <3>3. CASE i \notin crawls
      <4>1. phase'[i] = phase[i]
        BY <1>2, <2>2, <3>3
      <4>2. StoresAddUp(i)
        BY <1>1
      <4>3. QED
        BY <1>2, <3>1, <4>1, <4>2 DEF StoresAddUp
    <3>4. QED
      BY <3>2, <3>3
  <2>3. CASE stores[i] # {}
    <3>1. phase'[i] = "lost"
      BY <1>2, <2>3
    <3>2. PICK c : c = count[i]
      OBVIOUS
    <3>3. PICK t : t = total[i]
      OBVIOUS
    <3>4. PICK P : P = pending[i]
      OBVIOUS
    <3>5. PICK n : n = Cardinality(P)
      OBVIOUS
    <3>6. IsFiniteSet(P) /\ n \in Nat /\ c \in Nat /\ t \in Nat
      <4>1. P \in SUBSET Peer
        BY <1>3, <3>4
      <4>2. QED
        BY <1>3, <3>2, <3>3, <3>5, <4>1, DistanceAssumption, FS_Subset, FS_CardinalityType
    <3>7. t = c + n \/ c + n < t
      BY <1>1, <1>5, <2>3, <3>2, <3>3, <3>4, <3>5 DEF StoresAddUp
    <3>8. c + Cardinality(P) <= t
      BY <3>5, <3>6, <3>7
    <3>9. stores[i] \in SUBSET P
      BY <3>4
    <3>10. c + Cardinality(P \ stores[i]) < t
      BY <2>3, <3>6, <3>8, <3>9, FewerAreLeft
    <3>11. count'[i] + Cardinality(pending'[i]) < total'[i]
      BY <1>2, <2>1, <3>2, <3>3, <3>4, <3>10
    <3>12. asked'[i] \subseteq found'[i]
      BY <1>1, <1>2 DEF StoresAddUp
    <3>13. QED
      BY <3>1, <3>11, <3>12 DEF StoresAddUp
  <2>4. QED
    BY <2>2, <2>3
<1>12. ASSUME NEW i \in Inserts
       PROVE  ClosestStore(i)'
  <2>1. CASE ~ open'
    BY <2>1 DEF ClosestStore
  <2>2. CASE open'
    <3>1. UNCHANGED <<open, storage, found, asked>>
      BY <1>2, <2>2 DEF client
    <3>2. ClosestStore(i)
      BY <1>1
    <3>3. QED
      BY <3>1, <3>2 DEF ClosestStore
  <2>3. QED
    BY <2>1, <2>2
<1>13. QED
  BY <1>8, <1>9, <1>10, <1>11, <1>12 DEF IInv

\* A ping, a store or a crawl is lost.
LEMMA LosesKeepsBooks ==
  ASSUME IInv, Loses
  PROVE  IInv'
<1> USE DEF Nothing
<1>1. ASSUME NEW h \in Host, LosePing(h)
      PROVE  IInv'
  <2>1. /\ Alive /\ UNCHANGED client /\ Drop({h}, Nothing, {})
        /\ {h} \in SUBSET awaited /\ {} \in SUBSET Waiting
    BY <1>1 DEF LosePing
  <2>2. Nothing \in [Inserts -> SUBSET Peer] /\ \A i \in Inserts : Nothing[i] \subseteq pending[i]
    OBVIOUS
  <2>3. QED
    BY <2>1, <2>2, DropKeepsBooks
<1>2. ASSUME NEW i \in Inserts, NEW p \in Peer, LoseStore(i, p)
      PROVE  IInv'
  <2>1. PICK stores : stores = [Nothing EXCEPT ![i] = {p}]
    OBVIOUS
  <2>2. /\ Alive /\ UNCHANGED client /\ Drop({}, stores, {})
        /\ {} \in SUBSET awaited /\ {} \in SUBSET Waiting /\ p \in pending[i]
    BY <1>2, <2>1 DEF LoseStore
  <2>3. stores \in [Inserts -> SUBSET Peer] /\ \A x \in Inserts : stores[x] \subseteq pending[x]
    BY <2>1, <2>2
  <2>4. QED
    BY <2>2, <2>3, DropKeepsBooks
<1>3. ASSUME NEW o \in Operation, LoseCrawl(o)
      PROVE  IInv'
  <2>1. /\ Alive /\ UNCHANGED client /\ Drop({}, Nothing, {o})
        /\ {} \in SUBSET awaited /\ {o} \in SUBSET Waiting
    BY <1>3 DEF LoseCrawl
  <2>2. Nothing \in [Inserts -> SUBSET Peer] /\ \A i \in Inserts : Nothing[i] \subseteq pending[i]
    OBVIOUS
  <2>3. QED
    BY <2>1, <2>2, DropKeepsBooks
<1>4. QED
  BY <1>1, <1>2, <1>3 DEF Loses

\* kad_client_fini.
LEMMA FiniKeepsBooks ==
  ASSUME IInv, Fini
  PROVE  IInv'
<1>1. PICK pings \in SUBSET awaited, stores \in [Inserts -> SUBSET Peer],
           crawls \in SUBSET Waiting :
        /\ \A i \in Inserts : stores[i] \subseteq pending[i]
        /\ Drop(pings, stores, crawls)
  BY DEF Fini, DropPromises
<1>2. Alive /\ open' = FALSE /\ known' = FALSE /\ capacity' = 0 /\ storage' = <<>>
  BY DEF Fini
<1>3. QED
  BY <1>1, <1>2, DropKeepsBooks

\* No step breaks the invariant.
LEMMA StepKeepsBooks == IInv /\ [Next]_vars => IInv'
<1> SUFFICES ASSUME IInv, [Next]_vars
             PROVE  IInv'
  OBVIOUS
<1>1. CASE UNCHANGED vars
  <2>1. /\ UNCHANGED <<open, capacity, known, storage, fault, phase, calls, count, total>>
        /\ UNCHANGED bootstrap /\ UNCHANGED insert
    BY <1>1 DEF vars, client
  <2>2. TypeOK'
    BY <2>1 DEF IInv, TypeOK, bootstrap, insert
  <2>3. PingsAddUp'
    BY <2>1 DEF IInv, PingsAddUp, bootstrap, Alive
  <2>4. FoundIsKnown'
    BY <2>1 DEF IInv, FoundIsKnown, bootstrap
  <2>5. StorageGrows
    BY <2>1 DEF StorageGrows
  <2>6. \A i \in Inserts : StoresAddUp(i)' /\ ClosestStore(i)'
    BY <2>1, <2>5, UntouchedInserts
  <2>7. QED
    BY <2>2, <2>3, <2>4, <2>6 DEF IInv
<1>2. CASE Begins
  BY <1>2, BootstrapNobodyKeepsBooks, BootstrapHostsKeepsBooks, BeginsKeepsBooks DEF Begins
<1>3. CASE Hear
  BY <1>3, HearKeepsBooks
<1>4. CASE CrawlEnds
  BY <1>4, BootstrapCrawlEndsKeepsBooks, InsertCrawlEndsKeepsBooks,
     LookupCrawlEndsKeepsBooks DEF CrawlEnds
<1>5. CASE Loses \/ Fini
  BY <1>5, LosesKeepsBooks, FiniKeepsBooks
<1>6. CASE \E h \in Host : PingEnds(h)
  BY <1>6, PingEndsKeepsBooks
<1>7. CASE \E i \in Inserts, p \in Peer : StoreEnds(i, p)
  BY <1>7, StoreEndsKeepsBooks
<1>8. QED
  BY <1>1, <1>2, <1>3, <1>4, <1>5, <1>6, <1>7 DEF Next

\* The books are kept: the results that an operation waits for are those that are
\* still to come (client.c: kad_client_bootstrap_ping_callback,
\* kad_client_insert_callback, kad_client_insert_callback_store, kad_client_fini).
THEOREM BooksAreKept == Spec => []IInv
BY InitKeepsBooks, StepKeepsBooks, PTL DEF Spec

\* The `then' of an operation is called once, when nothing is still to come, in
\* whatever order the results come, and no loop reads a context that was freed
\* (client.c: kad_client_insert_callback and the callbacks of pings and stores).
THEOREM ThenIsCalledOnce == Spec => []ThenOnceAtTheEnd
<1>1. IInv => ThenOnceAtTheEnd
  <2> SUFFICES ASSUME IInv, NEW o \in Operation
               PROVE  /\ calls[o] <= 1
                      /\ phase[o] = "done" => calls[o] = 1
                      /\ calls[o] = 1 => IF o = Bootstrap THEN awaited = {}
                                         ELSE o \in Inserts => pending[o] = {}
                      /\ fault # "freed"
    BY DEF ThenOnceAtTheEnd
  <2>1. calls[o] = IF phase[o] = "done" THEN 1 ELSE 0
    BY DEF IInv, TypeOK
  <2>2. fault # "freed"
    BY DEF IInv, TypeOK
  <2>3. phase[o] = "done" /\ o = Bootstrap => awaited = {}
    BY DEF IInv, PingsAddUp
  <2>4. phase[o] = "done" /\ o \in Inserts => pending[o] = {}
    BY DEF IInv, StoresAddUp
  <2>5. QED
    BY <2>1, <2>2, <2>3, <2>4
<1>2. QED
  BY <1>1, BooksAreKept, PTL

\* A set of the right size whose members are nearer than the others is what the
\* heap gives first.
LEMMA NearestByOrder ==
  ASSUME NEW P \in SUBSET Nat, IsFiniteSet(P), NEW n \in Nat, NEW A \in SUBSET P,
         \A p \in A, q \in P \ A : p < q,
         Cardinality(A) = n \/ (Cardinality(A) < n /\ A = P)
  PROVE  A = Nearest(P, n)
<1>1. IsFiniteSet(A) /\ Cardinality(A) \in Nat
  BY FS_Subset, FS_CardinalityType
<1>2. ASSUME NEW p \in A
      PROVE  p \in Nearest(P, n)
  <2>1. PICK B : B = {q \in P : q < p}
    OBVIOUS
  <2>2. B \subseteq A \ {p}
    <3>1. SUFFICES ASSUME NEW q \in B
                   PROVE  q \in A \ {p}
      OBVIOUS
    <3>2. q \in P /\ q < p /\ q \in Nat /\ p \in Nat
      BY <2>1, <3>1
    <3>3. q \notin P \ A
      <4>1. q \in P \ A => p < q
        OBVIOUS
      <4>2. QED
        BY <3>2, <4>1
    <3>4. QED
      BY <3>2, <3>3
  <2>3. IsFiniteSet(A \ {p}) /\ Cardinality(A \ {p}) = Cardinality(A) - 1
    BY <1>1, <1>2, FS_RemoveElement
  <2>4. IsFiniteSet(B) /\ Cardinality(B) <= Cardinality(A \ {p})
    BY <2>2, <2>3, FS_Subset
  <2>5. Cardinality(B) \in Nat /\ Cardinality(B) < n
    BY <1>1, <2>3, <2>4, FS_CardinalityType
  <2>6. QED
    BY <2>1, <2>5 DEF Nearest
<1>3. ASSUME NEW q \in P \ A
      PROVE  q \notin Nearest(P, n)
  <2>1. PICK B : B = {x \in P : x < q}
    OBVIOUS
  <2>2. A \subseteq B /\ B \subseteq P
    BY <2>1
  <2>3. IsFiniteSet(B) /\ Cardinality(A) <= Cardinality(B) /\ Cardinality(B) \in Nat
    <3>1. IsFiniteSet(B)
      BY <2>2, FS_Subset
    <3>2. QED
      BY <2>2, <3>1, FS_Subset, FS_CardinalityType
  <2>4. Cardinality(A) = n
    OBVIOUS
  <2>5. ~ (Cardinality(B) < n)
    BY <2>3, <2>4
  <2>6. QED
    BY <2>1, <2>5 DEF Nearest
<1>4. Nearest(P, n) \subseteq P
  BY DEF Nearest
<1>5. QED
  BY <1>2, <1>3, <1>4

\* Who is among the nearest with one more peer: that peer and one less of the others,
\* or it is not among them.
LEMMA NearestWithOneMore ==
  ASSUME NEW P \in SUBSET Nat, IsFiniteSet(P), NEW x \in Nat \ P, NEW n \in Nat \ {0},
         x \in Nearest(P \cup {x}, n)
  PROVE  Nearest(P \cup {x}, n) = Nearest(P, n - 1) \cup {x}
<1>1. PICK Q : Q = P \cup {x}
  OBVIOUS
<1>2. PICK N : N = Nearest(Q, n)
  OBVIOUS
<1>3. Q \in SUBSET Nat /\ IsFiniteSet(Q) /\ x \in N /\ Q \ {x} = P
  BY <1>1, <1>2, FS_AddElement
<1>4. N \subseteq Q /\ IsFiniteSet(N) /\ Cardinality(N) \in 0..n
  BY <1>2, <1>3, NearestAreFew
<1>5. \A q \in Q \ N : Cardinality(N) = n /\ \A r \in N : r < q
  BY <1>2, <1>3, NearestComeFirst
<1>6. PICK A : A = N \ {x}
  OBVIOUS
<1>7. IsFiniteSet(A) /\ Cardinality(A) = Cardinality(N) - 1
  BY <1>3, <1>4, <1>6, FS_RemoveElement
<1>8. A \in SUBSET P /\ P \ A = Q \ N
  BY <1>1, <1>3, <1>4, <1>6
<1>9. \A p \in A, q \in P \ A : p < q
  BY <1>5, <1>6, <1>8
<1>10. Cardinality(A) = n - 1 \/ (Cardinality(A) < n - 1 /\ A = P)
  <2>1. CASE Cardinality(N) = n
    BY <1>7, <2>1
  <2>2. CASE Cardinality(N) # n
    <3>1. Q \ N = {}
      BY <1>5, <2>2
    <3>2. A = P
      BY <1>8, <3>1
    <3>3. Cardinality(A) < n - 1
      BY <1>4, <1>7, <2>2
    <3>4. QED
      BY <3>2, <3>3
  <2>3. QED
    BY <2>1, <2>2
<1>11. n - 1 \in Nat
  OBVIOUS
<1>12. A = Nearest(P, n - 1)
  BY <1>8, <1>9, <1>10, <1>11, NearestByOrder
<1>13. N = A \cup {x}
  BY <1>3, <1>6
<1>14. QED
  BY <1>1, <1>2, <1>12, <1>13

\* While the client is open the value of an insert is stored here and at the
\* closest of the peers that the crawl found, as many as there is room for beside
\* this node; those are the closest peers exactly if this node is one of them
\* (client.c: insort_compare, kad_client_insert_callback).
THEOREM ClosestPeersStore == Spec => []ClosestStoreIffSelfIsClose
<1>1. IInv => ClosestStoreIffSelfIsClose
  <2> SUFFICES ASSUME IInv, NEW i \in Inserts, open, found[i] # {}
               PROVE  /\ Self \in Storers(i)
                      /\ Storers(i) \ {Self} = Nearest(found[i], Capacity - 1)
                      /\ Storers(i) = Nearest(found[i] \cup {Self}, Capacity)
                           <=> Self \in Nearest(found[i] \cup {Self}, Capacity)
    BY DEF ClosestStoreIffSelfIsClose
  <2>1. /\ \E k \in DOMAIN storage : storage[k] = i
        /\ \A p \in asked[i], q \in found[i] \ asked[i] : p < q
        /\ \/ Cardinality(asked[i]) = Capacity - 1
           \/ Cardinality(asked[i]) < Capacity - 1 /\ asked[i] = found[i]
    BY DEF IInv, ClosestStore
  <2>2. PICK F : F = found[i]
    OBVIOUS
  <2>3. PICK A : A = asked[i]
    OBVIOUS
  <2>4. /\ F \in SUBSET Nat /\ IsFiniteSet(F) /\ A \in SUBSET F
        /\ Self \in Nat \ F /\ Capacity - 1 \in Nat
    <3>1. F \in SUBSET Peer /\ A \subseteq F
      BY <2>2, <2>3 DEF IInv, TypeOK, StoresAddUp
    <3>2. F \in SUBSET Nat /\ IsFiniteSet(F) /\ Self \in Nat \ F
      BY <3>1, DistanceAssumption, FS_Subset
    <3>3. QED
      BY <3>1, <3>2, CapacityAssumption
  <2>5. A = Nearest(F, Capacity - 1)
    BY <2>1, <2>2, <2>3, <2>4, NearestByOrder
  <2>6. Storers(i) = A \cup {Self} /\ Self \notin A
    BY <2>1, <2>3, <2>4 DEF Storers, ToSet
  <2>7. PICK closest : closest = Nearest(F \cup {Self}, Capacity)
    OBVIOUS
  <2>8. Self \in closest => closest = A \cup {Self}
    BY <2>4, <2>5, <2>7, NearestWithOneMore, CapacityAssumption
  <2>9. QED
    BY <2>2, <2>5, <2>6, <2>7, <2>8
<1>2. QED
  BY <1>1, BooksAreKept, PTL

\* A client that was taken down stores nothing any more, neither here nor at others
\* (client.c: kad_client_fini clears the structure, and with it the capacity).
THEOREM NothingIsStoredAfterFini == Spec => NothingStoredAfterFini
<1>1. IInv /\ [Next]_vars =>
        [~ open => UNCHANGED <<storage, asked>> /\ fault' # "null"]_vars
  <2> SUFFICES ASSUME IInv, Next, ~ open
               PROVE  UNCHANGED <<storage, asked>> /\ fault' # "null"
    OBVIOUS
  <2> USE BootstrapIsNoInsert
  <2>1. IInv'
    BY StepKeepsBooks
  <2>2. fault' # "null"
    BY <2>1 DEF IInv, TypeOK
  <2>3. CASE \E i \in Inserts : InsertCrawlEnds(i)
    <3>1. PICK i \in Inserts : InsertCrawlEnds(i)
      BY <2>3
    <3>2. PICK peers \in SUBSET Peer, refused \in SUBSET Peer : Distribute(i, peers, refused)
      BY <3>1 DEF InsertCrawlEnds
    <3>3. Alive /\ phase[i] = "crawling"
      BY <3>1 DEF InsertCrawlEnds
    <3>4. UNCHANGED <<storage, asked>>
      BY <3>2, <3>3, DistributeIsSound
    <3>5. QED
      BY <2>2, <3>4
  <2>4. CASE ~ \E i \in Inserts : InsertCrawlEnds(i)
    <3>1. UNCHANGED <<storage, asked>>
      <4>1. ~ Begins /\ ~ Hear /\ ~ Fini
        BY DEF Begins, Hear, Fini, BootstrapNobody, BootstrapHosts, InsertBegins,
               LookupBegins
      <4>2. BootstrapCrawlEnds => UNCHANGED <<storage, asked>>
        BY DEF BootstrapCrawlEnds, Die, client, insert
      <4>3. ASSUME NEW l \in Lookups, LookupCrawlEnds(l)
            PROVE  UNCHANGED <<storage, asked>>
        BY <4>3 DEF LookupCrawlEnds, client, insert
      <4>4. ASSUME NEW h \in Host, PingEnds(h)
            PROVE  UNCHANGED <<storage, asked>>
        BY <4>4 DEF PingEnds, PingResult, Die, client, insert
      <4>5. ASSUME NEW i \in Inserts, NEW p \in Peer, StoreEnds(i, p)
            PROVE  UNCHANGED <<storage, asked>>
        BY <4>5 DEF StoreEnds, client
      <4>6. Loses => UNCHANGED <<storage, asked>>
        BY DEF Loses, LosePing, LoseStore, LoseCrawl, Drop, client
      <4>7. QED
        BY <2>4, <4>1, <4>2, <4>3, <4>4, <4>5, <4>6 DEF Next, CrawlEnds
    <3>2. QED
      BY <2>2, <3>1
  <2>5. QED
    BY <2>3, <2>4
<1>2. QED
  BY <1>1, BooksAreKept, PTL DEF Spec, NothingStoredAfterFini

\* After the `then' of a bootstrap that had hosts, an insert or a lookup never
\* begins without a contact (client.c: kad_client_bootstrap_process_results adds
\* the contacts to the table, from which kad_client_insert and kad_client_lookup
\* take theirs).
THEOREM BootstrapAlwaysHelps == Spec => BootstrapHelps
<1> DEFINE Helps == open /\ phase[Bootstrap] = "done" /\ total[Bootstrap] # 0 =>
                      \A o \in Inserts \cup Lookups :
                        phase[o] = "idle" /\ phase'[o] # "idle" => phase'[o] = "crawling"
<1>1. IInv /\ [Next]_vars => [Helps]_vars
  <2> SUFFICES ASSUME IInv, Next, open, phase[Bootstrap] = "done", total[Bootstrap] # 0,
                      NEW o \in Inserts \cup Lookups, phase[o] = "idle", phase'[o] # "idle"
               PROVE  phase'[o] = "crawling"
    OBVIOUS
  <2> USE BootstrapIsNoInsert
  <2>1. known /\ phase \in [Operation -> Phases] /\ o \in Operation /\ o # Bootstrap
    BY DEF IInv, FoundIsKnown, TypeOK
  <2>2. CASE Begins
    <3>1. ~ BootstrapNobody /\ \A hosts, refused : ~ BootstrapHosts(hosts, refused)
      BY DEF BootstrapNobody, BootstrapHosts
    <3>2. PICK b \in Inserts \cup Lookups : InsertBegins(b) \/ LookupBegins(b)
      BY <2>2, <3>1 DEF Begins
    <3>3. phase' = [phase EXCEPT ![b] = "crawling"]
      BY <2>1, <3>2 DEF InsertBegins, LookupBegins, Crawls, Moves
    <3>4. QED
      BY <2>1, <3>3
  <2>3. CASE Hear
    BY <2>3 DEF Hear
  <2>4. CASE CrawlEnds
    <3>1. ASSUME NEW e \in Operation, phase[e] = "crawling", NEW to, Moves(e, to)
          PROVE  phase'[o] = phase[o]
      BY <2>1, <3>1 DEF Moves
    <3>2. ~ BootstrapCrawlEnds
      BY DEF BootstrapCrawlEnds
    <3>3. ASSUME NEW i \in Inserts, InsertCrawlEnds(i) PROVE phase'[o] = phase[o]
      BY <3>1, <3>3 DEF InsertCrawlEnds, Distribute
    <3>4. ASSUME NEW l \in Lookups, LookupCrawlEnds(l) PROVE phase'[o] = phase[o]
      BY <3>1, <3>4 DEF LookupCrawlEnds
    <3>5. QED
      BY <2>4, <3>2, <3>3, <3>4 DEF CrawlEnds
  <2>5. CASE Loses \/ Fini
    <3>1. ASSUME NEW pings, NEW stores, NEW crawls \in SUBSET Waiting,
                 Drop(pings, stores, crawls), o \in Inserts => stores[o] \subseteq pending[o]
          PROVE  phase'[o] = phase[o]
      <4>1. o \notin crawls
        BY DEF Waiting
      <4>2. o \in Inserts => pending[o] = {}
        BY DEF IInv, StoresAddUp
      <4>3. QED
        BY <2>1, <3>1, <4>1, <4>2 DEF Drop
    <3>2. CASE Fini
      BY <3>1, <3>2 DEF Fini, DropPromises
    <3>3. ASSUME NEW h \in Host, LosePing(h)
          PROVE  phase'[o] = phase[o]
      BY <3>1, <3>3 DEF LosePing, Nothing
    <3>4. ASSUME NEW i \in Inserts, NEW p \in Peer, LoseStore(i, p)
          PROVE  phase'[o] = phase[o]
      <4>1. PICK stores : stores = [Nothing EXCEPT ![i] = {p}]
        OBVIOUS
      <4>2. p \in pending[i] /\ Drop({}, stores, {})
        BY <3>4, <4>1 DEF LoseStore
      <4>3. o \in Inserts => stores[o] \subseteq pending[o]
        BY <4>1, <4>2 DEF Nothing
      <4>4. QED
        BY <3>1, <4>2, <4>3
    <3>5. ASSUME NEW e \in Operation, LoseCrawl(e)
          PROVE  phase'[o] = phase[o]
      BY <3>1, <3>5 DEF LoseCrawl, Nothing
    <3>6. QED
      BY <2>5, <3>2, <3>3, <3>4, <3>5 DEF Loses
  <2>6. ASSUME NEW h \in Host, PingEnds(h) PROVE phase'[o] = "crawling"
    <3>1. h \in awaited
      BY <2>6 DEF PingEnds
    <3>2. QED
      BY <3>1 DEF IInv, PingsAddUp
  <2>7. ASSUME NEW i \in Inserts, NEW p \in Peer, StoreEnds(i, p)
        PROVE  phase'[o] = "crawling"
    <3>1. p \in pending[i] /\ phase[i] \in {"storing", "lost"}
      BY <2>7 DEF StoreEnds, IInv, StoresAddUp
    <3>2. phase' = phase \/ Moves(i, "done")
      BY <2>7 DEF StoreEnds
    <3>3. QED
      BY <2>1, <3>1, <3>2 DEF Moves
  <2>8. QED
    BY <2>2, <2>3, <2>4, <2>5, <2>6, <2>7 DEF Next
<1>2. QED
  BY <1>1, BooksAreKept, PTL DEF Spec, BootstrapHelps
=============================================================================
