-------------------------- MODULE ValueCrawlerProofs ---------------------------
(***************************************************************************)
(* That a lookup of ValueCrawler tells the truth, for any finite set of    *)
(* peers, any capacity, any values and any concurrency: NULL only after a  *)
(* thorough search, and the value of the last answer whenever no earlier   *)
(* one brought any.                                                        *)
(*                                                                         *)
(* The argument: as long as the lookup has not called back, a peer that    *)
(* answered stores nothing or its value is among the results of the round; *)
(* what is marked answered or is ignored, and what is ignored is not in    *)
(* the heap.                                                               *)
(***************************************************************************)
EXTENDS ValueCrawler, ListProofs

Result == [id : Peer, ok : BOOLEAN, value : Value \cup {None}, contacts : SUBSET Peer]

\* The variables have the shape of kad_valuecrawler_t.
Typed == /\ alpha \in Alpha
         /\ stored \in [Peer -> Value \cup {None}]
         /\ heap \subseteq Peer /\ marked \subseteq Peer /\ ignore \subseteq Peer
         /\ inflight \subseteq Peer /\ lost \subseteq Peer
         /\ results \in Seq(Result)
         /\ ndispatched \in Nat
         /\ calls \in Seq(Value \cup {None, Garbage})
         /\ answered \subseteq Peer

\* Marked peers answered or failed, and the failed are kept out of the heap.
FailuresStayOut ==
  /\ heap \cap ignore = {}
  /\ marked \subseteq answered \cup ignore
  /\ \A i \in DOMAIN results : results[i].ok => results[i].id \in answered

\* A result has no value, or the value that the peer, which answered, stores.
ResultsAreTrue ==
  \A i \in DOMAIN results :
    results[i].value # None =>
      results[i].id \in answered /\ results[i].value = stored[results[i].id]

\* Before the end, a value that an answer brought is in the results.
ValuesAreKept ==
  calls = <<>> => \A p \in answered :
    stored[p] = None \/ \E i \in DOMAIN results : results[i].value # None

\* The requests of a round add up until the lookup calls back, and after that
\* none is outstanding.
RoundsAddUp ==
  /\ calls = <<>> => Cardinality(inflight) + Len(results) = ndispatched
  /\ calls # <<>> => inflight = {}
  /\ ndispatched <= alpha

CallsOnce == Len(calls) <= 1

\* The inductive invariant.
IInv == /\ Typed /\ FailuresStayOut /\ ResultsAreTrue /\ ValuesAreKept
        /\ RoundsAddUp /\ CallsOnce /\ NoneIsThorough

-----------------------------------------------------------------------------
(* Batches and results                                                     *)
-----------------------------------------------------------------------------
\* A round asks known peers, no more than alpha.
LEMMA BatchIsBounded ==
  ASSUME NEW h \in SUBSET Peer, NEW m, alpha \in Alpha
  PROVE  Batch(h, m) \subseteq Peer /\ Cardinality(Batch(h, m)) \in 0..alpha
<1>1. alpha \in Nat
  BY BoundsAssumption
<1>2. Unmarked(h, m) \in SUBSET Peer
  BY DEF Unmarked, Nearest
<1>3. Unmarked(h, m) \in SUBSET Nat /\ IsFiniteSet(Unmarked(h, m))
  BY <1>2, PeerAssumption, FS_Subset
<1>4. /\ Nearest(Unmarked(h, m), alpha) \subseteq Unmarked(h, m)
      /\ Cardinality(Nearest(Unmarked(h, m), alpha)) \in 0..alpha
  BY <1>1, <1>3, NearestAreFew
<1>5. QED
  BY <1>2, <1>4 DEF Batch

\* The books of a round that kad_valuecrawler_find starts.
LEMMA FreshRoundAddsUp ==
  ASSUME NEW h \in SUBSET Peer, NEW m, NEW n, NEW Q, alpha \in Alpha,
         Q = Batch(h, m), n = Cardinality(Batch(h, m))
  PROVE  /\ Q \subseteq Peer /\ n \in Nat /\ n <= alpha
         /\ Cardinality(Q) + Len(<<>>) = n
<1>1. Q \subseteq Peer /\ n \in 0..alpha
  BY BatchIsBounded
<1>2. alpha \in Nat /\ Len(<<>>) = 0 /\ Cardinality(Q) = n
  BY BoundsAssumption
<1>3. QED
  BY <1>1, <1>2

\* While a request is outstanding the lookup has not called back, and the last
\* result of a round comes from the only peer that is outstanding.
LEMMA OutstandingMeansRunning ==
  ASSUME IInv, NEW p \in inflight
  PROVE  /\ calls = <<>> /\ p \in Peer
         /\ Cardinality(inflight) \in Nat /\ Cardinality(inflight) >= 1
         /\ Cardinality(inflight \ {p}) = Cardinality(inflight) - 1
         /\ Cardinality(inflight) + Len(results) = ndispatched
         /\ Len(results) + 1 = ndispatched => inflight = {p}
<1>1. calls = <<>> /\ p \in Peer
  BY DEF IInv, Typed, RoundsAddUp
<1>2. IsFiniteSet(inflight) /\ Cardinality(inflight) \in Nat
  BY PeerAssumption, FS_Subset, FS_CardinalityType DEF IInv, Typed
<1>3. /\ Cardinality(inflight \ {p}) = Cardinality(inflight) - 1
      /\ Cardinality(inflight \ {p}) \in Nat
  BY <1>2, FS_RemoveElement, FS_CardinalityType
<1>4. Cardinality(inflight) >= 1
  BY <1>2, <1>3
<1>5. Cardinality(inflight) + Len(results) = ndispatched
  BY <1>1 DEF IInv, RoundsAddUp
<1>6. ASSUME Len(results) + 1 = ndispatched PROVE inflight = {p}
  <2>1. Len(results) \in Nat
    BY DEF IInv, Typed
  <2>2. Cardinality(inflight \ {p}) = 0
    BY <1>2, <1>3, <1>5, <1>6, <2>1
  <2>3. IsFiniteSet(inflight \ {p})
    BY <1>2, FS_RemoveElement
  <2>4. inflight \ {p} = {}
    BY <2>2, <2>3, FS_EmptySet
  <2>5. QED
    BY <2>4
<1>7. QED
  BY <1>1, <1>2, <1>3, <1>4, <1>5, <1>6

\* The same, of the request that a result answers.
LEMMA ResultMeansRunning ==
  ASSUME IInv, NEW r, r.id \in inflight
  PROVE  /\ calls = <<>> /\ r.id \in Peer
         /\ Cardinality(inflight) \in Nat /\ Cardinality(inflight) >= 1
         /\ Cardinality(inflight \ {r.id}) = Cardinality(inflight) - 1
         /\ Cardinality(inflight) + Len(results) = ndispatched
         /\ Len(results) + 1 = ndispatched => inflight = {r.id}
<1>1. PICK p \in inflight : p = r.id
  OBVIOUS
<1>2. QED
  BY <1>1, OutstandingMeansRunning

\* A peer calls back: what it stores if it answers, and nothing if it fails.
Heard(r) == /\ answered' = answered \cup (IF r.ok THEN {r.id} ELSE {})
            /\ r.value = IF r.ok THEN stored[r.id] ELSE None

\* What is true of the results is true of them and one more.
LEMMA OneMoreResult ==
  ASSUME IInv, NEW r \in Result, r.id \in inflight, Heard(r), stored' = stored
  PROVE  LET rs == Append(results, r) IN
         /\ rs \in Seq(Result) /\ Len(rs) = Len(results) + 1 /\ rs[Len(rs)] = r
         /\ answered \subseteq answered' /\ answered' \subseteq Peer
         /\ \A i \in DOMAIN rs : /\ rs[i].ok => rs[i].id \in answered'
                                 /\ rs[i].value # None =>
                                      rs[i].id \in answered' /\ rs[i].value = stored[rs[i].id]
         /\ \A p \in answered' : stored[p] = None \/ \E i \in DOMAIN rs : rs[i].value # None
<1> USE DEF IInv
<1>1. PICK rs \in Seq(Result) : rs = Append(results, r)
  BY AppendProperties DEF Typed
<1>2. /\ DOMAIN results = 1..Len(results) /\ Len(results) \in Nat
      /\ DOMAIN rs = 1..(Len(results) + 1) /\ Len(rs) = Len(results) + 1
  BY <1>1 DEF Typed
<1>3. rs[Len(results) + 1] = r /\ \A i \in DOMAIN results : i \in DOMAIN rs /\ rs[i] = results[i]
  BY <1>1, <1>2 DEF Typed
<1>4. \A i \in DOMAIN rs : i \in DOMAIN results \/ rs[i] = r
  BY <1>2, <1>3
<1>5. /\ answered \subseteq answered' /\ answered' \subseteq Peer
      /\ r.ok => r.id \in answered'
      /\ r.value # None => r.id \in answered' /\ r.value = stored[r.id]
  BY DEF Heard, Typed, Result
<1>6. ASSUME NEW i \in DOMAIN rs
      PROVE  /\ rs[i].ok => rs[i].id \in answered'
             /\ rs[i].value # None =>
                  rs[i].id \in answered' /\ rs[i].value = stored[rs[i].id]
  <2>1. CASE rs[i] = r
    BY <1>5, <2>1
  <2>2. CASE i \in DOMAIN results
    BY <1>3, <1>5, <2>2 DEF FailuresStayOut, ResultsAreTrue
  <2>3. QED
    BY <1>4, <2>1, <2>2
<1>7. ASSUME NEW p \in answered'
      PROVE  stored[p] = None \/ \E i \in DOMAIN rs : rs[i].value # None
  <2>1. CASE p \in answered
    <3>1. stored[p] = None \/ \E i \in DOMAIN results : results[i].value # None
      BY <2>1, OutstandingMeansRunning DEF ValuesAreKept
    <3>2. QED
      BY <1>3, <3>1
  <2>2. CASE p \notin answered
    <3>1. p = r.id /\ r.value = stored[p]
      BY <2>2 DEF Heard
    <3>2. Len(results) + 1 \in DOMAIN rs
      BY <1>2
    <3>3. QED
      BY <1>3, <3>1, <3>2
  <2>3. QED
    BY <2>1, <2>2
<1>8. QED
  BY <1>1, <1>2, <1>3, <1>5, <1>6, <1>7

-----------------------------------------------------------------------------
(* The steps                                                               *)
-----------------------------------------------------------------------------
\* A result that is not the last of its round is put aside.
LEMMA GatherKeepsBooks ==
  ASSUME IInv, NEW r \in Result, r.id \in inflight, Heard(r), Gather(r),
         UNCHANGED <<alpha, stored, lost>>
  PROVE  IInv'
<1>0. /\ calls = <<>> /\ r.id \in Peer
      /\ Cardinality(inflight) \in Nat /\ Cardinality(inflight) >= 1
      /\ Cardinality(inflight \ {r.id}) = Cardinality(inflight) - 1
      /\ Cardinality(inflight) + Len(results) = ndispatched
  BY ResultMeansRunning
<1> USE DEF IInv, Gather
<1>1. PICK rs : rs = Append(results, r)
  OBVIOUS
<1>2. /\ rs \in Seq(Result) /\ Len(rs) = Len(results) + 1
      /\ answered \subseteq answered' /\ answered' \subseteq Peer
      /\ \A i \in DOMAIN rs : /\ rs[i].ok => rs[i].id \in answered'
                              /\ rs[i].value # None =>
                                   rs[i].id \in answered' /\ rs[i].value = stored[rs[i].id]
      /\ \A p \in answered' : stored[p] = None \/ \E i \in DOMAIN rs : rs[i].value # None
  BY <1>1, OneMoreResult
<1>3. results' = rs /\ calls' = calls
  BY <1>1
<1>4. calls = <<>>
  BY <1>0
<1>5. Typed'
  BY <1>2, <1>3 DEF Typed
<1>6. FailuresStayOut'
  BY <1>2, <1>3 DEF FailuresStayOut
<1>7. ResultsAreTrue' /\ ValuesAreKept'
  BY <1>2, <1>3 DEF ResultsAreTrue, ValuesAreKept
<1>8. RoundsAddUp'
  <2>1. /\ Cardinality(inflight) \in Nat /\ Len(results) \in Nat
        /\ Cardinality(inflight \ {r.id}) = Cardinality(inflight) - 1
        /\ Cardinality(inflight) + Len(results) = ndispatched
    BY <1>0 DEF Typed
  <2>2. Cardinality(inflight') + Len(results') = ndispatched'
    BY <1>2, <1>3, <2>1
  <2>3. QED
    BY <1>3, <1>4, <2>2 DEF RoundsAddUp
<1>9. CallsOnce' /\ NoneIsThorough'
  BY <1>3, <1>4 DEF CallsOnce, NoneIsThorough
<1>10. QED
  BY <1>5, <1>6, <1>7, <1>8, <1>9

\* The lookup calls back with a value.
LEMMA HandleValueKeepsBooks ==
  ASSUME IInv, NEW r \in Result, r.id \in inflight, Heard(r),
         HandleValue(Append(results, r)), UNCHANGED <<alpha, stored, lost>>
  PROVE  IInv'
<1>0. calls = <<>>
  BY ResultMeansRunning
<1> USE DEF IInv
<1>1. PICK rs : rs = Append(results, r)
  OBVIOUS
<1>2. /\ rs \in Seq(Result) /\ Len(rs) = Len(results) + 1
      /\ answered \subseteq answered' /\ answered' \subseteq Peer
      /\ \A i \in DOMAIN rs : rs[i].value # None =>
           rs[i].id \in answered' /\ rs[i].value = stored[rs[i].id]
  BY <1>1, OneMoreResult
<1>3. PICK i \in WithValue(rs) : calls' = Append(calls, ReadValue(rs, i))
  BY <1>1 DEF HandleValue
<1>4. /\ inflight' = {} /\ results' = <<>>
      /\ UNCHANGED <<heap, marked, ignore, ndispatched>>
  BY DEF HandleValue
<1>5. i \in DOMAIN rs /\ i \in 1..Len(rs) /\ rs[i].value # None /\ rs[i] \in Result
  BY <1>2, <1>3 DEF WithValue
<1>6. PICK v : v = ReadValue(rs, i)
  OBVIOUS
<1>7. v # None /\ v \in Value \cup {None, Garbage}
  BY <1>5, <1>6, ValueAssumption DEF ReadValue, Result
<1>8. calls' = <<v>>
  BY <1>0, <1>3, <1>6
<1>9. Typed'
  <2>1. calls' \in Seq(Value \cup {None, Garbage})
    BY <1>7, <1>8
  <2>2. QED
    BY <1>2, <1>4, <2>1 DEF Typed
<1>10. FailuresStayOut' /\ ResultsAreTrue'
  BY <1>2, <1>4 DEF FailuresStayOut, ResultsAreTrue
<1>11. ValuesAreKept' /\ RoundsAddUp'
  BY <1>4, <1>8 DEF ValuesAreKept, RoundsAddUp
<1>12. CallsOnce'
  BY <1>8 DEF CallsOnce
<1>13. DOMAIN <<v>> = {1} /\ <<v>>[1] = v
  OBVIOUS
<1>14. NoneIsThorough'
  BY <1>7, <1>8, <1>13 DEF NoneIsThorough
<1>15. QED
  BY <1>9, <1>10, <1>11, <1>12, <1>14

\* The round brought no value: the failed are thrown out for good, and the next
\* round is asked, or the lookup calls back with NULL.
LEMMA HandleContactsKeepsBooks ==
  ASSUME IInv, NEW r \in Result, r.id \in inflight, Heard(r),
         HandleContacts(Append(results, r)), UNCHANGED <<alpha, stored, lost>>
  PROVE  IInv'
<1> USE DEF IInv
<1>1. PICK rs : rs = Append(results, r)
  OBVIOUS
<1>2. /\ rs \in Seq(Result) /\ Len(rs) = Len(results) + 1 /\ rs[Len(rs)] = r
      /\ answered \subseteq answered' /\ answered' \subseteq Peer
      /\ \A i \in DOMAIN rs : rs[i].ok => rs[i].id \in answered'
      /\ \A p \in answered' : stored[p] = None \/ \E i \in DOMAIN rs : rs[i].value # None
  BY <1>1, OneMoreResult
<1>3. WithValue(rs) = {}
  BY <1>1 DEF HandleContacts
<1>4. \A p \in answered' : stored[p] = None
  BY <1>2, <1>3 DEF WithValue
<1> DEFINE failed == Failed(rs)
<1>5. /\ marked' = marked \cup Asked(rs) /\ ignore' = ignore \cup failed
      /\ \/ /\ Unmarked(heap', marked') = {}
            /\ calls' = Append(calls, None) /\ inflight' = {} /\ results' = <<>>
            /\ UNCHANGED ndispatched
         \/ Find(heap', marked') /\ UNCHANGED calls
  BY <1>1 DEF HandleContacts
<1>6. PICK read \in MayRead(rs) : heap' = Merged(heap, ignore, failed, read)
  BY <1>1 DEF HandleContacts
<1>7. Asked(rs) \subseteq Peer /\ failed \subseteq Asked(rs) /\ Asked(rs) \subseteq answered' \cup failed
  <2>1. \A i \in DOMAIN rs : rs[i] \in Result
    BY <1>2
  <2>2. \A i \in DOMAIN rs : rs[i].id \in Peer /\ (rs[i].ok \/ ~ rs[i].ok)
    BY <2>1 DEF Result
  <2>3. QED
    BY <1>2, <2>2 DEF Asked, Failed
<1> HIDE DEF failed
<1>8. read \subseteq Peer
  BY <1>2 DEF MayRead, Result
<1>9. heap' \subseteq Peer /\ heap' \cap ignore' = {}
  BY <1>5, <1>6, <1>8 DEF Merged, Typed, FailuresStayOut
<1>10. /\ marked' \subseteq Peer /\ ignore' \subseteq Peer
       /\ marked' \subseteq answered' \cup ignore'
  BY <1>2, <1>5, <1>7 DEF Typed, FailuresStayOut
<1>11. calls = <<>>
  BY ResultMeansRunning
<1>12. CASE /\ Unmarked(heap', marked') = {}
            /\ calls' = Append(calls, None) /\ inflight' = {} /\ results' = <<>>
            /\ UNCHANGED ndispatched
  <2>1. calls' = <<None>> /\ DOMAIN <<None>> = {1} /\ <<None>>[1] = None
    BY <1>11, <1>12
  <2>2. Typed'
    BY <1>2, <1>9, <1>10, <1>12, <2>1 DEF Typed
  <2>3. FailuresStayOut' /\ ResultsAreTrue'
    BY <1>9, <1>10, <1>12 DEF FailuresStayOut, ResultsAreTrue
  <2>4. ValuesAreKept' /\ RoundsAddUp'
    BY <1>12, <2>1 DEF ValuesAreKept, RoundsAddUp
  <2>5. CallsOnce'
    BY <2>1 DEF CallsOnce
  <2>6. NoneIsThorough'
    <3>1. Nearest(heap', Capacity) \subseteq marked' /\ Nearest(heap', Capacity) \subseteq heap'
      BY <1>12 DEF Unmarked, Nearest
    <3>2. Nearest(heap', Capacity) \subseteq answered'
      BY <1>9, <1>10, <3>1
    <3>3. QED
      BY <1>4, <3>2 DEF NoneIsThorough
  <2>7. QED
    BY <2>2, <2>3, <2>4, <2>5, <2>6
<1>13. CASE Find(heap', marked') /\ UNCHANGED calls
  <2>1. PICK h \in SUBSET Peer : h = heap'
    BY <1>9
  <2>2. PICK m : m = marked'
    OBVIOUS
  <2>3. PICK Q, n : Q = Batch(h, m) /\ n = Cardinality(Batch(h, m))
    OBVIOUS
  <2>4. inflight' = Q /\ results' = <<>> /\ ndispatched' = n /\ calls' = calls
    BY <1>13, <2>1, <2>2, <2>3 DEF Find
  <2>5. alpha \in Alpha
    BY DEF Typed
  <2>6. Q \subseteq Peer /\ n \in Nat /\ n <= alpha /\ Cardinality(Q) + Len(<<>>) = n
    BY <2>3, <2>5, FreshRoundAddsUp
  <2>7. Typed'
    BY <1>2, <1>9, <1>10, <2>4, <2>6 DEF Typed
  <2>8. FailuresStayOut' /\ ResultsAreTrue'
    BY <1>9, <1>10, <2>4 DEF FailuresStayOut, ResultsAreTrue
  <2>9. ValuesAreKept'
    BY <1>4 DEF ValuesAreKept
  <2>10. RoundsAddUp'
    BY <1>11, <2>4, <2>6 DEF RoundsAddUp
  <2>11. CallsOnce' /\ NoneIsThorough'
    BY <1>11, <2>4 DEF CallsOnce, NoneIsThorough
  <2>12. QED
    BY <2>7, <2>8, <2>9, <2>10, <2>11
<1>14. QED
  BY <1>5, <1>12, <1>13

\* Whichever of the three it is, the invariant is kept.
LEMMA DeliverKeepsBooks ==
  ASSUME IInv, NEW r \in Result, r.id \in inflight, Heard(r), Deliver(r)
  PROVE  IInv'
BY GatherKeepsBooks, HandleValueKeepsBooks, HandleContactsKeepsBooks DEF Deliver, Handle

-----------------------------------------------------------------------------
(* The invariants                                                          *)
-----------------------------------------------------------------------------
\* The first round satisfies the invariant.
LEMMA InitKeepsBooks == Init => IInv
<1> SUFFICES ASSUME Init PROVE IInv
  OBVIOUS
<1>1. alpha \in Alpha /\ heap \in SUBSET Peer
  BY DEF Init
<1>2. inflight = Batch(heap, {}) /\ ndispatched = Cardinality(Batch(heap, {}))
  BY DEF Init
<1>3. /\ inflight \subseteq Peer /\ ndispatched \in Nat /\ ndispatched <= alpha
      /\ Cardinality(inflight) + Len(<<>>) = ndispatched
  BY <1>1, <1>2, FreshRoundAddsUp
<1>4. /\ stored \in [Peer -> Value \cup {None}] /\ lost = {}
      /\ marked = {} /\ ignore = {} /\ answered = {}
      /\ results = <<>> /\ calls = <<>>
  BY DEF Init
<1>5. Typed /\ RoundsAddUp
  BY <1>1, <1>3, <1>4 DEF Typed, RoundsAddUp
<1>6. FailuresStayOut /\ ResultsAreTrue /\ ValuesAreKept
  BY <1>4 DEF FailuresStayOut, ResultsAreTrue, ValuesAreKept
<1>7. CallsOnce /\ NoneIsThorough
  BY <1>4 DEF CallsOnce, NoneIsThorough
<1>8. QED
  BY <1>5, <1>6, <1>7 DEF IInv

\* Every step keeps it.
LEMMA StepKeepsBooks == IInv /\ [Next]_vars => IInv'
<1> SUFFICES ASSUME IInv, [Next]_vars PROVE IInv'
  OBVIOUS
<1>1. ASSUME NEW p \in Peer, Fail(p) PROVE IInv'
  <2>1. PICK r \in Result : r = [id |-> p, ok |-> FALSE, value |-> None, contacts |-> {}]
    BY DEF Result
  <2>2. r.id \in inflight /\ Deliver(r) /\ r.ok = FALSE /\ r.value = None /\ answered' = answered
    BY <1>1, <2>1 DEF Fail
  <2>3. Heard(r)
    BY <2>2 DEF Heard
  <2>4. QED
    BY <2>2, <2>3, DeliverKeepsBooks
<1>2. ASSUME NEW p \in Peer, NEW contacts \in SUBSET Peer, Answer(p, contacts) PROVE IInv'
  <2>1. stored[p] \in Value \cup {None}
    BY DEF IInv, Typed
  <2>2. PICK r \in Result :
          r = [id |-> p, ok |-> TRUE, value |-> stored[p], contacts |-> contacts]
    BY <2>1 DEF Result
  <2>3. /\ r.id \in inflight /\ Deliver(r) /\ r.ok = TRUE /\ r.id = p
        /\ r.value = stored[p] /\ answered' = answered \cup {p}
    BY <1>2, <2>2 DEF Answer
  <2>4. Heard(r)
    BY <2>3 DEF Heard
  <2>5. QED
    BY <2>3, <2>4, DeliverKeepsBooks
<1>3. ASSUME NEW p \in Peer, Lose(p) PROVE IInv'
  BY <1>3 DEF Lose, IInv, Typed, FailuresStayOut, ResultsAreTrue, ValuesAreKept, RoundsAddUp,
              CallsOnce, NoneIsThorough
<1>4. CASE UNCHANGED vars
  BY <1>4 DEF vars, IInv, Typed, FailuresStayOut, ResultsAreTrue, ValuesAreKept, RoundsAddUp,
              CallsOnce, NoneIsThorough
<1>5. QED
  BY <1>1, <1>2, <1>3, <1>4 DEF Next, Reply

\* The rounds of a lookup always add up, and no value that was heard is lost
\* (kad_valuecrawler_find, find_value_cb and handle).
THEOREM BooksAreKept == Spec => []IInv
<1>1. Init => IInv
  BY InitKeepsBooks
<1>2. IInv /\ [Next]_vars => IInv'
  BY StepKeepsBooks
<1>3. QED
  BY <1>1, <1>2, PTL DEF Spec

\* A lookup that calls back with NULL asked the nearest peers that are known,
\* and none that answered has the value.
THEOREM NullIsThorough == Spec => []NoneIsThorough
<1>1. IInv => NoneIsThorough
  BY DEF IInv
<1>2. QED
  BY <1>1, BooksAreKept, PTL

\* A lookup that calls back with its last result hands out what that result
\* brought, if no earlier answer brought a value.
LEMMA HandleReturnsFound ==
  ASSUME IInv, NEW r \in Result, r.id \in inflight, Heard(r), Deliver(r), calls' # calls,
         \A q \in answered : stored[q] = None
  PROVE  inflight = {r.id} /\ calls' = Append(calls, r.value)
<1>1. Len(results) + 1 = ndispatched /\ Handle(Append(results, r))
  BY DEF Deliver, Gather
<1>2. inflight = {r.id}
  BY <1>1, ResultMeansRunning
<1>3. PICK rs : rs = Append(results, r)
  OBVIOUS
<1>4. /\ Len(rs) = Len(results) + 1 /\ Len(results) \in Nat /\ rs[Len(rs)] = r
      /\ DOMAIN rs = 1..Len(rs)
      /\ \A i \in 1..Len(results) : rs[i] = results[i] /\ results[i].value = None
  <2>1. results \in Seq(Result) /\ DOMAIN results = 1..Len(results)
    BY DEF IInv, Typed
  <2>2. \A i \in 1..Len(results) : results[i].value = None
    BY <2>1 DEF IInv, ResultsAreTrue
  <2>3. QED
    BY <1>3, <2>1, <2>2
<1>5. \A i \in WithValue(rs) : i = Len(rs) /\ ReadValue(rs, i) = r.value
  <2>1. \A i \in WithValue(rs) : i \in 1..Len(rs) /\ rs[i].value # None
    BY <1>4 DEF WithValue
  <2>2. \A i \in WithValue(rs) : i = Len(rs)
    BY <1>4, <2>1
  <2>3. QED
    BY <1>4, <2>2 DEF ReadValue
<1>6. CASE HandleValue(rs)
  BY <1>2, <1>5, <1>6 DEF HandleValue
<1>7. CASE HandleContacts(rs)
  <2>1. WithValue(rs) = {} /\ calls' = Append(calls, None)
    BY <1>7 DEF HandleContacts
  <2>2. Len(rs) \in DOMAIN rs
    BY <1>4
  <2>3. r.value = None
    BY <1>4, <2>1, <2>2 DEF WithValue
  <2>4. QED
    BY <1>2, <2>1, <2>3
<1>8. QED
  BY <1>1, <1>3, <1>6, <1>7 DEF Handle

\* Whatever the concurrency: if no peer that answered before has the value, a
\* lookup that ends hands out what the peer it was waiting for stores, or NULL.
THEOREM FoundValueReturned == Spec => ReturnsFoundValue
<1>1. ASSUME IInv, Next, NEW p \in inflight, calls' # calls,
             \A q \in answered : stored[q] = None
      PROVE  calls' = Append(calls, IF p \in answered' THEN stored[p] ELSE None)
  <2>1. PICK q \in Peer : Reply(q)
    BY <1>1 DEF Next, Lose
  <2>2. CASE Fail(q)
    <3>1. PICK r \in Result : r = [id |-> q, ok |-> FALSE, value |-> None, contacts |-> {}]
      BY DEF Result
    <3>2. /\ r.id \in inflight /\ Deliver(r) /\ r.ok = FALSE /\ r.id = q
          /\ r.value = None /\ answered' = answered
      BY <2>2, <3>1 DEF Fail
    <3>3. Heard(r)
      BY <3>2 DEF Heard
    <3>4. inflight = {q} /\ calls' = Append(calls, None)
      BY <1>1, <3>2, <3>3, HandleReturnsFound
    <3>5. QED
      BY <1>1, <3>2, <3>4
  <2>3. ASSUME NEW contacts \in SUBSET Peer, Answer(q, contacts)
        PROVE  calls' = Append(calls, IF p \in answered' THEN stored[p] ELSE None)
    <3>1. stored[q] \in Value \cup {None}
      BY <1>1 DEF IInv, Typed
    <3>2. PICK r \in Result :
            r = [id |-> q, ok |-> TRUE, value |-> stored[q], contacts |-> contacts]
      BY <3>1 DEF Result
    <3>3. /\ r.id \in inflight /\ Deliver(r) /\ r.ok = TRUE /\ r.id = q
          /\ r.value = stored[q] /\ answered' = answered \cup {q}
      BY <2>3, <3>2 DEF Answer
    <3>4. Heard(r)
      BY <3>3 DEF Heard
    <3>5. inflight = {q} /\ calls' = Append(calls, stored[q])
      BY <1>1, <3>3, <3>4, HandleReturnsFound
    <3>6. QED
      BY <1>1, <3>3, <3>5
  <2>4. QED
    BY <2>1, <2>2, <2>3 DEF Reply
<1>2. IInv /\ [Next]_vars =>
        [\A p \in inflight :
           calls' # calls /\ (\A q \in answered : stored[q] = None) =>
             calls' = Append(calls, IF p \in answered' THEN stored[p] ELSE None)]_vars
  BY <1>1
<1>3. QED
  BY <1>2, BooksAreKept, PTL DEF Spec, ReturnsFoundValue

\* A lookup never calls back twice: kad_client_lookup_callback, which frees its
\* context, runs once.
THEOREM CalledBackOnce == Spec => []CallsOnce
<1>1. IInv => CallsOnce
  BY DEF IInv
<1>2. QED
  BY <1>1, BooksAreKept, PTL
=============================================================================
