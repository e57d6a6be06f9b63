--------------------------- MODULE NodeCrawlerProofs ---------------------------
(***************************************************************************)
(* That a crawl of NodeCrawler keeps its books, for any finite set of      *)
(* peers, any capacity and any concurrency.                                *)
(*                                                                         *)
(* The argument: a peer is asked when it is neither marked nor asked in    *)
(* this round, and from then on it is outstanding, among the results of    *)
(* the round, or marked, and in one of the three only.  What is marked has *)
(* answered or is ignored, and what is ignored is not in the heap.  A lost *)
(* request stays outstanding, so the round it belongs to never ends.       *)
(***************************************************************************)
EXTENDS NodeCrawler, ListProofs

Result == [id : Peer, ok : BOOLEAN, contacts : SUBSET Peer]

\* The variables have the shape of kad_nodecrawler_t.
Typed == /\ alpha \in Alpha
         /\ heap \subseteq Peer /\ marked \subseteq Peer /\ ignore \subseteq Peer
         /\ inflight \subseteq Peer /\ lost \subseteq inflight
         /\ results \subseteq Result /\ IsFiniteSet(results)
         /\ ndispatched \in Nat
         /\ phase \in {"idle", "running", "done"}
         /\ asks \in [Peer -> Nat]
         /\ answered \subseteq Peer /\ known \subseteq Peer

\* Whoever was asked is outstanding, has replied in this round or is marked.
AskedIsKnown ==
  \A p \in Peer : asks[p] = IF p \in marked \cup Asked(results) \cup inflight THEN 1 ELSE 0

Apart == /\ inflight \cap Asked(results) = {}
         /\ marked \cap (inflight \cup Asked(results)) = {}

\* Marked peers answered or failed, and the failed are kept out of the heap.
FailuresStayOut ==
  /\ ignore \subseteq marked /\ heap \cap ignore = {}
  /\ marked \subseteq answered \cup ignore
  /\ \A q \in results : q.ok => q.id \in answered

\* The requests of a round add up, and somebody is outstanding while it lasts.
RoundsAddUp ==
  /\ phase # "running" => inflight = {} /\ results = {}
  /\ phase = "running" => Cardinality(inflight) + Cardinality(results) = ndispatched
  /\ phase = "running" /\ ndispatched # 0 => inflight # {}
  /\ ndispatched <= alpha

\* A crawl ends when the nearest were all asked, and returns them.
EndsWithMarked ==
  phase = "done" => returned = Nearest(heap, Capacity) /\ returned \subseteq marked

\* Nobody who was a seed or was read intact gets lost on the way.
KnownIsKept == known \subseteq heap \cup ignore

\* The inductive invariant.
IInv == /\ Typed /\ AskedIsKnown /\ Apart /\ FailuresStayOut
        /\ RoundsAddUp /\ EndsWithMarked /\ KnownIsKept

-----------------------------------------------------------------------------
(* Batches and rounds                                                      *)
-----------------------------------------------------------------------------
\* Any set of peers can be counted and ordered.
LEMMA PeersAreFinite ==
  ASSUME NEW P \in SUBSET Peer
  PROVE  P \in SUBSET Nat /\ IsFiniteSet(P) /\ Cardinality(P) \in Nat
BY PeerAssumption, FS_Subset, FS_CardinalityType

\* A round asks members of the heap that are not marked, no more than alpha.
LEMMA BatchIsUnmarked ==
  ASSUME NEW h \in SUBSET Peer, NEW m, alpha \in Alpha
  PROVE  /\ Batch(h, m) \subseteq h \ m
         /\ Cardinality(Batch(h, m)) \in 0..alpha
<1>1. alpha \in Nat /\ Capacity \in Nat
  BY BoundsAssumption
<1>2. Nearest(h, Capacity) \subseteq h
  BY DEF Nearest
<1>3. Unmarked(h, m) \in SUBSET Peer /\ Unmarked(h, m) \subseteq h \ m
  BY <1>2 DEF Unmarked
<1>4. /\ Nearest(Unmarked(h, m), alpha) \subseteq Unmarked(h, m)
      /\ Cardinality(Nearest(Unmarked(h, m), alpha)) \in 0..alpha
  BY <1>1, <1>3, PeersAreFinite, NearestAreFew
<1>5. QED
  BY <1>3, <1>4 DEF Batch

\* kad_nodecrawler_find starts a round whose books are in order, if everybody
\* who was asked before is marked.
LEMMA FindStartsRound ==
  ASSUME NEW h \in SUBSET Peer, NEW m \in SUBSET Peer, alpha \in Alpha, alpha' = alpha,
         asks \in [Peer -> Nat],
         \A p \in Peer : asks[p] = IF p \in m THEN 1 ELSE 0,
         Find(h, m), marked' = m, phase' = "running"
  PROVE  /\ inflight' \subseteq h \ m /\ results' = {} /\ IsFiniteSet(results')
         /\ ndispatched' \in Nat /\ asks' \in [Peer -> Nat]
         /\ AskedIsKnown' /\ Apart' /\ RoundsAddUp'
<1>1. /\ inflight' = Batch(h, m) /\ ndispatched' = Cardinality(Batch(h, m))
      /\ results' = {}
      /\ asks' = [p \in Peer |-> asks[p] + (IF p \in Batch(h, m) THEN 1 ELSE 0)]
  BY DEF Find
<1>2. Batch(h, m) \subseteq h \ m /\ Cardinality(Batch(h, m)) \in 0..alpha
  BY BatchIsUnmarked
<1>3. alpha \in Nat
  BY BoundsAssumption
<1>4. Asked(results') = {} /\ Cardinality({}) = 0 /\ IsFiniteSet({})
  BY <1>1, FS_EmptySet DEF Asked
<1>5. asks' \in [Peer -> Nat]
  BY <1>1
<1>6. AskedIsKnown'
  <2>1. ASSUME NEW p \in Peer
        PROVE  asks'[p] = IF p \in marked' \cup inflight' THEN 1 ELSE 0
    BY <1>1, <1>2
  <2>2. Asked(results)' = {}
    BY <1>1 DEF Asked
  <2>3. QED
    BY <2>1, <2>2 DEF AskedIsKnown
<1>7. Apart'
  BY <1>1, <1>2, <1>4 DEF Apart, Asked
<1>8. RoundsAddUp'
  <2>1. ndispatched' # 0 => inflight' # {}
    BY <1>1, <1>4
  <2>2. Cardinality(results') = 0
    BY <1>1, <1>4
  <2>3. PICK n \in 0..alpha : n = ndispatched'
    BY <1>1, <1>2
  <2>4. Cardinality(inflight') = n
    BY <1>1, <2>3
  <2>5. n + 0 = n /\ n <= alpha
    BY <1>3
  <2>6. Cardinality(inflight') + Cardinality(results') = ndispatched' /\ ndispatched' <= alpha'
    BY <2>2, <2>3, <2>4, <2>5
  <2>7. QED
    BY <2>1, <2>6 DEF RoundsAddUp
<1>9. QED
  BY <1>1, <1>2, <1>3, <1>4, <1>5, <1>6, <1>7, <1>8

\* As long as a request is outstanding the crawl is running.
LEMMA OutstandingMeansRunning ==
  ASSUME IInv, NEW p \in inflight
  PROVE  /\ phase = "running" /\ p \in Peer
         /\ IsFiniteSet(inflight) /\ Cardinality(inflight) \in Nat
         /\ Cardinality(results) \in Nat
         /\ Cardinality(inflight) + Cardinality(results) = ndispatched
         /\ Cardinality(inflight \ {p}) = Cardinality(inflight) - 1
         /\ Cardinality(inflight) >= 1
         /\ p \notin Asked(results) \cup marked
<1>1. phase = "running" /\ p \in Peer
  BY DEF IInv, Typed, RoundsAddUp
<1>2. IsFiniteSet(inflight) /\ Cardinality(inflight) \in Nat
  BY PeersAreFinite DEF IInv, Typed
<1>3. Cardinality(results) \in Nat
  BY FS_CardinalityType DEF IInv, Typed
<1>4. IsFiniteSet(inflight \ {p}) /\ Cardinality(inflight \ {p}) = Cardinality(inflight) - 1
  BY <1>2, FS_RemoveElement
<1>5. Cardinality(inflight \ {p}) \in Nat
  BY <1>4, FS_CardinalityType
<1>6. QED
  BY <1>1, <1>2, <1>3, <1>4, <1>5 DEF IInv, RoundsAddUp, Apart

\* The last result of a round comes from the only peer that is outstanding.
LEMMA LastIsAlone ==
  ASSUME IInv, NEW p \in inflight, Cardinality(results) + 1 = ndispatched
  PROVE  inflight = {p}
<1>1. Cardinality(inflight \ {p}) = 0
  BY OutstandingMeansRunning
<1>2. IsFiniteSet(inflight \ {p})
  BY OutstandingMeansRunning, FS_RemoveElement
<1>3. inflight \ {p} = {}
  BY <1>1, <1>2, FS_EmptySet
<1>4. QED
  BY <1>3

-----------------------------------------------------------------------------
(* The steps                                                               *)
-----------------------------------------------------------------------------
\* What becomes of answered and lost when a result arrives: whoever answered is
\* recorded, and no lost request calls back.
Heard(r) ==
  /\ answered' \subseteq Peer /\ answered \subseteq answered'
  /\ r.ok => r.id \in answered'
  /\ lost' = lost /\ r.id \notin lost

\* kad_nodecrawler_find: the seeds are in the heap and the first batch is asked.
LEMMA StartKeepsBooks ==
  ASSUME IInv, Start
  PROVE  IInv'
<1> USE DEF IInv, Start
<1>1. inflight = {} /\ results = {} /\ Asked(results) = {}
  BY DEF RoundsAddUp, Asked
<1>2. \A p \in Peer : asks[p] = IF p \in marked THEN 1 ELSE 0
  BY <1>1 DEF AskedIsKnown
<1>3. /\ inflight' \subseteq heap \ marked /\ results' = {} /\ IsFiniteSet(results')
      /\ ndispatched' \in Nat /\ asks' \in [Peer -> Nat]
      /\ AskedIsKnown' /\ Apart' /\ RoundsAddUp'
  BY <1>2, FindStartsRound DEF Typed
<1>4. Typed'
  BY <1>1, <1>3 DEF Typed
<1>5. FailuresStayOut' /\ EndsWithMarked' /\ KnownIsKept'
  BY <1>3 DEF FailuresStayOut, EndsWithMarked, KnownIsKept
<1>6. QED
  BY <1>3, <1>4, <1>5

\* A result that is not the last of its round is put aside.
LEMMA GatherKeepsBooks ==
  ASSUME IInv, NEW r \in Result, r.id \in inflight, alpha' = alpha, Heard(r),
         Cardinality(results) + 1 # ndispatched, Gather(r)
  PROVE  IInv'
<1> USE DEF IInv, Gather
<1>1. /\ phase = "running" /\ r.id \in Peer
      /\ Cardinality(inflight) \in Nat /\ Cardinality(results) \in Nat
      /\ Cardinality(inflight) + Cardinality(results) = ndispatched
      /\ Cardinality(inflight \ {r.id}) = Cardinality(inflight) - 1
      /\ r.id \notin Asked(results) \cup marked
  BY OutstandingMeansRunning
<1>2. Asked(results') = Asked(results) \cup {r.id}
  BY DEF Asked
<1>3. IsFiniteSet(results') /\ Cardinality(results') = Cardinality(results) + 1
  <2>1. r \notin results
    BY <1>1 DEF Asked
  <2>2. QED
    BY <2>1, FS_AddElement DEF Typed
<1>4. Typed'
  BY <1>3 DEF Typed, Heard
<1>5. AskedIsKnown' /\ Apart'
  <2>1. marked' \cup Asked(results)' \cup inflight' = marked \cup Asked(results) \cup inflight
    BY <1>2
  <2>2. AskedIsKnown'
    BY <2>1, Zenon DEF AskedIsKnown
  <2>3. Apart'
    BY <1>1, <1>2 DEF Apart
  <2>4. QED
    BY <2>2, <2>3
<1>6. FailuresStayOut'
  BY DEF FailuresStayOut, Heard
<1>7. RoundsAddUp'
  <2>1. Cardinality(inflight') + Cardinality(results') = ndispatched'
    BY <1>1, <1>3
  <2>2. Cardinality(inflight') # 0
    BY <1>1
  <2>3. inflight' # {}
    BY <2>2, FS_EmptySet
  <2>4. QED
    BY <1>1, <2>1, <2>3 DEF RoundsAddUp
<1>8. EndsWithMarked'
  BY <1>1 DEF EndsWithMarked
<1>9. KnownIsKept'
  BY DEF KnownIsKept
<1>10. QED
  BY <1>4, <1>5, <1>6, <1>7, <1>8, <1>9

\* The last result of a round: everybody who was asked is marked, the failed
\* are thrown out for good, and the next round is asked or the crawl ends.
LEMMA HandleKeepsBooks ==
  ASSUME IInv, NEW r \in Result, r.id \in inflight, alpha' = alpha, Heard(r),
         Cardinality(results) + 1 = ndispatched, Handle(r)
  PROVE  IInv'
<1> USE DEF IInv
<1> DEFINE all == results \cup {r}
           failed == Failed(all)
<1>1. PICK read \in MayRead(r) : heap' = Merged(heap, ignore, failed, read)
  BY DEF Handle
<1>2. /\ marked' = marked \cup Asked(all) /\ ignore' = ignore \cup failed
      /\ \/ /\ Unmarked(heap', marked') = {}
            /\ phase' = "done" /\ returned' = Nearest(heap', Capacity)
            /\ inflight' = {} /\ results' = {} /\ UNCHANGED <<ndispatched, asks>>
         \/ Find(heap', marked') /\ UNCHANGED <<phase, returned>>
  BY DEF Handle
<1>3. /\ phase = "running" /\ inflight = {r.id} /\ r.id \in Peer
  BY OutstandingMeansRunning, LastIsAlone
<1>3a. lost' = {} /\ known' \subseteq Peer
  <2>1. lost \subseteq {r.id} /\ r.id \notin lost /\ lost' = lost
    BY <1>3 DEF Typed, Heard
  <2>2. known' = known \cup r.contacts
    BY DEF Handle
  <2>3. QED
    BY <2>1, <2>2 DEF Typed, Result
<1>4. Asked(all) = Asked(results) \cup inflight
  BY <1>3 DEF Asked
<1>5. /\ failed = {q.id : q \in {s \in all : ~ s.ok}}
      /\ failed \subseteq Asked(all)
      /\ \A q \in all : q.ok \/ q.id \in failed
  BY DEF Failed, Asked
<1>6. all \subseteq Result /\ Asked(all) \subseteq Peer
  BY DEF Typed, Asked, Result
<1>7. \A q \in all : q.ok => q.id \in answered'
  BY DEF FailuresStayOut, Heard
<1>8. Asked(all) \subseteq answered' \cup failed
  BY <1>5, <1>7 DEF Asked
<1> HIDE DEF all, failed
<1>9. r.contacts \subseteq read /\ read \subseteq Peer
  BY DEF MayRead, Result
<1>10. heap' \subseteq Peer /\ heap' \cap ignore' = {}
  BY <1>1, <1>2, <1>9 DEF Merged, Typed, FailuresStayOut
<1>11. marked' \in SUBSET Peer /\ ignore' \subseteq marked' /\ marked' \subseteq answered' \cup ignore'
  BY <1>2, <1>5, <1>6, <1>8 DEF Typed, FailuresStayOut, Heard
<1>12. \A p \in Peer : asks[p] = IF p \in marked' THEN 1 ELSE 0
  <2>1. marked' = marked \cup Asked(results) \cup inflight
    BY <1>2, <1>4
  <2>2. QED
    BY <2>1, Zenon DEF AskedIsKnown
<1>13. KnownIsKept'
  <2>1. heap \cup ignore \subseteq heap' \cup ignore'
    BY <1>1, <1>2 DEF Merged
  <2>2. r.contacts \subseteq heap' \cup ignore'
    BY <1>1, <1>2, <1>9 DEF Merged
  <2>3. known' = known \cup r.contacts
    BY DEF Handle
  <2>4. QED
    BY <2>1, <2>2, <2>3 DEF KnownIsKept
<1>14. CASE /\ Unmarked(heap', marked') = {}
            /\ phase' = "done" /\ returned' = Nearest(heap', Capacity)
            /\ inflight' = {} /\ results' = {} /\ UNCHANGED <<ndispatched, asks>>
  <2>1. Asked(results)' = {} /\ IsFiniteSet({})
    BY <1>14, FS_EmptySet DEF Asked
  <2>2. Typed'
    BY <1>3a, <1>10, <1>11, <1>14, <2>1 DEF Typed, Heard
  <2>3. AskedIsKnown' /\ Apart'
    BY <1>12, <1>14, <2>1 DEF AskedIsKnown, Apart
  <2>4. FailuresStayOut' /\ RoundsAddUp'
    BY <1>10, <1>11, <1>14 DEF FailuresStayOut, RoundsAddUp
  <2>5. EndsWithMarked'
    BY <1>14 DEF EndsWithMarked, Unmarked
  <2>6. QED
    BY <1>13, <2>2, <2>3, <2>4, <2>5
<1>15. CASE Find(heap', marked') /\ UNCHANGED <<phase, returned>>
  <2>1. PICK h \in SUBSET Peer, m \in SUBSET Peer : h = heap' /\ m = marked'
    BY <1>10, <1>11
  <2>2. Find(h, m)
    BY <1>15, <2>1
  <2>3. /\ inflight' \subseteq h \ m /\ results' = {} /\ IsFiniteSet(results')
        /\ ndispatched' \in Nat /\ asks' \in [Peer -> Nat]
        /\ AskedIsKnown' /\ Apart' /\ RoundsAddUp'
    BY <1>3, <1>12, <1>15, <2>1, <2>2, FindStartsRound DEF Typed
  <2>4. Typed'
    BY <1>3a, <1>10, <1>11, <1>15, <2>1, <2>3 DEF Typed, Heard
  <2>5. FailuresStayOut' /\ EndsWithMarked'
    BY <1>3, <1>10, <1>11, <1>15, <2>3 DEF FailuresStayOut, EndsWithMarked
  <2>6. QED
    BY <1>13, <2>3, <2>4, <2>5
<1>16. QED
  BY <1>2, <1>14, <1>15

\* A result is gathered, or it is the last of its round and the round is handled
\* (kad_nodecrawler_find_node_cb).
LEMMA DeliverKeepsBooks ==
  ASSUME IInv, NEW r \in Result, r.id \in inflight, alpha' = alpha, Heard(r), Deliver(r)
  PROVE  IInv'
BY GatherKeepsBooks, HandleKeepsBooks DEF Deliver

-----------------------------------------------------------------------------
(* The invariants                                                          *)
-----------------------------------------------------------------------------
\* kad_nodecrawler_init: nobody is asked, marked or awaited.
LEMMA InitKeepsBooks == Init => IInv
<1> SUFFICES ASSUME Init PROVE IInv
  OBVIOUS
<1> USE DEF Init
<1>1. Asked(results) = {} /\ Cardinality({}) = 0 /\ IsFiniteSet({})
  BY FS_EmptySet DEF Asked
<1>2. alpha \in Nat
  BY BoundsAssumption
<1>4. Typed
  BY <1>1 DEF Typed
<1>5. AskedIsKnown /\ Apart
  BY <1>1 DEF AskedIsKnown, Apart
<1>6. FailuresStayOut /\ KnownIsKept /\ EndsWithMarked
  BY DEF FailuresStayOut, KnownIsKept, EndsWithMarked
<1>7. RoundsAddUp
  BY <1>2 DEF RoundsAddUp
<1>8. QED
  BY <1>4, <1>5, <1>6, <1>7 DEF IInv

\* No step breaks the invariant.
LEMMA StepKeepsBooks == IInv /\ [Next]_vars => IInv'
<1> SUFFICES ASSUME IInv, [Next]_vars PROVE IInv'
  OBVIOUS
<1>1. CASE Start
  BY <1>1, StartKeepsBooks
<1>2. ASSUME NEW p \in Peer, Fail(p)
      PROVE  IInv'
  <2>1. PICK r \in Result : r = [id |-> p, ok |-> FALSE, contacts |-> {}]
    BY DEF Result
  <2>2. /\ r.id \in inflight \ lost /\ Deliver(r) /\ r.ok = FALSE
        /\ alpha' = alpha /\ lost' = lost /\ answered' = answered
    BY <1>2, <2>1 DEF Fail
  <2>3. Heard(r)
    BY <2>2 DEF Heard, IInv, Typed
  <2>4. QED
    BY <2>2, <2>3, DeliverKeepsBooks
<1>3. ASSUME NEW p \in Peer, NEW contacts \in SUBSET Peer, Answer(p, contacts)
      PROVE  IInv'
  <2>1. PICK r \in Result : r = [id |-> p, ok |-> TRUE, contacts |-> contacts]
    BY DEF Result
  <2>2. /\ r.id \in inflight \ lost /\ Deliver(r) /\ r.id = p
        /\ alpha' = alpha /\ lost' = lost /\ answered' = answered \cup {p}
    BY <1>3, <2>1 DEF Answer
  <2>3. Heard(r)
    BY <2>2 DEF Heard, IInv, Typed
  <2>4. QED
    BY <2>2, <2>3, DeliverKeepsBooks
<1>4. ASSUME NEW p \in Peer, Lose(p)
      PROVE  IInv'
  <2>1. Asked(results)' = Asked(results)
    BY <1>4 DEF Lose, Asked
  <2>2. QED
    BY <1>4, <2>1 DEF Lose, IInv, Typed, AskedIsKnown, Apart, FailuresStayOut, RoundsAddUp,
                      EndsWithMarked, KnownIsKept
<1>5. CASE UNCHANGED vars
  <2>1. Asked(results)' = Asked(results)
    BY <1>5 DEF vars, Asked
  <2>2. QED
    BY <1>5, <2>1 DEF vars, IInv, Typed, AskedIsKnown, Apart, FailuresStayOut, RoundsAddUp,
                      EndsWithMarked, KnownIsKept
<1>6. QED
  BY <1>1, <1>2, <1>3, <1>4, <1>5 DEF Next, Reply

\* Who was asked, who failed and what the round still waits for is kept straight
\* by kad_nodecrawler_find, _find_node_cb and _handle.
THEOREM BooksAreKept == Spec => []IInv
BY InitKeepsBooks, StepKeepsBooks, PTL DEF Spec

\* The requests of a round are all either outstanding or recorded and the crawl
\* never waits for nobody; none goes to a failed peer or beyond the concurrency.
THEOREM RoundsAlwaysAddUp == Spec => []RoundAccounting
<1>1. IInv => RoundAccounting
  BY DEF IInv, Typed, Apart, FailuresStayOut, RoundsAddUp, RoundAccounting
<1>2. QED
  BY <1>1, BooksAreKept, PTL

\* Nobody is asked twice in a crawl, however often he is named.
THEOREM NobodyAskedTwice == Spec => []AskedAtMostOnce
<1>1. IInv => AskedAtMostOnce
  BY DEF IInv, AskedIsKnown, AskedAtMostOnce
<1>2. QED
  BY <1>1, BooksAreKept, PTL

\* Whom the crawl calls back with answered in this crawl.
THEOREM OnlyLivePeersReturned == Spec => []ReturnsOnlyLivePeers
<1>1. IInv => ReturnsOnlyLivePeers
  <2> SUFFICES ASSUME IInv, phase = "done" PROVE returned \subseteq answered
    BY DEF ReturnsOnlyLivePeers
  <2>1. returned \subseteq heap /\ returned \subseteq marked
    BY DEF IInv, EndsWithMarked, Nearest
  <2>2. QED
    BY <2>1 DEF IInv, FailuresStayOut
<1>2. QED
  BY <1>1, BooksAreKept, PTL

\* Whoever was a seed, or was named by the answer that ended a round, is returned,
\* or failed, or is farther than Capacity peers that are returned, whatever the
\* concurrency of the crawl.
THEOREM NobodyReadIsMissed == Spec => []NothingReadIsMissed
<1>1. IInv => NothingReadIsMissed
  <2> SUFFICES ASSUME IInv, phase = "done", NEW q \in known, q \notin returned \cup ignore
               PROVE  Cardinality(returned) = Capacity /\ \A r \in returned : r < q
    BY DEF NothingReadIsMissed
  <2>1. q \in heap \ Nearest(heap, Capacity) /\ returned = Nearest(heap, Capacity)
    BY DEF IInv, KnownIsKept, EndsWithMarked
  <2>2. heap \in SUBSET Nat /\ IsFiniteSet(heap) /\ Capacity \in Nat
    BY PeersAreFinite, BoundsAssumption DEF IInv, Typed
  <2>3. QED
    BY <2>1, <2>2, NearestComeFirst
<1>2. QED
  BY <1>1, BooksAreKept, PTL
=============================================================================
