----------------------------- MODULE NodeCrawler -----------------------------
(***************************************************************************)
(* kad_nodecrawler_t (crawlers/nodecrawler.c): the iterative search for    *)
(* the peers nearest to a target.  A round asks up to Alpha of the nearest *)
(* peers that have not been asked; when every one of them has answered or  *)
(* failed, their answers are merged and either the next round starts or    *)
(* the crawl calls back with the nearest peers.                            *)
(*                                                                         *)
(* A peer is represented by its distance to the target.  The heap is the   *)
(* set of its members (see ContactHeap).  The peers and the protocol are   *)
(* the environment.  A request is answered, fails, or is lost, which means *)
(* that it never calls back: kad_uv_protocol_t forgets a request that it   *)
(* could not write, and those it holds when it is freed (see Protocol).    *)
(***************************************************************************)
EXTENDS Nearness

CONSTANTS Peer,      \* distances to the target
          Capacity,  \* s->capacity, the K of Kademlia
          Alpha      \* the concurrencies that a crawl may be started with

\* A distance has 256 bits.
ASSUME PeerAssumption == Peer \subseteq Nat /\ IsFiniteSet(Peer)
ASSUME BoundsAssumption == Capacity \in Nat \ {0} /\ Alpha \subseteq Nat \ {0}

VARIABLES alpha,        \* s->alpha, the concurrency of a round
          heap,         \* the members of s->nearest
          marked,       \* s->nearest.marked
          ignore,       \* s->ignore
          inflight,     \* the peers whose find_node has not called back
          results,      \* results->ids, oks, data
          ndispatched,  \* the number of requests of this round
          phase,        \* "idle", "running" or "done"
          returned,     \* the contacts the crawl called back with
          lost,         \* those of inflight that never will call back
          asks,         \* how often each peer was asked in this crawl
          answered,     \* the peers that answered so far
          known         \* the seeds, and the contacts that were read intact

vars == <<alpha, heap, marked, ignore, inflight, results, ndispatched, phase, returned, lost,
          asks, answered, known>>

\* Mutant of Unmarked: the marks are not looked at.
UnmarkedOrNot(h, m) == Nearest(h, Capacity)

\* kad_contactheap_unmarked.
Unmarked(h, m) == Nearest(h, Capacity) \ m

\* kad_nodecrawler_init: the seeds are pushed on an empty heap.
Init == /\ alpha \in Alpha
        /\ heap \in SUBSET Peer
        /\ marked = {}
        /\ ignore = {}
        /\ inflight = {}
        /\ results = {}
        /\ ndispatched = 0
        /\ phase = "idle"
        /\ returned = {}
        /\ lost = {}
        /\ asks = [p \in Peer |-> 0]
        /\ answered = {}
        /\ known = heap

-----------------------------------------------------------------------------
\* Mutant of Batch: the concurrency bounds the peers looked at, not those asked.
BatchOfNearest(h, m) == Nearest(h, alpha) \ m

\* kad_nodecrawler_find, on a heap h with marks m: count the unmarked contacts,
\* cap the count with alpha, and send find_node to the first ndispatched.
Batch(h, m) == Nearest(Unmarked(h, m), alpha)
Find(h, m) ==
  /\ inflight' = Batch(h, m)
  /\ ndispatched' = Cardinality(Batch(h, m))
  /\ results' = {}
  /\ asks' = [p \in Peer |-> asks[p] + (IF p \in Batch(h, m) THEN 1 ELSE 0)]

Start == /\ phase = "idle"
         /\ phase' = "running"
         /\ Find(heap, marked)
         /\ UNCHANGED <<alpha, heap, marked, ignore, returned, lost, answered, known>>

(***************************************************************************)
(* What kad_nodecrawler_handle reads from the results of a round, the last *)
(* of which is r.  The callback of every earlier answer kept a copy of its *)
(* kad_result_t, but recv_cb_response freed the array of contacts that the *)
(* copy points to as soon as the callback returned; of those answers only  *)
(* the number of contacts is still right, and each may be any contact.     *)
(***************************************************************************)
Freed(r) == UNION {{q} \X q.contacts : q \in results}
MayRead(r) == {r.contacts \cup S : S \in {T \in SUBSET Peer :
                                          Cardinality(T) <= Cardinality(Freed(r))}}

\* Mutants of Merged: the failed stay; the heap is cut to Capacity.
MergedWithFailed(h, ign, failed, read) == h \cup (read \ (ign \cup failed))
MergedCut(h, ign, failed, read) ==
  Nearest((h \cup (read \ (ign \cup failed))) \ failed, Capacity)

\* The peers of a round that failed, those that were asked, and the heap that
\* results from pushing what was read and removing the failed.
Failed(rs) == {q.id : q \in {s \in rs : ~ s.ok}}
Asked(rs) == {q.id : q \in rs}
Merged(h, ign, failed, read) == (h \cup (read \ (ign \cup failed))) \ failed

\* kad_nodecrawler_handle, when the last result r of the round is in: mark,
\* remove and ignore the failed, push the contacts that are not ignored.
Handle(r) ==
  LET all    == results \cup {r}
      failed == Failed(all)
  IN
  /\ marked' = marked \cup Asked(all)
  /\ ignore' = ignore \cup failed
  /\ \E read \in MayRead(r) : heap' = Merged(heap, ignore, failed, read)
  /\ known' = known \cup r.contacts
  /\ \/ /\ Unmarked(heap', marked') = {}
        /\ phase' = "done"
        /\ returned' = Nearest(heap', Capacity)
        /\ inflight' = {}
        /\ results' = {}
        /\ UNCHANGED <<ndispatched, asks>>
     \/ /\ Unmarked(heap', marked') # {}
        /\ Find(heap', marked')
        /\ UNCHANGED <<phase, returned>>

\* Mutant of Gather: the peer is not crossed off.
GatherUncounted(r) ==
  /\ results' = results \cup {r}
  /\ UNCHANGED <<heap, marked, ignore, inflight, ndispatched, phase, returned, asks, known>>

\* kad_nodecrawler_find_node_cb, for a result r that is not the last.
Gather(r) == /\ results' = results \cup {r}
             /\ inflight' = inflight \ {r.id}
             /\ UNCHANGED <<heap, marked, ignore, ndispatched, phase, returned, asks, known>>

Deliver(r) == \/ Cardinality(results) + 1 # ndispatched /\ Gather(r)
              \/ Cardinality(results) + 1 = ndispatched /\ Handle(r)

\* find_node calls back with an answer ...
Answer(p, contacts) ==
  /\ p \in inflight \ lost
  /\ answered' = answered \cup {p}
  /\ Deliver([id |-> p, ok |-> TRUE, contacts |-> contacts])
  /\ UNCHANGED <<alpha, lost>>

\* ... or with a failure, late or from within the call ...
Fail(p) ==
  /\ p \in inflight \ lost
  /\ Deliver([id |-> p, ok |-> FALSE, contacts |-> {}])
  /\ UNCHANGED <<alpha, lost, answered>>

\* ... or not at all: its datagram was not written, or the protocol was freed.
Lose(p) ==
  /\ p \in inflight \ lost
  /\ lost' = lost \cup {p}
  /\ UNCHANGED <<alpha, heap, marked, ignore, inflight, results, ndispatched, phase, returned,
                 asks, answered, known>>

Reply(p) == Fail(p) \/ \E contacts \in SUBSET Peer : Answer(p, contacts)

Next == Start \/ \E p \in Peer : Reply(p) \/ Lose(p)

Spec == Init /\ [][Next]_vars

\* A request that is not lost is answered or timed out in the end.  Nothing
\* says that it is not lost.
FairSpec == Spec /\ WF_vars(Start) /\ \A p \in Peer : WF_vars(Reply(p) \/ Lose(p))

-----------------------------------------------------------------------------
\* While a round is under way its requests have either called back, and are
\* recorded, or not, and at least one has not: the round neither ends early nor
\* outlives its last result.  A lost request is never taken for one that called
\* back.  (A crawl that starts with an empty heap is the exception: it asks
\* nobody.)  The round has no more requests than the concurrency allows, and
\* none to a failed peer.
RoundAccounting ==
  phase = "running" /\ ndispatched # 0 =>
    /\ Cardinality(inflight) + Cardinality(results) = ndispatched
    /\ inflight # {} /\ lost \subseteq inflight
    /\ inflight \cap (Asked(results) \cup ignore) = {}
    /\ ndispatched <= alpha

\* No peer is asked twice in a crawl, although answers name the same peers
\* again and again and failed peers leave the heap.
AskedAtMostOnce == \A p \in Peer : asks[p] <= 1

\* A crawl calls back with peers that answered in this crawl: neither one
\* that failed, nor one that is only known by hearsay.
ReturnsOnlyLivePeers == phase = "done" => returned \subseteq answered

\* README.md: "we can find the K-closest peers".  What the code does of it: a
\* peer that was a seed, or that was named by the answer which ended a round,
\* is returned, or failed, or the crawl returns Capacity nearer ones, however
\* many requests a round has.  (The contacts of the other answers are freed by
\* recv_cb_response before kad_nodecrawler_handle reads them.)
NothingReadIsMissed ==
  phase = "done" =>
    \A q \in known \ (returned \cup ignore) :
      Cardinality(returned) = Capacity /\ \A r \in returned : r < q

\* A crawl that asks anybody calls back, and for good, exactly if none of its
\* requests is lost: a single lost one stalls it, whatever the others answer.
CrawlEnds == (phase = "running" /\ ndispatched # 0) ~> [](phase = "done" <=> lost = {})
=============================================================================
