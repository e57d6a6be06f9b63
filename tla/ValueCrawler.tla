---------------------------- MODULE ValueCrawler -----------------------------
(***************************************************************************)
(* kad_valuecrawler_t (crawlers/valuecrawler.c): the search for the value  *)
(* of a key.  It asks in rounds like NodeCrawler, but an answer carries a  *)
(* value or none, beside the contacts, and when the last answer of a round *)
(* is in, the first value in order of arrival ends the crawl.              *)
(*                                                                         *)
(* A peer is represented by its distance to the key.  What a peer stores   *)
(* is fixed; which contacts it names, and whether it fails, is not.  As in *)
(* NodeCrawler, a request may also be lost, and then never calls back.     *)
(***************************************************************************)
EXTENDS Nearness, Sequences

CONSTANTS Peer,      \* distances to the key
          Capacity,  \* s->capacity
          Alpha,     \* the concurrencies that a crawl may be started with
          Value,     \* what peers may store
          None,      \* no value: NULL
          Garbage    \* what freed memory may hold

\* A distance has 256 bits.
ASSUME PeerAssumption == Peer \subseteq Nat /\ IsFiniteSet(Peer)
ASSUME BoundsAssumption == Capacity \in Nat \ {0} /\ Alpha \subseteq Nat \ {0}
ASSUME ValueAssumption == None \notin Value /\ Garbage \notin Value \cup {None}

VARIABLES alpha,        \* s->alpha, the concurrency of a round
          stored,       \* what each peer stores under the key, if anything
          heap, marked, \* s->nearest and its marks
          ignore,       \* s->ignore
          inflight,     \* the peers whose find_value has not called back
          results,      \* results->ids, oks, data, in order of arrival
          ndispatched,  \* the number of requests of this round
          lost,         \* those of inflight that never will call back
          calls,        \* what the crawl called back with, in order
          answered      \* the peers that answered so far

vars == <<alpha, stored, heap, marked, ignore, inflight, results, ndispatched, lost, calls,
          answered>>

\* Mutant of Unmarked: the marks are not looked at.
UnmarkedOrNot(h, m) == Nearest(h, Capacity)

Unmarked(h, m) == Nearest(h, Capacity) \ m

\* kad_valuecrawler_find: the requests of a round.
Batch(h, m) == Nearest(Unmarked(h, m), alpha)
Find(h, m) == /\ inflight' = Batch(h, m)
              /\ ndispatched' = Cardinality(Batch(h, m))
              /\ results' = <<>>

\* kad_valuecrawler_init with at least one contact, and the first
\* kad_valuecrawler_find.
Init == /\ alpha \in Alpha
        /\ stored \in [Peer -> Value \cup {None}]
        /\ heap \in SUBSET Peer \ {{}}
        /\ marked = {}
        /\ ignore = {}
        /\ inflight = Batch(heap, {})
        /\ results = <<>>
        /\ ndispatched = Cardinality(Batch(heap, {}))
        /\ lost = {}
        /\ calls = <<>>
        /\ answered = {}

-----------------------------------------------------------------------------
\* Mutant of ReadValue: the last result is freed before it is handled, too.
ReadValueFreed(rs, i) == Garbage

(***************************************************************************)
(* What kad_valuecrawler_handle reads from the results of a round.  Of all *)
(* but the last only the copied kad_result_t is left: recv_cb_response     *)
(* freed the value and the contacts it points to.  Whether there was a     *)
(* value, and how many contacts, can still be seen.                        *)
(***************************************************************************)
ReadValue(rs, i) == IF i = Len(rs) THEN rs[i].value ELSE Garbage
Freed(rs) == UNION {{i} \X rs[i].contacts : i \in 1..(Len(rs) - 1)}
MayRead(rs) == {rs[Len(rs)].contacts \cup S : S \in {T \in SUBSET Peer :
                                                       Cardinality(T) <= Cardinality(Freed(rs))}}

Failed(rs) == {rs[i].id : i \in {j \in DOMAIN rs : ~ rs[j].ok}}
Asked(rs) == {rs[i].id : i \in DOMAIN rs}

\* Mutant of WithValue: only the first answer of the round is looked at.
WithValueFirst(rs) == {i \in DOMAIN rs : i = 1 /\ rs[i].value # None}

\* The results that carry a value.
WithValue(rs) == {i \in DOMAIN rs : rs[i].value # None}

\* The heap after the answers were pushed and the failed removed.
Merged(h, ign, failed, read) == (h \cup (read \ (ign \cup failed))) \ failed

\* kad_valuecrawler_handle, when the round found a value: the crawl calls back
\* with the first.  What it marked and pushed before is never used again.
HandleValue(rs) ==
  /\ WithValue(rs) # {}
  /\ \E i \in WithValue(rs) : /\ \A j \in WithValue(rs) : i <= j
                              /\ calls' = Append(calls, ReadValue(rs, i))
  /\ inflight' = {}
  /\ results' = <<>>
  /\ UNCHANGED <<heap, marked, ignore, ndispatched>>

\* ... and when it did not: the crawl gives up or asks on.
HandleContacts(rs) ==
  LET failed == Failed(rs) IN
  /\ WithValue(rs) = {}
  /\ marked' = marked \cup Asked(rs)
  /\ ignore' = ignore \cup failed
  /\ \E read \in MayRead(rs) : heap' = Merged(heap, ignore, failed, read)
  /\ \/ /\ Unmarked(heap', marked') = {}
        /\ calls' = Append(calls, None)
        /\ inflight' = {}
        /\ results' = <<>>
        /\ UNCHANGED ndispatched
     \/ /\ Unmarked(heap', marked') # {}
        /\ Find(heap', marked')
        /\ UNCHANGED calls

Handle(rs) == HandleValue(rs) \/ HandleContacts(rs)

\* kad_valuecrawler_find_value_cb.
Gather(r) == /\ results' = Append(results, r)
             /\ inflight' = inflight \ {r.id}
             /\ UNCHANGED <<heap, marked, ignore, ndispatched, calls>>

Deliver(r) == /\ \/ Len(results) + 1 # ndispatched /\ Gather(r)
                 \/ Len(results) + 1 = ndispatched /\ Handle(Append(results, r))
              /\ UNCHANGED <<alpha, stored, lost>>

\* find_value calls back with the answer of a peer ...
Answer(p, contacts) ==
  /\ p \in inflight \ lost
  /\ answered' = answered \cup {p}
  /\ Deliver([id |-> p, ok |-> TRUE, value |-> stored[p], contacts |-> contacts])

\* ... or with a failure ...
Fail(p) ==
  /\ p \in inflight \ lost
  /\ Deliver([id |-> p, ok |-> FALSE, value |-> None, contacts |-> {}])
  /\ UNCHANGED answered

\* ... or not at all: its datagram was not written, or the protocol was freed.
Lose(p) ==
  /\ p \in inflight \ lost
  /\ lost' = lost \cup {p}
  /\ UNCHANGED <<alpha, stored, heap, marked, ignore, inflight, results, ndispatched, calls,
                 answered>>

Reply(p) == Fail(p) \/ \E contacts \in SUBSET Peer : Answer(p, contacts)

Next == \E p \in Peer : Reply(p) \/ Lose(p)

Spec == Init /\ [][Next]_vars

\* A request that is not lost is answered or timed out in the end.
FairSpec == Spec /\ \A p \in Peer : WF_vars(Reply(p) \/ Lose(p))

-----------------------------------------------------------------------------
\* A lookup that ends with NULL was thorough: no peer that answered has the
\* value, and of the nearest peers that are known none was left unasked.
NoneIsThorough ==
  None \in {calls[i] : i \in DOMAIN calls} =>
    /\ \A p \in answered : stored[p] = None
    /\ Nearest(heap, Capacity) \subseteq answered

\* What a lookup returns is what some peer stores.  tests/unit_valuecrawler.c:
\* munit_assert_string_equal(value, "value").
ReturnsStoredValue ==
  \A i \in DOMAIN calls : calls[i] = None \/ calls[i] \in {stored[p] : p \in answered}

\* How much of that is true, whatever the concurrency: if none of the peers that
\* answered before has the value, a lookup that ends hands out what the peer it
\* was still waiting for stores, or NULL if that has nothing or failed.
ReturnsFoundValue ==
  [][\A p \in inflight :
       calls' # calls /\ (\A q \in answered : stored[q] = None) =>
         calls' = Append(calls, IF p \in answered' THEN stored[p] ELSE None)]_vars

\* A lookup calls back, and only once, exactly if none of its requests is lost:
\* a lost one stalls it although another peer has sent the value.
\* (kad_client_lookup_callback frees its context: a second call would use it
\* after that.)
LookupEnds == <>[](Len(calls) = IF lost = {} THEN 1 ELSE 0)
=============================================================================
