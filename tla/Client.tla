------------------------------- MODULE Client --------------------------------
(***************************************************************************)
(* kad_client_t (client.c): bootstrap, insert and lookup, each a chain of  *)
(* callbacks over requests (Protocol) and a crawl (NodeCrawler and         *)
(* ValueCrawler), any number of them under way at a time, and the end of   *)
(* the client.                                                             *)
(*                                                                         *)
(* Requests and crawls are the environment.  A request that is refused     *)
(* calls back from within the call; every other one calls back once        *)
(* (Protocol: ResolvedOnce, SentIsResolved) or is lost, because it could   *)
(* not be written or the protocol was freed (Protocol: SendFails, Free).   *)
(* A crawl that has a contact to start with calls back once with up to     *)
(* `capacity' peers, the nearest first and this node not among them, or is *)
(* lost with a request of its own (NodeCrawler, ValueCrawler: CrawlEnds,   *)
(* LookupEnds; Node: AskerGetsTheOthers); one that has none never does.    *)
(*                                                                         *)
(* All inserts are of one key, and a peer is its distance to that key.     *)
(***************************************************************************)
EXTENDS Nearness, Sequences, SequencesExt

CONSTANTS Host,             \* the addresses that a bootstrap may be given
          Bootstrap,        \* the bootstrap
          Inserts, Lookups, \* the other operations, each begun at most once
          Peer,             \* the other nodes, as distances to the key
          Self,             \* the distance of self->id to the key
          Capacity          \* what kad_client_init sets self->capacity to

Operation == {Bootstrap} \cup Inserts \cup Lookups

ASSUME OperationAssumption ==
  /\ Bootstrap \notin Inserts \cup Lookups /\ Inserts \cap Lookups = {}
\* A distance has 256 bits, and an address is an array of fixed length.
ASSUME DistanceAssumption == Peer \subseteq Nat /\ IsFiniteSet(Peer) /\ Self \in Nat \ Peer
ASSUME HostAssumption == IsFiniteSet(Host)
ASSUME CapacityAssumption == Capacity \in Nat \ {0}

VARIABLES open,      \* kad_client_fini was not called
          capacity,  \* self->capacity
          fault,     \* "none", or how the program died
          known,     \* the table has a contact
          storage,   \* the inserts whose value was put in self->storage, in order
          phase,     \* how far each operation has come
          calls,     \* how often its `then' was called
          awaited,   \* bootstrap: the hosts whose ping has not called back
          answered,  \* bootstrap: those whose ping called back with success
          size,      \* bootstrap: *contacts_size
          count,     \* *bootstrap_result_count, and store_count of an insert
          total,     \* bootstrap_size, and total_store_count of an insert
          found,     \* insert: what its crawl called back with
          asked,     \* insert: the peers that were sent a store request
          pending    \* insert: those whose store has not called back

client == <<open, capacity, known, storage>>
bootstrap == <<awaited, answered, size>>
insert == <<found, asked, pending>>
vars == <<client, fault, phase, calls, count, total, bootstrap, insert>>

\* An operation is "idle", "pinging", "crawling", "storing" or "done"; or it is
\* "stranded", because nobody was asked, or "lost", because somebody it waits
\* for never calls back.
Init == /\ open = TRUE
        /\ capacity = Capacity
        /\ fault = "none"
        /\ known = FALSE
        /\ storage = <<>>
        /\ phase = [o \in Operation |-> "idle"]
        /\ calls = [o \in Operation |-> 0]
        /\ count = [o \in Operation |-> 0]
        /\ total = [o \in Operation |-> 0]
        /\ awaited = {} /\ answered = {} /\ size = 0
        /\ found = [i \in Inserts |-> {}]
        /\ asked = [i \in Inserts |-> {}]
        /\ pending = [i \in Inserts |-> {}]

-----------------------------------------------------------------------------
Alive == fault = "none"
Die(how) == /\ fault' = how
            /\ UNCHANGED <<client, phase, calls, count, total, bootstrap, insert>>

Moves(o, to) == phase' = [phase EXCEPT ![o] = to]
Calls(o) == calls' = [calls EXCEPT ![o] = @ + 1]

\* kad_nodecrawler_find, kad_valuecrawler_find: with no contact to start with,
\* there is nobody who calls back.
Crawls(o, seeded) == Moves(o, IF seeded THEN "crawling" ELSE "stranded")

\* A request of a peer arrives, or an answer names one: it is in the table from
\* then on (see Node and Table).
Hear == /\ Alive /\ open
        /\ ~ known
        /\ known' = TRUE
        /\ UNCHANGED <<open, capacity, storage, fault, phase, calls, count, total,
                       bootstrap, insert>>

-----------------------------------------------------------------------------
(* Bootstrap                                                               *)
-----------------------------------------------------------------------------
\* Mutant of LastResult: one result is not waited for.
LastResultEarly(n) == n >= total[Bootstrap] - 1

\* Mutant of LastResult: one result too many is waited for.
LastResultLate(n) == n > total[Bootstrap]

\* Every ping has called back.
LastResult(n) == n = total[Bootstrap]

\* kad_client_bootstrap: no hosts, and `then' runs at once ...
BootstrapNobody == /\ Alive /\ open
                   /\ phase[Bootstrap] = "idle"
                   /\ Moves(Bootstrap, "done")
                   /\ Calls(Bootstrap)
                   /\ UNCHANGED <<client, fault, count, total, bootstrap, insert>>

\* ... or every host is pinged, and some pings are refused at once.  If all
\* are, the crawl begins before the call returns, with nobody.
BootstrapHosts(hosts, refused) ==
  /\ Alive /\ open
  /\ phase[Bootstrap] = "idle"
  /\ hosts # {}
  /\ total' = [total EXCEPT ![Bootstrap] = Cardinality(hosts)]
  /\ count' = [count EXCEPT ![Bootstrap] = Cardinality(refused)]
  /\ awaited' = hosts \ refused
  /\ IF refused = hosts THEN Crawls(Bootstrap, FALSE) ELSE Moves(Bootstrap, "pinging")
  /\ UNCHANGED <<client, fault, calls, answered, size, insert>>

\* Mutant of ProcessResults: the contacts are not added to the table.
ProcessResultsUnlearned(ok, n) ==
  /\ ok
  /\ Crawls(Bootstrap, TRUE)
  /\ UNCHANGED <<known, fault>>

\* kad_client_bootstrap_process_results, with the context of the last result.
\* The array of a context is as long as the number n of answers so far and was
\* written at its end only; that of a failed ping is NULL.  So the table and the
\* crawl get the host that answered last and n - 1 contacts that nobody wrote,
\* or, if the last ping failed, NULL is read n times.
ProcessResults(ok, n) ==
  \/ /\ ok
     /\ known' = TRUE
     /\ Crawls(Bootstrap, TRUE)
     /\ UNCHANGED fault
  \/ /\ ~ ok /\ n = 0
     /\ Crawls(Bootstrap, FALSE)
     /\ UNCHANGED <<known, fault>>
  \/ /\ ~ ok /\ n > 0
     /\ fault' = "undefined"
     /\ UNCHANGED <<known, phase>>

\* *contacts_size after a result.
Learned(ok) == IF ok THEN size + 1 ELSE size

\* kad_client_bootstrap_ping_callback.
PingResult(h, ok) ==
  /\ awaited' = awaited \ {h}
  /\ answered' = IF ok THEN answered \cup {h} ELSE answered
  /\ size' = Learned(ok)
  /\ count' = [count EXCEPT ![Bootstrap] = @ + 1]
  /\ \/ /\ LastResult(count'[Bootstrap])
        /\ ProcessResults(ok, size')
     \/ /\ ~ LastResult(count'[Bootstrap])
        /\ UNCHANGED <<known, phase, fault>>
  /\ UNCHANGED <<open, capacity, storage, calls, total, insert>>

\* The identifier of the host that answered is read through a pointer that is
\* initialised from itself: the program dies, or goes on with an identifier that
\* may be any but this node's own.
PingEnds(h) ==
  /\ Alive
  /\ h \in awaited
  /\ \/ PingResult(h, FALSE)
     \/ open /\ PingResult(h, TRUE)
     \/ open /\ Die("undefined")

\* kad_client_bootstrap_crawler_callback: the table takes what was found.  When
\* the client is no more, the table has no bucket for a contact and aborts.
BootstrapCrawlEnds ==
  /\ Alive
  /\ phase[Bootstrap] = "crawling"
  /\ \/ /\ Moves(Bootstrap, "done")
        /\ Calls(Bootstrap)
        /\ UNCHANGED <<client, fault, count, total, bootstrap, insert>>
     \/ ~ open /\ Die("abort")

-----------------------------------------------------------------------------
(* Insert                                                                  *)
-----------------------------------------------------------------------------
\* kad_client_insert: a crawl that starts with the closest contacts of the table.
InsertBegins(i) == /\ Alive /\ open
                   /\ phase[i] = "idle"
                   /\ Crawls(i, known)
                   /\ UNCHANGED <<client, fault, calls, count, total, bootstrap, insert>>

\* insort_compare: both distances are those of the left contact.
InsortCompare(left, right) == left - left

\* kad_contactlist_insort, in a list that is sorted already.
Insort(list, p) ==
  LET l == Cardinality({j \in DOMAIN list : InsortCompare(list[j], p) < 0})
  IN  InsertAt(list, l + 1, p)

\* Mutant of InsertSize: everybody who was found.
InsertSizeAll(peers) == Cardinality(peers) + 1

\* insert_size.
InsertSize(peers) == LET n == Cardinality(peers) + 1
                     IN  IF n <= capacity THEN n ELSE capacity

\* The nodes that store, in the order in which they are asked.
InsertInto(peers) ==
  SubSeq(Insort(InOrder(peers), Self), 1, InsertSize(peers))

\* Who is sent a request.
Others(into) == ToSet(into) \ {Self}

\* Mutant of Outbound: this node is counted, too.
OutboundCounted(into) == Len(into)

\* total_store_count.
Outbound(into) == Cardinality(Others(into))

\* Nobody comes after this node.
SelfComesLast(into) == into # <<>> /\ Last(into) = Self

\* kad_client_insert_callback: this node stores, and the others are asked to.
\* Some requests are refused at once; if all are, the context is freed and
\* `then' is called within the loop.  The loop reads the context on.
Distribute(i, peers, refused) ==
  LET into == InsertInto(peers)
      out  == Others(into)
      ends == Cardinality(refused) = Outbound(into) /\ refused # {}
  IN
  /\ refused \subseteq out
  /\ found' = [found EXCEPT ![i] = peers]
  /\ asked' = [asked EXCEPT ![i] = out]
  /\ pending' = [pending EXCEPT ![i] = out \ refused]
  /\ total' = [total EXCEPT ![i] = Outbound(into)]
  /\ count' = [count EXCEPT ![i] = Cardinality(refused)]
  /\ storage' = IF Self \in ToSet(into) THEN Append(storage, i) ELSE storage
  /\ \/ ends /\ Moves(i, "done") /\ Calls(i)
     \/ ~ ends /\ Moves(i, IF out = {} THEN "stranded" ELSE "storing") /\ UNCHANGED calls
  /\ fault' = IF ends /\ SelfComesLast(into) THEN "freed"
              ELSE IF ~ open /\ out # {} THEN "null"
              ELSE fault

InsertCrawlEnds(i) ==
  /\ Alive
  /\ phase[i] = "crawling"
  /\ \E peers \in SUBSET Peer, refused \in SUBSET Peer :
       /\ Cardinality(peers) <= Capacity
       /\ Distribute(i, peers, refused)
  /\ UNCHANGED <<open, capacity, known, bootstrap>>

\* kad_client_insert_callback_store, whether the peer stored or not.
StoreEnds(i, p) ==
  /\ Alive
  /\ p \in pending[i]
  /\ pending' = [pending EXCEPT ![i] = @ \ {p}]
  /\ count' = [count EXCEPT ![i] = @ + 1]
  /\ \/ count'[i] = total[i] /\ Moves(i, "done") /\ Calls(i)
     \/ count'[i] # total[i] /\ UNCHANGED <<phase, calls>>
  /\ UNCHANGED <<client, fault, total, bootstrap, found, asked>>

-----------------------------------------------------------------------------
(* Lookup                                                                  *)
-----------------------------------------------------------------------------
\* kad_client_lookup: as for an insert.  What this node stores is not looked at.
LookupBegins(l) == /\ Alive /\ open
                   /\ phase[l] = "idle"
                   /\ Crawls(l, known)
                   /\ UNCHANGED <<client, fault, calls, count, total, bootstrap, insert>>

\* kad_client_lookup_callback.
LookupCrawlEnds(l) == /\ Alive
                      /\ phase[l] = "crawling"
                      /\ Moves(l, "done")
                      /\ Calls(l)
                      /\ UNCHANGED <<client, fault, count, total, bootstrap, insert>>

-----------------------------------------------------------------------------
(***************************************************************************)
(* Some pings, stores and crawls are lost.  Those who wait for them cannot *)
(* tell: other results go on being counted, but never reach the total.     *)
(***************************************************************************)
Nothing == [i \in Inserts |-> {}]
Waiting == {o \in Operation : phase[o] = "crawling"}
Drop(pings, stores, crawls) ==
  /\ awaited' = awaited \ pings
  /\ pending' = [i \in Inserts |-> pending[i] \ stores[i]]
  /\ phase' = [o \in Operation |->
                 IF \/ o = Bootstrap /\ pings # {}
                    \/ o \in Inserts /\ stores[o] # {}
                    \/ o \in crawls
                 THEN "lost" ELSE phase[o]]
  /\ UNCHANGED <<fault, calls, count, total, answered, size, found, asked>>

\* send_request_cb: the datagram could not be written.
LosePing(h) == /\ Alive /\ h \in awaited
               /\ Drop({h}, Nothing, {})
               /\ UNCHANGED client
LoseStore(i, p) == /\ Alive /\ p \in pending[i]
                   /\ Drop({}, [Nothing EXCEPT ![i] = {p}], {})
                   /\ UNCHANGED client
LoseCrawl(o) == /\ Alive /\ o \in Waiting
                /\ Drop({}, Nothing, {o})
                /\ UNCHANGED client

\* kad_uv_protocol_free: the promises are freed.  What is still queued fails
\* later, so any part of what is waited for may be lost (Protocol: Free).
DropPromises ==
  \E pings \in SUBSET awaited, stores \in [Inserts -> SUBSET Peer], crawls \in SUBSET Waiting :
    /\ \A i \in Inserts : stores[i] \subseteq pending[i]
    /\ Drop(pings, stores, crawls)

\* Mutant of Fini: the structure is not cleared.
FiniUncleared == /\ Alive /\ open
                 /\ DropPromises
                 /\ open' = FALSE /\ known' = FALSE
                 /\ UNCHANGED <<capacity, storage>>

\* kad_client_fini.
Fini == /\ Alive /\ open
        /\ DropPromises
        /\ open' = FALSE /\ known' = FALSE
        /\ capacity' = 0
        /\ storage' = <<>>

Begins == \/ BootstrapNobody
          \/ \E hosts \in SUBSET Host : \E refused \in SUBSET hosts :
               BootstrapHosts(hosts, refused)
          \/ \E i \in Inserts : InsertBegins(i)
          \/ \E l \in Lookups : LookupBegins(l)

CrawlEnds == \/ BootstrapCrawlEnds
             \/ \E i \in Inserts : InsertCrawlEnds(i)
             \/ \E l \in Lookups : LookupCrawlEnds(l)

Loses == \/ \E h \in Host : LosePing(h)
         \/ \E i \in Inserts, p \in Peer : LoseStore(i, p)
         \/ \E o \in Operation : LoseCrawl(o)

Next == \/ Begins \/ Hear \/ CrawlEnds \/ Loses \/ Fini
        \/ \E h \in Host : PingEnds(h)
        \/ \E i \in Inserts, p \in Peer : StoreEnds(i, p)

Spec == Init /\ [][Next]_vars

\* A request or a crawl that is not lost ends, as above.  Nothing says that one
\* is not lost, and nothing is assumed of the application: it may begin nothing,
\* and never take the client down.
FairSpec ==
  /\ Spec
  /\ \A h \in Host : WF_vars(PingEnds(h) \/ LosePing(h))
  /\ WF_vars(BootstrapCrawlEnds \/ LoseCrawl(Bootstrap))
  /\ \A i \in Inserts : /\ WF_vars(InsertCrawlEnds(i) \/ LoseCrawl(i))
                        /\ \A p \in Peer : WF_vars(StoreEnds(i, p) \/ LoseStore(i, p))
  /\ \A l \in Lookups : WF_vars(LookupCrawlEnds(l) \/ LoseCrawl(l))

-----------------------------------------------------------------------------
\* Whatever the order in which pings, crawls and stores end, and whichever of
\* them are refused within the call, `then' is called at most once, and not
\* while anything that the operation asked for is still to come.  The context of
\* an insert is freed by the last result, which comes within the loop if every
\* store is refused; the loop must not read it after that.  It does not, because
\* this node always comes first: insort_compare compares a distance with itself.
ThenOnceAtTheEnd ==
  \A o \in Operation :
    /\ calls[o] <= 1
    /\ phase[o] = "done" => calls[o] = 1
    /\ calls[o] = 1 => IF o = Bootstrap THEN awaited = {}
                       ELSE o \in Inserts => pending[o] = {}
    /\ fault # "freed"

\* README.md: "Keys and values are given to the K-closest peers".  What the code
\* does of it, while the client is open: this node always stores, and beside it
\* only the Capacity - 1 closest peers that the crawl found are asked.  So the
\* sentence is true of an insert exactly if this node is itself one of the
\* Capacity closest; otherwise insort_compare (client.c:376) has put it in the
\* place of the last of them, which gets nothing.
Storers(i) == asked[i] \cup (IF i \in ToSet(storage) THEN {Self} ELSE {})
ClosestStoreIffSelfIsClose ==
  \A i \in Inserts :
    LET closest == Nearest(found[i] \cup {Self}, Capacity) IN
    open /\ found[i] # {} =>
      /\ Self \in Storers(i)
      /\ Storers(i) \ {Self} = Nearest(found[i], Capacity - 1)
      /\ Storers(i) = closest <=> Self \in closest

\* A client that was taken down stores nothing any more, neither here nor at
\* others, although crawls of its inserts may end later and call back.
NothingStoredAfterFini ==
  [][~ open => UNCHANGED <<storage, asked>> /\ fault' # "null"]_vars

\* A bootstrap that pinged somebody calls `then', in whatever order pings end,
\* unless nobody answered, somebody it waits for is lost, or the program died.
BootstrapEnds ==
  phase[Bootstrap] = "pinging" ~>
    \/ calls[Bootstrap] = 1
    \/ phase[Bootstrap] = "stranded" /\ answered = {}
    \/ phase[Bootstrap] = "lost"
    \/ ~ Alive

\* An insert that has a peer to start with calls `then', even of a client that
\* was taken down, unless there was nobody to ask, somebody it waits for is lost,
\* or a bootstrap brought down the program.
InsertEnds ==
  \A i \in Inserts : phase[i] = "crawling" ~>
    (calls[i] = 1 \/ (phase[i] = "stranded" /\ asked[i] = {}) \/ phase[i] = "lost" \/ ~ Alive)

\* An insert, or a lookup, that begins after the `then' of a bootstrap which had
\* hosts is never left without a peer to start with.
BootstrapHelps ==
  [][open /\ phase[Bootstrap] = "done" /\ total[Bootstrap] # 0 =>
       \A o \in Inserts \cup Lookups :
         phase[o] = "idle" /\ phase'[o] # "idle" => phase'[o] = "crawling"]_vars
=============================================================================
