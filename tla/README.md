# A verification of kademlia-c

kademlia-c is a Kademlia node in C: a routing table of peers, an RPC protocol over UDP
driven by libuv, iterative crawls for peers and values, and a client that ties them
together.  This directory holds TLA+ models of its parts, the TLC configurations that
check them on small instances, and TLAPS proofs, for every value of the constants, of the
invariants of the routing table, the query for the closest peers, both sides of the protocol with its
messages, the contact heap and set, the two crawlers and the client, and of the three refinements.  Paths below are relative to the repository
(`src/table.c` is `src/src/table.c` in the machine-readable `PROJECT.json`).

## 1. Inventory

The program is single-threaded.  Everything happens on one libuv loop: a step of the system
is a call from outside or one callback run to its end.  What makes it hard is what happens
*between* the callbacks: a request is written, confirmed, answered and timed out in four
different callbacks, a crawl is the sum of many requests, and memory that one callback frees
is read by another.

| Component | Source | State | Operations | Used by |
|---|---|---|---|---|
| Uint256 | `uint256.c` | none | add, avg, and, xor, cmp, shifts, identifier of a key | everything |
| OrderedDict | `ds/ordereddict.c` | entries in order of insertion | insert, pop, popfront, popback, contains | Bucket |
| Bucket | `bucket.c` | range, contacts, replacements, time of the last touch | add, remove, depth, split | Table |
| Routing table | `table.c` | array of buckets | add, remove, split, ping the oldest | Protocol, Client |
| Closest-peer query | `table.c` | none | `kad_table_find_closest` | Protocol, Client |
| Contact list, contact set | `ds/list.h`, `ds/contactset.c` | growing array; hash table with linear probing | append, insort; add, contains, iterate, pop | heap, crawlers, query |
| Contact heap | `crawlers/contactheap.c` | array sorted by distance, set of marked identifiers | push, mark, remove, iterate | crawlers |
| Node crawler | `crawlers/nodecrawler.c` | heap, ignored peers, results of the round | find, handle a round | Client |
| Value crawler | `crawlers/valuecrawler.c` | the same | find, handle a round | Client |
| Protocol, asking | `protocol.c` | promises, one timer each | ping, store, find_node, find_value; send, receive, time out | crawlers, Table, Client |
| Protocol, answering | `protocol.c` | none of its own | four handlers; adds every sender to the table | the network |
| Payloads | `rpc.c` | none | write and parse requests and responses, free results | Protocol |
| Storage | `storage.c` | list of keys and values | put, get | Protocol, Client |
| Client | `client.c` | table, storage, protocol; one context per operation | bootstrap, insert, lookup | the application |
| Allocation, logging, contact | `alloc.c`, `logging.c`, `contact.c` | none | | everything |

How they interact.  *Client* seeds a crawler from the table's closest peers and starts it.
The *crawler* asks the protocol up to `alpha` times per round and is called back once per
request.  The *protocol* sends, keeps a promise per request, and calls back on an answer or on
a timeout; the callback is handed a result which the protocol frees as soon as it returns.
A received request adds its sender to the *table*, is answered from the table or the
*storage*.  When the table cannot take a contact, it asks the protocol to ping its oldest one,
and continues in the ping's callback.

What is hard, and what makes each component correct:

* **Bucket and table.**  A bucket has two lists that exchange contacts: replacements wait while
  the bucket is full, and are promoted when a contact is removed; a split redistributes both
  lists.  Correct means: the ranges partition the identifier space (`kad_table_get_bucket_index`
  calls `abort()` otherwise), a peer is in the bucket in which it will be looked for, it is
  recorded once, nobody waits beside a free place, and a live peer is never displaced by a
  new one.
* **Query.**  The walk goes outwards from the target's bucket by array position.  Correct means:
  it returns as many peers as it can, in order, without the excluded one, and the nearest.
* **Protocol.**  An answer can come before the promise exists, twice, late, or never; the timer of
  an answered request stays armed; identifiers come from `rand()`.  Correct means: a callback is
  run exactly once, with the answer to its own request, and no promise waits for ever.
* **Crawlers.**  A round ends when as many results were recorded as requests were counted.  Correct
  means: rounds neither stall nor end early, nobody is asked twice, dead peers are not returned,
  peers that were named are not lost, a stored value is returned intact.
* **Answering, payloads, storage.**  A request changes the table before it is answered from it, and
  a response names no type: its reader trusts the number.  Correct means: what the asker reads is what the
  node knows, a response is taken only for the request it answers, half a request is no request, and
  a value that was stored is found.
* **Client.**  Each operation is a chain of callbacks, some of which run before the call that caused them
  returns, on a context that the last one frees; several are under way at once, and the client may be
  taken down below them.  Correct means: `then` runs once and at the end, the right peers store, and nothing
  is stored or read that is gone.
* **Heap, set, Uint256.**  Binary search under removals, probing under rebuilds and deletions,
  limb arithmetic without a carry flag.  Correct means: what the textbook structure does.

`PROJECT.json` lists every hazard at the line where it bites.

## 2. Modules

| Module | Models | State ↔ code |
|---|---|---|
| `OrderedDict` | `ds/ordereddict.c` | the dictionary is the sequence of its entries, oldest first; the hash chains are left out |
| `Bucket` | `bucket.c` | a record `lo, hi, contacts, replacements`; `Half` is the split in closed form, `LoopHalf` the loops of the code |
| `Table` | `table.c` | `buckets` is the array, `pings` the `{old, new}` contexts under way, `status` becomes `undefined` on undefined behaviour |
| `PeerSet` | abstract specification | the live and spare peers as sets |
| `FindClosest` | `kad_table_find_closest` | operators on the state of `Table` |
| `Payload` | `rpc.c` | operators: messages as trees, what is written, what parses, what is read |
| `Node` | answering side of `protocol.c`, `storage.c` | the state of `Table`; `storage` is the list of entries; `last` is the last request and its answer as it leaves the node |
| `Store` | abstract specification | what is held under each key |
| `Protocol` | asking side of `protocol.c`, start and free | `mode` is the socket, `phase` the send context, `promises` the promise list, `timers` the armed timers, `net` the responses under way |
| `Requests` | abstract specification | which requests were made, called back, forgotten |
| `Client` | `client.c` | per operation: how far it has come, the counters of its context, how often `then` ran |
| `ContactHeap` | `crawlers/contactheap.c` | `heap` is the array (a peer is its distance); its marks are the state of `ContactSet` |
| `NodeCrawler` | `crawlers/nodecrawler.c` | the heap as a set, the round's results, the ignored peers |
| `ValueCrawler` | `crawlers/valuecrawler.c` | the same, with values |
| `ContactSet` | `ds/contactset.c` | the cells, `size`, and the hash function, which is arbitrary |
| `Numerals` | numbers and their digits, for `bucket.c`, `rpc.c` and `uint256.c` | operators: powers, digits, the number of a sequence of digits, exclusive and inclusive or |
| `Uint256` | `uint256.c` | numbers as sequences of limbs; the addition loop step by step |
| `Nearness` | `kad_contactheap_iter`, for those who take the heap as a set | operators: the nearest of a set of distances, and a set in order |

The theorems are in modules of their own, which extend what they are about:

| Module | Proves about |
|---|---|
| `ListProofs` | lemmas on numbers, sequences and `Nearness` that the others share |
| `TableProofs` | the operations of `OrderedDict` and `Bucket`; the invariants of `Table`; `Table` implements `PeerSet` |
| `NodeProofs` | the query of `FindClosest`, the messages of `Payload`, the invariants of `Node`; `Node` implements `Store` |
| `ProtocolProofs` | the invariants of `Protocol`; `Protocol` implements `Requests` |
| `HeapProofs` | the array and the hash table of `ContactHeap` and `ContactSet` |
| `NodeCrawlerProofs`, `ValueCrawlerProofs` | the invariants and action properties of the crawlers |
| `ClientProofs` | the invariants and action properties of `Client` |

How they compose.

* `Table` EXTENDS `Bucket` EXTENDS `OrderedDict`; `FindClosest` EXTENDS `Table`; `Bucket` and `Payload` EXTEND `Numerals`;
  `ContactHeap` EXTENDS `ContactSet`; `ContactHeap`, both crawlers and `Client` EXTEND `Nearness`.
* `Node` EXTENDS `FindClosest` and `Payload`: one step of it is the receipt of a datagram, which parses the
  message, adds the sender to the table, asks the table or the storage and writes the answer.
* Three refinements: `Table` implements `PeerSet` (the mapping is its live and spare peers), `Node` implements
  `Store` (a key holds the first entry found for it), `Protocol` implements `Requests` (a call is called back
  with the outcomes it had, and forgotten when its promise is freed with the protocol).
* `Client` takes requests and crawls as its environment and assumes of them what other runs show: a
  request calls back once or, when it could not be written or the protocol was freed, never (`ResolvedOnce`,
  `SentIsResolved`); a crawl that asks anybody calls back unless a request of its own is lost (`CrawlEnds`,
  `LookupEnds`); and this node is not among what it returns (`AskerGetsTheOthers`).
* `NodeCrawler` and `ValueCrawler` take the heap as the set of its members, which `IterationIsNearest`
  justifies, their ignored peers as a set, which `MarkedIffFound` justifies, and every request as answered
  once, failed once, or lost (`Lose`): `ResolvedOnce` and `SentIsResolved` justify the first two for requests that
  are written, and what they leave out is the third.
* `Protocol` takes from `AnswersAreToldApart` which results parse for which request.
* `Bucket` takes averages and comparisons as those of numbers, which `Uint256` justifies.

Conventions.  An action is one callback or call, whole: adding a contact is one of three
actions (`AddInPlace`, `AddSplitting`, `AddPinging`) by what the code does before it returns.
A definition that is a mutant stands directly before the definition it distorts and says so;
it is used by no specification.

Things in the code that the models keep on purpose:

* `kad_uint256_cmp` is an `int` used as a `bool` in `kad_table_can_split_bucket`: "lo is below id and
  id below hi" holds whenever `id` differs from both ends of the range, also when it lies outside.
  `CanSplit` says just that, so buckets far from the node's own identifier split as well.
* A contact that goes into a full bucket becomes a replacement *before* the split and is added again
  after it, once; the split itself is not repeated.
* A ping whose socket write never happens has no callback at all.  An abandoned ping leaves no trace
  in the table, so `AddPinging` may also leave `pings` alone.
* The callback of a failed ping reads a pointer that it initialises from itself.  `PingFailed` makes
  the `status` undefined and the model stops there: nothing can be said of what follows.
* The port of a sender is recorded as it stands in its address, in network byte order, while every other
  contact has it in host order (`SinPort`).  An answer passes the swapped port on.
* `kad_uint256_from_key` moves the bytes of a word up by single bits (`KeyId`).
* `insort_compare` measures the left contact twice, so `Insort` puts this node first, always.
* Each ping of a bootstrap has an array of its own and shares its size with the others; only the array of the
  last result is used (`ProcessResults`).  The identifier of a host that answered is read through a pointer
  initialised from itself: either the program dies (`fault` becomes `undefined`), or it goes on
  with any identifier but its own.
* A request whose datagram cannot be written never calls back.  For a crawl, a bootstrap or an insert that waits
  for it, it is lost: it stays among what is awaited (`lost` in the crawlers), the counter never reaches
  the total, and nothing ends.
* `kad_client_fini` clears the structure while operations may be under way.  Of the requests and crawls under way any
  may be lost, for their promises are freed; a request that is still queued fails later and calls back into the cleared
  client.  A crawl that goes on in this way makes its next requests of the freed protocol, so `Ask` and
  `AskRefused` do not ask whether it was freed, and `Requests` allows calls after its end.  A bootstrap whose
  crawl ends after that aborts in the table, which has no bucket.
* An operation with nobody to ask is `stranded`: nothing will ever call back.
* A lookup does not look into the node's own storage.
* A crawler's result is a copy whose arrays are freed when its callback returns.  Of all answers of a
  round but the last one, `Handle` sees only how many contacts there were (`MayRead`), or `Garbage` for
  a value.

## 3. What is checked

Every run has its module, configuration, properties and purpose in `PROJECT.json`; every property of a
passing run has a mutant, a plausible error in one definition under which TLC finds it violated.
`tlc -config X.cfg M` repeats a run.

| Run | Instance | Shows |
|---|---|---|
| `Table.cfg` | 3-bit identifiers, capacity 1, up to 2 replacements, self 4 | tiling, homes, single recording, spares only in full buckets, bounds; the closed form of a split is the loop; `Table` implements `PeerSet` |
| `TablePing.cfg` (`Table`) | 2-bit identifiers, capacity 1 | **violated**: `ReplacesDeadPeer` |
| `Node.cfg` | 4-bit identifiers, capacity 2, three askers, each from two ports; ping, store, find_node, find_value | the asker is recorded and reads what the node knows; a query is full, sorted, free of repetition, and nearest as far as the own bucket reaches; answers are told apart; only whole requests are taken; `PeerSet` and `Store` are implemented |
| `FindClosestK.cfg` (`FindClosest`) | 3-bit identifiers, capacity 2 | **violated**: `AnswerIsKClosest` |
| `Protocol.cfg` | a ping, a store and a find_node, 2 identifiers; started, or not, and freed at any moment, with calls made before and after | one callback at most, nothing forgotten and a timer for every promise; the answer to a unique identifier is one's own; what was written is resolved; `Requests` is implemented |
| `ProtocolHang.cfg` (`Protocol`) | 2 calls | **violated**: `CallerNeverHangs` |
| `ContactHeap.cfg` | 4 contacts, all hash functions into 4 values, capacity 2 | the array stays sorted; the table keeps room and marks are found across rebuilds; iteration is the set of the nearest |
| `NodeCrawler.cfg` | 5 peers, capacity 2, one or two requests at a time, each answered, failed or lost | rounds add up; nobody is asked twice; only live peers are returned; nobody who was named by an answer that is read intact is missed; a crawl ends exactly if no request is lost |
| `ValueCrawler.cfg` | 4 peers, two values, capacity 2, one or two requests at a time | one callback, exactly if no request is lost; NULL only after a thorough search; the value of the last answer of a round is handed out intact if it is the first |
| `ValueCrawlerStale.cfg` (`ValueCrawler`) | 3 peers, two at a time | **violated**: `ReturnsStoredValue` |
| `Uint256.cfg` | 3 limbs of 2 bits, all pairs | the addition loop ends; sum, average and comparison are arithmetic |
| `Client.cfg` | a bootstrap from up to two hosts, an insert, a lookup, all at once; peers 1, 2, 3, 5 around the node at 4, capacity 3; requests lost, and the client taken down, at any moment | `then` once and at the end, no freed context is read; the closest peers store exactly if the node is one of them; a bootstrap and an insert are called back unless something is lost or nobody is there; after a bootstrap no operation lacks a seed; nothing is stored after the end |

**Bounds, and why they suffice.**
Three-bit identifiers give tables of up to eight buckets, so there are splits of the first, a middle
and the last bucket and buckets that cannot split.  In `Table.cfg` a bucket has one place and its second
list is cut at two (capacity times factor, exclusive), so promotion, redistribution and
cutting all happen, and the spares have an order to get wrong; with `DepthStep = 1` the depth rule never
permits a split and only the comparison with the range's ends does.  In `Node.cfg` and
`FindClosestK.cfg` the step is 2 and both disjuncts of `CanSplit` decide (the code's 5 needs depths that
small identifiers do not have).  `MaxPings` bounds the pings that are told apart and not what the table does:
an addition that would exceed it takes the disjunct in which the ping leaves no trace.

`Node.cfg` has capacity 2, so contacts in one bucket have an order, and three askers that force splits into
three buckets, so that the walk leaves the own bucket to both sides, or, heard of in another order, make one wait
and the oldest be pinged; each comes from two ports, so a peer's
address changes.  Four-bit identifiers are two digits of base 4, the smallest in which the shifts of
`KeyId` differ from reading the digest.  Two values for one key are the smallest storage in which the order
counts, and `MaxStored = 2` admits both.  A message is changed in every member and parameter (`Changed`).

Three calls over two identifiers give a collision together with a third party (and, from other initial
states, three-way collisions), and their types differ in what they accept as a result; the network
delivers a response any number of times.  Five peers, or four for lookups, and capacity 2 give crawls of several rounds in
which answers, failures and lost requests mix within a round and a nearer peer is named late.  The contact set starts with
three cells and grows by two per contact, so four contacts rebuild it three times, with
collisions and wrap-around before and after.  Uint256 has three limbs, so a carry can be produced, pass through a
limb and be lost at the top.  `Client.cfg` has two hosts, so results race for being the last one;
four peers, three nearer than this node, and capacity 3, so lists are cut and this node may be nearest, in the middle,
farthest, or not among the closest at all.  Operations have their contexts to themselves and share only the table, the
storage and the end of the client, so one of each kind is enough.

`Table`, `Protocol` and `ContactHeap` have a type invariant; in the other modules the shape of the variables
is stated beside their declarations, and the properties say more of their contents.

**Fairness, and why the code justifies it.**
`Protocol` assumes that the loop runs: a queued datagram is written or fails, the callback of the
write is run, an armed timer expires.  It assumes nothing of peers or the network; the
properties follow from the timers alone.  The crawlers assume that each request is resolved *or lost* in the end
(weak fairness of `Reply(p) \/ Lose(p)`): the first is what `SentIsResolved` shows of requests that were written, the
second the finding `CallerNeverHangs` and the end of the protocol.  Nothing is assumed of which of the two it is, so
what ends is said together with what is lost.  `Client` assumes the same of pings, stores and crawls
that are under way, and nothing of the application: it may begin nothing and never take the client down.  `Uint256` is sequential code that runs on.  `TablePing.cfg` has weak
fairness of the whole next-state relation only to make its counterexample one of a program that does not just stop;
the violated property is an action property.

**Deadlock.**  `ContactHeap` excepted, the checks run without deadlock detection where the modelled
program may rightly stop: a table after undefined behaviour, a protocol with no call left, a crawl
that has called back, a client whose operations are over or which died, a computation that is finished.  That nothing stops
early is stated by the liveness properties instead.

### Findings

1. `AnswerIsKClosest`: `kad_table_find_closest` (`table.c:226`) stops when it has seen `capacity`
   contacts on a walk by array position, which is not a walk by XOR distance: nearer peers that the walk has not
   come to, in other buckets or in the one at which it stops, are missed.  The README promises the K closest.
2. `ReplacesDeadPeer`: `table.c:306` declares `user` initialised from itself; the dead peer is not
   replaced, contrary to the comment at `table.c:280`.  Repairing the declaration alone would not do:
   the context lives on the stack of a call that has returned.
3. `CallerNeverHangs`: `protocol.c:295` frees the context of a request that could not be written,
   without running its callback, and its timer does not exist yet.  What it does to those who wait for the
   request is in `CrawlEnds`, `LookupEnds`, `BootstrapEnds` and `InsertEnds`.
4. `ReturnsStoredValue`: `valuecrawler.c:202` keeps a shallow copy of a result whose value
   `protocol.c:567` frees; with `alpha` above one, as in the test, the value is read after that.
   `ReturnsFoundValue` says what the code does guarantee with any `alpha`.

Also seen while modelling, and not stated as violated properties:

* `nodecrawler.c:201` has the defect of finding 4 with the contacts of a result.  `MayRead` models it:
  with more than one request at a time, peers that were named may be missed and arbitrary ones pushed.
  The properties of `NodeCrawler` hold in spite of it; `NothingReadIsMissed` says which peers are
  not missed, with any number of requests at a time: those named by an answer that ends a round.
* `uint256.c:146` shifts the bytes of a digest by 3, 2, 1 and 0 *bits*, so identifiers of keys use at
  most eleven bits of each word and different digests may share one.
* `kad_contactset_contains` stops at a deleted cell, so after a `kad_contactset_pop`, which nothing
  calls, a contact may not be found and be stored again.
* A crawl that starts without a single contact asks nobody and never calls back (`CrawlEnds` excludes
  it by its condition).  So an insert or a lookup of a node that knows nobody, and a bootstrap none of whose hosts
  answers, never call back; nor does an insert whose crawl finds nobody (`client.c:350`: it waits for
  the last of no stores).  `BootstrapEnds`, `InsertEnds` and `BootstrapHelps` say when it does not come to that.
* `client.c:376` compares the left contact with itself, so the node stores every key that it inserts,
  and the last of the closest peers does not, whereas README.md:3 says that keys and values "are given to the K-closest
  peers".  `ClosestStoreIffSelfIsClose` states the disagreement exactly: that sentence is true of an insert if
  and only if this node is itself one of the K closest, and the instance has both cases.  The comparison is also what
  keeps the loop at `client.c:331` from reading a freed context: the node is never the last of its list.
* `client.c:212` and `client.c:219`: the contacts that a bootstrap starts its crawl with are uninitialised
  but for the last (`ProcessResults`); if the last ping fails after another has answered, a NULL array is read.
* A client that is taken down while a bootstrap crawl is waiting for a queued request aborts.
* `protocol.c:425` keeps a sender's port in network byte order.  It is right for nobody who is told of it.
* The buffer that `protocol.c:631` allocates for each datagram is not freed by `recv_cb`, nor are crawlers and
  the contexts of bootstraps.

## 4. What is proved

Each theorem holds for every value of the constants that the named assumptions of its modules admit.

| Module | Theorem | Statement |
|---|---|---|
| `TableProofs` | `TypeCorrect` | `Spec => []TypeOK` |
| | `AlwaysTiled` | `Spec => []Tiling`: the `abort()` of `kad_table_get_bucket_index` is unreachable |
| | `AlwaysAtHome` | `Spec => []AtHome` |
| | `AlwaysRecordedOnce` | `Spec => []RecordedOnce` |
| | `AlwaysSparesOnlyWhenFull` | `Spec => []SparesOnlyWhenFull` |
| | `AlwaysWithinBounds` | `Spec => []ListBounds` |
| | `TableIsSound` | `Spec => []IInv`, the inductive invariant they follow from |
| | `AlwaysSplitIsTheLoop` | `Spec => []SplitIsTheLoop` |
| | `ImplementsPeerSet` | `Spec => KeepsPeerSet` |
| `NodeProofs` | `AlwaysAnswerIsComplete` | `Spec => []AnswerIsComplete`, `NodeSpec => []AnswerIsComplete` |
| | `AlwaysOwnBucketIsNearest` | `Spec => []OwnBucketIsNearest`, `NodeSpec => []OwnBucketIsNearest` |
| | `AlwaysAskerGetsTheOthers` | `NodeSpec => []AskerGetsTheOthers` |
| | `AlwaysToldApart` | `NodeSpec => []AnswersAreToldApart` |
| | `AlwaysOnlyWholeRequests` | `NodeSpec => []OnlyWholeRequests` |
| | `StorageKeepsFirst` | `NodeSpec => KeepsStore` |
| | `NodeUsesTheTable` | `NodeSpec => Spec`, with the `Spec` of `Table` |
| | `NodeKeepsPeerSet` | `NodeSpec => KeepsPeerSet` |
| | `NodeIsSound` | `NodeSpec => []NodeIInv`, the inductive invariant they follow from |
| `ProtocolProofs` | `ProtocolTypeCorrect` | `Spec => []TypeOK` |
| | `AlwaysResolvedOnce` | `Spec => []ResolvedOnce`: no callback runs twice |
| | `NobodyForgotten` | `Spec => []NotForgotten` |
| | `AlwaysOwnAnswer` | `Spec => []OwnAnswer` |
| | `ImplementsRequests` | `Spec => KeepsRequests` |
| | `BooksAreKept` | `Spec => []IInv`; so named in `NodeCrawlerProofs`, `ValueCrawlerProofs` and `ClientProofs` too |
| `HeapProofs` | `AlwaysSorted` | `Spec => []ArrayIsSorted` |
| | `HeapTypeCorrect` | `Spec => []HeapTypeOK` |
| | `AlwaysFound` | `Spec => []MarkedIffFound` |
| | `AlwaysNearest` | `Spec => []IterationIsNearest` |
| `NodeCrawlerProofs` | `RoundsAlwaysAddUp` | `Spec => []RoundAccounting` |
| | `NobodyAskedTwice` | `Spec => []AskedAtMostOnce` |
| | `OnlyLivePeersReturned` | `Spec => []ReturnsOnlyLivePeers` |
| | `NobodyReadIsMissed` | `Spec => []NothingReadIsMissed` |
| `ValueCrawlerProofs` | `NullIsThorough` | `Spec => []NoneIsThorough` |
| | `FoundValueReturned` | `Spec => ReturnsFoundValue` |
| | `CalledBackOnce` | the callback of a lookup runs at most once |
| `ClientProofs` | `ThenIsCalledOnce` | `Spec => []ThenOnceAtTheEnd` |
| | `ClosestPeersStore` | `Spec => []ClosestStoreIffSelfIsClose` |
| | `NothingIsStoredAfterFini` | `Spec => NothingStoredAfterFini` |
| | `BootstrapAlwaysHelps` | `Spec => BootstrapHelps` |

`Spec` is the specification without fairness; what it implies, the fair one implies.  The proofs use the initial
condition and the next-state relation only.

**Assumptions.**  Identifiers are `0..MaxId` with `MaxId + 1 = 2 ^ IdBits`; capacity, replacement factor and depth
step are positive; the node's own identifier is one.  Contacts of a heap, a crawl or a client are natural numbers, the
distances that determine their identifiers; crawls and the client have finitely many peers and hosts, since sets
of them are counted; values are neither NULL nor garbage.  For a node: the words and digits of an identifier are
as many as its bits (`IdsAssumption`, `WordAssumption`: 8 words of 8 hexadecimal digits, 32 bits each, make 256); a port has two bytes; the
addresses of contacts include the swapped ports of those who ask (`AddrAssumption`); those who ask have an identifier other than the node's
own; and a full bucket has room for a replacement (`RoomAssumption`: 99 in the code), without which a sender might be
recorded nowhere.  Hash values are natural numbers, and a hash table is
rebuilt with at least two cells per contact.  No two kinds of request have a call in common.
TLC evaluates each of them in the runs of the module that declares it.

**Table.**  None of the invariants is inductive alone.  That a bucket has no replacement beside a
free place survives a split only because the two halves are filled from contacts before replacements
and the identifiers in both lists are distinct; that a contact lands in the bucket that
spans it needs the tiling; that the tiling survives a split needs the split range to hold two
identifiers, which follows because a full bucket holds at least one identifier in its range and the
new contact brings another.  `IInv` is therefore the conjunction of two parts: every bucket is *sound*
(`SoundBucket`: a non-empty range which is that of a prefix, `IsBlock`, both lists within it and distinct, no
identifier in both, bounds respected, spares only when full) and the buckets *tile* the space.  The proof has one lemma per
bucket operation (`AddKeepsSound`, `RemoveKeepsSound`, `HalfIsSound`), two about the array
(`ReplaceKeepsTiles`, `SplitKeepsTiles`), one per action of `Table`, and `StepIsSound` puts
them together.  That ranges are those of prefixes is not needed for the tiling, but for the query below.

**A split is the loop.**  Each of the three loops of `kad_bucket_split` has its form after *k* turns, and keeps it in the next: the
dictionary it fills is the first *k* contacts of both lists (`BothAreInserted`: as no identifier is in both, no
insertion overwrites), and a half is filled with those of the first *k* that fall into its range, the first `Capacity` of
them live (`HalfIsFilled`, by `FilledAppended`: a sound bucket never has so many replacements that one is dropped).

**Table implements PeerSet.**  Each call is described by what it does to the two sets of live and spare peers.  An
addition to a bucket refreshes a record, makes the contact live, or keeps it as a spare, which loses one spare at
most; a removal forgets an identifier and may promote one spare; a split only promotes.  That what holds of a
bucket holds of the table is the tiling once more: no other bucket has a peer with an identifier in the range.
`AddSplitting` is an addition, a split and an addition, and the composition of the three is again an addition of
`PeerSet`.

**Query.**  The distance is the number whose bits are those in which two identifiers differ (`DistanceOfBits`), so
no two identifiers have the same distance to a third (`DistancesDiffer`), and who shares a prefix with the target is nearer to
it than who does not (`BlockIsNearer`): their distance is smaller than the size of the block, and that of the others is not.
As the range of a bucket is a block, the peers of the target's own bucket are nearer than all others (`OwnAreNearer`).  The walk has been, after
*k* turns, to the buckets at most *k* places away, and has met each of their peers once (`VisitedIsAll`), those of the own bucket first.
The answer lists who was taken by distance (`ByDistanceProperties`), and if some of these are nearer than the rest, they are its head (`NearerComeFirst`).

**Messages.**  `IdSurvives`: an identifier is read as it was written, because the digits of a number give it back, those of a
word in the base of the text and the words in the base of their size.  A message says what its method and parameters do
(`Says`), and the reader looks at nothing else (`ReadsWhatItSays`).  So every request is heard as it was meant (`HeardIsMeant`), and a
changed one that still parses has a text in each of its parameters' places and says the same (`ChangedIsTheSame`).

**Node.**  Whatever datagram comes, the table is only asked to add a contact, so a step of the node is a step of the table
or none (`NodeStepIsSound`); hence `NodeUsesTheTable`, and all of the above holds of a node.  `NodeIInv` adds that the last
answer is the one that the handler makes of the present table, with some value or none, and that the
table knows the sender (`LastIsAnswer`, by `AddedIsKnown`).  That the asker reads the others, those nearest to what it asked for first, then follows from the
query and `ContactsSurvive`; that it reads the value, from the value's being what `Find` returns.
That answers are told apart is a matter of the forms of the four results (`ParsesByKind`).  `Store` is implemented because an entry at the
tail matters only when it is the first of its key (`FindAppended`).

**Protocol.**  Identifiers may collide, so a promise that an answer or a timer finds need not be that of its own call.
What is inductive is said of the *set* of registered calls: the list repeats nobody, a registered call is settled,
without outcome and not dropped, and every settled call is registered, resolved or dropped.  A step that resolves
a call takes just that one off the list.  Timers are counted per identifier: there are at least as many armed ones as
promises (`TimersSuffice`), which a repeated answer keeps because it takes away promises only, and an expiring timer
because it takes one of each or finds none.  `OwnAnswer` needs in addition that responses under way carry the identifier of the
call they answer.  The refinement of `Requests` is one step per action from the same invariant.

**Contact heap and contact set.**  `Search` and `Rebuilt` are recursive functions; that there are such functions, and what
they return, is shown by a least counterexample in the number of positions between the bounds of the loop (`LoopEnds`,
`LoopFinds`) and in the number of cells visited (`RebuildEnds`, `RebuiltHolds`).  What the search
returns splits the array at the new distance (`SearchSplits`), so that an insertion there keeps it sorted.  The walk
of an identifier, taken modulo the number of cells, meets every cell (`WalkMeetsAll`), so an identifier is found
wherever it is (`FindsIsHeld`), and a table that is not full has a cell for a new one (`PutAdds`).  The inductive part
is `MarksAreKept`: the table holds the marked identifiers, each in one cell, and is at most half full; a
rebuild keeps it because the table grows by a factor of at least two (`FreshIsRoomy`).  The hash function is any function.

**Crawlers.**  A peer that was asked is outstanding, among the results of the round, or marked, and in one of
the three only (`Apart`); what is marked answered or is ignored; what is ignored is not in the heap; `ndispatched` is
the number of those outstanding and those recorded (`RoundsAddUp`).  A lost request stays among those
outstanding.  `NothingReadIsMissed` adds that what was named by the last answer of a round is in the heap or is
ignored.  As long as a lookup
has not called back, a peer that answered it stores nothing, or there is a value among the results of the
current round (`ValuesAreKept`); so if only the last answer of a round brings a value, the others are
without one and the value is read before the protocol frees it (`ReturnsFoundValue`).

**Client.**  One part is about the list of those that store: `insort_compare` finds every contact equal to itself, so this
node always comes first and the nearest of the others follow (`SelfComesFirst`); hence the last of the
list is another peer, or there is nobody else, and the loop of `kad_client_insert_callback` never meets a freed context.  Who
stores is then this node and the nearest of the others that there is room for beside it, which is the
set of the closest if and only if this node is in that (`NearestByOrder`, `NearestWithOneMore`).  The other
is accounting: results that came and results to come add up to the number an operation counts to, unless one is
lost (`PingsAddUp`, `StoresAddUp`), so the last one is recognised, none comes after it, and a lost one is never made up for
(`FewerAreLeft`).  `kad_client_fini` is covered by one fact: a
closed client has capacity 0.

Induction.  The library states it only with operator parameters, so every induction here is a least element of a
set of counterexamples (`LeastOf`), as in `CountingOff` and in the proofs of `HeapProofs`.  `TableProofs`,
`ProtocolProofs`, `NodeCrawlerProofs`, `ValueCrawlerProofs`, `HeapProofs` and `ClientProofs` name their inductive invariant `IInv`.
TLC agrees with these invariants, and with `NodeIInv`, on the instances of section 3, once the quantifiers of `SoundLists` and
`MarksAreKept` that it cannot enumerate are bounded by `Id` and by 40.

**Only model-checked**, and why:

* Liveness, which the provers do not do: `SentIsResolved`, `CrawlEnds`, `LookupEnds`, `BootstrapEnds`, `InsertEnds`, the end of
  the addition loop of `Uint256`.
* `Uint256`: it uses the operators of `Bitwise`, which are RECURSIVE.  `FindClosest` and `Node` take the exclusive
  or and the or from `Numerals` instead, where they are functions of the digits.
* `CrawlEnds` and the others rest on fairness, but the safety that they need, that rounds add up and nobody is asked twice, is proved.

Not provable are the four properties of section 3 that the code violates.

## 5. What is not modelled, and why

* Time of the last touch of a bucket: only `kad_bucket_is_expired` reads it, for an iteration that nothing calls.
* Text below the level of JSON: cJSON prints and parses, `Payload` has its trees.  Text that is not JSON is dropped
  like a message without an `id`.
* Refreshing buckets: `kad_client_schedule_refresh` (`client.c:205`) has an empty body.
* `kad_contactset_pop`, which nothing calls; growth of the contact list and the other arrays.
* Requests from other than IPv4 sockets: the socket is bound to an IPv4 address.
* Allocation (aborts when memory runs out) and logging.

Assumed: a callback does not free the protocol that runs it; the storage is there when the protocol answers, as
`kad_client_init` sees to; memory that was never written does not happen to hold the node's own identifier.

## 6. What is left

All components are modelled as far as section 5 says, and every safety property and refinement that a run
shows is a theorem, those of `Uint256` excepted.  Left to do:

1. `Uint256` over the digits of `Numerals` instead of `Bitwise`, and a proof that its turns add up, which the addition loop
   allows limb by limb.
2. That the pieces fit together, as theorems: what `Client` assumes of requests and crawls is what the theorems about
   `Protocol` and the crawlers conclude, but the liveness among it is out of the provers' reach.
