-------------------------------- MODULE Node ---------------------------------
(***************************************************************************)
(* The answering side of kad_uv_protocol_t (protocol.c) together with what *)
(* it works on: the routing table (Table), the query for the closest peers *)
(* (FindClosest), the storage (storage.c) and the messages (Payload).      *)
(*                                                                         *)
(* One step is recv_cb run to its end for one datagram.  Requests come     *)
(* from any peer in any order, any number of times; a datagram that is     *)
(* dropped changes nothing and is no step (see OnlyWholeRequests).  The    *)
(* socket is bound to an IPv4 address, so every sender has one.            *)
(***************************************************************************)
EXTENDS FindClosest, Payload

CONSTANTS Asker,     \* the identifiers of the peers that send requests
          Port,      \* the ports they send from, as the sender knows them
          PortByte,  \* the number of values of a byte of a port
          Target,    \* the identifiers they ask for
          Digest,    \* the keys: a key stands for its SHA-256 digest
          Value,
          MaxStored  \* bound on the number of entries of the storage

WordBits == IdBits \div Limbs  \* 32

ASSUME AskerAssumption == Asker \subseteq Id \ {Self} /\ MaxStored \in Nat
ASSUME IdsAssumption == Power(WordSize, Limbs) = MaxId + 1
ASSUME WordAssumption == WordSize = Power(2, WordBits)
ASSUME PortAssumption == PortByte \in Nat \ {0} /\ Port \subseteq 0..(PortByte * PortByte - 1)
\* 100 in the code: a peer that finds no place among the live ones can wait.
ASSUME RoomAssumption == ReplacementFactor * Capacity > 1
ASSUME TargetAssumption == Target \subseteq Id /\ Digest \subseteq Id

VARIABLES storage,  \* the entries of kad_storage_t, from head to tail
          last      \* the last request that was answered, and its answer

nodeVars == <<buckets, pings, status, storage, last>>

-----------------------------------------------------------------------------
(* Storage                                                                 *)
-----------------------------------------------------------------------------
\* Mutant of Find: the last entry of the key.
FindLast(entries, k) ==
  LET of == {i \in DOMAIN entries : entries[i].key = k}
  IN  IF of = {} THEN Null ELSE Str(entries[CHOOSE i \in of : \A j \in of : i >= j].value)

\* kad_storage_lookup: the value of the first entry of the key, or NULL.
Find(entries, k) ==
  LET of == {i \in DOMAIN entries : entries[i].key = k}
  IN  IF of = {} THEN Null ELSE Str(entries[CHOOSE i \in of : \A j \in of : i <= j].value)

\* kad_storage_put.
Put(k, v) == storage' = Append(storage, [key |-> k, value |-> v])

-----------------------------------------------------------------------------
(* Requests                                                                *)
-----------------------------------------------------------------------------
\* A key as text, and the digest of the text.
KeyText(k)   == <<k>>
KeyOf(text)  == text[1]

\* kad_uint256_from_key: each word is put together from the bytes of the digest
\* that belong to it, moved up by one bit per place.  A byte has the size of a
\* digit here.
KeyId(digest) ==
  LET byte(w, j) == Digit(w, j) * Power(2, Digits - j)
      word(w) == LET moved[j \in 0..Digits] ==
                       IF j = 0 THEN 0 ELSE Or(moved[j - 1], byte(w, j), WordBits)
                 IN  moved[Digits]
  IN  Number([i \in 1..Limbs |-> word(WordOf(digest, i))], WordSize, Limbs)

\* What a peer may ask.
Request == [type : {"ping"}, id : Asker]
             \cup [type : {"store"}, id : Asker, key : Digest, value : Value]
             \cup [type : {"find_node"}, id : Asker, target : Target]
             \cup [type : {"find_value"}, id : Asker, key : Digest]

RequestId == 1

Written(r) ==
  CASE r.type = "ping"       -> PingRequest(r.id, RequestId)
    [] r.type = "store"      -> StoreRequest(r.id, KeyText(r.key), r.value, RequestId)
    [] r.type = "find_node"  -> FindNodeRequest(r.id, r.target, RequestId)
    [] r.type = "find_value" -> FindValueRequest(r.id, KeyText(r.key), RequestId)

-----------------------------------------------------------------------------
(* Answers                                                                 *)
-----------------------------------------------------------------------------
\* sin_port as it stands in the address of the sender: in network byte order.
\* Every other contact has its port in host order.
SinPort(port) == (port % PortByte) * PortByte + port \div PortByte

ASSUME AddrAssumption == {SinPort(port) : port \in Port} \subseteq Addr

\* recv_cb_request_add_contact.
AddSender(r, port) == AddContact([id |-> r.id, addr |-> SinPort(port)])

\* The requests that recv_cb makes out for what they are, and what it reads in
\* the message that a peer wrote for q.
Taken == {q \in Request : LET m == Written(q)
                         IN  HasRequestId(m) /\ IsRequest(m) /\ ParsesRequest(m)}
HeardFor == [q \in Taken |-> ReadRequest(Written(q))]
Heard(q) == HeardFor[q]

\* The step ends with the answer m, which the peer that asked q reads.
Answer(q, m) == last' = [asked |-> q, wire |-> m]

\* recv_cb_request_ping.
AnswerPing(q, r, port) == /\ r.type = "ping"
                          /\ AddSender(r, port)
                          /\ Answer(q, PingResponse(Self, RequestId))
                          /\ UNCHANGED storage

\* recv_cb_request_store.
AnswerStore(q, r, port) == /\ r.type = "store"
                           /\ Len(storage) < MaxStored
                           /\ AddSender(r, port)
                           /\ Put(KeyOf(r.key), r.value)
                           /\ Answer(q, StoreResponse(RequestId))

\* Mutant of AnswerFindNode: nobody is excluded from the query.
AnswerFindNodeToo(q, r, port) ==
  /\ r.type = "find_node"
  /\ AddSender(r, port)
  /\ Answer(q, FindNodeResponse(ClosestIn(buckets', r.target, NoId), RequestId))
  /\ UNCHANGED storage

\* recv_cb_request_find_node: the sender is in the table by the time the table
\* is asked.
AnswerFindNode(q, r, port) ==
  /\ r.type = "find_node"
  /\ AddSender(r, port)
  /\ Answer(q, FindNodeResponse(ClosestIn(buckets', r.target, r.id), RequestId))
  /\ UNCHANGED storage

\* recv_cb_request_find_value.
AnswerFindValue(q, r, port) ==
  LET key == KeyOf(r.key) IN
  /\ r.type = "find_value"
  /\ AddSender(r, port)
  /\ Answer(q, FindValueResponse(Find(storage, key),
                                 ClosestIn(buckets', KeyId(key), r.id), RequestId))
  /\ UNCHANGED storage

\* recv_cb and recv_cb_request, for the datagram that a peer sent for q.
Receive(q, port) ==
  /\ q \in Taken
  /\ \E r \in {Heard(q)} :
       \/ AnswerPing(q, r, port) \/ AnswerStore(q, r, port)
       \/ AnswerFindNode(q, r, port) \/ AnswerFindValue(q, r, port)

\* The pings of the table end (see Table).
PingEnds == /\ \E p \in pings : PingAnswered(p) \/ PingFailed(p)
            /\ UNCHANGED <<storage, last>>

NodeInit == Init /\ storage = <<>> /\ last = [asked |-> Null, wire |-> Null]

NodeNext == \/ \E q \in Request, port \in Port : Receive(q, port)
            \/ PingEnds

NodeSpec == NodeInit /\ [][NodeNext]_nodeVars

-----------------------------------------------------------------------------
Answered == last.asked # Null
AskedForContacts == Answered /\ last.asked.type \in {"find_node", "find_value"}
Got == ReadResult(last.wire, last.asked.type)

\* What a request for contacts is about: its target, or what its key is taken for.
TargetOf(q) == IF q.type = "find_node" THEN q.target ELSE KeyId(q.key)

\* Whoever was answered is known from then on, live or spare: the next peers
\* may be told of it.  A peer that asked for contacts reads in the answer, from
\* its text, what this node knows once it has recorded the peer: as many live
\* peers as the capacity allows, none twice and never the peer itself, and those
\* nearest to the target of the request, or to its key, first.  That it is never
\* told of itself the client relies on, who takes the contact with its own
\* identifier for itself (client.c:311).  One that asked for a value reads the
\* first that was stored under its key, or that there is none.
AskerGetsTheOthers ==
  /\ Answered => \E p \in LivePeers \cup SparePeers : p.id = last.asked.id
  /\ AskedForContacts =>
       LET got == Got.contacts
           ids == {c.id : c \in ToSet(got)}
       IN
       /\ last.asked.id \notin ids
       /\ ToSet(got) \subseteq Eligible(last.asked.id)
       /\ Cardinality(ids) = Len(got)
       /\ Len(got) = MinOf(Capacity, Cardinality(Eligible(last.asked.id)))
       /\ \A k \in 1..(Len(got) - 1) :
            Dist(got[k].id, TargetOf(last.asked)) < Dist(got[k + 1].id, TargetOf(last.asked))
       /\ last.asked.type = "find_value" => Got.value = Find(storage, last.asked.key)

\* A response has no type of its own, the asker takes that of the promise with
\* its number.  If that is a promise for another request, the response does not
\* parse: it parses for the requests of the type it answers, and for store
\* requests, which look at nothing.  Protocol relies on it (Parses).
AnswersAreToldApart ==
  Answered => \A type \in {"ping", "store", "find_node", "find_value"} :
    ParsesResult(last.wire, type) <=> type \in {last.asked.type, "store"}

\* What may become of a message, or what a peer of another make may send for
\* it: a member is missing or not what it was, an element is not a string, the
\* last one is missing or there is one more, an identifier is cut short or goes
\* on.
Changed(m) ==
  LET ps == Member(m, "params").items
      id == ps[1].text
      with(name, x) == Obj([m.members EXCEPT ![name] = x])
  IN  {Obj([n \in DOMAIN m.members \ {name} |-> m.members[n]]) : name \in DOMAIN m.members}
        \cup {with(name, Null) : name \in DOMAIN m.members}
        \cup {with("params", Arr(qs)) :
                qs \in {Front(ps), Append(ps, Null)}
                         \cup {[ps EXCEPT ![i] = Num(0)] : i \in DOMAIN ps}
                         \cup {[ps EXCEPT ![1] = Str(t)] : t \in {Front(id), Append(id, 0)}}}

\* recv_cb takes every request that a peer writes for what was meant, and a
\* changed one only if it still says the same: every parameter that the type asks
\* for is there and is read as before.
OnlyWholeRequests ==
  Answered => LET whole == Written(last.asked) IN
    /\ Taken = Request
    /\ Heard(last.asked).id = last.asked.id
    /\ last.asked.type = "find_node" => Heard(last.asked) = last.asked
    /\ \A m \in Changed(whole) :
         HasRequestId(m) /\ IsRequest(m) /\ ParsesRequest(m) =>
           /\ \A i \in DOMAIN Member(whole, "params").items : IsText(Param(m, i))
           /\ ReadRequest(m) = ReadRequest(whole)

Held == INSTANCE Store WITH Key   <- Digest,
                            Value <- {Str(v) : v \in Value},
                            None  <- Null,
                            held  <- [k \in Digest |-> Find(storage, k)]

\* The storage keeps the promise of Store: the first value of a key is the one
\* that find_value answers with ever after, whatever is stored later.
KeepsStore == Held!Spec
=============================================================================
