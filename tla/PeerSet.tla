------------------------------- MODULE PeerSet -------------------------------
(***************************************************************************)
(* What a routing table promises about the peers it knows, whatever its    *)
(* data structure: it has live peers, which it hands out, and spare peers, *)
(* which wait for a place.  Table.tla implements it.                       *)
(***************************************************************************)
EXTENDS Integers, FiniteSets

CONSTANTS Id, Addr

VARIABLES live, spare

Peer == [id : Id, addr : Addr]

Others(P, id) == {p \in P : p.id # id}

Init == live = {} /\ spare = {}

\* A live peer is heard of again: only its address may change.
Refresh(p) == /\ \E q \in live : q.id = p.id
              /\ live' = Others(live, p.id) \cup {p}
              /\ UNCHANGED spare

\* Another peer is heard of.  It and spare peers may become live; no live peer
\* gives way, and at most one spare peer is forgotten.
Discover(p) ==
  /\ \A q \in live : q.id # p.id
  /\ \E promoted \in SUBSET (Others(spare, p.id) \cup {p}) :
     \E dropped \in {{}} \cup {{q} : q \in Others(spare, p.id)} :
       /\ promoted \cap dropped = {}
       /\ live' = live \cup promoted
       /\ spare' = (Others(spare, p.id) \cup {p}) \ (promoted \cup dropped)

\* A peer is forgotten; a live one may be succeeded by a spare one.
Forget(id) ==
  \E heir \in {{}} \cup {{q} : q \in Others(spare, id)} :
    /\ heir # {} => \E q \in live : q.id = id
    /\ live' = Others(live, id) \cup heir
    /\ spare' = Others(spare, id) \ heir

Next == \/ \E p \in Peer : Refresh(p) \/ Discover(p)
        \/ \E id \in Id : Forget(id)

Spec == Init /\ [][Next]_<<live, spare>>
=============================================================================
