-------------------------------- MODULE Table --------------------------------
(***************************************************************************)
(* kad_table_t (table.c): the routing table.  The buckets are kept in an   *)
(* array sorted by range; a contact is added to the bucket of its          *)
(* identifier, which splits at most once per call, and when it neither has *)
(* room nor may split its oldest contact is pinged.                        *)
(*                                                                         *)
(* Contacts arrive from the network in any order (protocol.c adds the      *)
(* sender of every request, client.c the peers it bootstraps from) and are *)
(* removed by identifier.  The answer to a ping arrives later, through     *)
(* kad_table_add_contact_inner_ping_callback.                              *)
(***************************************************************************)
EXTENDS Bucket

CONSTANTS Self,       \* s->id, the identifier of this node
          Addr,       \* the addresses a contact may have
          DepthStep,  \* the 5 of kad_table_can_split_bucket
          MaxPings    \* bound on the outstanding pings that are told apart

ASSUME SelfAssumption == Self \in Id
ASSUME StepAssumption == DepthStep \in Nat \ {0} /\ MaxPings \in Nat

Contact == [id : Id, addr : Addr]

VARIABLES buckets,  \* s->buckets, s->nbuckets
          pings,    \* the {old, new} of the pings that are under way
          status    \* "running" or "undefined"

vars == <<buckets, pings, status>>

-----------------------------------------------------------------------------
Init == /\ buckets = <<NewBucket(0, MaxId)>>
        /\ pings = {}
        /\ status = "running"

\* kad_table_get_bucket_index: the first bucket whose range holds id.  The
\* function aborts the program when there is none, which Tiling rules out.
BucketIndexIn(bs, id) == CHOOSE i \in DOMAIN bs :
                           /\ InRange(bs[i], id)
                           /\ \A j \in 1..(i - 1) : ~ InRange(bs[j], id)
BucketIndex(id) == BucketIndexIn(buckets, id)

\* kad_table_can_split_bucket.  kad_uint256_cmp is an integer converted to
\* bool, so "above" and "below" only say that Self differs from an end of
\* the range.
CanSplit(b) == \/ Self # b.lo /\ Self # b.hi
               \/ Depth(b) % DepthStep # 0

\* kad_table_split_bucket: the bucket at ix becomes two, the later buckets
\* move one place up.
SplitAt(bs, ix, b) ==
  [j \in 1..(Len(bs) + 1) |-> IF j < ix THEN bs[j]
                              ELSE IF j = ix THEN LeftHalf(b)
                              ELSE IF j = ix + 1 THEN RightHalf(b)
                              ELSE bs[j - 1]]

-----------------------------------------------------------------------------
\* No undefined behaviour so far.  Nothing can be said of a program after it.
Running == status = "running"

\* kad_table_add_contact, when the bucket has the contact or has room.
AddInPlace(c) ==
  LET ix == BucketIndex(c.id) IN
  /\ Running
  /\ TakesContact(buckets[ix], c)
  /\ buckets' = [buckets EXCEPT ![ix] = BucketAdd(buckets[ix], c)]
  /\ UNCHANGED <<pings, status>>

\* Mutant of AddSplitting: the index from before the split is used again.
AddSplittingStale(c) ==
  LET ix   == BucketIndex(c.id)
      full == BucketAdd(buckets[ix], c)
      two  == SplitAt(buckets, ix, full)
  IN
  /\ Running
  /\ ~ TakesContact(buckets[ix], c)
  /\ CanSplit(full)
  /\ buckets' = [two EXCEPT ![ix] = BucketAdd(two[ix], c)]
  /\ UNCHANGED <<pings, status>>

\* kad_table_add_contact, when the bucket is full and may split.  The contact
\* has become a replacement by then; it is added again, once, after the split.
AddSplitting(c) ==
  LET ix   == BucketIndex(c.id)
      full == BucketAdd(buckets[ix], c)
      two  == SplitAt(buckets, ix, full)
      jx   == BucketIndexIn(two, c.id)
  IN
  /\ Running
  /\ ~ TakesContact(buckets[ix], c)
  /\ CanSplit(full)
  /\ buckets' = [two EXCEPT ![jx] = BucketAdd(two[jx], c)]
  /\ UNCHANGED <<pings, status>>

\* kad_table_add_contact, when the bucket is full and may not split: the
\* contact stays a replacement and the contact at the head is pinged.  The
\* ping is under way; or nobody will be called back, because no protocol is
\* set or the request is never written (SendFails in Protocol); or it fails at
\* once, which runs the failing callback from within the call.
AddPinging(c) ==
  LET ix == BucketIndex(c.id)
      b  == buckets[ix]
  IN
  /\ Running
  /\ ~ TakesContact(b, c)
  /\ ~ CanSplit(BucketAdd(b, c))
  /\ buckets' = [buckets EXCEPT ![ix] = BucketAdd(b, c)]
  /\ \/ /\ Cardinality(pings) < MaxPings
        /\ pings' = pings \cup {[old |-> b.contacts[1].id, new |-> c]}
        /\ UNCHANGED status
     \/ UNCHANGED <<pings, status>>
     \/ /\ status' = "undefined"
        /\ UNCHANGED pings

AddContact(c) == AddInPlace(c) \/ AddSplitting(c) \/ AddPinging(c)

\* kad_table_remove_contact.
RemoveContact(id) ==
  LET ix == BucketIndex(id) IN
  /\ Running
  /\ buckets' = [buckets EXCEPT ![ix] = BucketRemove(buckets[ix], id)]
  /\ UNCHANGED <<pings, status>>

\* kad_table_add_contact_inner_ping_callback(true, ...).
PingAnswered(p) == /\ Running
                   /\ p \in pings
                   /\ pings' = pings \ {p}
                   /\ UNCHANGED <<buckets, status>>

(***************************************************************************)
(* kad_table_add_contact_inner_ping_callback(false, ...).  The inner       *)
(* declaration of "user" shadows the parameter and is initialised from     *)
(* itself, so the two calls that follow go through a pointer that was      *)
(* never set.  Nothing the table promises survives that step.              *)
(***************************************************************************)
PingFailed(p) == /\ Running
                 /\ p \in pings
                 /\ pings' = pings \ {p}
                 /\ status' = "undefined"
                 /\ UNCHANGED buckets

Next == \/ \E c \in Contact : AddContact(c)
        \/ \E id \in Id : RemoveContact(id)
        \/ \E p \in pings : PingAnswered(p) \/ PingFailed(p)

\* The peers that the table has, and those that wait.
LivePeers  == UNION {ToSet(buckets[i].contacts) : i \in DOMAIN buckets}
SparePeers == UNION {ToSet(buckets[i].replacements) : i \in DOMAIN buckets}

\* The table from its creation on.
Spec == Init /\ [][Next]_vars

(***************************************************************************)
(* Invariants                                                              *)
(***************************************************************************)
BucketType ==
  [lo : Id, hi : Id, contacts : Seq(Contact), replacements : Seq(Contact)]

\* The variables have the shape of the structures they stand for.
TypeOK == /\ buckets \in Seq(BucketType)
          /\ pings \subseteq [old : Id, new : Contact]
          /\ status \in {"running", "undefined"}

Tiles(bs) ==
  /\ Len(bs) >= 1
  /\ bs[1].lo = 0
  /\ bs[Len(bs)].hi = MaxId
  /\ \A i \in DOMAIN bs : bs[i].lo <= bs[i].hi
  /\ \A i \in 1..(Len(bs) - 1) : bs[i].hi + 1 = bs[i + 1].lo

\* The ranges of the buckets, in array order, cover the identifier space from
\* its first to its last element without a gap or an overlap, and none is
\* empty.  So kad_table_get_bucket_index finds exactly one bucket whatever it
\* is asked for and its abort() is never reached, and every split cuts between
\* two identifiers.
Tiling == Tiles(buckets)

HomeOf(b) == {p \in Contact : InRange(b, p.id)}

\* Every known peer, live or spare, is in the bucket where
\* kad_table_get_bucket_index will look for it, also after the splits that have
\* redistributed it.
AtHome == \A i \in DOMAIN buckets : /\ buckets[i].contacts \in Seq(HomeOf(buckets[i]))
                                    /\ buckets[i].replacements \in Seq(HomeOf(buckets[i]))

\* Whatever sequence of additions, splits, promotions and removals led here, a
\* bucket records an identifier at most once, live or spare.
RecordedOnce ==
  \A i \in DOMAIN buckets : Distinct(buckets[i].contacts \o buckets[i].replacements)

\* A replacement waits only while its bucket is full: neither a split nor a
\* removal leaves a free place that a known peer could have taken.
SparesOnlyWhenFull ==
  \A i \in DOMAIN buckets : buckets[i].replacements # <<>> => IsFull(buckets[i])

\* The lists never outgrow the capacities that bucket.c gives them.
ListBounds ==
  \A i \in DOMAIN buckets : /\ Len(buckets[i].contacts) <= Capacity
                            /\ Len(buckets[i].replacements) < ReplacementFactor * Capacity

\* When a full bucket splits, its halves are those that the loops of
\* kad_bucket_split produce, in the same order: on the way no contact is moved
\* within a list and no replacement is dropped.
SplitIsTheLoop ==
  \A i \in DOMAIN buckets : \A c \in Contact :
    (BucketIndex(c.id) = i /\ ~ TakesContact(buckets[i], c)) =>
      LET b == BucketAdd(buckets[i], c) IN
      /\ LeftHalf(b)  = LoopHalf(b, b.lo, MidL(b))
      /\ RightHalf(b) = LoopHalf(b, MidL(b) + 1, b.hi)

-----------------------------------------------------------------------------
(* What a step may do to the peers the table knows                         *)
-----------------------------------------------------------------------------
Peers == INSTANCE PeerSet WITH live <- LivePeers, spare <- SparePeers

\* The table keeps the promises of PeerSet: what it learns it records with the
\* newest address, no live peer is evicted or demoted to make room for another
\* (not even by a split), at most one spare peer is forgotten for a new one,
\* and a removal concerns the named peer and at most one successor.
KeepsPeerSet == Peers!Spec

\* The comment in kad_table_add_contact_inner: "We need to issue a task to ping
\* the oldest node in the bucket, and replace it if that ping fails."
ReplacesDeadPeer ==
  [][\A p \in pings : PingFailed(p) => /\ \A q \in LivePeers' : q.id # p.old
                                       /\ p.new \in LivePeers']_vars

\* The program keeps running: peers are added and removed and pings end.
FairSpec == Spec /\ WF_vars(Next)
=============================================================================
