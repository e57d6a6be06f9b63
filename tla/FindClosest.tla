----------------------------- MODULE FindClosest -----------------------------
(***************************************************************************)
(* kad_table_find_closest (table.c), the query that every FIND_NODE and    *)
(* FIND_VALUE request and every lookup starts from: walk the buckets       *)
(* outwards from the one the target belongs to, gather Capacity contacts   *)
(* in that order, skipping an excluded one, and return them by ascending   *)
(* XOR distance.  It changes no state, so its properties are invariants of *)
(* the tables Table.tla reaches.                                           *)
(***************************************************************************)
EXTENDS Table

NoId == -1  \* a NULL exclude

\* kad_uint256_xor, as a function so that TLC computes it once.
XorOf == [x \in Id |-> [y \in Id |-> Xor(x, y, IdBits)]]
Dist(x, y) == XorOf[x][y]

\* The walk calls kad_table_find_closest_inner for every contact of a bucket,
\* which skips the excluded one.  There may be no bucket at the index.
Gather(bs, seen, i, exclude) ==
  IF i \in DOMAIN bs THEN seen \o Keep(bs[i].contacts, Id \ {exclude}) ELSE seen

\* Mutant of Visited: only one direction is walked.
VisitedUpwards(bs, id, exclude) ==
  LET bix == BucketIndexIn(bs, id)
      met[offset \in 0..Len(bs)] ==
        IF offset = 0 THEN Gather(bs, <<>>, bix, exclude)
        ELSE Gather(bs, met[offset - 1], bix + offset, exclude)
  IN  met[Len(bs)]

\* kad_table_traverse_buckets: bix, then bix - 1, bix + 1, bix - 2, ...
Visited(bs, id, exclude) ==
  LET bix == BucketIndexIn(bs, id)
      met[offset \in 0..Len(bs)] ==
        IF offset = 0 THEN Gather(bs, <<>>, bix, exclude)
        ELSE Gather(bs, Gather(bs, met[offset - 1], bix - offset, exclude),
                    bix + offset, exclude)
  IN  met[Len(bs)]

\* The order of the array that kad_table_find_closest_inner inserts into.
ByDistance(P, id) ==
  [k \in 1..Cardinality(P) |->
     CHOOSE p \in P : Cardinality({q \in P : Dist(q.id, id) < Dist(p.id, id)}) = k - 1]

\* kad_table_find_closest: the walk stops when Capacity contacts are in the array.
ClosestIn(bs, id, exclude) ==
  LET seen == Visited(bs, id, exclude)
  IN  ByDistance(ToSet(IF Len(seen) <= Capacity THEN seen ELSE SubSeq(seen, 1, Capacity)), id)
Closest(id, exclude) == ClosestIn(buckets, id, exclude)

-----------------------------------------------------------------------------
\* The excludes that may matter: nobody, or a peer that the table has.
Excludable == {p.id : p \in LivePeers \cup SparePeers} \cup {NoId}

Eligible(exclude) == {p \in LivePeers : p.id # exclude}

\* The n eligible peers nearest to the target.
NearestTo(id, P, n) ==
  {p \in P : Cardinality({q \in P : Dist(q.id, id) < Dist(p.id, id)}) < n}

MinOf(m, n) == IF m <= n THEN m ELSE n

\* The answer of kad_table_find_closest never repeats, never contains the
\* excluded peer, is as long as the live peers and the capacity allow, and is
\* in ascending order of distance.
AnswerIsComplete ==
  \A id \in Id, exclude \in Excludable :
    LET answer == Closest(id, exclude) IN
    /\ ToSet(answer) \subseteq Eligible(exclude)
    /\ Cardinality(ToSet(answer)) = Len(answer)
    /\ Len(answer) = MinOf(Capacity, Cardinality(Eligible(exclude)))
    /\ \A k \in 1..(Len(answer) - 1) : Dist(answer[k].id, id) < Dist(answer[k + 1].id, id)

\* As far as the target's own bucket reaches, the answer of
\* kad_table_find_closest is the true one: the contacts of that bucket come
\* first and no live peer of another bucket is nearer.  This is where the
\* ranges that bucket splits produce have to be aligned to identifier prefixes.
OwnBucketIsNearest ==
  \A id \in Id, exclude \in Excludable :
    LET own    == {c \in ToSet(buckets[BucketIndex(id)].contacts) : c.id # exclude}
        answer == Closest(id, exclude)
    IN  ToSet(SubSeq(answer, 1, Cardinality(own))) = own
        /\ own = NearestTo(id, Eligible(exclude), Cardinality(own))

\* README.md: "we can find the K-closest peers".  The answer is the Capacity
\* peers of the table that are nearest to the target.
AnswerIsKClosest ==
  \A id \in Id :
    ToSet(Closest(id, NoId)) = NearestTo(id, Eligible(NoId), Capacity)
=============================================================================
