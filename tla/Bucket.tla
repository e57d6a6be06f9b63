------------------------------- MODULE Bucket --------------------------------
(***************************************************************************)
(* kad_bucket_t (bucket.c): an interval of identifiers, at most Capacity   *)
(* live contacts, oldest first, and a longer list of replacements.         *)
(*                                                                         *)
(* Identifiers are the numbers 0..MaxId, IdBits bits wide (256 in the      *)
(* code).  ReplacementFactor is the 5 of kad_bucket_add_replacement.       *)
(* last_touched_at is left out: only kad_table_iter_expired_buckets reads  *)
(* it, and nothing calls that.                                             *)
(***************************************************************************)
EXTENDS OrderedDict, Numerals

CONSTANTS IdBits, MaxId, Capacity, ReplacementFactor

ASSUME IdAssumption == IdBits \in Nat \ {0} /\ MaxId \in Nat
ASSUME WidthAssumption == MaxId + 1 = Power(2, IdBits)
ASSUME CapacityAssumption == Capacity \in Nat \ {0}
ASSUME ReplacementAssumption == ReplacementFactor \in Nat \ {0}

Id == 0..MaxId

\* kad_bucket_init, with the range its caller passes or assigns.
NewBucket(lo, hi) == [lo |-> lo, hi |-> hi, contacts |-> <<>>, replacements |-> <<>>]

\* kad_bucket_is_full.
IsFull(b) == Len(b.contacts) >= Capacity

\* The identifiers the bucket is responsible for.
InRange(b, id) == b.lo <= id /\ id <= b.hi

\* Mutant of AddReplacement: the head is dropped one contact too late.
AddReplacementTooLate(b, c) ==
  [b EXCEPT !.replacements =
     Newest(Insert(Pop(b.replacements, c.id), c), ReplacementFactor * Capacity)]

\* kad_bucket_add_replacement: to the tail, then drop from the head.
AddReplacement(b, c) ==
  [b EXCEPT !.replacements =
     Newest(Insert(Pop(b.replacements, c.id), c), ReplacementFactor * Capacity - 1)]

\* Mutant of TakesContact: a contact that is known already is not looked up.
TakesContactBySize(b, c) == ~ IsFull(b)

\* What kad_bucket_add_contact returns.
TakesContact(b, c) == Has(b.contacts, c.id) \/ ~ IsFull(b)

\* Mutant of BucketAdd: the oldest live contact makes room for the new one.
BucketAddEvicting(b, c) ==
  [b EXCEPT !.contacts = Newest(Insert(Pop(b.contacts, c.id), c), Capacity)]

\* kad_bucket_add_contact.
BucketAdd(b, c) ==
  IF TakesContact(b, c)
  THEN [b EXCEPT !.contacts = Insert(Pop(b.contacts, c.id), c)]
  ELSE AddReplacement(b, c)

\* Mutant of BucketRemove: no replacement is promoted.
BucketRemoveOnly(b, id) ==
  [b EXCEPT !.contacts = Pop(b.contacts, id), !.replacements = Pop(b.replacements, id)]

\* kad_bucket_remove_contact: a live contact that goes is succeeded by the
\* newest replacement.
BucketRemove(b, id) ==
  LET spare == Pop(b.replacements, id)
      live  == Pop(b.contacts, id)
  IN  IF Has(b.contacts, id) /\ spare # <<>>
      THEN [b EXCEPT !.contacts = Insert(live, Tailmost(spare)),
                     !.replacements = AllButTail(spare)]
      ELSE [b EXCEPT !.contacts = live, !.replacements = spare]

\* kad_bucket_depth: the length of the prefix all live contacts share.
SharePrefix(b, n) == \A i, j \in DOMAIN b.contacts :
                       b.contacts[i].id \div Power(2, IdBits - n) = b.contacts[j].id \div Power(2, IdBits - n)
Depth(b) == IF b.contacts = <<>> THEN 0
            ELSE Cardinality({n \in 1..IdBits : SharePrefix(b, n)})

\* Mutants of MidL: the sum is not halved, or it is rounded up.
MidLWhole(b) == b.lo + b.hi
MidLRoundedUp(b) == (b.lo + b.hi + 1) \div 2

\* kad_bucket_split cuts the range [lo, hi] after this identifier.
MidL(b) == (b.lo + b.hi) \div 2

\* Mutant of Half: the replacements are added back before the live contacts.
HalfSparesFirst(b, lo, hi) ==
  LET mine == Keep(b.replacements \o b.contacts, lo..hi)
      live == IF Len(mine) <= Capacity THEN Len(mine) ELSE Capacity
  IN  [lo |-> lo, hi |-> hi,
       contacts |-> SubSeq(mine, 1, live),
       replacements |-> SubSeq(mine, live + 1, Len(mine))]

(***************************************************************************)
(* One of the two buckets of kad_bucket_split.  Every contact, live ones   *)
(* first, is added again to the half it belongs to: the first Capacity of  *)
(* a half are live, the others are replacements.  (kad_bucket_add_contact  *)
(* would also move a repeated identifier and drop the oldest replacement   *)
(* of an overlong list; SplitIsTheLoop of Table says that no reachable     *)
(* bucket makes it do so.)                                                 *)
(***************************************************************************)
Half(b, lo, hi) ==
  LET mine == Keep(b.contacts \o b.replacements, lo..hi)
      live == IF Len(mine) <= Capacity THEN Len(mine) ELSE Capacity
  IN  [lo |-> lo, hi |-> hi,
       contacts |-> SubSeq(mine, 1, live),
       replacements |-> SubSeq(mine, live + 1, Len(mine))]

\* Mutant of RightHalf: it begins where the left half ends.
RightHalfOverlapping(b) == Half(b, MidL(b), b.hi)

LeftHalf(b)  == Half(b, b.lo, MidL(b))
RightHalf(b) == Half(b, MidL(b) + 1, b.hi)

\* The loops of kad_bucket_split, for one of the halves: empty both lists into
\* one dictionary, then add what falls into the half, from the front, with
\* kad_bucket_add_contact.
LoopHalf(b, lo, hi) ==
  LET both == b.contacts \o b.replacements
      all[n \in 0..Len(both)] ==
        IF n = 0 THEN <<>> ELSE Insert(all[n - 1], both[n])
      mine == all[Len(both)]
      half[n \in 0..Len(mine)] ==
        IF n = 0 THEN NewBucket(lo, hi)
        ELSE IF InRange(half[n - 1], mine[n].id) THEN BucketAdd(half[n - 1], mine[n])
        ELSE half[n - 1]
  IN  half[Len(mine)]
=============================================================================
