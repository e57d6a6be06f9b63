----------------------------- MODULE ContactHeap -----------------------------
(***************************************************************************)
(* kad_contactheap_t (crawlers/contactheap.c): the contacts a crawl knows, *)
(* in an array sorted by XOR distance to the target, and the set of those  *)
(* that have been asked, which is a ContactSet.                            *)
(*                                                                         *)
(* The distance to a fixed target determines the identifier, so a contact  *)
(* is represented by its distance: Member is a set of distances.           *)
(***************************************************************************)
EXTENDS ContactSet, Nearness, SequencesExt

CONSTANT Capacity  \* how many contacts count as near

ASSUME DistanceAssumption == Member \subseteq Nat
ASSUME CapacityAssumption == Capacity \in Nat \ {0}

VARIABLES heap,   \* heap_contacts and heap_distances
          marked  \* the contacts that kad_contactheap_mark was called for

vars == <<cells, size, hash, heap, marked>>

Init == SetInit /\ heap = <<>> /\ marked = {}

Members == ToSet(heap)

\* The bounds l and r of the loop.
Bounds(h) == (0..Len(h)) \X (0..Len(h))

\* Mutant of Search: the right bound starts at the last position instead of
\* one past it.
SearchShort(h, d) ==
  LET pos[lr \in Bounds(h)] ==
        IF lr[1] >= lr[2] THEN lr[1]
        ELSE LET mid == (lr[1] + lr[2]) \div 2 IN
             IF d < h[mid + 1] THEN pos[<<lr[1], mid>>] ELSE pos[<<mid + 1, lr[2]>>]
  IN  IF h = <<>> THEN 0 ELSE pos[<<0, Len(h) - 1>>]

(***************************************************************************)
(* The binary search of kad_contactheap_push, on the bounds l and r of its *)
(* loop.  Array positions start at 0 in the code.                          *)
(***************************************************************************)
Search(h, d) ==
  LET pos[lr \in Bounds(h)] ==
        IF lr[1] >= lr[2] THEN lr[1]
        ELSE LET mid == (lr[1] + lr[2]) \div 2 IN
             IF d < h[mid + 1] THEN pos[<<lr[1], mid>>] ELSE pos[<<mid + 1, lr[2]>>]
  IN  pos[<<0, Len(h)>>]

\* kad_contactheap_push.
Push(d) == /\ heap' = IF d \in Members THEN heap
                      ELSE InsertAt(heap, Search(heap, d) + 1, d)
           /\ UNCHANGED <<cells, size, hash, marked>>

\* kad_contactheap_mark.
Mark(d) == /\ SetAdd(d)
           /\ marked' = marked \cup {d}
           /\ UNCHANGED heap

\* kad_contactheap_remove.
Discard(d) == /\ heap' = IF d \in Members THEN RemoveFirst(heap, d) ELSE heap
              /\ UNCHANGED <<cells, size, hash, marked>>

Next == \E d \in Member : Push(d) \/ Mark(d) \/ Discard(d)

Spec == Init /\ [][Next]_vars

\* kad_contactheap_iter: the first Capacity contacts of the array.
Iterated == SubSeq(heap, 1, IF Len(heap) < Capacity THEN Len(heap) ELSE Capacity)

\* kad_contactheap_unmarked_cb: the contacts of a list that are not marked.
Unmarked(list) ==
  LET left == InOrder({i \in DOMAIN list : ~ Finds(cells, list[i])})
  IN  [k \in DOMAIN left |-> list[left[k]]]

\* Mutant of UnmarkedInOrder: the marked contacts do not count towards Capacity.
UnmarkedFarAway ==
  LET left == Unmarked(heap)
  IN  SubSeq(left, 1, IF Len(left) < Capacity THEN Len(left) ELSE Capacity)

\* kad_contactheap_unmarked: the ones of the iterated that are not marked, in order.
UnmarkedInOrder == Unmarked(Iterated)

\* kad_contactheap_done.
Done == UnmarkedInOrder = <<>>

-----------------------------------------------------------------------------
\* The variables have the shape of kad_contactheap_t and kad_contactset_t.  The
\* hash table is at most half full, so kad_contactset_add never leaves its loop
\* without having placed the contact; and s->size, on which the rebuild depends,
\* is the number of cells in use.
HeapTypeOK == /\ cells \in [0..(NumCells(cells) - 1) -> Member \cup {Empty}]
              /\ size = Cardinality(Occupied(cells)) /\ 2 * size <= NumCells(cells)
              /\ hash \in [Member -> HashValue]
              /\ heap \in Seq(Member)
              /\ marked \subseteq Member

\* The array is the ascending enumeration of its members, however pushes and
\* removals are interleaved: the binary search of kad_contactheap_push relies
\* on it and keeps it.
ArrayIsSorted == \A i, j \in DOMAIN heap : i < j => heap[i] < heap[j]

\* The hash table is the set of the marked contacts: kad_contactset_contains
\* finds an identifier exactly if it was marked before, wherever its hash put it
\* and however often the table was rebuilt since, and an identifier occupies
\* one cell.  On this a crawler relies when it asks nobody twice.
MarkedIffFound == /\ \A d \in Member : Finds(cells, d) <=> d \in marked
                  /\ Cardinality(Occupied(cells)) = Cardinality(marked)

\* What the crawlers say of the array in terms of the set of its members: the
\* unmarked contacts of kad_contactheap_unmarked are those among the Capacity
\* nearest members, and a crawl is done when those are all marked.
IterationIsNearest == /\ ToSet(UnmarkedInOrder) = Nearest(Members, Capacity) \ marked
                      /\ Done <=> Nearest(Members, Capacity) \subseteq marked
=============================================================================
