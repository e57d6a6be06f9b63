----------------------------- MODULE ContactSet ------------------------------
(***************************************************************************)
(* kad_contactset_t (ds/contactset.c): the hash table behind the marks of  *)
(* a ContactHeap and the ignored peers of a crawler.  Collisions are       *)
(* resolved by linear probing, and the table is rebuilt, in the order of   *)
(* its cells, before it is more than half full.                            *)
(*                                                                         *)
(* A contact is represented by its identifier.  The hash of an identifier  *)
(* is any number of HashValue, chosen once.  InitialSize, GrowFactor and   *)
(* GrowBase are the 11, 5 and 11 of kad_contactset_init and _reserve.      *)
(* kad_contactset_pop is public but the program never calls it, so that no *)
(* cell is ever KAD_CONTACTSETCELLSTATE_DELETED here.                      *)
(***************************************************************************)
EXTENDS Integers, Sequences, FiniteSets

CONSTANTS Member, HashValue, InitialSize, GrowFactor, GrowBase,
          Empty  \* KAD_CONTACTSETCELLSTATE_EMPTY

ASSUME HashAssumption == HashValue \subseteq Nat
ASSUME GrowthAssumption == /\ InitialSize \in Nat \ {0} /\ GrowBase \in Nat
                           /\ GrowFactor \in Nat /\ GrowFactor >= 2
ASSUME CellAssumption == Empty \notin Member

VARIABLES cells,  \* s->cells, numbered from 0
          size,   \* s->size
          hash    \* kad_contactset_hash

NumCells(cs) == Cardinality(DOMAIN cs)
Occupied(cs) == {i \in DOMAIN cs : cs[i] # Empty}

\* The walk from the cell an identifier hashes to, once around the table.
Probe(cs, id) == [k \in 0..(NumCells(cs) - 1) |-> (hash[id] + k) % NumCells(cs)]

\* kad_contactset_contains: an empty cell does not end the walk.
Finds(cs, id) == \E k \in DOMAIN Probe(cs, id) : cs[Probe(cs, id)[k]] = id

\* The first step of the walk of _add that meets an empty cell.
IsFree(cs, id, k) == cs[Probe(cs, id)[k]] = Empty
FirstFree(cs, id) == CHOOSE k \in DOMAIN Probe(cs, id) :
                       IsFree(cs, id, k) /\ \A j \in 0..(k - 1) : ~ IsFree(cs, id, j)

\* Mutant of Put: what was in the first cell of the walk is overwritten.
PutFirst(cs, id) == [cs EXCEPT ![Probe(cs, id)[0]] = id]

\* kad_contactset_add, once it is known that the identifier is new and that
\* there is room.  A full table keeps what it has.
Put(cs, id) == IF Occupied(cs) = DOMAIN cs THEN cs
               ELSE [cs EXCEPT ![Probe(cs, id)[FirstFree(cs, id)]] = id]

\* kad_contactset_reserve_cb.  There is room in a table that was just rebuilt.
Replace(cs, id) == IF Finds(cs, id) THEN cs ELSE Put(cs, id)

Fresh(n) == [i \in 0..(n * GrowFactor + GrowBase - 1) |-> Empty]

\* A larger table, to which the contacts of the old one are added in the order
\* of their cells.
Rebuilt(cs, n) ==
  LET moved[k \in 0..NumCells(cs)] ==
        IF k = 0 THEN Fresh(n)
        ELSE IF cs[k - 1] = Empty THEN moved[k - 1]
        ELSE Replace(moved[k - 1], cs[k - 1])
  IN  moved[NumCells(cs)]

\* Mutant of Reserve: the table grows one contact too late.
ReserveTooLate(cs, n) == IF n - 1 <= NumCells(cs) \div 2 THEN cs ELSE Rebuilt(cs, n)

\* kad_contactset_reserve: the table is rebuilt when n contacts would fill more
\* than half of it.
Reserve(cs, n) == IF n <= NumCells(cs) \div 2 THEN cs ELSE Rebuilt(cs, n)

\* kad_contactset_init.
SetInit == /\ cells = Fresh(InitialSize)
           /\ size = 0
           /\ hash \in [Member -> HashValue]

\* kad_contactset_add.
SetAdd(id) ==
  /\ UNCHANGED hash
  /\ \/ /\ Finds(cells, id)
        /\ UNCHANGED <<cells, size>>
     \/ /\ ~ Finds(cells, id)
        /\ LET roomy == Reserve(cells, size + 1) IN
           /\ cells' = Put(roomy, id)
           /\ size' = (IF roomy = cells THEN size ELSE Cardinality(Occupied(roomy))) + 1
=============================================================================
