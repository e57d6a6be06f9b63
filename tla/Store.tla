-------------------------------- MODULE Store --------------------------------
(***************************************************************************)
(* What the storage of a node promises, whatever its data structure: under *)
(* a key it has nothing until a first value is put there, and that value   *)
(* ever after.  Node.tla implements it with a list.                        *)
(***************************************************************************)
CONSTANTS Key, Value, None

VARIABLE held

Init == held = [k \in Key |-> None]

Put(k, v) == held' = [held EXCEPT ![k] = IF @ = None THEN v ELSE @]

Next == \E k \in Key, v \in Value : Put(k, v)

Spec == Init /\ [][Next]_held
=============================================================================
