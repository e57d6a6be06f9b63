------------------------------ MODULE Nearness -------------------------------
(***************************************************************************)
(* What kad_contactheap_iter gives, said of a set: contacts are their      *)
(* distances to a target, and the nearest of them come first.              *)
(***************************************************************************)
EXTENDS Integers, FiniteSets

\* kad_contactheap_iter: the n members of P that are nearest to the target.
Nearest(P, n) == {p \in P : Cardinality({q \in P : q < p}) < n}

\* ... and all of them in order.  (The provers know nothing of SetToSortSeq.)
InOrder(P) == [k \in 1..Cardinality(P) |->
                 CHOOSE p \in P : Cardinality({q \in P : q < p}) = k - 1]
=============================================================================
