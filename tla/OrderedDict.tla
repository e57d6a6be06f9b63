----------------------------- MODULE OrderedDict -----------------------------
(***************************************************************************)
(* kad_ordereddict_t (ds/ordereddict.c): a singly linked list of contacts  *)
(* in insertion order, searched by identifier.  A dictionary is a sequence *)
(* of contacts, a contact a record with a field "id" and a field "addr"    *)
(* (the host and the port of kad_contact_t taken together).                *)
(*                                                                         *)
(* The operations are stated on positions, without recursion, so that      *)
(* modules built from them can be reasoned about as well as model-checked. *)
(***************************************************************************)
EXTENDS Integers, Sequences, FiniteSets, SequencesExt

\* kad_ordereddict_contains.
Has(d, id) == \E i \in DOMAIN d : d[i].id = id

\* No two contacts have the same identifier.
Distinct(d) == \A k, m \in DOMAIN d : d[k].id = d[m].id => k = m

\* The node the list walk stops at: the first one with the identifier.
FirstAt(d, id) == CHOOSE i \in DOMAIN d :
                    d[i].id = id /\ \A j \in DOMAIN d : d[j].id = id => i <= j

\* kad_ordereddict_insert: overwrite in place, or append at the tail.
Insert(d, c) ==
  IF Has(d, c.id) THEN [d EXCEPT ![FirstAt(d, c.id)] = c] ELSE Append(d, c)

\* kad_ordereddict_pop.
Pop(d, id) == IF Has(d, id) THEN RemoveAt(d, FirstAt(d, id)) ELSE d

\* kad_ordereddict_popfront, called while the size is at least n + 1: only
\* the n contacts nearest to the tail are left.
Newest(d, n) == IF Len(d) <= n THEN d ELSE SubSeq(d, Len(d) - n + 1, Len(d))

\* kad_ordereddict_popback: the contact at the tail, and what is left.
Tailmost(d) == d[Len(d)]
AllButTail(d) == SubSeq(d, 1, Len(d) - 1)

(***************************************************************************)
(* The contacts of d whose identifier is in S, in the order of d: what a   *)
(* loop that pops d from the front and inserts each contact that qualifies *)
(* into an empty dictionary leaves in it.                                  *)
(***************************************************************************)
Keep(d, S) ==
  LET at == {i \in DOMAIN d : d[i].id \in S}
      nth(k) == CHOOSE i \in at : Cardinality({j \in at : j <= i}) = k
  IN  [k \in 1..Cardinality(at) |-> d[nth(k)]]
=============================================================================
