----------------------------- MODULE ContikiList -----------------------------
(* The linked lists of core/lib/list.c, as sequences.  Modules link an        *)
(* element into one list at a time and once, since the link lies in it.       *)
EXTENDS Naturals, Sequences, FiniteSets

Elements(q) == {q[i] : i \in 1..Len(q)}
EachOnce(q) == \A i, j \in 1..Len(q) : q[i] = q[j] => i = j

(* list_remove() of each of a set of elements; the others keep their order.   *)
Without(q, gone) ==
  LET kept == {i \in 1..Len(q) : q[i] \notin gone}
      upTo(i) == Cardinality({j \in kept : j <= i}) IN
  [n \in 1..Cardinality(kept) |-> q[CHOOSE i \in kept : upTo(i) = n]]
=============================================================================
