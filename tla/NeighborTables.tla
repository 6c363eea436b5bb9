--------------------------- MODULE NeighborTables ---------------------------
(* What core/net/nbr-table.c promises the modules that keep one of its        *)
(* tables: a set of neighbours each, that shrinks only by the module's own    *)
(* hand, or when the store is full, by the loss of one neighbour that nobody  *)
(* locked and the fewest tables use.                                          *)
EXTENDS Naturals, FiniteSets

CONSTANTS Table, Lladdr, Size

VARIABLES
  members,    \* the neighbours of each table
  locks       \* the neighbours each table has locked

vars == <<members, locks>>

Known == UNION {members[t] : t \in Table}
Uses(a) == Cardinality({t \in Table : a \in members[t]})
Unlocked == Known \ UNION {locks[t] : t \in Table}
Replaceable == {v \in Unlocked : \A w \in Unlocked : Uses(v) <= Uses(w)}

Init == members = [t \in Table |-> {}] /\ locks = [t \in Table |-> {}]

Add(t, a) ==
  /\ \/ members' = [members EXCEPT ![t] = @ \cup {a}]
     \/ /\ a \notin Known /\ Cardinality(Known) = Size
        /\ \E v \in Replaceable :
             members' = [u \in Table |-> (members[u] \ {v}) \cup (IF u = t THEN {a} ELSE {})]
  /\ Cardinality(Known') <= Size
  /\ UNCHANGED locks

Remove(t, A) ==
  /\ members' = [members EXCEPT ![t] = @ \ A]
  /\ locks' = [locks EXCEPT ![t] = @ \ A]

Lock(t, a) ==
  /\ a \in members[t]
  /\ locks' = [locks EXCEPT ![t] = @ \cup {a}] /\ UNCHANGED members

Unlock(t, a) == locks' = [locks EXCEPT ![t] = @ \ {a}] /\ UNCHANGED members

Next ==
  \E t \in Table :
    \/ \E a \in Lladdr : Add(t, a) \/ Lock(t, a) \/ Unlock(t, a)
    \/ \E A \in SUBSET Lladdr : Remove(t, A)

Spec == Init /\ [][Next]_vars
=============================================================================
