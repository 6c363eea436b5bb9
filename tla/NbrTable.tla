------------------------------ MODULE NbrTable ------------------------------
(* The neighbour tables of core/net/nbr-table.c: one store of link-layer      *)
(* addresses that up to eight tables share.  An element of the store and the  *)
(* item each table keeps for it have the same index, a slot.                  *)
EXTENDS Naturals, Sequences, FiniteSets

CONSTANTS
  Slot,       \* the indices, NBR_TABLE_MAX_NEIGHBORS of them
  Lladdr,
  Table,      \* the tables registered with a callback
  None

ASSUME NbrTableAssumption ==
  /\ Slot \subseteq Nat /\ Slot # {} /\ IsFiniteSet(Slot) /\ IsFiniteSet(Table)
  /\ None \notin Slot \cup Lladdr

VARIABLES
  nbr_table_keys,  \* the slots in use, the oldest first
  lladdr,          \* the address of each slot
  used_map, locked_map,   \* the tables that use a slot and those that lock it
  items            \* what the module of each table holds: pointers to items of its
                   \* table, with the neighbour they were given for

store == <<nbr_table_keys, lladdr, used_map, locked_map>>
nbrVars == <<store, items>>

NbrInit ==
  /\ nbr_table_keys = <<>>
  /\ lladdr = [s \in Slot |-> None]
  /\ used_map = [s \in Slot |-> {}] /\ locked_map = [s \in Slot |-> {}]
  /\ items = [t \in Table |-> [s \in Slot |-> None]]

----------------------------------------------------------------------------
Keys == {nbr_table_keys[i] : i \in 1..Len(nbr_table_keys)}

index_from_lladdr(a) ==
  IF \E s \in Keys : lladdr[s] = a THEN CHOOSE s \in Keys : lladdr[s] = a ELSE None

nbr_table_get_from_lladdr(t, a) ==
  LET s == index_from_lladdr(a) IN IF s # None /\ t \in used_map[s] THEN s ELSE None

Unlocked == {s \in Keys : locked_map[s] = {}}
Users(s) == Cardinality(used_map[s])
Position(s) == CHOOSE i \in 1..Len(nbr_table_keys) : nbr_table_keys[i] = s
IsOldest(s, S) == s \in S /\ \A r \in S : Position(s) <= Position(r)

(* The element that memb_alloc() takes while the pool has some left. *)
IsFree(s) == s \in Slot \ Keys /\ \A r \in Slot \ Keys : s <= r
(* The unlocked element that the fewest tables use, the oldest of them. *)
IsVictim_locked(s) == IsOldest(s, {r \in Keys : \A q \in Keys : Users(r) <= Users(q)})
IsVictim(s) == IsOldest(s, {r \in Unlocked : \A q \in Unlocked : Users(r) <= Users(q)})
nbr_table_allocate ==
  IF \E s \in Slot : IsFree(s) THEN CHOOSE s \in Slot : IsFree(s)
  ELSE IF \E s \in Slot : IsVictim(s) THEN CHOOSE s \in Slot : IsVictim(s)
  ELSE None

(* list_remove() *)
ListWithout(s) ==
  IF s \in Keys
  THEN SubSeq(nbr_table_keys, 1, Position(s) - 1)
       \o SubSeq(nbr_table_keys, Position(s) + 1, Len(nbr_table_keys))
  ELSE nbr_table_keys

(* The slot that table t is given for a neighbour, and whether it is taken    *)
(* from another neighbour: then every table that uses it is called back, and  *)
(* its module drops the item.                                                 *)
SlotFor(a) == IF index_from_lladdr(a) = None THEN nbr_table_allocate ELSE index_from_lladdr(a)
Evicted(a) == index_from_lladdr(a) = None /\ SlotFor(a) \in Keys
CalledBack_none(a) == {}
CalledBack(a) == IF Evicted(a) THEN used_map[SlotFor(a)] ELSE {}

list_add(s) == Append(ListWithout(s), s)
nbr_table_add_lladdr(t, a) ==
  LET s == SlotFor(a)
      new == index_from_lladdr(a) = None IN
  IF s = None THEN UNCHANGED nbrVars
  ELSE
  /\ nbr_table_keys' = IF new THEN list_add(s) ELSE nbr_table_keys
  /\ lladdr' = [lladdr EXCEPT ![s] = a]
  /\ used_map' = [used_map EXCEPT ![s] = IF new THEN {t} ELSE @ \cup {t}]
  /\ items' = [u \in Table |-> [items[u] EXCEPT ![s] =
                 IF u = t THEN a ELSE IF u \in CalledBack(a) THEN None ELSE @]]
  /\ UNCHANGED locked_map

nbr_table_remove(t, s) ==
  /\ used_map' = [used_map EXCEPT ![s] = @ \ {t}]
  /\ locked_map' = [locked_map EXCEPT ![s] = @ \ {t}]
  /\ items' = [items EXCEPT ![t][s] = None]
  /\ UNCHANGED <<nbr_table_keys, lladdr>>

nbr_table_lock(t, s) ==
  /\ locked_map' = [locked_map EXCEPT ![s] = @ \cup {t}]
  /\ UNCHANGED <<nbr_table_keys, lladdr, used_map, items>>

nbr_table_unlock(t, s) ==
  /\ locked_map' = [locked_map EXCEPT ![s] = @ \ {t}]
  /\ UNCHANGED <<nbr_table_keys, lladdr, used_map, items>>

(* The modules call these with pointers they hold. *)
NbrNext ==
  \E t \in Table :
    \/ \E a \in Lladdr : nbr_table_add_lladdr(t, a)
    \/ \E s \in {r \in Slot : items[t][r] # None} :
         nbr_table_remove(t, s) \/ nbr_table_lock(t, s) \/ nbr_table_unlock(t, s)

NbrSpec == NbrInit /\ [][NbrNext]_nbrVars

----------------------------------------------------------------------------
NbrTypeOK ==
  /\ nbr_table_keys \in Seq(Slot)
  /\ \A i, j \in 1..Len(nbr_table_keys) : nbr_table_keys[i] = nbr_table_keys[j] => i = j
  /\ lladdr \in [Slot -> Lladdr \cup {None}]
  /\ used_map \in [Slot -> SUBSET Table] /\ locked_map \in [Slot -> SUBSET Table]
  /\ items \in [Table -> [Slot -> Lladdr \cup {None}]]

(* The pointer a module keeps is to an item of a neighbour that is still in   *)
(* its table, and still the neighbour it was given for.                       *)
ItemsOfTheirNeighbor ==
  \A t \in Table, s \in Slot :
    items[t][s] # None => s \in Keys /\ t \in used_map[s] /\ lladdr[s] = items[t][s]

(* A lock keeps a slot, so one that nobody uses would never be given away.    *)
LocksAreUsed == \A s \in Slot : locked_map[s] \subseteq used_map[s]

OneSlotEach == \A s, r \in Keys : lladdr[s] = lladdr[r] => s = r

(* The store is what the modules are promised. *)
Of(map) == [t \in Table |-> {lladdr[s] : s \in {r \in Keys : t \in map[r]}}]
Tables == INSTANCE NeighborTables WITH
  members <- Of(used_map), locks <- Of(locked_map), Size <- Cardinality(Slot)
NeighborTablesSpec == Tables!Spec
=============================================================================
