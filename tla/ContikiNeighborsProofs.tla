----------------------- MODULE ContikiNeighborsProofs ------------------------
(* Proofs about the neighbour tables and the routing table that is one of     *)
(* them: no module is left with a pointer to an item of another neighbour, no *)
(* lock outlives its item, no route outlives the neighbour it leads to, and   *)
(* the walks find all routes.                                                 *)
EXTENDS Ds6Routes, ContikiListProofs, SequenceTheorems

(* What ties the maps to the list: a slot that no neighbour has is unlocked.  *)
FreeSlotsUnlocked == \A s \in Slot \ Keys : locked_map[s] = {}

NbrInv ==
  NbrTypeOK /\ ItemsOfTheirNeighbor /\ LocksAreUsed /\ OneSlotEach /\ FreeSlotsUnlocked

----------------------------------------------------------------------------
LEMMA PositionOfKey ==
  ASSUME NbrTypeOK, NEW s \in Keys
  PROVE  Position(s) \in 1..Len(nbr_table_keys) /\ nbr_table_keys[Position(s)] = s
BY DEF Position, Keys, NbrTypeOK

LEMMA KeysAreSlots ==
  ASSUME NbrTypeOK
  PROVE  Keys \subseteq Slot
BY DEF Keys, NbrTypeOK

(* list_add() puts the slot last, and it is in the list once.                 *)
LEMMA ListAdded ==
  ASSUME NbrTypeOK, NEW s \in Slot
  PROVE  LET q == list_add(s) IN
         /\ q \in Seq(Slot)
         /\ {q[i] : i \in 1..Len(q)} = Keys \cup {s}
         /\ \A i, j \in 1..Len(q) : q[i] = q[j] => i = j
<1> DEFINE k == nbr_table_keys
           n == Len(k)
           q == list_add(s)
<1>1. k \in Seq(Slot) /\ n \in Nat /\ \A i, j \in 1..n : k[i] = k[j] => i = j
  BY DEF NbrTypeOK
<1>2. CASE s \notin Keys
  <2>1. q = Append(k, s)
    BY <1>2 DEF list_add, ListWithout
  <2>2. q \in Seq(Slot) /\ Len(q) = n + 1 /\ \A i \in 1..n + 1 : q[i] = IF i <= n THEN k[i] ELSE s
    BY <1>1, <2>1
  <2>3. \A i \in 1..n : k[i] # s
    BY <1>2 DEF Keys
  <2>4. {q[i] : i \in 1..Len(q)} = Keys \cup {s}
    BY <1>1, <2>2 DEF Keys
  <2> QED
    BY <1>1, <2>2, <2>3, <2>4
<1>3. CASE s \in Keys
  <2> DEFINE p == Position(s)
             a == SubSeq(k, 1, p - 1)
             b == SubSeq(k, p + 1, n)
  <2>1. p \in 1..n /\ k[p] = s
    BY <1>3, PositionOfKey
  <2>2. \A i \in 1..n : k[i] \in Slot
    BY <1>1
  <2>3. a \in Seq(Slot) /\ Len(a) = p - 1 /\ \A i \in 1..p - 1 : a[i] = k[i]
    <3>1. \A i \in 1..p - 1 : k[i] \in Slot
      BY <1>1, <2>1, <2>2
    <3> HIDE DEF p, k, n
    <3> QED
      BY <3>1, <2>1, <1>1, SubSeqProperties
  <2>4. b \in Seq(Slot) /\ Len(b) = n - p /\ \A i \in 1..n - p : b[i] = k[p + i]
    <3>1. \A i \in p + 1..n : k[i] \in Slot
      BY <1>1, <2>1, <2>2
    <3> HIDE DEF p, k, n
    <3>2. /\ b \in Seq(Slot) /\ Len(b) = IF p + 1 <= n THEN n - (p + 1) + 1 ELSE 0
          /\ \A i \in 1..n - (p + 1) + 1 : b[i] = k[p + 1 + i - 1]
      BY <3>1, <2>1, <1>1, SubSeqProperties
    <3> QED
      BY <3>2, <2>1, <1>1
  <2>5. q = Append(a \o b, s)
    BY <1>3 DEF list_add, ListWithout
  <2>6. /\ a \o b \in Seq(Slot) /\ Len(a \o b) = n - 1
        /\ \A i \in 1..n - 1 : (a \o b)[i] = IF i < p THEN k[i] ELSE k[i + 1]
    <3> HIDE DEF a, b, p, k, n, q
    <3>1. /\ a \o b \in Seq(Slot) /\ Len(a \o b) = Len(a) + Len(b)
          /\ \A i \in 1..Len(a) + Len(b) :
               (a \o b)[i] = IF i <= Len(a) THEN a[i] ELSE b[i - Len(a)]
      BY <2>3, <2>4, ConcatProperties
    <3>2. Len(a) = p - 1 /\ Len(a) + Len(b) = n - 1
      BY <2>1, <2>3, <2>4, <1>1
    <3>3. ASSUME NEW i \in 1..n - 1
          PROVE  (a \o b)[i] = IF i < p THEN k[i] ELSE k[i + 1]
      <4>1. CASE i < p
        BY <4>1, <3>1, <3>2, <2>1, <2>3, <1>1
      <4>2. CASE ~(i < p)
        <5>1. i - (p - 1) \in 1..n - p /\ p + (i - (p - 1)) = i + 1 /\ ~(i <= p - 1)
          BY <4>2, <2>1, <1>1
        <5> QED
          BY <4>2, <5>1, <3>1, <3>2, <2>4
      <4> QED
        BY <4>1, <4>2
    <3> QED
      BY <3>1, <3>2, <3>3
  <2> DEFINE ab == a \o b
  <2>7. /\ q \in Seq(Slot) /\ Len(q) = n
        /\ \A i \in 1..n : q[i] = IF i = n THEN s ELSE IF i < p THEN k[i] ELSE k[i + 1]
    <3>1. ab \in Seq(Slot) /\ Len(ab) = n - 1 /\ q = Append(ab, s)
      BY <2>5, <2>6
    <3> HIDE DEF a, b, p, k, n, q, ab
    <3>2. /\ q \in Seq(Slot) /\ Len(q) = (n - 1) + 1
          /\ \A i \in 1..n : q[i] = IF i = n THEN s ELSE ab[i]
      BY <3>1, <1>1, <2>1
    <3>3. \A i \in 1..n : i # n => ab[i] = IF i < p THEN k[i] ELSE k[i + 1]
      BY <2>6, <1>1 DEF ab
    <3> QED
      BY <3>2, <3>3, <1>1
  <2>8. \A i, j \in 1..n : q[i] = q[j] => i = j
    <3> HIDE DEF a, b, p, k, n, q
    <3> QED
      BY <1>1, <2>1, <2>7
  <2>9. {q[i] : i \in 1..Len(q)} = Keys
    <3>1. Keys = {k[i] : i \in 1..n}
      BY DEF Keys
    <3> HIDE DEF a, b, p, k, n, q
    <3>2. \A i \in 1..n : q[i] \in {k[j] : j \in 1..n}
      BY <1>1, <2>1, <2>7
    <3>3. ASSUME NEW j \in 1..n
          PROVE  \E i \in 1..n : q[i] = k[j]
      <4>1. CASE j < p
        BY <4>1, <1>1, <2>1, <2>7
      <4>2. CASE j = p
        BY <4>2, <1>1, <2>1, <2>7
      <4>3. CASE j > p
        <5>1. j - 1 \in 1..n /\ j - 1 # n /\ ~(j - 1 < p) /\ (j - 1) + 1 = j
          BY <4>3, <1>1, <2>1
        <5> QED
          BY <5>1, <2>7
      <4> QED
        BY <4>1, <4>2, <4>3, <1>1, <2>1
    <3>4. Len(q) = n
      BY <2>7
    <3>5. {q[i] : i \in 1..n} = {k[j] : j \in 1..n}
      BY <3>2, <3>3
    <3> QED
      BY <3>1, <3>4, <3>5
  <2> QED
    BY <1>3, <2>7, <2>8, <2>9
<1> QED
  BY <1>2, <1>3

(* A slot that is given away was free or unlocked.                            *)
LEMMA GivenAway ==
  ASSUME nbr_table_allocate # None
  PROVE  /\ nbr_table_allocate \in Slot
         /\ nbr_table_allocate \in Keys => locked_map[nbr_table_allocate] = {}
<1>1. CASE \E s \in Slot : IsFree(s)
  BY <1>1 DEF nbr_table_allocate, IsFree
<1>2. CASE /\ ~\E s \in Slot : IsFree(s)
           /\ \E s \in Slot : IsVictim(s)
  <2>1. nbr_table_allocate \in Slot /\ IsVictim(nbr_table_allocate)
    BY <1>2 DEF nbr_table_allocate
  <2> QED
    BY <2>1 DEF IsVictim, IsOldest, Unlocked
<1>3. CASE /\ ~\E s \in Slot : IsFree(s)
           /\ ~\E s \in Slot : IsVictim(s)
  BY <1>3 DEF nbr_table_allocate
<1> QED
  BY <1>1, <1>2, <1>3

LEMMA IndexKnown ==
  ASSUME NbrTypeOK, NEW a
  PROVE  /\ index_from_lladdr(a) # None =>
              index_from_lladdr(a) \in Keys /\ lladdr[index_from_lladdr(a)] = a
         /\ index_from_lladdr(a) = None => \A s \in Keys : lladdr[s] # a
<1>1. None \notin Keys
  BY NbrTableAssumption, KeysAreSlots
<1> QED
  BY <1>1 DEF index_from_lladdr

----------------------------------------------------------------------------
LEMMA InitKept == NbrInit => NbrInv
<1> SUFFICES ASSUME NbrInit PROVE NbrInv
  OBVIOUS
<1>1. Keys = {}
  BY DEF NbrInit, Keys
<1>2. NbrTypeOK
  BY DEF NbrInit, NbrTypeOK
<1> QED
  BY <1>1, <1>2 DEF NbrInit, NbrInv, ItemsOfTheirNeighbor, LocksAreUsed, OneSlotEach, FreeSlotsUnlocked

LEMMA AddKept ==
  ASSUME NbrInv, NEW t \in Table, NEW a \in Lladdr, nbr_table_add_lladdr(t, a)
  PROVE  NbrInv'
<1> DEFINE s == SlotFor(a)
           new == index_from_lladdr(a) = None
<1>1. CASE s = None
  BY <1>1 DEF nbr_table_add_lladdr, nbrVars, store, NbrInv, NbrTypeOK, ItemsOfTheirNeighbor,
     LocksAreUsed, OneSlotEach, FreeSlotsUnlocked, Keys
<1>2. CASE s # None
  <2> USE DEF NbrInv
  <2>1. Keys \subseteq Slot
    BY KeysAreSlots
  <2>2. /\ s \in Slot
        /\ new => /\ s \in Keys => locked_map[s] = {}
                  /\ \A r \in Keys : lladdr[r] # a
        /\ ~new => s \in Keys /\ lladdr[s] = a
    BY <1>2, <2>1, GivenAway, IndexKnown DEF SlotFor
  <2>3. /\ nbr_table_keys' = IF new THEN list_add(s) ELSE nbr_table_keys
        /\ lladdr' = [lladdr EXCEPT ![s] = a]
        /\ used_map' = [used_map EXCEPT ![s] = IF new THEN {t} ELSE @ \cup {t}]
        /\ items' = [u \in Table |-> [items[u] EXCEPT ![s] =
                       IF u = t THEN a ELSE IF u \in CalledBack(a) THEN None ELSE @]]
        /\ locked_map' = locked_map
    BY <1>2 DEF nbr_table_add_lladdr
  <2> HIDE DEF new, s
  <2>4. /\ nbr_table_keys' \in Seq(Slot) /\ Keys' = Keys \cup {s}
        /\ \A i, j \in 1..Len(nbr_table_keys') : nbr_table_keys'[i] = nbr_table_keys'[j] => i = j
    <3>1. CASE new
      <4>1. /\ list_add(s) \in Seq(Slot)
            /\ {list_add(s)[i] : i \in 1..Len(list_add(s))} = Keys \cup {s}
            /\ \A i, j \in 1..Len(list_add(s)) : list_add(s)[i] = list_add(s)[j] => i = j
        BY <2>2, ListAdded
      <4>2. nbr_table_keys' = list_add(s)
        BY <2>3, <3>1
      <4>3. Keys' = {list_add(s)[i] : i \in 1..Len(list_add(s))}
        BY <4>2 DEF Keys
      <4> QED
        BY <4>1, <4>2, <4>3
    <3>2. CASE ~new
      <4>1. nbr_table_keys' = nbr_table_keys /\ Keys' = Keys
        BY <2>3, <3>2 DEF Keys
      <4> QED
        BY <4>1, <3>2, <2>2 DEF NbrTypeOK
    <3> QED
      BY <3>1, <3>2
  <2>5. s \in Keys /\ new => CalledBack(a) = used_map[s]
    BY DEF CalledBack, Evicted, new, s
  <2>6. \A u \in Table : items[u][s] # None => s \in Keys /\ u \in used_map[s] /\ lladdr[s] = items[u][s]
    BY <2>2 DEF ItemsOfTheirNeighbor
  <2>7. NbrTypeOK'
    BY <2>2, <2>3, <2>4 DEF NbrTypeOK
  <2>8. ItemsOfTheirNeighbor'
    <3> SUFFICES ASSUME NEW u \in Table, NEW r \in Slot, items'[u][r] # None
                 PROVE  r \in Keys' /\ u \in used_map'[r] /\ lladdr'[r] = items'[u][r]
      BY DEF ItemsOfTheirNeighbor
    <3>1. CASE r # s
      BY <3>1, <2>3, <2>4 DEF ItemsOfTheirNeighbor, NbrTypeOK
    <3>2. CASE r = s
      <4>1. CASE u = t
        BY <3>2, <4>1, <2>2, <2>3, <2>4 DEF NbrTypeOK
      <4>2. CASE u # t
        <5>1. items'[u][s] = IF u \in CalledBack(a) THEN None ELSE items[u][s]
          BY <4>2, <2>2, <2>3 DEF NbrTypeOK
        <5>2. items[u][s] # None /\ u \notin CalledBack(a) /\ items'[u][s] = items[u][s]
          BY <5>1, <3>2
        <5>3. ~new /\ u \in used_map[s] /\ lladdr[s] = items[u][s]
          BY <5>2, <2>5, <2>6
        <5> QED
          BY <5>2, <5>3, <3>2, <2>2, <2>3, <2>4 DEF NbrTypeOK
      <4> QED
        BY <4>1, <4>2
    <3> QED
      BY <3>1, <3>2
  <2>9. LocksAreUsed'
    <3>1. new => locked_map[s] = {}
      BY <2>2 DEF FreeSlotsUnlocked
    <3> QED
      BY <3>1, <2>2, <2>3 DEF LocksAreUsed, NbrTypeOK
  <2>10. OneSlotEach'
    BY <2>1, <2>2, <2>3, <2>4 DEF OneSlotEach, NbrTypeOK
  <2>11. FreeSlotsUnlocked'
    BY <2>3, <2>4 DEF FreeSlotsUnlocked
  <2> QED
    BY <2>7, <2>8, <2>9, <2>10, <2>11
<1> QED
  BY <1>1, <1>2

(* Removing, locking and unlocking an item that the module holds.             *)
LEMMA HeldKept ==
  ASSUME NbrInv, NEW t \in Table, NEW s \in Slot, items[t][s] # None,
         nbr_table_remove(t, s) \/ nbr_table_lock(t, s) \/ nbr_table_unlock(t, s)
  PROVE  NbrInv'
<1>1. s \in Keys /\ t \in used_map[s]
  BY DEF NbrInv, ItemsOfTheirNeighbor
<1>2. Keys' = Keys /\ nbr_table_keys' = nbr_table_keys /\ lladdr' = lladdr
  BY DEF nbr_table_remove, nbr_table_lock, nbr_table_unlock, Keys
<1>3. CASE nbr_table_remove(t, s)
  BY <1>1, <1>2, <1>3 DEF nbr_table_remove, NbrInv, NbrTypeOK, ItemsOfTheirNeighbor, LocksAreUsed,
     OneSlotEach, FreeSlotsUnlocked
<1>4. CASE nbr_table_lock(t, s)
  BY <1>1, <1>2, <1>4 DEF nbr_table_lock, NbrInv, NbrTypeOK, ItemsOfTheirNeighbor, LocksAreUsed,
     OneSlotEach, FreeSlotsUnlocked
<1>5. CASE nbr_table_unlock(t, s)
  BY <1>1, <1>2, <1>5 DEF nbr_table_unlock, NbrInv, NbrTypeOK, ItemsOfTheirNeighbor, LocksAreUsed,
     OneSlotEach, FreeSlotsUnlocked
<1> QED
  BY <1>3, <1>4, <1>5

LEMMA InvKept == NbrInv /\ [NbrNext]_nbrVars => NbrInv'
<1> SUFFICES ASSUME NbrInv, [NbrNext]_nbrVars PROVE NbrInv'
  OBVIOUS
<1>1. CASE UNCHANGED nbrVars
  <2>1. /\ nbr_table_keys' = nbr_table_keys /\ lladdr' = lladdr /\ used_map' = used_map
        /\ locked_map' = locked_map /\ items' = items
    BY <1>1 DEF nbrVars, store
  <2>2. Keys' = Keys
    BY <2>1 DEF Keys
  <2> QED
    BY <2>1, <2>2 DEF NbrInv, NbrTypeOK, ItemsOfTheirNeighbor, LocksAreUsed, OneSlotEach,
       FreeSlotsUnlocked
<1>2. CASE NbrNext
  BY <1>2, AddKept, HeldKept DEF NbrNext
<1> QED
  BY <1>1, <1>2

(* The inductive invariant holds.                                             *)
THEOREM NbrInvariant == NbrSpec => []NbrInv
BY InitKept, InvKept, PTL DEF NbrSpec

(* Whatever the modules insert, remove and lock, in stores of any size, every *)
(* pointer they keep is to an item of the neighbour it was given for.         *)
THEOREM ItemsNeverStale == NbrSpec => []ItemsOfTheirNeighbor
<1>1. NbrInv => ItemsOfTheirNeighbor
  BY DEF NbrInv
<1> QED
  BY <1>1, NbrInvariant, PTL

(* The types of the tables, and one slot for every neighbour.                 *)
THEOREM NbrTypeCorrect == NbrSpec => [](NbrTypeOK /\ OneSlotEach)
<1>1. NbrInv => NbrTypeOK /\ OneSlotEach
  BY DEF NbrInv
<1> QED
  BY <1>1, NbrInvariant, PTL

(* No lock is left on an item its table no longer uses.                       *)
THEOREM LocksNeverLeak == NbrSpec => []LocksAreUsed
<1>1. NbrInv => LocksAreUsed
  BY DEF NbrInv
<1> QED
  BY <1>1, NbrInvariant, PTL

----------------------------------------------------------------------------
(* What the maps say, for a list K of slots with the addresses l.             *)
MembersOf(K, l, m) == [t \in Table |-> {l[s] : s \in {r \in K : t \in m[r]}}]
KnownOf(K, l, m) == UNION {MembersOf(K, l, m)[t] : t \in Table}
UsedOf(K, m) == {r \in K : m[r] # {}}

LEMMA MembersUse ==
  ASSUME NEW K \in SUBSET Slot, NEW l \in [Slot -> Lladdr \cup {None}],
         NEW m \in [Slot -> SUBSET Table],
         \A s, r \in K : l[s] = l[r] => s = r
  PROVE  /\ KnownOf(K, l, m) = {l[s] : s \in UsedOf(K, m)}
         /\ Cardinality(KnownOf(K, l, m)) = Cardinality(UsedOf(K, m))
         /\ Cardinality(KnownOf(K, l, m)) <= Cardinality(Slot)
         /\ \A s \in K : {t \in Table : l[s] \in MembersOf(K, l, m)[t]} = m[s]
<1> DEFINE M == MembersOf(K, l, m)
           known == KnownOf(K, l, m)
           used == UsedOf(K, m)
           f == [s \in used |-> l[s]]
<1>1. known = {l[s] : s \in used}
  BY DEF KnownOf, MembersOf, UsedOf
<1>2. IsFiniteSet(used) /\ Cardinality(used) <= Cardinality(Slot)
  BY NbrTableAssumption, FS_Subset DEF UsedOf
<1>3. f \in Surjection(used, known) /\ f \in Injection(used, known)
  BY <1>1 DEF Surjection, Injection, IsInjective, UsedOf
<1>4. Cardinality(known) = Cardinality(used)
  <2> HIDE DEF known, used, f
  <2> QED
    BY <1>2, <1>3, FS_Surjection
<1>5. \A s \in K : {t \in Table : l[s] \in M[t]} = m[s]
  BY DEF MembersOf
<1> QED
  BY <1>1, <1>2, <1>4, <1>5

LEMMA KeysUse ==
  ASSUME NbrTypeOK, OneSlotEach, Keys \in SUBSET Slot
  PROVE  /\ KnownOf(Keys, lladdr, used_map) = {lladdr[s] : s \in UsedOf(Keys, used_map)}
         /\ Cardinality(KnownOf(Keys, lladdr, used_map)) = Cardinality(UsedOf(Keys, used_map))
         /\ \A s \in Keys : {t \in Table : lladdr[s] \in MembersOf(Keys, lladdr, used_map)[t]}
                            = used_map[s]
<1>1. lladdr \in [Slot -> Lladdr \cup {None}]
  BY DEF NbrTypeOK
<1>2. used_map \in [Slot -> SUBSET Table]
  BY DEF NbrTypeOK
<1>3. \A s, r \in Keys : lladdr[s] = lladdr[r] => s = r
  BY DEF OneSlotEach
<1> QED
  BY <1>1, <1>2, <1>3, MembersUse

(* A slot in use is given away only when there is no other.                   *)
LEMMA Victim ==
  ASSUME NbrInv, NEW s \in Keys, s = nbr_table_allocate
  PROVE  /\ Keys = Slot
         /\ s \in Unlocked
         /\ \A r \in Unlocked : Users(s) <= Users(r)
<1>1. s \in Slot /\ None \notin Slot
  BY KeysAreSlots, NbrTableAssumption DEF NbrInv
<1>2. ~\E r \in Slot : IsFree(r)
  BY DEF nbr_table_allocate, IsFree
<1>3. Slot \ Keys = {}
  BY <1>2, LeastNatural, NbrTableAssumption DEF IsFree
<1>4. IsVictim(s)
  BY <1>1, <1>2 DEF nbr_table_allocate
<1> QED
  BY <1>3, <1>4, KeysAreSlots DEF IsVictim, IsOldest, NbrInv

LEMMA StateAsMembers ==
  /\ Of(used_map) = MembersOf(Keys, lladdr, used_map)
  /\ Of(locked_map) = MembersOf(Keys, lladdr, locked_map)
  /\ Of(used_map)' = MembersOf(Keys', lladdr', used_map')
  /\ Of(locked_map)' = MembersOf(Keys', lladdr', locked_map')
BY DEF Of, MembersOf

LEMMA SameCardinality == \A S : Tables!Cardinality(S) = Cardinality(S)
BY DEF Cardinality, Tables!Cardinality, IsFiniteSet, Tables!IsFiniteSet

(* How the two disjuncts of the promised Add() read on the maps.              *)
LEMMA TableStep ==
  ASSUME NEW t \in Table, NEW a \in Lladdr, Of(locked_map)' = Of(locked_map),
         Cardinality(Tables!Known') <= Cardinality(Slot),
         \/ Of(used_map)' = [Of(used_map) EXCEPT ![t] = @ \cup {a}]
         \/ /\ a \notin Tables!Known /\ Cardinality(Tables!Known) = Cardinality(Slot)
            /\ \E v \in Tables!Replaceable :
                 Of(used_map)' = [u \in Table |-> (Of(used_map)[u] \ {v})
                                                 \cup (IF u = t THEN {a} ELSE {})]
  PROVE  Tables!Add(t, a)
BY SameCardinality DEF Tables!Add

LEMMA AddRefines ==
  ASSUME NbrInv, NbrInv', NEW t \in Table, NEW a \in Lladdr, nbr_table_add_lladdr(t, a)
  PROVE  Tables!Add(t, a) \/ UNCHANGED Tables!vars
<1> DEFINE s == SlotFor(a)
           new == index_from_lladdr(a) = None
           M == Of(used_map)
           L == Of(locked_map)
<1>1. CASE s = None
  <2>1. Keys' = Keys /\ lladdr' = lladdr /\ used_map' = used_map /\ locked_map' = locked_map
    BY <1>1 DEF nbr_table_add_lladdr, nbrVars, store, Keys
  <2> QED
    BY <2>1 DEF Tables!vars, Of
<1>2. CASE s # None
  <2>1. Keys \subseteq Slot /\ NbrTypeOK /\ NbrTypeOK'
    BY KeysAreSlots DEF NbrInv
  <2>2. /\ s \in Slot
        /\ new => /\ s \in Keys => locked_map[s] = {} /\ s = nbr_table_allocate
                  /\ \A r \in Keys : lladdr[r] # a
        /\ ~new => s \in Keys /\ lladdr[s] = a
    BY <1>2, <2>1, GivenAway, IndexKnown DEF SlotFor
  <2>3. /\ nbr_table_keys' = IF new THEN list_add(s) ELSE nbr_table_keys
        /\ lladdr' = [lladdr EXCEPT ![s] = a]
        /\ used_map' = [used_map EXCEPT ![s] = IF new THEN {t} ELSE @ \cup {t}]
        /\ locked_map' = locked_map
    BY <1>2 DEF nbr_table_add_lladdr
  <2>4. Keys' = Keys \cup {s}
    <3>1. CASE new
      <4>1. {list_add(s)[i] : i \in 1..Len(list_add(s))} = Keys \cup {s}
        BY <2>1, <2>2, ListAdded
      <4> QED
        BY <4>1, <3>1, <2>3 DEF Keys
    <3>2. CASE ~new
      BY <3>2, <2>2, <2>3 DEF Keys
    <3> QED
      BY <3>1, <3>2
  <2> HIDE DEF new, s
  <2>5. /\ M = [u \in Table |-> {lladdr[r] : r \in {q \in Keys : u \in used_map[q]}}]
        /\ M' = [u \in Table |-> {lladdr'[r] : r \in {q \in Keys' : u \in used_map'[q]}}]
    BY DEF Of
  <2>6. L' = L
    <3>1. new => locked_map[s] = {}
      BY <2>2 DEF NbrInv, FreeSlotsUnlocked
    <3>2. \A u \in Table : {lladdr'[r] : r \in {q \in Keys' : u \in locked_map'[q]}}
                           = {lladdr[r] : r \in {q \in Keys : u \in locked_map[q]}}
      BY <3>1, <2>1, <2>2, <2>3, <2>4 DEF NbrTypeOK
    <3> QED
      BY <3>2 DEF Of
  <2>7. Cardinality(Tables!Known') <= Cardinality(Slot)
    <3>1. Keys' \subseteq Slot
      BY <2>1, <2>2, <2>4
    <3>2. \A r, q \in Keys' : lladdr'[r] = lladdr'[q] => r = q
      BY DEF NbrInv, OneSlotEach
    <3>3. lladdr' \in [Slot -> Lladdr \cup {None}] /\ used_map' \in [Slot -> SUBSET Table]
      BY <2>1 DEF NbrTypeOK
    <3>4. Tables!Known' = KnownOf(Keys', lladdr', used_map')
      BY StateAsMembers DEF Tables!Known, KnownOf
    <3>5. Cardinality(KnownOf(Keys', lladdr', used_map')) <= Cardinality(Slot)
      BY <3>1, <3>2, <3>3, MembersUse
    <3> QED
      BY <3>4, <3>5
  <2>8. CASE new => used_map[s] = {} \/ s \notin Keys
    <3>1. M' = [M EXCEPT ![t] = @ \cup {a}]
      <4>1. \A r \in Slot : lladdr'[r] = (IF r = s THEN a ELSE lladdr[r])
        BY <2>1, <2>2, <2>3, <2>4 DEF NbrTypeOK
      <4>2. s \in Keys => lladdr[s] = a \/ used_map[s] = {}
        BY <2>2, <2>8
      <4>3. \A r \in Keys : r # s => used_map'[r] = used_map[r]
        BY <2>1, <2>3 DEF NbrTypeOK
      <4>4. used_map'[s] = (IF s \in Keys THEN used_map[s] ELSE {}) \cup {t}
        BY <2>1, <2>2, <2>3, <2>8 DEF NbrTypeOK
      <4>5. ASSUME NEW u \in Table
            PROVE  M'[u] = IF u = t THEN M[u] \cup {a} ELSE M[u]
        <5>1. /\ M[u] = {lladdr[r] : r \in {q \in Keys : u \in used_map[q]}}
              /\ M'[u] = {lladdr'[r] : r \in {q \in Keys' : u \in used_map'[q]}}
          BY <2>5
        <5>2. CASE u = t
          <6>1. \A q \in Keys' : u \in used_map'[q] <=> q = s \/ (q \in Keys /\ u \in used_map[q])
            BY <5>2, <4>3, <4>4, <2>4
          <6>2. M'[u] = {lladdr'[r] : r \in {s} \cup {q \in Keys : u \in used_map[q]}}
            BY <6>1, <5>1, <2>4
          <6> QED
            <7>1. lladdr'[s] = a
              BY <4>1, <2>2
            <7>2. ASSUME NEW q \in Keys, u \in used_map[q] PROVE lladdr'[q] = lladdr[q]
              <8>1. q \in Slot /\ (q = s => lladdr[q] = a)
                BY <7>2, <4>2, <2>1
              <8> QED
                BY <8>1, <4>1
            <7> QED
              BY <6>2, <5>1, <5>2, <7>1, <7>2
        <5>3. CASE u # t
          <6>1. \A q \in Keys' : u \in used_map'[q] <=> q \in Keys /\ u \in used_map[q]
            BY <5>3, <4>3, <4>4, <2>4
          <6>2. M'[u] = {lladdr'[r] : r \in {q \in Keys : u \in used_map[q]}}
            BY <6>1, <5>1, <2>4
          <6>3. ASSUME NEW q \in Keys, u \in used_map[q] PROVE lladdr'[q] = lladdr[q]
            <7>1. q \in Slot /\ (q = s => lladdr[q] = a)
              BY <6>3, <4>2, <2>1
            <7> QED
              BY <7>1, <4>1
          <6> QED
            BY <6>2, <6>3, <5>1, <5>3
        <5> QED
          BY <5>2, <5>3
      <4> QED
        BY <4>5, <2>5
    <3> QED
      BY <3>1, <2>6, <2>7, TableStep
  <2>9. CASE new /\ s \in Keys /\ used_map[s] # {}
    <3> DEFINE v == lladdr[s]
    <3>1. \A r, q \in Keys : lladdr[r] = lladdr[q] => r = q
      BY DEF NbrInv, OneSlotEach
    <3>2. Keys = Slot /\ s \in Unlocked /\ \A r \in Unlocked : Users(s) <= Users(r)
      BY <2>2, <2>9, Victim
    <3>3. /\ Tables!Known = {lladdr[r] : r \in UsedOf(Keys, used_map)}
          /\ Cardinality(Tables!Known) = Cardinality(UsedOf(Keys, used_map))
          /\ \A r \in Keys : {u \in Table : lladdr[r] \in M[u]} = used_map[r]
      <4>1. lladdr \in [Slot -> Lladdr \cup {None}] /\ used_map \in [Slot -> SUBSET Table]
        BY <2>1 DEF NbrTypeOK
      <4>2. M = MembersOf(Keys, lladdr, used_map)
        BY StateAsMembers
      <4>3. Tables!Known = KnownOf(Keys, lladdr, used_map)
        BY <4>2 DEF Tables!Known, KnownOf
      <4>4. /\ KnownOf(Keys, lladdr, used_map) = {lladdr[r] : r \in UsedOf(Keys, used_map)}
            /\ Cardinality(KnownOf(Keys, lladdr, used_map)) = Cardinality(UsedOf(Keys, used_map))
            /\ \A r \in Keys :
                 {u \in Table : lladdr[r] \in MembersOf(Keys, lladdr, used_map)[u]} = used_map[r]
        BY <2>1, KeysUse DEF NbrInv
      <4> HIDE DEF M
      <4> QED
        BY <4>2, <4>3, <4>4
    <3>4. \A r \in Keys : Users(r) = Tables!Uses(lladdr[r])
      <4>1. \A r \in Keys : Tables!Uses(lladdr[r]) = Cardinality({u \in Table : lladdr[r] \in M[u]})
        BY SameCardinality DEF Tables!Uses
      <4> HIDE DEF M
      <4> QED
        BY <3>3, <4>1 DEF Users
    <3>5. \A r \in Keys : Users(r) \in Nat /\ (Users(r) = 0 <=> used_map[r] = {})
      <4>1. \A r \in Keys : IsFiniteSet(used_map[r])
        BY <2>1, NbrTableAssumption, FS_Subset DEF NbrTypeOK
      <4> QED
        BY <4>1, FS_CardinalityType, FS_EmptySet DEF Users
    <3>6. UsedOf(Keys, used_map) = Slot
      <4>1. ASSUME NEW r \in Slot PROVE used_map[r] # {}
        <5>1. CASE r \in Unlocked
          BY <5>1, <3>2, <3>5, <2>9
        <5>2. CASE r \notin Unlocked
          BY <5>2, <3>2 DEF Unlocked, NbrInv, LocksAreUsed
        <5> QED
          BY <5>1, <5>2
      <4> QED
        BY <4>1, <3>2 DEF UsedOf
    <3>7. a \notin Tables!Known /\ Cardinality(Tables!Known) = Cardinality(Slot)
      BY <3>2, <3>3, <3>6, <2>2, <2>9
    <3>8. Tables!Unlocked = {lladdr[r] : r \in Unlocked}
      <4>1. UNION {L[u] : u \in Table} = {lladdr[r] : r \in Keys \ Unlocked}
        BY <2>1 DEF Of, Unlocked, NbrTypeOK
      <4> QED
        BY <4>1, <3>1, <3>2, <3>3, <3>6 DEF Tables!Unlocked, Unlocked
    <3>9. v \in Tables!Replaceable
      BY <3>2, <3>4, <3>8 DEF Tables!Replaceable, Unlocked
    <3>10. M' = [u \in Table |-> (M[u] \ {v}) \cup (IF u = t THEN {a} ELSE {})]
      <4>1. \A r \in Slot : /\ lladdr'[r] = IF r = s THEN a ELSE lladdr[r]
                            /\ used_map'[r] = IF r = s THEN {t} ELSE used_map[r]
        BY <2>1, <2>3, <2>9 DEF NbrTypeOK
      <4>2. ASSUME NEW u \in Table
            PROVE  M'[u] = (M[u] \ {v}) \cup (IF u = t THEN {a} ELSE {})
        <5>1. M'[u] = {lladdr'[r] : r \in {q \in Slot : u \in used_map'[q]}}
          BY <2>4, <2>5, <3>2, <2>2
        <5>2. M[u] = {lladdr[r] : r \in {q \in Slot : u \in used_map[q]}}
          BY <2>5, <3>2
        <5> QED
          BY <5>1, <5>2, <4>1, <3>1, <3>2, <2>2
      <4> QED
        BY <4>2, <2>5
    <3> QED
      BY <3>7, <3>9, <3>10, <2>6, <2>7, TableStep
  <2> QED
    BY <2>8, <2>9
<1> QED
  BY <1>1, <1>2

LEMMA HeldRefines ==
  ASSUME NbrInv, NEW t \in Table, NEW s \in Slot, items[t][s] # None,
         nbr_table_remove(t, s) \/ nbr_table_lock(t, s) \/ nbr_table_unlock(t, s)
  PROVE  \/ \E a \in Lladdr : Tables!Lock(t, a) \/ Tables!Unlock(t, a)
         \/ \E A \in SUBSET Lladdr : Tables!Remove(t, A)
<1> DEFINE a == lladdr[s]
<1>1. /\ s \in Keys /\ t \in used_map[s] /\ Keys \subseteq Slot /\ NbrTypeOK
      /\ \A r, q \in Keys : lladdr[r] = lladdr[q] => r = q
  BY KeysAreSlots DEF NbrInv, ItemsOfTheirNeighbor, OneSlotEach
<1>2. a \in Lladdr
  BY <1>1 DEF NbrInv, ItemsOfTheirNeighbor, NbrTypeOK
<1>3. Keys' = Keys /\ lladdr' = lladdr
  BY DEF nbr_table_remove, nbr_table_lock, nbr_table_unlock, Keys
<1>4. ASSUME NEW m \in [Slot -> SUBSET Table]
      PROVE  /\ MembersOf(Keys, lladdr, [m EXCEPT ![s] = @ \ {t}])
                = [MembersOf(Keys, lladdr, m) EXCEPT ![t] = @ \ {a}]
             /\ MembersOf(Keys, lladdr, [m EXCEPT ![s] = @ \cup {t}])
                = [MembersOf(Keys, lladdr, m) EXCEPT ![t] = @ \cup {a}]
  <2> DEFINE less == [m EXCEPT ![s] = @ \ {t}]
             more == [m EXCEPT ![s] = @ \cup {t}]
  <2>1. ASSUME NEW u \in Table
        PROVE  {lladdr[r] : r \in {q \in Keys : u \in less[q]}}
               = {lladdr[r] : r \in {q \in Keys : u \in m[q]}} \ (IF u = t THEN {a} ELSE {})
    <3>1. \A q \in Keys : u \in less[q] <=> u \in m[q] /\ ~(q = s /\ u = t)
      BY <1>1
    <3> HIDE DEF less
    <3> QED
      BY <3>1, <1>1
  <2>2. ASSUME NEW u \in Table
        PROVE  {lladdr[r] : r \in {q \in Keys : u \in more[q]}}
               = {lladdr[r] : r \in {q \in Keys : u \in m[q]}} \cup (IF u = t THEN {a} ELSE {})
    <3>1. \A q \in Keys : u \in more[q] <=> u \in m[q] \/ (q = s /\ u = t)
      BY <1>1
    <3> HIDE DEF more
    <3> QED
      BY <3>1, <1>1
  <2> HIDE DEF less, more
  <2>3. MembersOf(Keys, lladdr, less) = [MembersOf(Keys, lladdr, m) EXCEPT ![t] = @ \ {a}]
    BY <2>1 DEF MembersOf
  <2>4. MembersOf(Keys, lladdr, more) = [MembersOf(Keys, lladdr, m) EXCEPT ![t] = @ \cup {a}]
    <3> DEFINE N == MembersOf(Keys, lladdr, m)
    <3>1. \A u \in Table : MembersOf(Keys, lladdr, more)[u] = N[u] \cup (IF u = t THEN {a} ELSE {})
      BY <2>2 DEF MembersOf
    <3>2. MembersOf(Keys, lladdr, more) = [u \in Table |-> MembersOf(Keys, lladdr, more)[u]]
          /\ N = [u \in Table |-> N[u]]
      BY DEF MembersOf
    <3> HIDE DEF N, a
    <3>3. \A u \in Table : MembersOf(Keys, lladdr, more)[u] = [N EXCEPT ![t] = @ \cup {a}][u]
      BY <3>1, <3>2
    <3>4. [N EXCEPT ![t] = @ \cup {a}] = [u \in Table |-> [N EXCEPT ![t] = @ \cup {a}][u]]
      BY <3>2
    <3> QED
      BY <3>2, <3>3, <3>4 DEF N
  <2> QED
    BY <2>3, <2>4 DEF less, more
<1>5. CASE nbr_table_remove(t, s)
  <2>1. Of(used_map)' = [Of(used_map) EXCEPT ![t] = @ \ {a}]
    BY <1>1, <1>3, <1>4, <1>5, StateAsMembers DEF nbr_table_remove, NbrTypeOK
  <2>2. Of(locked_map)' = [Of(locked_map) EXCEPT ![t] = @ \ {a}]
    BY <1>1, <1>3, <1>4, <1>5, StateAsMembers DEF nbr_table_remove, NbrTypeOK
  <2>3. Tables!Remove(t, {a})
    BY <2>1, <2>2 DEF Tables!Remove
  <2> QED
    BY <1>2, <2>3
<1>6. CASE nbr_table_lock(t, s)
  <2>1. Of(used_map)' = Of(used_map)
    BY <1>3, <1>6, StateAsMembers DEF nbr_table_lock
  <2>2. Of(locked_map)' = [Of(locked_map) EXCEPT ![t] = @ \cup {a}]
    BY <1>1, <1>3, <1>4, <1>6, StateAsMembers DEF nbr_table_lock, NbrTypeOK
  <2>3. a \in Of(used_map)[t]
    BY <1>1 DEF Of
  <2> QED
    BY <1>2, <2>1, <2>2, <2>3 DEF Tables!Lock
<1>7. CASE nbr_table_unlock(t, s)
  <2>1. Of(used_map)' = Of(used_map)
    BY <1>3, <1>7, StateAsMembers DEF nbr_table_unlock
  <2>2. Of(locked_map)' = [Of(locked_map) EXCEPT ![t] = @ \ {a}]
    BY <1>1, <1>3, <1>4, <1>7, StateAsMembers DEF nbr_table_unlock, NbrTypeOK
  <2> QED
    BY <1>2, <2>1, <2>2 DEF Tables!Unlock
<1> QED
  BY <1>5, <1>6, <1>7

(* The store implements what the modules are promised: it takes a neighbour   *)
(* away only when it is full, and then one that nobody locks and the fewest   *)
(* tables use.                                                                *)
THEOREM NbrTableImplementsService == NbrSpec => NeighborTablesSpec
<1>1. NbrInit => Tables!Init
  BY DEF NbrInit, Tables!Init, Of, Keys
<1>2. NbrInv /\ NbrInv' /\ [NbrNext]_nbrVars => [Tables!Next]_Tables!vars
  <2> SUFFICES ASSUME NbrInv, NbrInv', [NbrNext]_nbrVars PROVE [Tables!Next]_Tables!vars
    OBVIOUS
  <2>1. CASE NbrNext
    BY <2>1, AddRefines, HeldRefines DEF NbrNext, Tables!Next
  <2>2. CASE UNCHANGED nbrVars
    <3>1. Keys' = Keys /\ lladdr' = lladdr /\ used_map' = used_map /\ locked_map' = locked_map
      BY <2>2 DEF nbrVars, store, Keys
    <3> QED
      BY <3>1 DEF Tables!vars, Of
  <2> QED
    BY <2>1, <2>2
<1> QED
  BY <1>1, <1>2, NbrInvariant, PTL DEF NbrSpec, NeighborTablesSpec, Tables!Spec

----------------------------------------------------------------------------
(* The routing table.                                                         *)
RouteTypeOK ==
  /\ route_list \in [Slot -> Seq(Route)]
  /\ ipaddr \in [Route -> Dest \cup {None}]
  /\ routes \in [Route -> Slot \cup {None}]
  /\ createdFor \in [Route -> Lladdr \cup {None}]

(* The lists hold the allocated routes, each once and where it belongs, in    *)
(* items that are in use.                                                     *)
ListedOnce ==
  \A s \in Slot : \A i, j \in 1..Len(route_list[s]) : route_list[s][i] = route_list[s][j] => i = j
Belong ==
  \A s \in Slot : \A r \in RoutesOf(s) :
    r \in Allocated /\ routes[r] = s /\ createdFor[r] = lladdr[s]
AllListed == \A r \in Allocated : routes[r] \in Slot /\ r \in RoutesOf(routes[r])
ListsInUse == \A s \in Slot : route_list[s] # <<>> => s \in WithRoutes
Counted == num_routes = Cardinality(Allocated)

RouteInv == NbrInv /\ RouteTypeOK /\ ListedOnce /\ Belong /\ AllListed /\ ListsInUse /\ Counted

(* What only holds while there are routes to spare: no list stays empty, and  *)
(* no prefix has two routes.                                                  *)
NoneEmpty == \A s \in WithRoutes : route_list[s] # <<>>
OneRouteEach == \A r, q \in Allocated : ipaddr[r] = ipaddr[q] => r = q
WalkInv == RouteInv /\ NoneEmpty /\ OneRouteEach

----------------------------------------------------------------------------
LEMMA Greatest ==
  ASSUME NEW S \in SUBSET Nat, NEW n \in Nat, S # {}, \A i \in S : i <= n
  PROVE  \E i \in S : \A j \in S : j <= i
<1> DEFINE T == {n - i : i \in S}
<1>1. T \in SUBSET Nat /\ T # {}
  <2>1. \A i \in S : i \in Nat /\ n - i \in Nat OBVIOUS
  <2> QED BY <2>1
<1>2. PICK t \in T : \A u \in T : t <= u
  <2> HIDE DEF T
  <2> QED BY <1>1, LeastNatural
<1>3. PICK i \in S : t = n - i BY <1>2
<1>4. ASSUME NEW j \in S PROVE j <= i
  <2>1. n - j \in T OBVIOUS
  <2>2. n - i <= n - j BY <1>2, <1>3, <2>1
  <2>3. i \in Nat /\ j \in Nat OBVIOUS
  <2> QED BY <2>2, <2>3
<1> QED BY <1>4

----------------------------------------------------------------------------
LEMMA PlaceOfRoute ==
  ASSUME RouteInv, NEW r \in Allocated
  PROVE  /\ routes[r] \in WithRoutes
         /\ \E i \in 1..Len(route_list[routes[r]]) : route_list[routes[r]][i] = r
<1>1. routes[r] \in Slot /\ r \in RoutesOf(routes[r]) BY DEF RouteInv, AllListed
<1>2. PICK i \in 1..Len(route_list[routes[r]]) : route_list[routes[r]][i] = r
  BY <1>1 DEF RoutesOf
<1>3. route_list[routes[r]] # <<>> BY <1>2
<1> QED BY <1>1, <1>2, <1>3 DEF RouteInv, ListsInUse

LEMMA WalkedAllocated ==
  ASSUME RouteInv
  PROVE  Walked \subseteq Allocated
<1>1. WithRoutes \subseteq Slot BY KeysAreSlots DEF RouteInv, NbrInv, WithRoutes
<1> QED BY <1>1 DEF RouteInv, Belong, Walked

(* With no list empty the walk passes by every slot.                          *)
LEMMA AllWalked ==
  ASSUME RouteInv, NoneEmpty
  PROVE  Walked = Allocated
<1>1. \A r \in Allocated : routes[r] \in WithRoutes /\ r \in RoutesOf(routes[r])
  BY PlaceOfRoute DEF RouteInv, AllListed
<1>2. Allocated \subseteq Walked BY <1>1 DEF NoneEmpty, Walked
<1> QED BY <1>2, WalkedAllocated

LEMMA LongestAre ==
  ASSUME RouteInv, NEW d, Matching(d) # {}
  PROVE  /\ Longest(d) # {} /\ Longest(d) \subseteq Matching(d)
         /\ Matching(d) \subseteq Allocated
<1> DEFINE size(r) == Cardinality(Covers[ipaddr[r]])
           S == {size(r) : r \in Matching(d)}
<1>1. Matching(d) \subseteq Allocated BY WalkedAllocated DEF Matching
<1>2. \A r \in Matching(d) : size(r) \in Nat
  <2> SUFFICES ASSUME NEW r \in Matching(d) PROVE size(r) \in Nat OBVIOUS
  <2>1. ipaddr[r] \in Dest BY <1>1 DEF RouteInv, RouteTypeOK, Allocated
  <2>2. Covers[ipaddr[r]] \in SUBSET Dest BY <2>1, Ds6RoutesAssumption
  <2> QED BY <2>2, Ds6RoutesAssumption, FS_Subset, FS_CardinalityType
<1> HIDE DEF size
<1>3. S \in SUBSET Nat /\ S # {} BY <1>2
<1>4. PICK n \in S : \A m \in S : n <= m
  <2> HIDE DEF S
  <2> QED BY <1>3, LeastNatural
<1>5. PICK r \in Matching(d) : size(r) = n BY <1>4
<1>6. r \in Longest(d) BY <1>4, <1>5 DEF Longest, size
<1> QED BY <1>1, <1>6 DEF Longest

(* Of several longest matches one is the last on the walk: the lookup returns *)
(* a route that is allocated and covers the destination.                      *)
LEMMA LookupFinds ==
  ASSUME RouteInv, NEW d
  PROVE  /\ uip_ds6_route_lookup(d) = None <=> Matching(d) = {}
         /\ Matching(d) # {} => uip_ds6_route_lookup(d) \in Longest(d)
<1>1. None \notin Route BY Ds6RoutesAssumption
<1>2. Allocated \subseteq Route BY DEF Allocated
<1>3. SUFFICES ASSUME Matching(d) # {}
               PROVE  \E r \in Longest(d) : \A q \in Longest(d) \ {r} : Before(q, r)
  BY <1>1, <1>2, LongestAre DEF uip_ds6_route_lookup
<1> DEFINE L == Longest(d)
           P == {Position(routes[r]) : r \in L}
           n == Len(nbr_table_keys)
<1>4. L # {} /\ L \subseteq Allocated BY <1>3, LongestAre
<1> HIDE DEF L
<1>5. \A r \in L : routes[r] \in WithRoutes /\ Position(routes[r]) \in 1..n
                   /\ nbr_table_keys[Position(routes[r])] = routes[r]
  <2> SUFFICES ASSUME NEW r \in L PROVE routes[r] \in WithRoutes /\ Position(routes[r]) \in 1..n
                   /\ nbr_table_keys[Position(routes[r])] = routes[r]
    OBVIOUS
  <2>1. routes[r] \in WithRoutes BY <1>4, PlaceOfRoute
  <2>2. routes[r] \in Keys BY <2>1 DEF WithRoutes
  <2> QED BY <2>1, <2>2, PositionOfKey DEF RouteInv, NbrInv
<1>6. n \in Nat BY DEF RouteInv, NbrInv, NbrTypeOK
<1> HIDE DEF n
<1>7. PICK p \in P : \A o \in P : o <= p
  <2>1. P \in SUBSET Nat /\ P # {} /\ \A o \in P : o <= n BY <1>4, <1>5, <1>6
  <2> HIDE DEF P
  <2> QED BY <1>6, <2>1, Greatest
<1>8. PICK a \in L : Position(routes[a]) = p BY <1>7
<1> DEFINE t == routes[a]
           list == route_list[t]
           I == {i \in 1..Len(list) : list[i] \in L}
<1>9. t \in WithRoutes /\ t \in Slot
  BY <1>4, <1>5, <1>8, KeysAreSlots DEF RouteInv, NbrInv, WithRoutes
<1>10. Len(list) \in Nat BY <1>9 DEF RouteInv, RouteTypeOK
<1>11. I # {} BY <1>4, <1>8, PlaceOfRoute
<1>12. PICK i \in I : \A j \in I : j <= i
  <2>1. I \in SUBSET Nat /\ \A j \in I : j <= Len(list) BY <1>10
  <2> HIDE DEF I
  <2> QED BY <1>10, <1>11, <2>1, Greatest
<1>13. ASSUME NEW q \in L, q # list[i] PROVE Before(q, list[i])
  <2> DEFINE u == routes[q]
  <2>1. u \in WithRoutes /\ Position(u) \in 1..n /\ nbr_table_keys[Position(u)] = u BY <1>5
  <2>2. Position(u) <= Position(t) BY <1>7, <1>8
  <2>3. PICK j \in 1..Len(route_list[u]) : route_list[u][j] = q BY <1>4, PlaceOfRoute
  <2>4. CASE Position(u) < Position(t) BY <2>1, <2>3, <2>4, <1>9 DEF Before
  <2>5. CASE Position(u) = Position(t)
    <3>1. u = t BY <2>1, <2>5, <1>5, <1>8
    <3>2. j \in I BY <2>3, <3>1
    <3>3. j <= i /\ j # i BY <1>12, <1>13, <2>3, <3>1, <3>2
    <3>4. j < i BY <3>3, <1>10
    <3> QED BY <2>1, <2>3, <3>1, <3>4, <1>9 DEF Before
  <2>6. Position(u) \in Int /\ Position(t) \in Int BY <2>1, <1>5, <1>6, <1>8
  <2> QED BY <2>2, <2>4, <2>5, <2>6
<1>14. list[i] \in L OBVIOUS
<1> QED BY <1>13, <1>14 DEF L

----------------------------------------------------------------------------
(* What is left of the routes when some are removed.                          *)
LEMMA RemovedRoutes ==
  ASSUME RouteInv, NEW rs \in SUBSET Allocated, RoutesRemoved(rs)
  PROVE  /\ RouteTypeOK' /\ ListedOnce' /\ AllListed' /\ Counted'
         /\ Allocated' = Allocated \ rs /\ \A r \in Allocated' : ipaddr'[r] = ipaddr[r]
         /\ \A s \in Slot :
              /\ RoutesOf(s)' = RoutesOf(s) \ rs
              /\ route_list'[s] # <<>> <=> ~(RoutesOf(s) \subseteq rs)
              /\ \A r \in RoutesOf(s)' :
                   r \in Allocated' /\ routes'[r] = s /\ createdFor'[r] = lladdr[s]
<1>1. /\ route_list' = [s \in Slot |-> Without(route_list[s], rs)]
      /\ ipaddr' = [r \in Route |-> IF r \in rs THEN None ELSE ipaddr[r]]
      /\ routes' = [r \in Route |-> IF r \in rs THEN None ELSE routes[r]]
      /\ createdFor' = [r \in Route |-> IF r \in rs THEN None ELSE createdFor[r]]
      /\ num_routes' = num_routes - Cardinality(rs)
  BY DEF RoutesRemoved
<1>2. ASSUME NEW s \in Slot
      PROVE  /\ route_list'[s] \in Seq(Route) /\ RoutesOf(s)' = RoutesOf(s) \ rs
             /\ \A i, j \in 1..Len(route_list'[s]) : route_list'[s][i] = route_list'[s][j] => i = j
  <2>1. route_list[s] \in Seq(Route) BY DEF RouteInv, RouteTypeOK
  <2>2. \A i, j \in 1..Len(route_list[s]) : route_list[s][i] = route_list[s][j] => i = j
    BY DEF RouteInv, ListedOnce
  <2>3. route_list'[s] = Without(route_list[s], rs) BY <1>1
  <2>4. RoutesOf(s)' = {route_list'[s][i] : i \in 1..Len(route_list'[s])} BY DEF RoutesOf
  <2> DEFINE q == route_list[s]
             w == Without(q, rs)
  <2>5. w \in Seq(Route) /\ Elements(w) = Elements(q) \ rs /\ EachOnce(w)
    <3> HIDE DEF q
    <3>1. q \in Seq(Route) /\ EachOnce(q) BY <2>1, <2>2 DEF q, EachOnce
    <3> QED BY <3>1, WithoutKeeps
  <2>6. route_list'[s] = w /\ RoutesOf(s) = {q[i] : i \in 1..Len(q)} BY <2>3 DEF RoutesOf
  <2> HIDE DEF q, w
  <2> QED BY <2>4, <2>5, <2>6 DEF Elements, EachOnce
<1>3. RouteTypeOK' BY <1>1, <1>2 DEF RouteInv, RouteTypeOK
<1>4. ListedOnce' BY <1>2 DEF ListedOnce
<1>5. Allocated' = Allocated \ rs /\ \A r \in Allocated' : ipaddr'[r] = ipaddr[r]
  BY <1>1 DEF Allocated
<1>6. AllListed'
  <2> SUFFICES ASSUME NEW r \in Allocated' PROVE routes'[r] \in Slot /\ r \in RoutesOf(routes[r])'
    BY DEF AllListed
  <2>1. r \in Allocated /\ r \notin rs BY <1>5
  <2>2. routes'[r] = routes[r] BY <1>1, <2>1 DEF Allocated
  <2>3. routes[r] \in Slot /\ r \in RoutesOf(routes[r]) BY <2>1 DEF RouteInv, AllListed
  <2>4. \A s \in Slot : RoutesOf(s)' = RoutesOf(s) \ rs BY <1>2
  <2>5. \A s \in Slot : RoutesOf(s)' = {route_list'[s][i] : i \in 1..Len(route_list'[s])}
    BY DEF RoutesOf
  <2>6. RoutesOf(routes[r])' = {route_list'[routes'[r]][i] : i \in 1..Len(route_list'[routes'[r]])}
    BY DEF RoutesOf
  <2>7. RoutesOf(routes[r])' = RoutesOf(routes[r]) \ rs BY <2>2, <2>3, <2>4, <2>5, <2>6
  <2> QED BY <2>1, <2>2, <2>3, <2>7
<1>7. Counted'
  <2>1. IsFiniteSet(Allocated) /\ Cardinality(Allocated) \in Nat
    <3>1. Allocated \in SUBSET Route BY DEF Allocated
    <3> QED BY <3>1, Ds6RoutesAssumption, FS_Subset, FS_CardinalityType
  <2>2. Cardinality(Allocated \ rs) = Cardinality(Allocated) - Cardinality(Allocated \cap rs)
    BY <2>1, FS_Difference
  <2>3. Allocated \cap rs = rs OBVIOUS
  <2> QED BY <1>1, <1>5, <2>2, <2>3 DEF RouteInv, Counted
<1>8. ASSUME NEW s \in Slot
      PROVE  /\ RoutesOf(s)' = RoutesOf(s) \ rs
             /\ route_list'[s] # <<>> <=> ~(RoutesOf(s) \subseteq rs)
             /\ \A r \in RoutesOf(s)' :
                  r \in Allocated' /\ routes'[r] = s /\ createdFor'[r] = lladdr[s]
  <2>1. RoutesOf(s)' = RoutesOf(s) \ rs /\ route_list'[s] \in Seq(Route) BY <1>2
  <2>2. RoutesOf(s)' = {route_list'[s][i] : i \in 1..Len(route_list'[s])} BY DEF RoutesOf
  <2>3. route_list'[s] # <<>> <=> RoutesOf(s)' # {} BY <2>1, <2>2
  <2>4. \A r \in RoutesOf(s) : r \in Allocated /\ routes[r] = s /\ createdFor[r] = lladdr[s]
    BY DEF RouteInv, Belong
  <2> QED BY <1>1, <1>5, <2>1, <2>3, <2>4 DEF Allocated
<1> QED BY <1>3, <1>4, <1>5, <1>6, <1>7, <1>8

(* The routes are kept when nothing happens to the slots that hold them.      *)
LEMMA RoutesUnchanged ==
  ASSUME RouteInv, NbrInv', UNCHANGED routeVars,
         WithRoutes \subseteq WithRoutes', \A s \in WithRoutes : lladdr'[s] = lladdr[s]
  PROVE  RouteInv' /\ (NoneEmpty /\ WithRoutes' \subseteq WithRoutes => NoneEmpty')
         /\ (OneRouteEach => OneRouteEach')
<1>1. /\ route_list' = route_list /\ ipaddr' = ipaddr /\ routes' = routes
      /\ num_routes' = num_routes /\ createdFor' = createdFor
  BY DEF routeVars
<1>2. Allocated' = Allocated BY <1>1 DEF Allocated
<1>3. \A s : RoutesOf(s)' = {route_list'[s][i] : i \in 1..Len(route_list'[s])} BY DEF RoutesOf
<1>4. \A s : RoutesOf(s)' = RoutesOf(s) BY <1>1, <1>3 DEF RoutesOf
<1>5. RouteTypeOK' /\ ListedOnce' /\ Counted'
  BY <1>1, <1>2 DEF RouteInv, RouteTypeOK, ListedOnce, Counted
<1>6. AllListed' BY <1>1, <1>2 DEF RouteInv, AllListed, RoutesOf
<1>7. ListsInUse' BY <1>1 DEF RouteInv, ListsInUse
<1>8. Belong'
  <2> SUFFICES ASSUME NEW s \in Slot, NEW r \in RoutesOf(s)'
               PROVE  r \in Allocated' /\ routes'[r] = s /\ createdFor'[r] = lladdr'[s]
    BY DEF Belong
  <2>1. r \in RoutesOf(s) BY <1>4
  <2>2. route_list[s] # <<>> BY <2>1 DEF RoutesOf
  <2>3. s \in WithRoutes BY <2>2 DEF RouteInv, ListsInUse
  <2> QED BY <1>1, <1>2, <2>1, <2>3 DEF RouteInv, Belong
<1>9. NoneEmpty /\ WithRoutes' \subseteq WithRoutes => NoneEmpty' BY <1>1 DEF NoneEmpty
<1>10. OneRouteEach => OneRouteEach' BY <1>1, <1>2 DEF OneRouteEach
<1> QED BY <1>5, <1>6, <1>7, <1>8, <1>9, <1>10 DEF RouteInv

(* Routes that are removed on their own take along the items they leave empty.*)
LEMMA PurgedKept ==
  ASSUME RouteInv, NEW rs \in SUBSET Allocated, RoutesRemoved(rs), ItemsRemoved(rs)
  PROVE  RouteInv' /\ (NoneEmpty => NoneEmpty') /\ (OneRouteEach => OneRouteEach')
<1> DEFINE emptied == {s \in Slot : route_list[s] # <<>> /\ RoutesOf(s) \subseteq rs}
<1>1. /\ used_map' = [s \in Slot |-> used_map[s] \ (IF s \in emptied THEN {nbr_routes} ELSE {})]
      /\ locked_map' = [s \in Slot |-> locked_map[s] \ (IF s \in emptied THEN {nbr_routes} ELSE {})]
      /\ items' = [items EXCEPT ![nbr_routes] = [s \in Slot |-> IF s \in emptied THEN None ELSE @[s]]]
      /\ nbr_table_keys' = nbr_table_keys /\ lladdr' = lladdr
  BY DEF ItemsRemoved
<1>2. \A s \in emptied : s \in Slot /\ route_list[s] # <<>> /\ RoutesOf(s) \subseteq rs OBVIOUS
<1>3. \A s \in Slot : s \notin emptied => route_list[s] = <<>> \/ ~(RoutesOf(s) \subseteq rs)
  OBVIOUS
<1> HIDE DEF emptied
<1>4. Keys' = Keys BY <1>1 DEF Keys
<1>5. nbr_routes \in Table BY Ds6RoutesAssumption
<1>6. \A t \in Table, s \in Slot :
        items'[t][s] = IF t = nbr_routes /\ s \in emptied THEN None ELSE items[t][s]
  BY <1>1, <1>5 DEF RouteInv, NbrInv, NbrTypeOK
<1>7. NbrInv'
  <2>1. NbrTypeOK' BY <1>1, <1>5 DEF RouteInv, NbrInv, NbrTypeOK
  <2>2. ItemsOfTheirNeighbor'
    BY <1>1, <1>4, <1>6 DEF RouteInv, NbrInv, NbrTypeOK, ItemsOfTheirNeighbor
  <2>3. LocksAreUsed' BY <1>1 DEF RouteInv, NbrInv, NbrTypeOK, LocksAreUsed
  <2>4. OneSlotEach' BY <1>1, <1>4 DEF RouteInv, NbrInv, OneSlotEach
  <2>5. FreeSlotsUnlocked' BY <1>1, <1>4 DEF RouteInv, NbrInv, FreeSlotsUnlocked
  <2> QED BY <2>1, <2>2, <2>3, <2>4, <2>5 DEF NbrInv
<1>8. Keys \subseteq Slot BY KeysAreSlots DEF RouteInv, NbrInv
<1>9. WithRoutes' = WithRoutes \ emptied
  <2>1. WithRoutes' = {s \in Keys' : nbr_routes \in used_map'[s]} BY DEF WithRoutes
  <2> QED BY <1>1, <1>4, <1>8, <2>1 DEF WithRoutes
<1>10. /\ RouteTypeOK' /\ ListedOnce' /\ AllListed' /\ Counted'
       /\ Allocated' = Allocated \ rs /\ \A r \in Allocated' : ipaddr'[r] = ipaddr[r]
  BY RemovedRoutes
<1>11. \A s \in Slot :
         /\ route_list'[s] # <<>> <=> ~(RoutesOf(s) \subseteq rs)
         /\ \A r \in RoutesOf(s)' :
              r \in Allocated' /\ routes'[r] = s /\ createdFor'[r] = lladdr[s]
  BY RemovedRoutes
<1>12. Belong' BY <1>1, <1>11 DEF Belong
<1>13. ListsInUse'
  <2> SUFFICES ASSUME NEW s \in Slot, route_list'[s] # <<>> PROVE s \in WithRoutes'
    BY DEF ListsInUse
  <2>1. ~(RoutesOf(s) \subseteq rs) BY <1>11
  <2>2. s \notin emptied BY <1>2, <2>1
  <2>3. route_list[s] # <<>> BY <2>1 DEF RoutesOf
  <2> QED BY <1>9, <2>2, <2>3 DEF RouteInv, ListsInUse
<1>14. NoneEmpty => NoneEmpty'
  <2> SUFFICES ASSUME NoneEmpty, NEW s \in WithRoutes' PROVE route_list'[s] # <<>>
    BY DEF NoneEmpty
  <2>1. s \in WithRoutes /\ s \notin emptied /\ s \in Slot BY <1>8, <1>9 DEF WithRoutes
  <2>2. ~(RoutesOf(s) \subseteq rs) BY <1>3, <2>1 DEF NoneEmpty
  <2> QED BY <1>11, <2>1, <2>2
<1>15. OneRouteEach => OneRouteEach' BY <1>10 DEF OneRouteEach
<1> QED BY <1>7, <1>10, <1>12, <1>13, <1>14, <1>15 DEF RouteInv

----------------------------------------------------------------------------
LEMMA SlotAdded ==
  ASSUME NbrInv, NEW t \in Table, NEW a \in Lladdr, nbr_table_add_lladdr(t, a),
         SlotFor(a) # None
  PROVE  LET s == SlotFor(a)
             new == index_from_lladdr(a) = None IN
         /\ s \in Slot /\ Keys' = Keys \cup {s}
         /\ \A r \in Slot : r # s => lladdr'[r] = lladdr[r] /\ used_map'[r] = used_map[r]
         /\ used_map'[s] = IF new THEN {t} ELSE used_map[s] \cup {t}
         /\ ~new => s \in Keys /\ lladdr'[s] = lladdr[s] /\ CalledBack(a) = {}
         /\ new => CalledBack(a) = IF s \in Keys THEN used_map[s] ELSE {}
<1> DEFINE s == SlotFor(a)
           new == index_from_lladdr(a) = None
<1> USE DEF NbrInv
<1>1. s \in Slot /\ (~new => s \in Keys /\ lladdr[s] = a)
  BY KeysAreSlots, GivenAway, IndexKnown DEF SlotFor
<1>2. /\ nbr_table_keys' = IF new THEN list_add(s) ELSE nbr_table_keys
      /\ lladdr' = [lladdr EXCEPT ![s] = a]
      /\ used_map' = [used_map EXCEPT ![s] = IF new THEN {t} ELSE @ \cup {t}]
  BY DEF nbr_table_add_lladdr
<1>3. CalledBack(a) = IF new /\ s \in Keys THEN used_map[s] ELSE {}
  BY DEF CalledBack, Evicted
<1> HIDE DEF s, new
<1>4. Keys' = Keys \cup {s}
  <2>1. CASE new
    <3>1. {list_add(s)[i] : i \in 1..Len(list_add(s))} = Keys \cup {s} BY <1>1, ListAdded
    <3> QED BY <1>2, <2>1, <3>1 DEF Keys
  <2>2. CASE ~new BY <1>1, <1>2, <2>2 DEF Keys
  <2> QED BY <2>1, <2>2
<1>5. /\ \A r \in Slot : r # s => lladdr'[r] = lladdr[r] /\ used_map'[r] = used_map[r]
      /\ used_map'[s] = IF new THEN {t} ELSE used_map[s] \cup {t}
      /\ lladdr'[s] = a
  BY <1>1, <1>2 DEF NbrTypeOK
<1> QED BY <1>1, <1>3, <1>4, <1>5 DEF s, new

(* A slot that another table takes over from a neighbour loses its routes.    *)
LEMMA OverwrittenKept ==
  ASSUME RouteInv, NEW t \in Table, t # nbr_routes, NEW a \in Lladdr,
         nbr_table_add_lladdr(t, a), rm_routelist_callback(a)
  PROVE  RouteInv' /\ (NoneEmpty => NoneEmpty') /\ (OneRouteEach => OneRouteEach')
<1> DEFINE s == SlotFor(a)
           new == index_from_lladdr(a) = None
<1>1. NbrInv' BY AddKept DEF RouteInv
<1>2. NbrInv /\ Keys \subseteq Slot BY KeysAreSlots DEF RouteInv, NbrInv
<1>3. WithRoutes' = {r \in Keys' : nbr_routes \in used_map'[r]} BY DEF WithRoutes
<1>4. CASE s = None
  <2>1. UNCHANGED nbrVars BY <1>4 DEF nbr_table_add_lladdr
  <2>2. lladdr' = lladdr /\ used_map' = used_map /\ Keys' = Keys BY <2>1 DEF nbrVars, store, Keys
  <2>3. CalledBack(a) = {} BY <1>2, <1>4, NbrTableAssumption DEF CalledBack, Evicted
  <2>4. UNCHANGED routeVars BY <2>3 DEF rm_routelist_callback
  <2>5. WithRoutes' = WithRoutes BY <1>3, <2>2 DEF WithRoutes
  <2> QED BY <1>1, <2>2, <2>4, <2>5, RoutesUnchanged
<1>5. CASE s # None
  <2>1. /\ s \in Slot /\ Keys' = Keys \cup {s}
        /\ \A r \in Slot : r # s => lladdr'[r] = lladdr[r] /\ used_map'[r] = used_map[r]
        /\ used_map'[s] = IF new THEN {t} ELSE used_map[s] \cup {t}
        /\ ~new => s \in Keys /\ lladdr'[s] = lladdr[s] /\ CalledBack(a) = {}
        /\ new => CalledBack(a) = IF s \in Keys THEN used_map[s] ELSE {}
    BY <1>2, <1>5, SlotAdded
  <2> HIDE DEF s, new
  <2>2. CASE nbr_routes \notin CalledBack(a)
    <3>1. UNCHANGED routeVars BY <2>2 DEF rm_routelist_callback
    <3>2. WithRoutes' = WithRoutes /\ \A r \in WithRoutes : lladdr'[r] = lladdr[r]
      BY <1>2, <1>3, <2>1, <2>2 DEF WithRoutes
    <3> QED BY <1>1, <3>1, <3>2, RoutesUnchanged
  <2>3. CASE nbr_routes \in CalledBack(a)
    <3> DEFINE rs == RoutesOf(s)
    <3>1. RoutesRemoved(rs) BY <2>3 DEF rm_routelist_callback, s
    <3>2. rs \in SUBSET Allocated BY <2>1 DEF RouteInv, Belong
    <3>3. new /\ s \in WithRoutes /\ WithRoutes' = WithRoutes \ {s}
      BY <1>2, <1>3, <2>1, <2>3 DEF WithRoutes
    <3>4. /\ RouteTypeOK' /\ ListedOnce' /\ AllListed' /\ Counted'
          /\ Allocated' = Allocated \ rs /\ \A r \in Allocated' : ipaddr'[r] = ipaddr[r]
      BY <3>1, <3>2, RemovedRoutes
    <3>5. \A u \in Slot :
            /\ RoutesOf(u)' = RoutesOf(u) \ rs
            /\ route_list'[u] # <<>> <=> ~(RoutesOf(u) \subseteq rs)
            /\ \A r \in RoutesOf(u)' :
                 r \in Allocated' /\ routes'[r] = u /\ createdFor'[r] = lladdr[u]
      BY <3>1, <3>2, RemovedRoutes
    <3>6. \A u \in Slot : u # s => \A r \in RoutesOf(u) : r \notin rs
      BY <2>1 DEF RouteInv, Belong
    <3>7. Belong'
      <4> SUFFICES ASSUME NEW u \in Slot, NEW r \in RoutesOf(u)'
                   PROVE  r \in Allocated' /\ routes'[r] = u /\ createdFor'[r] = lladdr'[u]
        BY DEF Belong
      <4>1. r \in RoutesOf(u) \ rs BY <3>5
      <4>2. u # s BY <4>1
      <4> QED BY <2>1, <3>5, <4>2
    <3>8. ListsInUse'
      <4> SUFFICES ASSUME NEW u \in Slot, route_list'[u] # <<>> PROVE u \in WithRoutes'
        BY DEF ListsInUse
      <4>1. ~(RoutesOf(u) \subseteq rs) BY <3>5
      <4>2. u # s /\ route_list[u] # <<>> BY <4>1 DEF RoutesOf
      <4> QED BY <3>3, <4>2 DEF RouteInv, ListsInUse
    <3>9. NoneEmpty => NoneEmpty'
      <4> SUFFICES ASSUME NoneEmpty, NEW u \in WithRoutes' PROVE route_list'[u] # <<>>
        BY DEF NoneEmpty
      <4>1. u \in WithRoutes /\ u # s /\ u \in Slot BY <1>2, <3>3 DEF WithRoutes
      <4>2. route_list[u] # <<>> /\ route_list[u] \in Seq(Route)
        BY <4>1 DEF NoneEmpty, RouteInv, RouteTypeOK
      <4>3. RoutesOf(u) # {}
        <5>1. Len(route_list[u]) \in Nat /\ Len(route_list[u]) # 0 BY <4>2
        <5>2. 1 \in 1..Len(route_list[u]) BY <5>1
        <5> QED BY <5>2 DEF RoutesOf
      <4> QED BY <3>5, <3>6, <4>1, <4>3
    <3>10. OneRouteEach => OneRouteEach' BY <3>4 DEF OneRouteEach
    <3> QED BY <1>1, <3>4, <3>7, <3>8, <3>9, <3>10 DEF RouteInv
  <2> QED BY <2>2, <2>3
<1> QED BY <1>4, <1>5

----------------------------------------------------------------------------
(* A route that is added: its neighbour is known, so nobody loses a slot.     *)
LEMMA AddedKept ==
  ASSUME RouteInv, NEW d \in Dest, NEW a \in Lladdr,
         nbr_table_get_from_lladdr(ds6_neighbors, a) # None, RouteAdded(d, a)
  PROVE  /\ RouteInv'
         /\ (\E r \in Route : ipaddr[r] = None) /\ NoneEmpty => NoneEmpty'
         /\ OneRouteEach /\ (\A r \in Allocated : ipaddr[r] # d) => OneRouteEach'
<1>s. PICK s : s = index_from_lladdr(a) OBVIOUS
<1> DEFINE free == {r \in Route : ipaddr[r] = None}
<1>1. NbrInv /\ Keys \subseteq Slot BY KeysAreSlots DEF RouteInv, NbrInv
<1>2. s # None /\ s \in Keys /\ s \in Slot /\ lladdr[s] = a
  BY <1>1, <1>s, IndexKnown DEF nbr_table_get_from_lladdr, NbrInv
<1>3. nbr_routes \in Table BY Ds6RoutesAssumption
<1>4. WithRoutes' = {r \in Keys' : nbr_routes \in used_map'[r]} BY DEF WithRoutes
<1>5. NbrInv' /\ (\A r \in Slot : lladdr'[r] = lladdr[r]) /\ WithRoutes' = WithRoutes \cup {s}
  <2>1. CASE nbr_table_get_from_lladdr(nbr_routes, a) = None
    <3>1. nbr_table_add_lladdr(nbr_routes, a) BY <2>1 DEF RouteAdded
    <3>2. NbrInv' BY <1>1, <1>3, <3>1, AddKept
    <3>3. SlotFor(a) = s BY <1>s, <1>2 DEF SlotFor
    <3>4. /\ Keys' = Keys \cup {s}
          /\ \A r \in Slot : r # s => lladdr'[r] = lladdr[r] /\ used_map'[r] = used_map[r]
          /\ used_map'[s] = used_map[s] \cup {nbr_routes} /\ lladdr'[s] = lladdr[s]
      <4>1. /\ Keys' = Keys \cup {SlotFor(a)}
            /\ \A r \in Slot : r # SlotFor(a) =>
                 lladdr'[r] = lladdr[r] /\ used_map'[r] = used_map[r]
            /\ index_from_lladdr(a) # None =>
                 /\ used_map'[SlotFor(a)] = used_map[SlotFor(a)] \cup {nbr_routes}
                 /\ lladdr'[SlotFor(a)] = lladdr[SlotFor(a)]
        BY <1>1, <1>2, <1>3, <3>1, <3>3, SlotAdded
      <4> QED BY <1>s, <1>2, <3>3, <4>1
    <3> QED BY <1>1, <1>2, <1>4, <3>2, <3>4 DEF WithRoutes
  <2>2. CASE nbr_table_get_from_lladdr(nbr_routes, a) # None
    <3>1. UNCHANGED nbrVars BY <2>2 DEF RouteAdded
    <3>2. [NbrNext]_nbrVars BY <3>1
    <3>3. NbrInv' BY <1>1, <3>2, InvKept
    <3>4. Keys' = Keys /\ lladdr' = lladdr /\ used_map' = used_map
      BY <3>1 DEF nbrVars, store, Keys
    <3>5. nbr_routes \in used_map[s] BY <1>s, <2>2 DEF nbr_table_get_from_lladdr
    <3> QED BY <1>2, <1>4, <3>3, <3>4, <3>5 DEF WithRoutes
  <2> QED BY <2>1, <2>2
<1>6. WithRoutes \subseteq Slot BY <1>1 DEF WithRoutes
<1>7. CASE free = {}
  <2>1. UNCHANGED routeVars BY <1>7 DEF RouteAdded
  <2> QED BY <1>5, <1>6, <1>7, <2>1, RoutesUnchanged
<1>8. CASE free # {}
  <2>1. PICK r \in free :
          /\ route_list' = [route_list EXCEPT ![s] = Append(@, r)]
          /\ ipaddr' = [ipaddr EXCEPT ![r] = d]
          /\ routes' = [routes EXCEPT ![r] = s]
          /\ createdFor' = [createdFor EXCEPT ![r] = a]
          /\ num_routes' = num_routes + 1
    BY <1>s, <1>8 DEF RouteAdded
  <2>2. r \in Route /\ r \notin Allocated /\ d # None
    BY Ds6RoutesAssumption DEF Allocated
  <2>3. RouteTypeOK' BY <1>2, <2>1, <2>2 DEF RouteInv, RouteTypeOK
  <2>4. Allocated' = Allocated \cup {r} /\ \A q \in Route : ipaddr'[q] = IF q = r THEN d ELSE ipaddr[q]
    BY <2>1, <2>2 DEF RouteInv, RouteTypeOK, Allocated
  <2>5. \A q \in Route : /\ routes'[q] = IF q = r THEN s ELSE routes[q]
                         /\ createdFor'[q] = IF q = r THEN a ELSE createdFor[q]
    BY <2>1, <2>2 DEF RouteInv, RouteTypeOK
  <2> DEFINE q0 == route_list[s]
             n == Len(q0)
  <2>6. q0 \in Seq(Route) /\ n \in Nat BY <1>2 DEF RouteInv, RouteTypeOK
  <2>7. route_list'[s] = Append(q0, r) /\ \A u \in Slot : u # s => route_list'[u] = route_list[u]
    BY <1>2, <2>1 DEF RouteInv, RouteTypeOK
  <2>8. \A u : RoutesOf(u)' = {route_list'[u][i] : i \in 1..Len(route_list'[u])} BY DEF RoutesOf
  <2>9. \A u \in Slot : u # s => RoutesOf(u)' = RoutesOf(u) BY <2>7, <2>8 DEF RoutesOf
  <2>10. /\ Len(Append(q0, r)) = n + 1 /\ Append(q0, r)[n + 1] = r
         /\ \A i \in 1..n : Append(q0, r)[i] = q0[i]
    BY <2>2, <2>6
  <2>11. \A i \in 1..n + 1 : i \in 1..n \/ i = n + 1 BY <2>6
  <2>12. n + 1 \in 1..n + 1 /\ \A i \in 1..n : i \in 1..n + 1 BY <2>6
  <2>13. RoutesOf(s) = {q0[i] : i \in 1..n} BY DEF RoutesOf
  <2> HIDE DEF q0, n
  <2>14. RoutesOf(s)' = RoutesOf(s) \cup {r}
    BY <1>2, <2>7, <2>8, <2>10, <2>11, <2>12, <2>13
  <2>15. \A u \in Slot : \A q \in RoutesOf(u) : q \in Allocated /\ routes[q] = u /\ createdFor[q] = lladdr[u]
    BY DEF RouteInv, Belong
  <2>16. Allocated \subseteq Route BY DEF Allocated
  <2>17. Belong'
    <3> SUFFICES ASSUME NEW u \in Slot, NEW q \in RoutesOf(u)'
                 PROVE  q \in Allocated' /\ routes'[q] = u /\ createdFor'[q] = lladdr'[u]
      BY DEF Belong
    <3>1. CASE q = r
      <4>1. u = s BY <2>2, <2>9, <2>15, <3>1
      <4> QED BY <1>2, <1>5, <2>2, <2>4, <2>5, <3>1, <4>1
    <3>2. CASE q # r
      <4>1. q \in RoutesOf(u) BY <2>9, <2>14, <3>2
      <4> QED BY <1>5, <2>4, <2>5, <2>15, <2>16, <3>2, <4>1
    <3> QED BY <3>1, <3>2
  <2>18. AllListed'
    <3> SUFFICES ASSUME NEW q \in Allocated' PROVE routes'[q] \in Slot /\ q \in RoutesOf(routes[q])'
      BY DEF AllListed
    <3>1. RoutesOf(routes[q])' = {route_list'[routes'[q]][i] : i \in 1..Len(route_list'[routes'[q]])}
      BY DEF RoutesOf
    <3>2. CASE q = r BY <1>2, <2>2, <2>5, <2>8, <2>14, <3>1, <3>2
    <3>3. CASE q # r
      <4>1. q \in Allocated /\ routes'[q] = routes[q] BY <2>4, <2>5, <2>16, <3>3
      <4>2. routes[q] \in Slot /\ q \in RoutesOf(routes[q]) BY <4>1 DEF RouteInv, AllListed
      <4>3. q \in {route_list'[routes[q]][i] : i \in 1..Len(route_list'[routes[q]])}
        BY <2>8, <2>9, <2>14, <4>2
      <4> QED BY <3>1, <4>1, <4>2, <4>3
    <3> QED BY <3>2, <3>3
  <2>19. ListedOnce'
    <3>1. \A i, j \in 1..n : q0[i] = q0[j] => i = j BY <1>2 DEF RouteInv, ListedOnce, q0, n
    <3>2. \A i \in 1..n : q0[i] # r BY <1>2, <2>2, <2>13, <2>15
    <3>3. \A i, j \in 1..n + 1 : Append(q0, r)[i] = Append(q0, r)[j] => i = j
      BY <2>10, <2>11, <3>1, <3>2
    <3>4. \A u \in Slot : u # s => \A i, j \in 1..Len(route_list[u]) :
            route_list[u][i] = route_list[u][j] => i = j
      BY DEF RouteInv, ListedOnce
    <3> QED BY <2>7, <2>10, <3>3, <3>4 DEF ListedOnce
  <2>20. ListsInUse' BY <1>5, <2>7 DEF RouteInv, ListsInUse
  <2>21. Counted'
    <3>1. IsFiniteSet(Allocated)
      <4>1. Allocated \in SUBSET Route BY <2>16
      <4> QED BY <4>1, Ds6RoutesAssumption, FS_Subset
    <3>2. Cardinality(Allocated \cup {r}) = Cardinality(Allocated) + 1
      BY <2>2, <3>1, FS_AddElement
    <3> QED BY <2>1, <2>4, <3>2 DEF RouteInv, Counted
  <2>22. NoneEmpty => NoneEmpty'
    <3>1. Append(q0, r) # <<>>
      <4> DEFINE w == Append(q0, r)
      <4>1. Len(w) # 0 BY <2>6, <2>10
      <4> HIDE DEF w
      <4>2. w # <<>> BY <4>1
      <4> QED BY <4>2 DEF w
    <3> QED BY <1>5, <1>6, <2>7, <3>1 DEF NoneEmpty
  <2>23. OneRouteEach /\ (\A q \in Allocated : ipaddr[q] # d) => OneRouteEach'
    BY <2>4, <2>16 DEF OneRouteEach
  <2> QED BY <1>5, <2>3, <2>17, <2>18, <2>19, <2>20, <2>21, <2>22, <2>23 DEF RouteInv
<1> QED BY <1>7, <1>8

(* A route for another prefix becomes the one for d: it was the longest match,*)
(* so d had none of its own, or this is it.                                   *)
LEMMA UpdatedKept ==
  ASSUME RouteInv, NEW d \in Dest, uip_ds6_route_lookup(d) # None,
         RouteUpdated(uip_ds6_route_lookup(d), d)
  PROVE  RouteInv' /\ (NoneEmpty => NoneEmpty') /\ (NoneEmpty /\ OneRouteEach => OneRouteEach')
<1> DEFINE r == uip_ds6_route_lookup(d)
<1>1. r \in Longest(d) /\ Matching(d) # {} BY LookupFinds
<1>2. r \in Matching(d) /\ r \in Allocated BY <1>1, LongestAre
<1>3. /\ ipaddr' = [ipaddr EXCEPT ![r] = d]
      /\ nbr_table_keys' = nbr_table_keys /\ lladdr' = lladdr /\ used_map' = used_map
      /\ locked_map' = locked_map /\ items' = items
      /\ route_list' = route_list /\ routes' = routes /\ createdFor' = createdFor
      /\ num_routes' = num_routes
  BY DEF RouteUpdated, nbrVars, store
<1> HIDE DEF r
<1>4. Allocated' = Allocated /\ \A q \in Route : ipaddr'[q] = IF q = r THEN d ELSE ipaddr[q]
  BY <1>2, <1>3, Ds6RoutesAssumption DEF RouteInv, RouteTypeOK, Allocated
<1>5. NbrInv'
  <2>1. UNCHANGED nbrVars BY <1>3 DEF nbrVars, store
  <2> QED BY <2>1, InvKept DEF RouteInv
<1>6. Keys' = Keys BY <1>3 DEF Keys
<1>7. WithRoutes' = WithRoutes BY <1>3, <1>6 DEF WithRoutes
<1>8. RouteTypeOK' BY <1>2, <1>3 DEF RouteInv, RouteTypeOK, Allocated
<1>9. ListedOnce' /\ ListsInUse' /\ Counted'
  BY <1>3, <1>4, <1>7 DEF RouteInv, ListedOnce, ListsInUse, Counted
<1>10. Belong' /\ AllListed' BY <1>3, <1>4 DEF RouteInv, Belong, AllListed, RoutesOf
<1>11. NoneEmpty => NoneEmpty' BY <1>3, <1>7 DEF NoneEmpty
<1>12. ASSUME NoneEmpty, OneRouteEach, NEW q \in Allocated, q # r, ipaddr[q] = d PROVE FALSE
  <2> DEFINE c == ipaddr[r]
  <2>1. c \in Dest /\ q \in Route /\ r \in Route BY <1>2 DEF RouteInv, RouteTypeOK, Allocated
  <2>2. d \in Covers[c] BY <1>2 DEF Matching
  <2>3. Covers[d] \subseteq Covers[c] /\ (c \in Covers[d] => c = d)
    BY <2>1, <2>2, Ds6RoutesAssumption
  <2>4. q \in Matching(d)
    <3>1. q \in Walked BY <1>12, AllWalked
    <3> QED BY <1>12, <3>1, Ds6RoutesAssumption DEF Matching
  <2>5. Cardinality(Covers[c]) <= Cardinality(Covers[d]) BY <1>1, <1>12, <2>4 DEF Longest
  <2>6. IsFiniteSet(Covers[c]) /\ Cardinality(Covers[c]) \in Nat
    <3>1. Covers[c] \in SUBSET Dest BY <2>1, Ds6RoutesAssumption
    <3> QED BY <3>1, Ds6RoutesAssumption, FS_Subset, FS_CardinalityType
  <2> DEFINE S == Covers[c]
             T == Covers[d]
  <2>7. T \in SUBSET S BY <2>3
  <2>8. IsFiniteSet(S) /\ Cardinality(S) \in Nat BY <2>6
  <2>9. IsFiniteSet(T) /\ Cardinality(T) <= Cardinality(S) /\ (Cardinality(S) = Cardinality(T) => S = T)
    <3> HIDE DEF S, T
    <3> QED BY <2>7, <2>8, FS_Subset
  <2>10. Cardinality(T) \in Nat
    <3> HIDE DEF T
    <3> QED BY <2>9, FS_CardinalityType
  <2>11. S = T BY <2>5, <2>8, <2>9, <2>10
  <2>12. c \in Covers[c] BY <2>1, Ds6RoutesAssumption
  <2>13. c = d BY <2>3, <2>11, <2>12
  <2> QED BY <1>2, <1>12, <2>13 DEF OneRouteEach
<1>13. NoneEmpty /\ OneRouteEach => OneRouteEach'
  <2>1. Allocated \subseteq Route BY DEF Allocated
  <2> QED BY <1>2, <1>4, <1>12, <2>1 DEF OneRouteEach
<1> QED BY <1>5, <1>8, <1>9, <1>10, <1>11, <1>13 DEF RouteInv

(* A table that removes, locks or unlocks an item of its own.                 *)
LEMMA OwnItemKept ==
  ASSUME RouteInv, NEW t \in Table, t # nbr_routes, NEW s \in Slot,
         nbr_table_remove(t, s) \/ nbr_table_lock(t, s) \/ nbr_table_unlock(t, s),
         t \in used_map[s] /\ s \in Keys, UNCHANGED routeVars
  PROVE  RouteInv' /\ (NoneEmpty => NoneEmpty') /\ (OneRouteEach => OneRouteEach')
<1>1. Keys' = Keys /\ lladdr' = lladdr
  BY DEF nbr_table_remove, nbr_table_lock, nbr_table_unlock, Keys
<1>2. \A r \in Slot : nbr_routes \in used_map'[r] <=> nbr_routes \in used_map[r]
  BY DEF nbr_table_remove, nbr_table_lock, nbr_table_unlock, RouteInv, NbrInv, NbrTypeOK
<1>3. Keys \subseteq Slot BY KeysAreSlots DEF RouteInv, NbrInv
<1>4. WithRoutes' = WithRoutes
  <2>1. WithRoutes' = {r \in Keys' : nbr_routes \in used_map'[r]} BY DEF WithRoutes
  <2> QED BY <1>1, <1>2, <1>3, <2>1 DEF WithRoutes
<1>5. NbrInv'
  <2> USE DEF RouteInv
  <2>1. CASE nbr_table_remove(t, s)
    BY <1>1, <2>1 DEF nbr_table_remove, NbrInv, NbrTypeOK, ItemsOfTheirNeighbor, LocksAreUsed,
       OneSlotEach, FreeSlotsUnlocked
  <2>2. CASE nbr_table_lock(t, s)
    BY <1>1, <2>2 DEF nbr_table_lock, NbrInv, NbrTypeOK, ItemsOfTheirNeighbor, LocksAreUsed,
       OneSlotEach, FreeSlotsUnlocked
  <2>3. CASE nbr_table_unlock(t, s)
    BY <1>1, <2>3 DEF nbr_table_unlock, NbrInv, NbrTypeOK, ItemsOfTheirNeighbor, LocksAreUsed,
       OneSlotEach, FreeSlotsUnlocked
  <2> QED BY <2>1, <2>2, <2>3
<1> QED BY <1>1, <1>4, <1>5, RoutesUnchanged

LEMMA OtherTableKept ==
  ASSUME RouteInv, NEW t \in Table \ {ds6_neighbors, nbr_routes}, OtherTable(t)
  PROVE  RouteInv' /\ (NoneEmpty => NoneEmpty') /\ (OneRouteEach => OneRouteEach')
<1>1. CASE \E a \in Lladdr : nbr_table_add_lladdr(t, a) /\ rm_routelist_callback(a)
  BY <1>1, OverwrittenKept
<1>2. CASE /\ \E s \in {r \in Slot : items[t][r] # None} :
                nbr_table_remove(t, s) \/ nbr_table_lock(t, s) \/ nbr_table_unlock(t, s)
           /\ UNCHANGED routeVars
  <2>1. PICK s \in Slot : /\ items[t][s] # None
                          /\ nbr_table_remove(t, s) \/ nbr_table_lock(t, s) \/ nbr_table_unlock(t, s)
    BY <1>2
  <2>2. t \in used_map[s] /\ s \in Keys BY <2>1 DEF RouteInv, NbrInv, ItemsOfTheirNeighbor
  <2> QED BY <1>2, <2>1, <2>2, OwnItemKept
<1> QED BY <1>1, <1>2 DEF OtherTable

(* With no more prefixes than routes one is free for each that has none.      *)
LEMMA RoutesToSpare ==
  ASSUME Cardinality(Dest) <= Cardinality(Route), RouteInv, OneRouteEach, NEW d \in Dest,
         \A r \in Allocated : ipaddr[r] # d
  PROVE  \E r \in Route : ipaddr[r] = None
<1> SUFFICES ASSUME \A r \in Route : ipaddr[r] # None PROVE FALSE OBVIOUS
<1> DEFINE D == Dest \ {d}
<1>1. Allocated = Route BY DEF Allocated
<1>2. ipaddr \in [Route -> D] BY <1>1 DEF RouteInv, RouteTypeOK
<1>3. IsFiniteSet(D) /\ Cardinality(D) = Cardinality(Dest) - 1
  BY Ds6RoutesAssumption, FS_RemoveElement
<1>4. Cardinality(Dest) \in Nat /\ Cardinality(Route) \in Nat
  BY Ds6RoutesAssumption, FS_CardinalityType
<1>5. Cardinality(D) < Cardinality(Route) BY <1>3, <1>4
<1> HIDE DEF D
<1>6. \E x, y \in Route : x # y /\ ipaddr[x] = ipaddr[y]
  BY <1>2, <1>3, <1>5, Ds6RoutesAssumption, FS_PigeonHole
<1> QED BY <1>1, <1>6 DEF OneRouteEach

----------------------------------------------------------------------------
LEMMA RouteInvInit == Init => WalkInv
<1> SUFFICES ASSUME Init PROVE WalkInv OBVIOUS
<1>1. NbrInv BY InitKept DEF Init
<1>2. Keys = {} BY DEF Init, NbrInit, Keys
<1>3. Allocated = {} BY DEF Init, Allocated
<1>4. \A s \in Slot : route_list[s] = <<>> /\ RoutesOf(s) = {} BY DEF Init, RoutesOf
<1>5. RouteTypeOK BY DEF Init, RouteTypeOK
<1>6. Counted BY <1>3, FS_EmptySet DEF Init, Counted
<1>7. ListedOnce /\ Belong /\ AllListed /\ ListsInUse
  BY <1>3, <1>4 DEF ListedOnce, Belong, AllListed, ListsInUse
<1>8. NoneEmpty /\ OneRouteEach BY <1>2, <1>3 DEF NoneEmpty, OneRouteEach, WithRoutes
<1> QED BY <1>1, <1>5, <1>6, <1>7, <1>8 DEF WalkInv, RouteInv

LEMMA RouteInvStep ==
  ASSUME RouteInv, [Next]_vars
  PROVE  /\ RouteInv'
         /\ WalkInv /\ Cardinality(Dest) <= Cardinality(Route) => WalkInv'
<1> DEFINE Goal == /\ RouteInv'
                   /\ WalkInv /\ Cardinality(Dest) <= Cardinality(Route) => WalkInv'
<1> SUFFICES Goal OBVIOUS
<1>0. RouteInv' /\ (NoneEmpty => NoneEmpty') /\ (OneRouteEach => OneRouteEach') => Goal
  BY DEF WalkInv
<1>1. ASSUME NEW d \in Dest, NEW a \in Lladdr, uip_ds6_route_add(d, a) PROVE Goal
  <2>1. CASE uip_ds6_route_lookup(d) = None
    <3>1. RouteAdded(d, a) /\ nbr_table_get_from_lladdr(ds6_neighbors, a) # None
      BY <1>1, <2>1 DEF uip_ds6_route_add
    <3>2. NoneEmpty => \A r \in Allocated : ipaddr[r] # d
      <4> SUFFICES ASSUME NoneEmpty, NEW r \in Allocated, ipaddr[r] = d PROVE FALSE OBVIOUS
      <4>1. r \in Walked BY AllWalked
      <4>2. r \in Matching(d) BY <4>1, Ds6RoutesAssumption DEF Matching
      <4> QED BY <2>1, <4>2, LookupFinds
    <3>3. /\ RouteInv'
          /\ (\E r \in Route : ipaddr[r] = None) /\ NoneEmpty => NoneEmpty'
          /\ OneRouteEach /\ (\A r \in Allocated : ipaddr[r] # d) => OneRouteEach'
      BY <3>1, AddedKept
    <3>4. WalkInv /\ Cardinality(Dest) <= Cardinality(Route) => \E r \in Route : ipaddr[r] = None
      BY <3>2, RoutesToSpare DEF WalkInv
    <3> QED BY <3>2, <3>3, <3>4 DEF WalkInv
  <2>2. CASE uip_ds6_route_lookup(d) # None
    <3>1. RouteUpdated(uip_ds6_route_lookup(d), d) BY <1>1, <2>2 DEF uip_ds6_route_add
    <3> QED BY <2>2, <3>1, UpdatedKept DEF WalkInv
  <2> QED BY <2>1, <2>2
<1>2. ASSUME NEW rs \in SUBSET Route, RoutesPurged(rs) PROVE Goal
  <2>1. rs \in SUBSET Allocated BY <1>2, WalkedAllocated DEF RoutesPurged
  <2> QED BY <1>0, <1>2, <2>1, PurgedKept DEF RoutesPurged
<1>3. ASSUME NEW d \in Dest, tcpip_ipv6_output(d) PROVE Goal
  <2> DEFINE r == uip_ds6_route_lookup(d)
  <2>1. r # None /\ RoutesRemoved({r}) /\ ItemsRemoved({r}) BY <1>3 DEF tcpip_ipv6_output
  <2>2. r \in Allocated BY <2>1, LookupFinds, LongestAre
  <2> HIDE DEF r
  <2> QED BY <1>0, <2>1, <2>2, PurgedKept
<1>4. ASSUME NEW a \in Lladdr, uip_ds6_nbr_add(a) PROVE Goal
  BY <1>0, <1>4, OverwrittenKept, Ds6RoutesAssumption DEF uip_ds6_nbr_add
<1>5. ASSUME NEW a \in Lladdr, uip_ds6_nbr_rm(a) PROVE Goal
  <2> DEFINE s == nbr_table_get_from_lladdr(ds6_neighbors, a)
  <2>1. s # None /\ nbr_table_remove(ds6_neighbors, s) /\ UNCHANGED routeVars
    BY <1>5 DEF uip_ds6_nbr_rm
  <2>2. s \in Keys /\ ds6_neighbors \in used_map[s] /\ s \in Slot
    BY <2>1, IndexKnown, KeysAreSlots DEF nbr_table_get_from_lladdr, RouteInv, NbrInv
  <2> HIDE DEF s
  <2> QED BY <1>0, <2>1, <2>2, OwnItemKept, Ds6RoutesAssumption
<1>6. ASSUME NEW t \in Table \ {ds6_neighbors, nbr_routes}, OtherTable(t) PROVE Goal
  BY <1>0, <1>6, OtherTableKept
<1>7. CASE UNCHANGED vars
  <2>1. UNCHANGED nbrVars /\ UNCHANGED routeVars BY <1>7 DEF vars
  <2>2. NbrInv' BY <2>1, InvKept DEF RouteInv
  <2>3. lladdr' = lladdr /\ WithRoutes' = WithRoutes
    BY <2>1 DEF nbrVars, store, WithRoutes, Keys
  <2> QED BY <1>0, <2>1, <2>2, <2>3, RoutesUnchanged
<1> HIDE DEF Goal
<1>8. CASE Next BY <1>1, <1>2, <1>3, <1>4, <1>5, <1>6, <1>8 DEF Next
<1> QED BY <1>7, <1>8

(* Whatever the other tables do with the slots, a route leads to the          *)
(* neighbour it was created for as long as it is allocated.                   *)
THEOREM RoutesNeverAstray == Spec => []RoutesOfTheirNeighbor
<1>1. Init => RouteInv BY RouteInvInit DEF WalkInv
<1>2. RouteInv /\ [Next]_vars => RouteInv' BY RouteInvStep
<1>3. RouteInv => RoutesOfTheirNeighbor
  <2> SUFFICES ASSUME RouteInv, NEW r \in Allocated PROVE lladdr[routes[r]] = createdFor[r]
    BY DEF RoutesOfTheirNeighbor
  <2>1. routes[r] \in Slot /\ r \in RoutesOf(routes[r]) BY DEF RouteInv, AllListed
  <2> QED BY <2>1 DEF RouteInv, Belong
<1> QED BY <1>1, <1>2, <1>3, PTL DEF Spec

(* As long as there are no more prefixes than routes, the pool never runs out *)
(* and a walk of the routes finds all of them, as many as num_routes says.    *)
THEOREM WalksFindAllRoutes ==
  Cardinality(Dest) <= Cardinality(Route) => (Spec => []AllRoutesWalked)
<1> SUFFICES ASSUME Cardinality(Dest) <= Cardinality(Route) PROVE Spec => []AllRoutesWalked
  OBVIOUS
<1>1. Init => WalkInv BY RouteInvInit
<1>2. WalkInv /\ [Next]_vars => WalkInv' BY RouteInvStep DEF WalkInv
<1>3. WalkInv => AllRoutesWalked BY AllWalked DEF WalkInv, RouteInv, Counted, AllRoutesWalked
<1> QED BY <1>1, <1>2, <1>3, PTL DEF Spec
=============================================================================
