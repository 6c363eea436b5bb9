----------------------------- MODULE RplParents -----------------------------
(* The parents of an RPL router: core/net/rpl/rpl-dag.c with the neighbours   *)
(* of uip-ds6-nbr.c, whose tables share the store of NbrTable, and the        *)
(* default routers of uip-ds6-route.c.  A rank is infinite or not; what a     *)
(* comparison of finite ranks gives is left open.                             *)
EXTENDS Naturals, FiniteSets, FiniteSetsExt, SequencesExt

CONSTANTS
  Nbr, NULL,
  Size,       \* NBR_TABLE_MAX_NEIGHBORS
  Dag,        \* the entries of dag_table, RPL_MAX_DAG_PER_INSTANCE of them
  DagId,      \* the roots in range
  DefSlot     \* UIP_DS6_DEFRT_NB

ASSUME RplAssumption ==
  /\ Size \in Nat \ {0} /\ IsFiniteSet(Nbr)
  /\ Dag \in (SUBSET Nat) \ {{}} /\ DefSlot \in (SUBSET Nat) \ {{}}
  /\ NULL \notin Nbr \cup DagId \cup Dag \cup DefSlot

(* The state of the C functions below, one after another in one event.        *)
(*   ds6, parents       the members of ds6_neighbors and rpl_parents          *)
(*   locked             those locked for rpl_parents                          *)
(*   dag, infinite, updated    of the parents                                 *)
(*   instance, current_dag, def_route   of the instance                       *)
(*   used, linked, joined, dag_id, preferred_parent   of the DAGs             *)
(*   defrt              the default routers in their memory blocks            *)
VARIABLE rpl

RplInit ==
  rpl = [ds6 |-> {}, parents |-> {}, locked |-> {}, infinite |-> {}, updated |-> {},
         dag |-> [n \in Nbr |-> NULL],
         instance |-> FALSE, current_dag |-> NULL, def_route |-> NULL,
         used |-> {}, linked |-> {}, joined |-> {}, dag_id |-> [d \in Dag |-> NULL],
         preferred_parent |-> [d \in Dag |-> NULL],
         defrt |-> [i \in DefSlot |-> NULL]]

----------------------------------------------------------------------------
(* The default routers. *)
Routers(s) == {s.defrt[i] : i \in DefSlot} \ {NULL}
defrt_rm(s, i) == IF i = NULL THEN s ELSE [s EXCEPT !.defrt[i] = NULL]
SlotOf(s, n) ==
  LET has == {i \in DefSlot : s.defrt[i] = n}
      free == {i \in DefSlot : s.defrt[i] = NULL} IN
  IF has # {} THEN Min(has) ELSE IF free # {} THEN Min(free) ELSE NULL
defrt_add(s, n) == IF SlotOf(s, n) = NULL THEN s ELSE [s EXCEPT !.defrt[SlotOf(s, n)] = n]

rpl_set_default_route(s, n) ==
  LET t == defrt_rm(s, s.def_route) IN
  IF n = NULL THEN [t EXCEPT !.def_route = NULL]
  ELSE [defrt_add(t, n) EXCEPT !.def_route = SlotOf(t, n)]

(* rpl_get_parent_ipaddr(): NULL when the neighbour was forgotten. *)
Address(s, p) == IF p \in s.ds6 THEN p ELSE NULL

set_preferred_parent_unlocked(s, d, p) == [s EXCEPT !.preferred_parent[d] = p]
rpl_set_preferred_parent(s, d, p) ==
  IF s.preferred_parent[d] = p THEN s
  ELSE [s EXCEPT !.locked = (@ \ {s.preferred_parent[d]}) \cup ({p} \ {NULL}),
                 !.preferred_parent[d] = p]

----------------------------------------------------------------------------
(* The end of the default route when d has lost its preferred parent. *)
NoRoute(s, d) == IF d \in s.joined THEN rpl_set_default_route(s, NULL) ELSE s

rpl_nullify_parent(s, p) ==
  LET d == s.dag[p] IN
  IF s.preferred_parent[d] \in {p, NULL}
  THEN NoRoute(rpl_set_preferred_parent(s, d, NULL), d) ELSE s

Forgotten(s, P) ==
  [s EXCEPT !.parents = @ \ P, !.locked = @ \ P, !.infinite = @ \ P, !.updated = @ \ P,
            !.dag = [n \in Nbr |-> IF n \in P THEN NULL ELSE @[n]]]
remove_parent(s, p) == Forgotten(rpl_nullify_parent(s, p), {p})

(* All parents of d, one after another: d ends without a preferred parent,    *)
(* when it prefers one of them or none.                                       *)
ParentsOf(s, d) == {p \in s.parents : s.dag[p] = d}
nullify_parents(s, d) ==
  IF ParentsOf(s, d) # {} /\ s.preferred_parent[d] \in ParentsOf(s, d) \cup {NULL}
  THEN NoRoute(rpl_set_preferred_parent(s, d, NULL), d) ELSE s
remove_parents(s, d) == Forgotten(nullify_parents(s, d), ParentsOf(s, d))

rpl_move_parent(s, from, to, p) ==
  LET t == IF s.preferred_parent[from] = p
           THEN NoRoute(rpl_set_preferred_parent(s, from, NULL), from) ELSE s IN
  [t EXCEPT !.dag[p] = to]

(* The item of rpl_parents for n, whose other contents are cleared. *)
add_parent(s, d, n, inf) ==
  [s EXCEPT !.parents = @ \cup {n}, !.dag[n] = d, !.updated = @ \ {n},
            !.infinite = IF inf THEN @ \cup {n} ELSE @ \ {n}]

----------------------------------------------------------------------------
(* rpl_select_parent(): any parent of a finite rank, whatever its DAG, may    *)
(* be the best.                                                               *)
Candidates(s) == s.parents \ s.infinite
rpl_select_parent(s, d) ==
  IF Candidates(s) = {} THEN {s}
  ELSE {rpl_set_preferred_parent(s, d, best) : best \in Candidates(s)}

(* The DAGs that may be found best after p was looked at. *)
BestDags(s, p) ==
  LET usable == {d \in s.used : s.preferred_parent[d] \in s.parents \ s.infinite} IN
  IF Candidates(s) # {} THEN {s.current_dag, s.dag[p]}
  ELSE IF s.dag[p] # s.current_dag THEN {s.current_dag}
  ELSE IF usable # {} THEN usable ELSE {NULL}

SwitchTo(s, d) ==
  IF d = s.current_dag THEN s
  ELSE [s EXCEPT !.joined = (@ \cup {d}) \ {s.current_dag}, !.current_dag = d]

(* What becomes of a state in which d is best and `last` was the preferred    *)
(* parent: the new rank may be unacceptable, and is when it is infinite.      *)
Ranked(s, d, last) ==
  LET p == s.preferred_parent[d]
      refused == [s |-> rpl_set_preferred_parent(s, d, NULL), ok |-> FALSE]
      taken == [s |-> IF p = last THEN s ELSE rpl_set_default_route(s, Address(s, p)), ok |-> TRUE] IN
  IF last = NULL THEN {taken}
  ELSE IF p = NULL \/ p \in s.infinite THEN {refused} ELSE {refused, taken}

rpl_select_dag(s, p) ==
  LET last == s.preferred_parent[s.current_dag] IN
  UNION {UNION {IF d = NULL THEN {[s |-> t, ok |-> FALSE]} ELSE Ranked(SwitchTo(t, d), d, last)
                : d \in BestDags(t, p)} : t \in rpl_select_parent(s, s.dag[p])}

rpl_local_repair(s) == FoldSet(LAMBDA d, t : nullify_parents(t, d), s, s.used)

rpl_process_parent_event(s, p) ==
  LET Selected(t, accepted) ==
        {IF r.ok THEN [s |-> r.s, ok |-> accepted]
         ELSE [s |-> rpl_local_repair(r.s), ok |-> FALSE] : r \in rpl_select_dag(t, p)}
      t == rpl_nullify_parent(s, p) IN
  (IF p = t.preferred_parent[t.current_dag] THEN Selected(t, FALSE) ELSE {[s |-> t, ok |-> FALSE]})
  \cup (IF p \in s.infinite THEN {} ELSE Selected(s, TRUE))

----------------------------------------------------------------------------
rpl_free_dag(s, d) ==
  LET t == IF d \in s.joined THEN remove_parents([s EXCEPT !.joined = @ \ {d}], d) ELSE s IN
  [t EXCEPT !.used = @ \ {d}]
FreeDags(s) == FoldSet(LAMBDA d, t : rpl_free_dag(t, d), s, s.used)

rpl_free_instance_keepsRoute(s) == [FreeDags(s) EXCEPT !.instance = FALSE]
rpl_free_instance(s) == [rpl_set_default_route(FreeDags(s), NULL) EXCEPT !.instance = FALSE]

(* rpl_alloc_instance(), and one entry of the DAG table. *)
NewInstance(s) ==
  [s EXCEPT !.instance = TRUE, !.current_dag = NULL, !.def_route = NULL, !.used = {},
            !.linked = {}, !.joined = {}, !.preferred_parent = [d \in Dag |-> NULL]]
NewDag(s, d, id) ==
  [s EXCEPT !.used = @ \cup {d}, !.linked = @ \cup {d}, !.joined = @ \ {d},
            !.preferred_parent[d] = NULL, !.dag_id[d] = id]
FreeDag(s) == IF Dag \ s.used = {} THEN NULL ELSE Min(Dag \ s.used)

(* of: whether the objective function is known, and the parameters fit. *)
rpl_join_instance(s, n, id, inf, of) ==
  LET d == Min(Dag)
      t == add_parent(NewDag(NewInstance(s), d, id), d, n, inf)
      u == [t EXCEPT !.joined = {d}, !.current_dag = d] IN
  IF ~of THEN [remove_parent(t, n) EXCEPT !.instance = FALSE]
  ELSE rpl_set_default_route(rpl_set_preferred_parent(u, d, n), n)

States(results) == {r.s : r \in results}
rpl_add_dag(s, n, id, inf, of) ==
  LET d == FreeDag(s)
      t == NewDag(s, d, id)
      u == IF n \in s.parents THEN rpl_move_parent(t, s.dag[n], d, n)
           ELSE add_parent(t, d, n, inf) IN
  IF d = NULL THEN {rpl_free_instance(s)}
  ELSE IF ~of THEN {[remove_parent(u, n) EXCEPT !.used = @ \ {d}]}
  ELSE States(rpl_process_parent_event(rpl_set_preferred_parent(u, d, n), n))

global_repair(s, n, d, inf) ==
  States(rpl_process_parent_event(add_parent(remove_parents(s, d), d, n, inf), n))

(* A DIO for a DAG we know, of its version. *)
CandidateDio(s, n, d, inf) ==
  LET t == IF n \notin s.parents THEN add_parent(s, d, n, inf)
           ELSE IF s.dag[n] # d THEN rpl_move_parent(s, s.dag[n], d, n)
           ELSE [s EXCEPT !.infinite = IF inf THEN @ \cup {n} ELSE @ \ {n}] IN
  {IF r.ok /\ d \in r.s.joined /\ n = r.s.preferred_parent[d]
   THEN defrt_add(r.s, n) ELSE r.s : r \in rpl_process_parent_event(t, n)}

rpl_process_dio(s, n, id, inf, version, of) ==
  LET known == {d \in s.used : s.dag_id[d] = id}
      d == CHOOSE e \in known : TRUE IN
  IF ~s.instance THEN {rpl_join_instance(s, n, id, inf, of)}
  ELSE IF known = {} THEN rpl_add_dag(s, n, id, inf, of)
  ELSE IF version = "newer" THEN global_repair(s, n, d, inf)
  ELSE IF version = "older" /\ d \in s.joined THEN {s}
  ELSE CandidateDio(s, n, d, inf)

----------------------------------------------------------------------------
(* rpl_find_parent_any_dag(), while the instance is in use. *)
IsParent(s, n) == s.instance /\ n \in s.parents \cap s.ds6 /\ s.dag[n] \in s.linked

(* rpl_ipv6_neighbor_callback() *)
NeighborChanged(s, n) ==
  IF IsParent(s, n)
  THEN [s EXCEPT !.infinite = @ \cup {n}, !.updated = @ \cup {n}] ELSE s

neighbor_rm(s, n) == [NeighborChanged(s, n) EXCEPT !.ds6 = @ \ {n}]

(* A full store gives away the slot of an unlocked neighbour.  The other      *)
(* tables have a say in which, and keep slots of their own: any may go, and   *)
(* at any time.                                                               *)
Evict(s, v) ==
  LET t == IF v \in s.ds6 THEN neighbor_rm(s, v) ELSE s IN
  IF v \in t.parents THEN remove_parent(t, v) ELSE t
Entered(s, n) == NeighborChanged([s EXCEPT !.ds6 = @ \cup {n}], n)
Stored(s) == s.ds6 \cup s.parents
neighbor_add(s, n) ==
  (IF n \in Stored(s) \/ Cardinality(Stored(s)) < Size THEN {Entered(s, n)} ELSE {})
  \cup {Entered(Evict(s, v), n) : v \in IF n \in Stored(s) THEN {} ELSE Stored(s) \ s.locked}

(* Packets: a DIO, and anything else that enters a neighbour. *)
DioInput(n) ==
  \E s \in IF n \in rpl.ds6 THEN {rpl} ELSE neighbor_add(rpl, n),
     id \in DagId, inf, of \in BOOLEAN, version \in {"older", "same", "newer"} :
    rpl' \in rpl_process_dio(s, n, id, inf, version, of)
NeighborHeard(n) == n \notin rpl.ds6 /\ rpl' \in neighbor_add(rpl, n)
NeighborLost(n) == n \in rpl.ds6 /\ rpl' = neighbor_rm(rpl, n)

(* rpl_link_neighbor_callback(): a packet to n was sent, or not. *)
LinkFeedback(n) ==
  /\ IsParent(rpl, n)
  /\ rpl' = [rpl EXCEPT !.updated = @ \cup {n}]

(* uip_ds6_defrt_periodic(), for one router. *)
RouterExpires(i) == rpl.defrt[i] # NULL /\ rpl' = defrt_rm(rpl, i)

(* The parents are taken in some order of the store. *)
Recalculated == {p \in rpl.updated : rpl.dag[p] \in rpl.linked}
RanksUpdated(s, order) ==
  LET after[i \in 0..Len(order)] ==
        IF i = 0 THEN {s}
        ELSE UNION {States(rpl_process_parent_event([t EXCEPT !.updated = @ \ {order[i]}],
                                                    order[i])) : t \in after[i - 1]} IN
  after[Len(order)]
rpl_recalculate_ranks ==
  /\ Recalculated # {}
  /\ \E order \in SetToSeqs(Recalculated) : rpl' \in RanksUpdated(rpl, order)

RplNext ==
  \/ \E n \in Nbr : DioInput(n) \/ NeighborHeard(n) \/ NeighborLost(n) \/ LinkFeedback(n)
  \/ \E i \in DefSlot : RouterExpires(i)
  \/ rpl_recalculate_ranks

RplSpec == RplInit /\ [][RplNext]_rpl

----------------------------------------------------------------------------
PreferredParents == {rpl.preferred_parent[d] : d \in rpl.used} \ {NULL}
OneDag == Cardinality(rpl.used) <= 1

(* rpl-dag.c:135: "Always keep the preferred parent locked, so it remains in  *)
(* the neighbor table."                                                       *)
PreferredParentStays == PreferredParents \subseteq rpl.locked \cap rpl.parents

(* A lock that outlives the preference would keep its slot for ever.  With    *)
(* more roots than entries for DAGs, and two entries at least, it is false:   *)
(* the instance is freed for lack of an entry, and rpl_free_dag() leaves the  *)
(* parents of a DAG that is not joined, and a lock (rpl-dag.c:522, 537).      *)
OnlyPreferredLocked == rpl.locked \subseteq PreferredParents

(* Packets to the outside go to the preferred parent of the current DAG, and  *)
(* nowhere when there is no instance any more.                                *)
RouteThroughParent ==
  Routers(rpl) # {} =>
    rpl.instance /\ Routers(rpl) = {rpl.preferred_parent[rpl.current_dag]}

(* The instance is in one DAG, the current one.                               *)
InCurrentDag == rpl.instance => rpl.joined = {rpl.current_dag} /\ rpl.current_dag \in rpl.used

(* The preferred parent stays in the neighbour table, and its lock goes with  *)
(* the preference, for one root, one entry for DAGs, or an entry for each     *)
(* root.  Two exceptions: in more than one DAG a parent may be preferred      *)
(* twice, and lose its lock with one of them (rpl-dag.c:137), and with three  *)
(* roots and two entries a lock may outlive the preference (522, 537).        *)
ParentsLocked == OnlyPreferredLocked /\ (OneDag => PreferredParentStays)

(* The instance is in one DAG, and with one DAG the default route leads to    *)
(* its preferred parent.                                                      *)
RouteFollowsParent == InCurrentDag /\ (OneDag => RouteThroughParent)
=============================================================================
