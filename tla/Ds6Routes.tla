------------------------------ MODULE Ds6Routes ------------------------------
(* The routing table, core/net/uip-ds6-route.c: routes are kept in a list     *)
(* per neighbour, in the items of a neighbour table, and are walked neighbour *)
(* by neighbour.  A neighbour is named by its link-layer address.             *)
EXTENDS NbrTable, ContikiList

CONSTANTS
  Route,       \* the elements of routememb, UIP_DS6_ROUTE_NB of them
  Dest,        \* the prefixes that routes are for, hosts among them
  Covers,      \* for each prefix those within it
  ds6_neighbors, nbr_routes

ASSUME Ds6RoutesAssumption ==
  /\ ds6_neighbors \in Table /\ nbr_routes \in Table /\ ds6_neighbors # nbr_routes
  /\ IsFiniteSet(Route) /\ IsFiniteSet(Dest)
  /\ Covers \in [Dest -> SUBSET Dest] /\ \A d \in Dest : d \in Covers[d]
  /\ \A c, d \in Dest : d \in Covers[c] => Covers[d] \subseteq Covers[c] /\ (c \in Covers[d] => c = d)
  /\ None \notin Dest \cup Route

VARIABLES
  route_list,   \* the routes of the item of each slot
  ipaddr,       \* the prefix of each route, None when it is free
  routes,       \* the slot of the item that a route belongs to
  num_routes,
  createdFor    \* the neighbour each route was created for

routeVars == <<route_list, ipaddr, routes, num_routes, createdFor>>
vars == <<nbrVars, routeVars>>

Init ==
  /\ NbrInit
  /\ route_list = [s \in Slot |-> <<>>]
  /\ ipaddr = [r \in Route |-> None] /\ routes = [r \in Route |-> None]
  /\ num_routes = 0
  /\ createdFor = [r \in Route |-> None]

----------------------------------------------------------------------------
RoutesOf(s) == {route_list[s][i] : i \in 1..Len(route_list[s])}

(* uip_ds6_route_head() and uip_ds6_route_next(): neighbour after neighbour,  *)
(* and no further than one whose list is empty.                               *)
WithRoutes == {s \in Keys : nbr_routes \in used_map[s]}
Walked ==
  UNION {RoutesOf(s) : s \in
    {t \in WithRoutes : \A u \in WithRoutes : Position(u) <= Position(t) => route_list[u] # <<>>}}

(* The walk comes to r before q. *)
Before(r, q) ==
  \E s, t \in WithRoutes : \E i \in 1..Len(route_list[s]), j \in 1..Len(route_list[t]) :
    /\ r = route_list[s][i] /\ q = route_list[t][j]
    /\ Position(s) < Position(t) \/ (s = t /\ i < j)

(* The longest match, the last of several. *)
Matching(d) == {r \in Walked : d \in Covers[ipaddr[r]]}
Longest(d) ==
  {r \in Matching(d) : \A q \in Matching(d) :
     Cardinality(Covers[ipaddr[r]]) <= Cardinality(Covers[ipaddr[q]])}
uip_ds6_route_lookup(d) ==
  IF Matching(d) = {} THEN None
  ELSE CHOOSE r \in Longest(d) : \A q \in Longest(d) \ {r} : Before(q, r)

(* uip_ds6_route_rm() for each of a set of routes. *)
RoutesRemoved_countedOnce(rs) ==
  /\ route_list' = [s \in Slot |-> Without(route_list[s], rs)]
  /\ ipaddr' = [r \in Route |-> IF r \in rs THEN None ELSE ipaddr[r]]
  /\ routes' = [r \in Route |-> IF r \in rs THEN None ELSE routes[r]]
  /\ createdFor' = [r \in Route |-> IF r \in rs THEN None ELSE createdFor[r]]
  /\ num_routes' = num_routes - 1
RoutesRemoved(rs) ==
  /\ route_list' = [s \in Slot |-> Without(route_list[s], rs)]
  /\ ipaddr' = [r \in Route |-> IF r \in rs THEN None ELSE ipaddr[r]]
  /\ routes' = [r \in Route |-> IF r \in rs THEN None ELSE routes[r]]
  /\ createdFor' = [r \in Route |-> IF r \in rs THEN None ELSE createdFor[r]]
  /\ num_routes' = num_routes - Cardinality(rs)

(* The last route of a neighbour takes the item along. *)
ItemsRemoved(rs) ==
  LET emptied == {s \in Slot : route_list[s] # <<>> /\ RoutesOf(s) \subseteq rs} IN
  /\ used_map' = [s \in Slot |-> used_map[s] \ (IF s \in emptied THEN {nbr_routes} ELSE {})]
  /\ locked_map' = [s \in Slot |-> locked_map[s] \ (IF s \in emptied THEN {nbr_routes} ELSE {})]
  /\ items' = [items EXCEPT ![nbr_routes] = [s \in Slot |-> IF s \in emptied THEN None ELSE @[s]]]
  /\ UNCHANGED <<nbr_table_keys, lladdr>>

(* rm_routelist_callback(), called when a neighbour is taken the slot. *)
rm_routelist_callback_none(a) == UNCHANGED routeVars
rm_routelist_callback(a) ==
  IF nbr_routes \in CalledBack(a)
  THEN RoutesRemoved(RoutesOf(SlotFor(a)))
  ELSE UNCHANGED routeVars

----------------------------------------------------------------------------
RouteAdded(d, a) ==
  LET s == index_from_lladdr(a)
      free == {r \in Route : ipaddr[r] = None} IN
  /\ IF nbr_table_get_from_lladdr(nbr_routes, a) = None
     THEN nbr_table_add_lladdr(nbr_routes, a) ELSE UNCHANGED nbrVars
  /\ IF free = {} THEN UNCHANGED routeVars
     ELSE \E r \in free :
     /\ route_list' = [route_list EXCEPT ![s] = Append(@, r)]
     /\ ipaddr' = [ipaddr EXCEPT ![r] = d]
     /\ routes' = [routes EXCEPT ![r] = s]
     /\ createdFor' = [createdFor EXCEPT ![r] = a]
     /\ num_routes' = num_routes + 1

(* A route that matches is made the new one, but stays with its neighbour. *)
RouteUpdated(r, d) ==
  /\ ipaddr' = [ipaddr EXCEPT ![r] = d]
  /\ UNCHANGED <<nbrVars, route_list, routes, createdFor, num_routes>>

uip_ds6_route_add(d, a) ==
  /\ nbr_table_get_from_lladdr(ds6_neighbors, a) # None
  /\ IF uip_ds6_route_lookup(d) = None THEN RouteAdded(d, a)
     ELSE RouteUpdated(uip_ds6_route_lookup(d), d)

(* rpl_remove_routes(), rpl_purge_routes() and rpl_remove_routes_by_nexthop() *)
(* walk the routes, remove those they find and start again; so do those that  *)
(* remove one route they looked up.                                           *)
RoutesPurged(rs) ==
  /\ rs # {} /\ rs \subseteq Walked
  /\ RoutesRemoved(rs) /\ ItemsRemoved(rs)

(* A packet whose route leads to a neighbour that was forgotten: the route    *)
(* goes too.                                                                  *)
tcpip_ipv6_output(d) ==
  LET r == uip_ds6_route_lookup(d) IN
  /\ r # None /\ ds6_neighbors \notin used_map[routes[r]]
  /\ RoutesRemoved({r}) /\ ItemsRemoved({r})

uip_ds6_nbr_add(a) == nbr_table_add_lladdr(ds6_neighbors, a) /\ rm_routelist_callback(a)

uip_ds6_nbr_rm(a) ==
  LET s == nbr_table_get_from_lladdr(ds6_neighbors, a) IN
  /\ s # None
  /\ nbr_table_remove(ds6_neighbors, s)
  /\ UNCHANGED routeVars

(* What the modules of the other tables do. *)
OtherTable(t) ==
  \/ \E a \in Lladdr : nbr_table_add_lladdr(t, a) /\ rm_routelist_callback(a)
  \/ /\ \E s \in {r \in Slot : items[t][r] # None} :
          nbr_table_remove(t, s) \/ nbr_table_lock(t, s) \/ nbr_table_unlock(t, s)
     /\ UNCHANGED routeVars

Next ==
  \/ \E d \in Dest, a \in Lladdr : uip_ds6_route_add(d, a)
  \/ \E rs \in SUBSET Route : RoutesPurged(rs)
  \/ \E d \in Dest : tcpip_ipv6_output(d)
  \/ \E a \in Lladdr : uip_ds6_nbr_add(a) \/ uip_ds6_nbr_rm(a)
  \/ \E t \in Table \ {ds6_neighbors, nbr_routes} : OtherTable(t)

Spec == Init /\ [][Next]_vars

----------------------------------------------------------------------------
Allocated == {r \in Route : ipaddr[r] # None}

(* The item of a route is still that of the neighbour it was created for: a   *)
(* packet is never sent to a stranger that took over the slot.                *)
RoutesOfTheirNeighbor ==
  \A r \in Allocated : lladdr[routes[r]] = createdFor[r]

(* uip-ds6-route.c:93: the route list has as many entries as num_routes says: *)
(* a walk of the routes finds them all, provided the pool never runs out.     *)
AllRoutesWalked == num_routes = Cardinality(Allocated) /\ Walked = Allocated
=============================================================================
