------------------------- MODULE MCContikiNeighbors -------------------------
(* TLC's instances of the neighbour tables and of the routing table that is   *)
(* one of them.  A behaviour is one of two scenarios, which its first state   *)
(* decides.                                                                   *)
EXTENDS Ds6Routes, TLC

CONSTANTS h1, h2, net
VARIABLE scenario

(* Two hosts, and a prefix that covers both. *)
HostsAndNet == [d \in Dest |-> IF d = net THEN Dest ELSE {d}]
Alike == Permutations(Lladdr) \cup Permutations({h1, h2}) \cup Permutations(Route)

MCInit == scenario \in {"tables", "routes"} /\ Init
MCNext ==
  /\ UNCHANGED scenario
  /\ \/ scenario = "tables" /\ NbrNext /\ UNCHANGED routeVars
     \/ scenario = "routes" /\ Next
MCSpec == MCInit /\ [][MCNext]_<<scenario, vars>>
=============================================================================
