----------------------------- MODULE MCIdsServer -----------------------------
(* TLC's instances of IdsServer: a router (1), a client in its range (2) and *)
(* a client out of it (3), which a wormhole makes its neighbour.             *)
EXTENDS IdsServer

MCFar == {<<1, 3>>, <<3, 1>>}
MCCoordinates == [src : {2, 3}]
MCRssiReports == [src : {3}, sender : {3}]
MCNone == {}

\* Detection: the router itself may see node 3.  A report of node 3 that names
\* the router comes from 3 itself, and a later one is forwarded by 2.
MCRootNbrSets == {{2}, {2, 3}}
MCReports == {[src |-> 3, owner |-> 3, mid |-> 7, nbrs |-> {1, 2}],
              [src |-> 2, owner |-> 3, mid |-> 8, nbrs |-> {1}]}

\* Monitoring: victim notices for the router and for another node, which the
\* router knows as a neighbour or not.
MCRootNbrSetsM == {{2}, {}}
MCReportsM == {[src |-> 3, owner |-> 3, mid |-> 7, nbrs |-> {1}]}
MCNotices == {[src |-> 3, isme |-> 1, collegue |-> 3],
              [src |-> 2, isme |-> 3, collegue |-> 2]}
=============================================================================
