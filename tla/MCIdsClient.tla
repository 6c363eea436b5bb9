----------------------------- MODULE MCIdsClient -----------------------------
(* TLC's instance of IdsClient: node 2 with two other nodes, 3 and 4.        *)
EXTENDS IdsClient

MCNbrSets == {{3}, {3, 4}}
\* Node 4 is a suspect: a notice for this node, a notice for 4 by its
\* neighbour 3, and one for 3 by 4.
MCNotices == {[src |-> 3, isme |-> 2, collegue |-> 4],
              [src |-> 3, isme |-> 4, collegue |-> 3],
              [src |-> 4, isme |-> 3, collegue |-> 4]}
MCRelays == [src : {3}, code : {2, 4, 5}]
MCHellos == [src : {4}]
MCSendJitter == {0, 1}
=============================================================================
