---------------------------- MODULE MCIdsPackets ----------------------------
(* TLC's packets: small and large ids and instance numbers, negative          *)
(* coordinates and values, and lists from none to ten neighbours.             *)
EXTENDS IdsPackets

MCNbrs == {<<>>, <<3>>, <<1, 3>>, [i \in 1..10 |-> i + 2]}
MCReports == [code : {2}, owner : {2, 20}, mid : {200, 2003}, parent : {1, 3},
              nbrs : MCNbrs, x : {-66, 91}, y : {65}]
MCValues == [code : {5}, sender : {2, 20}, suspect : {3, 209},
             rssi : {<<-45, -46, -45>>, <<-10, -90, 5>>}]
MCWarnings == {w \in [code : {3, 4}, isme : {2, 20}, collegue : {2, 20}] :
                 w.isme # w.collegue}
=============================================================================
