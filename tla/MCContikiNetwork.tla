------------------------- MODULE MCContikiNetwork -------------------------
(* TLC's instances of the neighbour cache, of the RPL router and of its       *)
(* timers.  A behaviour is one of six scenarios, which its first state        *)
(* decides.                                                                   *)
EXTENDS NeighborCache, RplTrickle, RplParents

CONSTANTS x, y, dag1, dag2, nbr1, nbr2, nbr3
VARIABLE scenario
MCvars == <<scenario, nd, rpl, trickle>>

Links == [a \in Ip |-> IF a = y THEN "Y" ELSE "X"]

(* "cache" is the instance of the cfg, where one neighbour is sent to before  *)
(* its link address is known.  Here both are, with two blocks, and share the  *)
(* one slot as the entry of unresolved neighbours.                            *)
OneSlot == INSTANCE NeighborCache WITH Slots <- 1, Blocks <- 2, Unresolved <- Ip

(* "one root" is the instance of the cfg, with more neighbours than slots and *)
(* DAG entries to spare.  Two roots, and one entry for DAGs.                  *)
OneEntry == INSTANCE RplParents WITH Dag <- {0}, DagId <- {dag1, dag2}
(* Two roots and two entries. *)
TwoRoots == INSTANCE RplParents WITH Nbr <- {nbr1, nbr2}, DagId <- {dag1, dag2}

Scenario == {"cache", "one slot", "trickle", "one root", "one entry", "two roots"}
MCInit ==
  /\ scenario \in Scenario
  /\ IF scenario = "one slot" THEN OneSlot!NdInit ELSE NdInit
  /\ TrickleInit /\ (address => scenario = "trickle")
  /\ \/ scenario \notin {"one entry", "two roots"} /\ RplInit
     \/ scenario = "one entry" /\ OneEntry!RplInit
     \/ scenario = "two roots" /\ TwoRoots!RplInit

MCNext ==
  /\ UNCHANGED scenario
  /\ \/ scenario = "cache" /\ NdNext /\ UNCHANGED <<rpl, trickle>>
     \/ scenario = "one slot" /\ OneSlot!NdNext /\ UNCHANGED <<rpl, trickle>>
     \/ scenario = "trickle" /\ TrickleNext /\ UNCHANGED <<nd, rpl>>
     \/ /\ UNCHANGED <<nd, trickle>>
        /\ \/ scenario = "one root" /\ RplNext
           \/ scenario = "one entry" /\ OneEntry!RplNext
           \/ scenario = "two roots" /\ TwoRoots!RplNext

InCache == scenario = "cache" /\ UNCHANGED <<scenario, rpl, trickle>>

InSlot == scenario = "one slot" /\ UNCHANGED <<scenario, rpl, trickle>>

InTrickle == scenario = "trickle" /\ UNCHANGED <<scenario, nd, rpl>>

(* The timers of the cache and of the queued packets run off and are handled, *)
(* the clock of trickle ticks, its timers are handled, and the global address *)
(* is ready in time.                                                          *)
MCSpec ==
  /\ MCInit /\ [][MCNext]_MCvars
  /\ WF_MCvars(InCache /\ uip_ds6_periodic)
  /\ \A s \in Slot : WF_MCvars(InCache /\ (ReachableExpires(s) \/ SendnsExpires(s)))
  /\ \A b \in Block : WF_MCvars(InCache /\ packet_timedout(b))
  /\ WF_MCvars(InSlot /\ OneSlot!uip_ds6_periodic)
  /\ WF_MCvars(InSlot /\ (OneSlot!ReachableExpires(1) \/ OneSlot!SendnsExpires(1)))
  /\ \A b \in OneSlot!Block : WF_MCvars(InSlot /\ OneSlot!packet_timedout(b))
  /\ WF_MCvars(InTrickle /\ Tick) /\ WF_MCvars(InTrickle /\ AddressReady)
  /\ WF_MCvars(InTrickle /\ Posts)
  /\ WF_MCvars(InTrickle /\ DioEvent) /\ WF_MCvars(InTrickle /\ DaoEvent)

----------------------------------------------------------------------------
(* A neighbour that is being resolved, and a packet that waits, in the        *)
(* scenario of this behaviour.                                                *)
ProbingHere(a) ==
  \/ scenario = "cache" /\ Probing(a)
  \/ scenario = "one slot" /\ OneSlot!Probing(a)
WaitingHere(b) ==
  \/ scenario = "cache" /\ b \in Block /\ Waiting(b)
  \/ scenario = "one slot" /\ OneSlot!Waiting(b)

LeavesNoBlock ==
  [][/\ scenario = "cache" => NoBlockLeftBehind
     /\ scenario = "one slot" => OneSlot!NoBlockLeftBehind]_MCvars

(* Nothing waits for ever: a neighbour that is being resolved or probed is    *)
(* confirmed or given up, a packet that waits in its entry is sent or times   *)
(* out, though no answer comes; and however often they are reset, an interval *)
(* gets to its DIO and a DAO that was scheduled is sent.  A packet's block is *)
(* free then, unless another address took the entry over (tcpip.c:653): two   *)
(* neighbours that are unresolved share one, and the first's block is lost.   *)
WaitsEnd ==
  /\ \A a \in Ip : ProbingHere(a) ~> ~ProbingHere(a)
  /\ \A b \in OneSlot!Block : WaitingHere(b) ~> ~WaitingHere(b)
  /\ LeavesNoBlock
  /\ EveryIntervalDecides /\ DaoIsSent
=============================================================================
