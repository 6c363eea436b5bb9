-------------------------- MODULE MCContikiProcess --------------------------
(* TLC's instances of the process kernel.  A behaviour is one of three        *)
(* scenarios, which its first state decides.                                  *)
EXTENDS ContikiProcess

CONSTANTS p1, p2, p3
VARIABLE scenario

MCProcess == {p1, p2, p3}
MCAutostart == <<p1, p2>>
MCNone == {}
MCvars == <<scenario, vars>>

(* "calls" is the instance of the cfg: threads call, exit and pause.          *)
(* Processes come and go under the walks over the list, with interrupts.      *)
Walks == INSTANCE ContikiProcess WITH
  Capacity <- 1, Ops <- {"start", "exit", "post"}, Interrupting <- {p1}
(* Interrupts and threads that never stop polling. *)
Polled == INSTANCE ContikiProcess WITH
  Capacity <- 1, Ops <- {"post", "poll", "end"}, Interrupting <- {p1}

MCInit ==
  \/ scenario = "calls" /\ Init
  \/ scenario = "walks" /\ Walks!Init
  \/ scenario = "polled" /\ Polled!Init

MCNext ==
  /\ UNCHANGED scenario
  /\ \/ scenario = "calls" /\ Next
     \/ scenario = "walks" /\ Walks!Next
     \/ scenario = "polled" /\ Polled!Next

(* In "polled" main() goes on, and so does every thread: none calls another.  *)
MCSpec ==
  /\ MCInit /\ [][MCNext]_MCvars
  /\ WF_MCvars(scenario = "polled" /\ Polled!Kernel /\ UNCHANGED scenario)
  /\ WF_MCvars(/\ scenario = "polled" /\ UNCHANGED scenario
               /\ \E p \in Process : Polled!Yields(p))

----------------------------------------------------------------------------
(* A process that is polled is called, or exits, and an event leaves the full *)
(* queue, however often interrupts and threads poll: every round of main()    *)
(* may find polls to do before the event.                                     *)
PollsAndEventsServed ==
  /\ \A p \in Process : scenario = "polled" /\ p \in asked ~> p \notin asked
  /\ scenario = "polled" /\ nevents = 1 ~> nevents = 0
=============================================================================
