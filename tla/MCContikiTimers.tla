--------------------------- MODULE MCContikiTimers ---------------------------
(* TLC's instances of event timers and callbacks.  A behaviour is one of      *)
(* four scenarios, which its first state decides.                             *)
EXTENDS ContikiCtimer

CONSTANTS p, q
VARIABLE scenario

(* "callbacks" is the instance of the cfg.                                    *)
(* Everything a program does with event timers, and a queue that is busy.     *)
Used == INSTANCE ContikiEtimer WITH
  Process <- {p}, Difference <- {1}, Ops <- {"set", "restart", "stop", "adjust", "reset", "other"}
(* The timers of processes that exit and are started again, and of those that *)
(* stay.                                                                      *)
Exiters == INSTANCE ContikiEtimer WITH
  Interval <- {2}, MaxLate <- 0, Ops <- {"set", "exit"}
(* A queue with room for every timer. *)
Roomy == INSTANCE ContikiCtimer WITH Capacity <- 2, MaxLate <- 0, Ops <- {"set", "stop"}

MCInit == CInit /\ scenario \in {"callbacks", "roomy", "used", "exiters"}

MCNext ==
  /\ UNCHANGED scenario
  /\ \/ scenario = "callbacks" /\ CNext
     \/ scenario = "roomy" /\ Roomy!CNext
     \/ scenario = "used" /\ Used!Next /\ UNCHANGED ctimer_list
     \/ scenario = "exiters" /\ Exiters!Next /\ UNCHANGED ctimer_list

MCvars == <<scenario, cvars>>
InRoomy(A) == scenario = "roomy" /\ A /\ UNCHANGED scenario

(* The clock ticks, and main() polls and takes events for ever. *)
MCSpec ==
  /\ MCInit /\ [][MCNext]_MCvars
  /\ WF_MCvars(InRoomy(Roomy!Tick /\ UNCHANGED ctimer_list))
  /\ WF_MCvars(InRoomy(Roomy!Poll /\ UNCHANGED ctimer_list))
  /\ WF_MCvars(InRoomy((Roomy!Expire \/ Roomy!Pass) /\ UNCHANGED ctimer_list))
  /\ WF_MCvars(InRoomy(Roomy!Callback))

----------------------------------------------------------------------------
(* A callback that waits and whose time has come is called, or set again, if  *)
(* the queue has room and runs empty from time to time.                       *)
DueCallbacksRun == scenario = "roomy" => CallbacksRun
=============================================================================
