---------------------------- MODULE WormholeAlarm ----------------------------
(* What the border router promises about alarms, whatever the order of        *)
(* packets, timers and resets: an abstraction of 1.c that knows the lock      *)
(* (attack_processing), the pair under suspicion (current_victim), whether    *)
(* the victims are being told (validatepc_process runs) and whether RSSI      *)
(* values are being collected (rssi_flag).                                    *)
CONSTANTS Pairs,    \* the pairs of nodes that cannot be neighbours
          NoPair

VARIABLES lock, suspects, telling, open
vars == <<lock, suspects, telling, open>>

Init == lock = 0 /\ suspects = NoPair /\ telling = 0 /\ open = 0

\* An alarm for an impossible pair takes the lock.
Raise ==
  /\ lock = 0 /\ telling = 0
  /\ lock' = 1 /\ suspects' \in Pairs /\ telling' = 1
  /\ UNCHANGED open

\* The victims have been told: RSSI values are collected from now on.
Open ==
  /\ telling = 1
  /\ telling' = 0 /\ open' = 1
  /\ UNCHANGED <<lock, suspects>>

\* The collection ends.  It releases the lock if there was something to judge.
Verdict ==
  /\ open = 1
  /\ open' = 0 /\ lock' \in {lock, 0}
  /\ UNCHANGED <<suspects, telling>>

\* A reset forgets the alarm, but never an open collection.
Cancel ==
  /\ open = 0
  /\ lock' = 0 /\ suspects' = NoPair
  /\ UNCHANGED <<telling, open>>

Next == Raise \/ Open \/ Verdict \/ Cancel

Spec == Init /\ [][Next]_vars
==============================================================================
