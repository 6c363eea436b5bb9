----------------------------- MODULE AlarmClock -----------------------------
(* What event timers promise: a timer that is set signals its process once,   *)
(* not before its time, unless it is set again or stopped before.             *)
EXTENDS Integers

CONSTANTS Timer, Off, MaxTime
(* Off is not a number of ticks. *)

VARIABLES
  left,      \* ticks until the timer is due, or Off
  signals    \* signals sent and not yet received

vars == <<left, signals>>

Init == left = [t \in Timer |-> Off] /\ signals = [t \in Timer |-> 0]

Arm(t, n) == left' = [left EXCEPT ![t] = n] /\ UNCHANGED signals

Disarm(T) ==
  /\ left' = [t \in Timer |-> IF t \in T THEN Off ELSE left[t]]
  /\ UNCHANGED signals

Tick ==
  /\ left' = [t \in Timer |-> IF left[t] \in {0, Off} THEN left[t] ELSE left[t] - 1]
  /\ UNCHANGED signals

Fire(t) ==
  /\ left[t] = 0
  /\ left' = [left EXCEPT ![t] = Off]
  /\ signals' = [signals EXCEPT ![t] = @ + 1]

Receive(t) ==
  /\ signals[t] > 0
  /\ signals' = [signals EXCEPT ![t] = @ - 1]
  /\ UNCHANGED left

Next ==
  \/ Tick
  \/ \E T \in SUBSET Timer : Disarm(T)
  \/ \E t \in Timer : Fire(t) \/ Receive(t) \/ \E n \in 0..MaxTime : Arm(t, n)

Spec == Init /\ [][Next]_vars
=============================================================================
