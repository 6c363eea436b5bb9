---------------------------- MODULE ContikiCtimer ----------------------------
(* Callback timers, core/sys/ctimer.c: a process that owns one event timer    *)
(* per callback and calls the function of the callback when the timer's event *)
(* comes.  A callback timer is named by its event timer; the operations that  *)
(* a callback itself makes are steps like those of any other program.         *)
EXTENDS ContikiEtimer

VARIABLE ctimer_list     \* the callbacks to be called, the one set first first

cvars == <<vars, ctimer_list>>

ctimer_process == CHOOSE p \in Process : TRUE
Waiting == Elements(ctimer_list)
Arrived(c) == \E i \in 1..Len(queue) : queue[i].t = c

CInit == Init /\ ctimer_list = <<>>

Relist(c) == ctimer_list' = Append(Without(ctimer_list, {c}), c)

ctimer_set(c, n) == etimer_set(c, n, ctimer_process) /\ Relist(c)

(* A periodic callback is reset when it has just been called. *)
ctimer_reset(c) ==
  /\ c \notin Listed /\ LateBy(c) <= MaxLate
  /\ etimer_reset(c, ctimer_process) /\ Relist(c)

ctimer_restart(c) == etimer_restart(c, ctimer_process) /\ Relist(c)

ctimer_stop(c) == etimer_stop(c) /\ ctimer_list' = Without(ctimer_list, {c})

CProgram ==
  \E c \in Timer :
    \/ Uses("set") /\ \E n \in Interval : ctimer_set(c, n)
    \/ Uses("reset") /\ ctimer_reset(c)
    \/ Uses("restart") /\ ctimer_restart(c)
    \/ Uses("stop") /\ ctimer_stop(c)

(* PROCESS_EVENT_TIMER: the callback of that timer is called if it waits.     *)
(* The event says which timer, not which setting of it.                       *)
Callback_headOnly ==
  /\ Receive
  /\ ctimer_list' = IF ctimer_list # <<>> /\ Head(ctimer_list) = Head(queue).t
                    THEN Tail(ctimer_list) ELSE ctimer_list
Callback == Receive /\ ctimer_list' = Without(ctimer_list, {Head(queue).t})

CNext ==
  \/ (Tick \/ Poll \/ Expire \/ Pass) /\ UNCHANGED ctimer_list
  \/ Callback \/ CProgram

CSpec == CInit /\ [][CNext]_cvars

----------------------------------------------------------------------------
CTypeOK == TypeOK /\ ctimer_list \in Seq(Timer) /\ EachOnce(ctimer_list)

(* Every callback that waits has its timer on the list or its event under     *)
(* way, however settings, stops and events cross each other.                  *)
NoCallbackLost ==
  \A c \in Waiting : c \in Listed \/ Arrived(c)

(* No timer is twice on the list that links the timers themselves, and none   *)
(* that is set and no callback that waits is forgotten.                       *)
TimersKept == CTypeOK /\ NoTimerForgotten /\ NoCallbackLost

(* A callback that waits and whose time has come is called, or set again.     *)
CallbacksRun ==
  []<>(queue = <<>>) =>
    \A c \in Timer :
      c \in Waiting /\ Due(c) <= 0
        ~> c \notin Waiting \/ Due(c) > 0
=============================================================================
