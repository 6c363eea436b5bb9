---------------------------- MODULE ContikiEtimer ----------------------------
(* Event timers, core/sys/etimer.c over core/sys/timer.c: a list of timers, a *)
(* process that is polled and posts PROCESS_EVENT_TIMER to the owners of the  *)
(* expired ones, and the clock interrupt of cpu/msp430/f1xxx/clock.c that     *)
(* polls it when next_expiration is reached.  All times are clock_time_t, an  *)
(* unsigned number that wraps around.                                         *)
EXTENDS Integers, Sequences, FiniteSets, ContikiList

CONSTANTS
  Process, Timer,
  None,          \* PROCESS_NONE
  ClockRange,    \* 2^w for a clock_time_t of w bits
  Interval,      \* the intervals that programs use
  Difference,    \* the differences they pass to etimer_adjust()
  Capacity,      \* PROCESS_CONF_NUMEVENTS
  MaxLate,       \* how many ticks at most the main loop is behind
  Ops            \* what the programs do, a subset of Operation

Operation == {"set", "reset", "restart", "adjust", "stop", "exit", "other"}
Half == ClockRange \div 2
MAX_TICKS == (ClockRange - 1) \div 2

(* The clock has a width in bits, hence an even range.                        *)
ASSUME EtimerAssumption ==
  /\ Process # {} /\ None \notin Process \cup Timer /\ None \notin Int
  /\ ClockRange \in Nat \ {0} /\ ClockRange = 2 * Half
  /\ Capacity \in Nat \ {0} /\ MaxLate \in 0..Half - 1
  /\ Interval \subseteq 0..Half - MaxLate - 1
  /\ Difference \subseteq Int
  /\ Ops \subseteq Operation

VARIABLES
  clock,             \* count
  timerlist,         \* the timers that are set, the one set last first
  start, interval,   \* t->timer
  owner,             \* t->p
  next_expiration,
  needspoll,         \* etimer_process is to be polled
  rest,              \* how many timers of the list the loop has still to look at
  queue,             \* the event queue
  alive              \* the processes that run

timers == <<timerlist, start, interval, owner, next_expiration>>
vars == <<clock, timers, needspoll, rest, queue, alive>>

Listed == Elements(timerlist)
Signal(p, t) == [p |-> p, t |-> t]
Deadline(t) == (start[t] + interval[t]) % ClockRange
LateBy(t) == (clock - Deadline(t)) % ClockRange

Init ==
  /\ clock = 0
  /\ timerlist = <<>>
  /\ start = [t \in Timer |-> 0] /\ interval = [t \in Timer |-> 0]
  /\ owner = [t \in Timer |-> None]
  /\ next_expiration = 0
  /\ needspoll = FALSE /\ rest = 0
  /\ queue = <<>>
  /\ alive = Process

(* The 1 is added before the comparison, so an interval of ClockRange - 1     *)
(* would never expire.                                                        *)
timer_expired(t) == interval[t] < ((clock - start[t]) + 1) % ClockRange

(* Distances from now are unsigned: a timer that has expired counts as the    *)
(* farthest, unless it is alone.                                              *)
update_time(l, s, i) ==
  LET distance == {(s[t] + i[t] - clock) % ClockRange : t \in Elements(l)} IN
  next_expiration' =
    IF l = <<>> THEN 0
    ELSE (clock + CHOOSE d \in distance : \A e \in distance : d <= e) % ClockRange

add_timer(t, p, s, i) ==
  LET l == IF owner[t] # None /\ t \in Listed THEN timerlist ELSE <<t>> \o timerlist IN
  /\ needspoll' = TRUE
  /\ owner' = [owner EXCEPT ![t] = p]
  /\ timerlist' = l /\ start' = s /\ interval' = i
  /\ update_time(l, s, i)

etimer_set(t, n, p) ==
  add_timer(t, p, [start EXCEPT ![t] = clock], [interval EXCEPT ![t] = n])

etimer_reset(t, p) ==
  add_timer(t, p, [start EXCEPT ![t] = (@ + interval[t]) % ClockRange], interval)

etimer_restart(t, p) ==
  add_timer(t, p, [start EXCEPT ![t] = clock], interval)

etimer_adjust(t, d) ==
  /\ start' = [start EXCEPT ![t] = (@ + d) % ClockRange]
  /\ update_time(timerlist, start', interval)
  /\ UNCHANGED <<timerlist, interval, owner, needspoll>>

(* A timer that is not on the list leaves next_expiration as it is. *)
etimer_stop(t) ==
  /\ timerlist' = Without(timerlist, {t})
  /\ IF t \in Listed THEN update_time(timerlist', start, interval)
                     ELSE UNCHANGED next_expiration
  /\ owner' = [owner EXCEPT ![t] = None]
  /\ UNCHANGED <<start, interval, needspoll>>

----------------------------------------------------------------------------
(* The clock interrupt.  The bound MaxLate is that of a main loop which is    *)
(* never busy for longer.                                                     *)
InTime == \A t \in Listed : LateBy(t) < MaxLate \/ LateBy(t) >= Half
Tick ==
  /\ InTime
  /\ clock' = (clock + 1) % ClockRange
  /\ needspoll' = (needspoll \/ /\ timerlist # <<>>
                                /\ (next_expiration - clock' - 1) % ClockRange > MAX_TICKS)
  /\ UNCHANGED <<timers, rest, queue, alive>>

scanning == rest > 0
Looked == timerlist[Len(timerlist) - rest + 1]
Full == Len(queue) = Capacity

(* do_poll() calls etimer_process, which begins its loop.  The clock may tick *)
(* between two steps of the loop.                                             *)
Poll ==
  /\ needspoll /\ ~scanning
  /\ needspoll' = FALSE /\ rest' = Len(timerlist)
  /\ UNCHANGED <<clock, timers, queue, alive>>

(* An expired timer is posted and leaves the list; the loop starts again. *)
Expire_staysListed ==
  /\ scanning /\ timer_expired(Looked) /\ ~Full
  /\ queue' = Append(queue, Signal(owner[Looked], Looked))
  /\ rest' = rest - 1
  /\ UNCHANGED <<clock, timers, needspoll, alive>>
Expire ==
  /\ scanning /\ timer_expired(Looked) /\ ~Full
  /\ queue' = Append(queue, Signal(owner[Looked], Looked))
  /\ owner' = [owner EXCEPT ![Looked] = None]
  /\ timerlist' = Without(timerlist, {Looked})
  /\ update_time(timerlist', start, interval)
  /\ rest' = Len(timerlist')
  /\ UNCHANGED <<clock, start, interval, needspoll, alive>>

(* The loop goes on; a timer that does not get into the queue asks for a poll. *)
Pass_forgets ==
  /\ scanning /\ (timer_expired(Looked) => Full)
  /\ rest' = rest - 1
  /\ UNCHANGED <<clock, timers, needspoll, queue, alive>>
Pass ==
  /\ scanning /\ (timer_expired(Looked) => Full)
  /\ rest' = rest - 1
  /\ needspoll' = (needspoll \/ timer_expired(Looked))
  /\ UNCHANGED <<clock, timers, queue, alive>>

(* do_event() takes an event; what its receiver does are steps of their own.  *)
Receive ==
  /\ queue # <<>> /\ ~scanning
  /\ queue' = Tail(queue)
  /\ UNCHANGED <<clock, timers, needspoll, rest, alive>>

(* PROCESS_EVENT_EXITED: the timers of the process leave the list, and        *)
(* neither their owner nor next_expiration is touched.                        *)
Exited(p) ==
  /\ "exit" \in Ops /\ ~scanning /\ p \in alive
  /\ alive' = alive \ {p}
  /\ timerlist' = Without(timerlist, {t \in Timer : owner[t] = p})
  /\ UNCHANGED <<clock, start, interval, owner, next_expiration, needspoll, rest, queue>>

Started(p) ==
  /\ "exit" \in Ops /\ ~scanning /\ p \notin alive
  /\ alive' = alive \cup {p}
  /\ UNCHANGED <<clock, timers, needspoll, rest, queue>>

(* Other events keep the queue busy. *)
OtherEvent(p) ==
  /\ "other" \in Ops /\ ~scanning /\ ~Full
  /\ queue' = Append(queue, Signal(p, None))
  /\ UNCHANGED <<clock, timers, needspoll, rest, alive>>

(* A program resets a timer that has just expired, as etimer.h tells it to.   *)
(* It may put off one that is set by as much as it has run already; another   *)
(* difference may leave it behind the next_expiration or let it expire early. *)
Uses(op) == op \in Ops /\ ~scanning /\ UNCHANGED <<clock, rest, queue, alive>>
Program(p) ==
  /\ p \in alive
  /\ \E t \in Timer :
     \/ Uses("set") /\ \E n \in Interval : etimer_set(t, n, p)
     \/ Uses("reset") /\ t \notin Listed /\ LateBy(t) <= MaxLate /\ etimer_reset(t, p)
     \/ Uses("restart") /\ etimer_restart(t, p)
     \/ /\ Uses("adjust") /\ t \in Listed /\ LateBy(t) >= Half
        /\ \E d \in Difference \cap 0..(clock - start[t]) % ClockRange : etimer_adjust(t, d)
     \/ Uses("stop") /\ etimer_stop(t)

System == Tick \/ Poll \/ Expire \/ Pass \/ Receive

Next ==
  \/ System
  \/ \E p \in Process : Program(p) \/ Exited(p) \/ Started(p) \/ OtherEvent(p)

Spec == Init /\ [][Next]_vars

----------------------------------------------------------------------------
TypeOK ==
  /\ clock \in 0..ClockRange - 1
  /\ timerlist \in Seq(Timer) /\ EachOnce(timerlist)
  /\ start \in [Timer -> 0..ClockRange - 1] /\ interval \in [Timer -> Interval \cup {0}]
  /\ owner \in [Timer -> Process \cup {None}]
  /\ \A t \in Listed : owner[t] # None
  /\ next_expiration \in 0..ClockRange - 1
  /\ needspoll \in BOOLEAN /\ rest \in 0..Len(timerlist)
  /\ queue \in Seq([p : Process, t : Timer \cup {None}])
  /\ alive \subseteq Process

(* The ticks until a time, negative when it is past. *)
Until(time) ==
  LET d == (time - clock) % ClockRange IN IF d < Half THEN d ELSE d - ClockRange
Due(t) == Until(Deadline(t))

(* No timer is forgotten: the loop has still to look at it, or etimer_process *)
(* will be polled at the timer's deadline at the latest, or at the next tick  *)
(* when that is past, by the one next_expiration that all timers share.       *)
NoTimerForgotten ==
  \A i \in 1..Len(timerlist) :
    \/ needspoll \/ i > Len(timerlist) - rest
    \/ LET due == Due(timerlist[i]) IN
       Until(next_expiration) <= IF due > 0 THEN due ELSE 1

(* What an alarm clock shows of a timer, and its signals not yet received.    *)
Left(t) == IF t \notin Listed THEN None ELSE IF Due(t) > 0 THEN Due(t) ELSE 0
Sent(q, t) == {i \in 1..Len(q) : q[i].t = t}

(* Timers keep time across the wrap-around of the clock, signal once, never   *)
(* early, and not at all when they are stopped or set again before.           *)
Clock == INSTANCE AlarmClock WITH
  Off <- None, MaxTime <- Half,
  left <- [t \in Timer |-> Left(t)],
  signals <- [t \in Timer |-> Cardinality(Sent(queue, t))]
AlarmClockSpec == Clock!Spec
=============================================================================
