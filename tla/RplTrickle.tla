----------------------------- MODULE RplTrickle -----------------------------
(* The DIO and DAO timers of core/net/rpl/rpl-timers.c.  Time passes in       *)
(* ticks, and a timer that is due is handled before the next tick.  Between   *)
(* its end and its handler lies an event in the queue, and whoever sets the   *)
(* timer anew in the meantime leaves that event there: it calls the handler.  *)
EXTENDS Naturals

CONSTANTS
  IntMin, Doublings,      \* RPL_DIO_INTERVAL_MIN and _DOUBLINGS
  Redundancy,             \* RPL_DIO_REDUNDANCY
  Millis, ClockSecond,    \* the milliseconds and ticks of a second
  Latency,                \* RPL_DAO_LATENCY
  Off,                    \* a timer that is stopped
  MaxHeard,               \* bound: DIOs heard in an interval
  MaxLate                 \* bound: ticks an interval is postponed

Ticks(n) == (2 ^ n * ClockSecond) \div Millis

ASSUME TrickleAssumption ==
  /\ {IntMin, Doublings, Redundancy, MaxLate} \subseteq Nat /\ ClockSecond \in Nat \ {0}
  /\ MaxHeard \in 0..255   \* dio_counter has 8 bits
  /\ Millis \in Nat \ {0} /\ Latency \in Nat \ {0, 1} /\ Off \notin Nat
  /\ \A n \in IntMin..IntMin + Doublings : Ticks(n) \in Nat \ {0, 1}

VARIABLES
  joined,                              \* the instance is used
  dio_intcurrent, dio_send, dio_counter, dio_next_delay,
  dio_timer, dao_timer,                \* ticks to go, or Off
  posted,                              \* whose events are in the queue
  dio_send_ok,
  address,                             \* the link-local address is preferred
  elapsed, heard, late, did, cut,      \* of this interval: its ticks, the consistent DIOs
                                       \* in it, the postponements, what became of its DIO,
                                       \* and whether it got the event of the one before
  since_dao                            \* ticks since the last DAO, up to Latency

interval == <<dio_intcurrent, dio_send, dio_counter, dio_next_delay, elapsed, heard, late, did,
              cut>>
trickle == <<joined, interval, dio_timer, dao_timer, posted, dio_send_ok, address, since_dao>>

Nothing == [what |-> "none", at |-> 0, heard |-> 0]

TrickleInit ==
  /\ joined = FALSE
  /\ dio_intcurrent = IntMin /\ dio_send = FALSE /\ dio_counter = 0 /\ dio_next_delay = 0
  /\ dio_timer = Off /\ dao_timer = Off /\ posted = {} /\ dio_send_ok = FALSE
  /\ address \in BOOLEAN
  /\ elapsed = 0 /\ heard = 0 /\ late = 0 /\ did = Nothing /\ cut = FALSE
  /\ since_dao = Latency

----------------------------------------------------------------------------
(* A random time between I/2 and I. *)
Delay(ticks) == ticks \div 2 .. 2 * (ticks \div 2)

StartInterval(n, delay, rest, count) ==
  /\ dio_intcurrent' = n /\ dio_send' = TRUE /\ dio_counter' = count
  /\ dio_next_delay' = rest /\ dio_timer' = delay
  /\ elapsed' = 0 /\ heard' = 0 /\ late' = 0 /\ did' = Nothing /\ cut' = FALSE

new_dio_interval_fullDelay(n) == \E delay \in Delay(Ticks(n)) : StartInterval(n, delay, Ticks(n), 0)
new_dio_interval(n) == \E delay \in Delay(Ticks(n)) : StartInterval(n, delay, Ticks(n) - delay, 0)

handle_dio_timer ==
  /\ dio_send_ok' = (dio_send_ok \/ address)
  /\ IF ~dio_send_ok' THEN
       /\ late < MaxLate
       /\ dio_timer' = ClockSecond /\ late' = late + ClockSecond
       /\ cut' = (cut \/ dio_timer # 0)
       /\ UNCHANGED <<dio_intcurrent, dio_send, dio_counter, dio_next_delay, elapsed, heard, did>>
     ELSE IF dio_send THEN
       /\ did' = [what |-> IF dio_counter < Redundancy THEN "sent" ELSE "suppressed",
                  at |-> elapsed, heard |-> heard]
       /\ dio_send' = FALSE /\ dio_timer' = dio_next_delay
       /\ cut' = (cut \/ dio_timer # 0)
       /\ UNCHANGED <<dio_intcurrent, dio_counter, dio_next_delay, elapsed, heard, late>>
     ELSE new_dio_interval(IF dio_intcurrent < IntMin + Doublings
                           THEN dio_intcurrent + 1 ELSE dio_intcurrent)

(* n is the interval the instance had. *)
Unstarted(n) ==
  dio_intcurrent' = n /\ UNCHANGED <<dio_send, dio_counter, dio_next_delay, dio_timer,
                                     elapsed, heard, late, did, cut>>
rpl_reset_dio_timer(n) == IF n > IntMin THEN new_dio_interval(IntMin) ELSE Unstarted(n)

handle_dao_timer ==
  IF ~dio_send_ok /\ ~address THEN dao_timer' = ClockSecond /\ UNCHANGED since_dao
  ELSE dao_timer' = Off /\ since_dao' = 0

\* etimer_expired(): it never ran, was stopped, or its event is posted.
DaoExpired == dao_timer = Off \/ (dao_timer = 0 /\ "dao" \in posted)
rpl_schedule_dao ==
  IF ~DaoExpired THEN UNCHANGED dao_timer
  ELSE dao_timer' \in Latency \div 2 .. Latency \div 2 + Latency - 1

(* etimer_process posts the events of timers at their end, one after another  *)
(* as the queue has room, and ctimer_process calls the function of a timer    *)
(* that is set when such an event comes, be it of an earlier setting.         *)
Posts ==
  /\ \/ dio_timer = 0 /\ "dio" \notin posted /\ posted' = posted \cup {"dio"}
     \/ dao_timer = 0 /\ "dao" \notin posted /\ posted' = posted \cup {"dao"}
  /\ UNCHANGED <<joined, interval, dio_timer, dao_timer, dio_send_ok, address, since_dao>>
DioEvent ==
  /\ "dio" \in posted /\ posted' = posted \ {"dio"}
  /\ IF dio_timer = Off THEN UNCHANGED <<interval, dio_timer, dio_send_ok>>
     ELSE handle_dio_timer
  /\ UNCHANGED <<joined, dao_timer, address, since_dao>>
DaoEvent ==
  /\ "dao" \in posted /\ posted' = posted \ {"dao"}
  /\ IF dao_timer = Off THEN UNCHANGED <<dao_timer, since_dao>> ELSE handle_dao_timer
  /\ UNCHANGED <<joined, interval, dio_timer, dio_send_ok, address>>

(* The ends of rpl_join_instance() and rpl_free_instance(). *)
Join ==
  /\ ~joined /\ joined' = TRUE
  /\ rpl_reset_dio_timer(IntMin + Doublings)
  /\ rpl_schedule_dao
  /\ UNCHANGED <<posted, dio_send_ok, address, since_dao>>
Leave ==
  /\ joined /\ joined' = FALSE
  /\ dio_timer' = Off /\ dao_timer' = Off
  /\ UNCHANGED <<interval, posted, dio_send_ok, address, since_dao>>

(* The network: a DIO that says nothing new, an inconsistency, and a change   *)
(* of parents that the root has to know.                                      *)
Consistent ==
  /\ joined /\ heard < MaxHeard
  /\ dio_counter' = (dio_counter + 1) % 256 /\ heard' = heard + 1
  /\ UNCHANGED <<joined, dio_intcurrent, dio_send, dio_next_delay, elapsed, late, did, cut,
                 dio_timer, dao_timer, posted, dio_send_ok, address, since_dao>>
Inconsistent ==
  /\ joined /\ rpl_reset_dio_timer(dio_intcurrent)
  /\ UNCHANGED <<joined, dao_timer, posted, dio_send_ok, address, since_dao>>
ParentsChange ==
  /\ joined /\ rpl_schedule_dao
  /\ UNCHANGED <<joined, interval, dio_timer, posted, dio_send_ok, address, since_dao>>

AddressReady ==
  /\ ~address /\ address' = TRUE
  /\ UNCHANGED <<joined, interval, dio_timer, dao_timer, posted, dio_send_ok, since_dao>>

OneLess(timer) == IF timer = Off THEN Off ELSE timer - 1
Tick ==
  /\ dio_timer # 0 /\ dao_timer # 0 /\ posted = {}
  /\ dio_timer' = OneLess(dio_timer) /\ dao_timer' = OneLess(dao_timer)
  /\ elapsed' = IF dio_timer = Off THEN elapsed ELSE elapsed + 1
  /\ since_dao' = IF since_dao < Latency THEN since_dao + 1 ELSE Latency
  /\ UNCHANGED <<joined, dio_intcurrent, dio_send, dio_counter, dio_next_delay, heard, late, did,
                 cut, posted, dio_send_ok, address>>

TrickleNext ==
  \/ Join \/ Leave \/ Consistent \/ Inconsistent \/ ParentsChange \/ AddressReady
  \/ Tick \/ Posts \/ DioEvent \/ DaoEvent

TrickleSpec == TrickleInit /\ [][TrickleNext]_trickle

----------------------------------------------------------------------------
(* rpl-timers.c:99: "The intervals must be equally long among the nodes for   *)
(* Trickle to operate efficiently."  What is over of an interval and what is  *)
(* to come make its length, and the seconds it was postponed.  An interval    *)
(* that gets the event of the one before ends early.                          *)
IntervalsEquallyLong ==
  joined =>
    LET length == elapsed + dio_timer + (IF dio_send THEN dio_next_delay ELSE 0)
        whole == Ticks(dio_intcurrent) + late IN
    IF cut THEN length <= whole ELSE length = whole

(* Only the first interval after a reset can get such an event: whoever       *)
(* resets, and how often, the intervals that follow are whole again.          *)
OnlyFirstIntervalCut == cut => dio_intcurrent = IntMin

(* The first half of an interval is for listening.                            *)
SentInSecondHalf ==
  did.what = "sent" /\ ~cut => did.at >= Ticks(dio_intcurrent) \div 2

(* A DIO is sent when fewer than Redundancy were heard, counted from the      *)
(* start of its own interval.                                                 *)
QuietWhenHeard == did.what # "none" => (did.what = "sent" <=> did.heard < Redundancy)

(* Every way to schedule a DAO leaves half the latency for others to join it, *)
(* and so does an event that outlives its schedule.                           *)
DaosPaced ==
  /\ dao_timer # Off => since_dao + dao_timer >= Latency \div 2
  /\ "dao" \in posted => since_dao >= Latency \div 2

(* Trickle keeps intervals of their length, the first half of each for        *)
(* listening, and its DIO back when enough were heard, and DAOs are paced,    *)
(* however their timers are reset and postponed.  The exception: a reset that *)
(* finds the timer at its end and its event in the queue is followed by the   *)
(* DIO at once and by a shorter interval, this once.                          *)
TrickleKept ==
  /\ IntervalsEquallyLong /\ OnlyFirstIntervalCut /\ SentInSecondHalf
  /\ QuietWhenHeard /\ DaosPaced

(* However often inconsistencies reset the timer, an interval gets to its DIO.*)
EveryIntervalDecides == joined ~> (did.what # "none" \/ ~joined)

(* However often the parents change, a DAO that was scheduled is sent.        *)
DaoIsSent == (dao_timer # Off) ~> (dao_timer = Off)
=============================================================================
