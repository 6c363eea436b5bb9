--------------------------- MODULE ContikiProcess ---------------------------
(* The process kernel, core/sys/process.c: the list of processes, the polls,  *)
(* the event queue and the calls of threads.  One stack holds what C's call   *)
(* stack holds: the threads that run and the walks over the process list they *)
(* were called from, top first.  The walks keep bare pointers, so the list is *)
(* modelled by its next pointers, which a process keeps when it leaves.       *)
(*                                                                            *)
(* What a thread does while it runs is up to the program: it starts, exits,   *)
(* polls and calls other processes and posts events, in any order and number. *)
(* Interrupts poll processes between any two steps.                           *)
EXTENDS Integers, Sequences, FiniteSets

CONSTANTS
  Process,      \* the process control blocks
  Null,         \* the null pointer: no process, and PROCESS_BROADCAST
  Autostart,    \* a sequence: the processes main() starts
  Capacity,     \* PROCESS_CONF_NUMEVENTS
  UserEvent,    \* the events programs post, besides EXIT and CONTINUE
  Ops,          \* what the programs' threads do, a subset of Operation
  Interrupting  \* the processes that interrupt handlers poll

Operation == {"start", "exit", "post", "postExit", "call", "poll", "pause", "end"}
Event == UserEvent \cup {"INIT", "POLL", "EXIT", "EXITED", "CONTINUE"}
Pointer == Process \cup {Null}
Item == [ev : Event, p : Pointer]
Broadcast == Null

(* fevent + nevents is cut to process_num_events_t, 8 bits, before it is      *)
(* reduced: with more than 128 slots the ring would not be one.               *)
EventNumbers == 256
ASSUME CapacityAssumption == Capacity \in 1..128
ASSUME NullAssumption == Null \notin Process
ASSUME EventAssumption == "INIT" \notin UserEvent
ASSUME OpsAssumption ==
  /\ Autostart \in Seq(Process)
  /\ Ops \subseteq Operation
  /\ Interrupting \subseteq Process

VARIABLES
  head,             \* process_list
  next,             \* p->next
  state,            \* p->state
  needspoll,        \* the processes with p->needspoll set
  poll_requested,
  nevents, fevent, events,
  process_current,
  paused,           \* the processes that wait in PROCESS_PAUSE()
  stack,            \* C's call stack, top first; empty: main() itself
  toStart,          \* the rest of Autostart
  (* history, for the properties only *)
  asked,            \* processes polled since they were started or last called
  due               \* processes the broadcast under way still has to reach

list == <<head, next>>
polls == <<needspoll, poll_requested, asked>>
ring == <<nevents, fevent, events>>
history == <<asked, due>>
vars == <<list, state, polls, ring, process_current, paused, stack, toStart, due>>

Thread(p, ev, by) == [k |-> "thread", p |-> p, ev |-> ev, by |-> by]
Synch(old) == [k |-> "synch", old |-> old]
DoPoll(k, q) == [k |-> k, q |-> q]
DoEvent(k, q, ev) == [k |-> k, q |-> q, ev |-> ev]
Exit(k, p, q, from, old) ==
  [k |-> k, p |-> p, q |-> q, from |-> from, old |-> old]
TakeEvent == [k |-> "take"]
Frame ==
  [k : {"thread"}, p : Process, ev : Event, by : {"call", "exit"}]
  \cup [k : {"synch"}, old : Pointer]
  \cup [k : {"poll"}, q : Pointer]
  \cup [k : {"pollnext"}, q : Process]
  \cup [k : {"bcast"}, q : Pointer, ev : Event]
  \cup [k : {"bcall", "bnext"}, q : Process, ev : Event]
  \cup [k : {"exit", "unlink"}, p : Process, q : Pointer, from : Pointer,
        old : Pointer]
  \cup [k : {"exitnext"}, p : Process, q : Process, from : Pointer,
        old : Pointer]
  \cup {TakeEvent}

(* The processes a walk from pointer q visits: the least set that holds q and *)
(* is closed under next.                                                      *)
Closed(S) == \A p \in S : next[p] \in S \cup {Null}
From(q) ==
  {p \in Process :
     \A S \in SUBSET Process : q \in S \cup {Null} /\ Closed(S) => p \in S}
Listed == From(head)

On(p, kinds) == \E i \in 1..Len(stack) : stack[i].k \in kinds /\ stack[i].p = p
Called(p) == On(p, {"thread"})
Exiting(p) == On(p, {"exit", "exitnext", "unlink"})

Init ==
  /\ head = Null
  /\ next = [p \in Process |-> Null]
  /\ state = [p \in Process |-> "NONE"]
  /\ needspoll = {} /\ poll_requested = FALSE
  /\ nevents = 0 /\ fevent = 0
  /\ events = [i \in 0..Capacity - 1 |-> [ev |-> "INIT", p |-> Null]]
  /\ process_current = Null
  /\ paused = {}
  /\ stack = <<>>
  /\ toStart = Autostart
  /\ asked = {} /\ due = {}

(* call_process: a process that is not exactly RUNNING, such as one that is   *)
(* called already, is passed over.  The caller goes on with `rest`.           *)
call_process_again(p, st, ev, rest) ==
  IF st[p] # "NONE"
  THEN /\ process_current' = p
       /\ state' = [st EXCEPT ![p] = "CALLED"]
       /\ paused' = IF ev = "CONTINUE" THEN paused \ {p} ELSE paused
       /\ stack' = <<Thread(p, ev, "call")>> \o rest
  ELSE /\ state' = st
       /\ stack' = rest
       /\ UNCHANGED <<process_current, paused>>
call_process(p, st, ev, rest) ==
  IF st[p] = "RUNNING"
  THEN /\ process_current' = p
       /\ state' = [st EXCEPT ![p] = "CALLED"]
       /\ paused' = IF ev = "CONTINUE" THEN paused \ {p} ELSE paused
       /\ stack' = <<Thread(p, ev, "call")>> \o rest
  ELSE /\ state' = st
       /\ stack' = rest
       /\ UNCHANGED <<process_current, paused>>

process_post_synch(p, st, ev, rest) ==
  call_process(p, st, ev, <<Synch(process_current)>> \o rest)

(* The caller of process_post_synch gets process_current back. *)
SynchReturn_keepsCurrent ==
  /\ stack # <<>> /\ Head(stack).k = "synch"
  /\ stack' = Tail(stack)
  /\ UNCHANGED <<list, state, polls, ring, process_current, paused, toStart, due>>
SynchReturn ==
  /\ stack # <<>> /\ Head(stack).k = "synch"
  /\ process_current' = Head(stack).old
  /\ stack' = Tail(stack)
  /\ UNCHANGED <<list, state, polls, ring, paused, toStart, due>>

process_start(p, rest) ==
  IF p \in Listed
  THEN /\ stack' = rest
       /\ UNCHANGED <<list, state, process_current, paused, polls, due>>
  ELSE /\ next' = [next EXCEPT ![p] = head]
       /\ head' = p
       /\ LET restarted == [state EXCEPT ![p] = "RUNNING"] IN
          /\ process_current' = p
          /\ state' = [restarted EXCEPT ![p] = "CALLED"]
          /\ paused' = paused \ {p}
          /\ stack' = <<Thread(p, "INIT", "call")>> \o (<<Synch(process_current)>> \o rest)
       /\ asked' = asked \ {p}
       /\ UNCHANGED <<needspoll, poll_requested, due>>

Unlink_clearsNext(p) ==
  IF p = head
  THEN head' = next[p] /\ next' = [next EXCEPT ![p] = Null]
  ELSE /\ next' = [q \in Process |->
                     IF q = p THEN Null
                     ELSE IF q \in Listed /\ next[q] = p THEN next[p] ELSE next[q]]
       /\ UNCHANGED head
Unlink(p) ==
  IF p = head
  THEN head' = next[p] /\ UNCHANGED next
  ELSE /\ next' = [q \in Process |->
                     IF q \in Listed /\ next[q] = p THEN next[p] ELSE next[q]]
       /\ UNCHANGED head

(* exit_process up to its walk over the processes that are told. *)
exit_process(p, from, rest) ==
  IF p \notin Listed
  THEN stack' = rest /\ UNCHANGED <<list, state, asked, due>>
  ELSE IF state[p] = "NONE"
  THEN Unlink(p) /\ stack' = rest /\ UNCHANGED <<state, asked, due>>
  ELSE /\ state' = [state EXCEPT ![p] = "NONE"]
       /\ stack' = <<Exit("exit", p, head, from, process_current)>> \o rest
       /\ asked' = asked \ {p}
       /\ due' = due \ {p}
       /\ UNCHANGED list

(* The walk of exit_process: everybody else is called with EXITED, ... *)
ExitWalk ==
  /\ stack # <<>> /\ Head(stack).k = "exit" /\ Head(stack).q # Null
  /\ LET f == Head(stack) IN
     IF f.q = f.p
     THEN /\ stack' = <<[f EXCEPT !.q = next[f.q]]>> \o Tail(stack)
          /\ UNCHANGED <<state, process_current, paused>>
     ELSE call_process(f.q, state, "EXITED",
                       <<[f EXCEPT !.k = "exitnext"]>> \o Tail(stack))
  /\ UNCHANGED <<list, polls, ring, toStart, due>>

ExitWalkOn ==
  /\ stack # <<>> /\ Head(stack).k = "exitnext"
  /\ LET f == Head(stack) IN
     stack' = <<[f EXCEPT !.k = "exit", !.q = next[f.q]]>> \o Tail(stack)
  /\ UNCHANGED <<list, state, polls, ring, process_current, paused, toStart, due>>

(* ... then the process itself with EXIT, unless it ends on its own account, *)
ExitTold ==
  /\ stack # <<>> /\ Head(stack).k = "exit" /\ Head(stack).q = Null
  /\ LET f == Head(stack)
         unlink == <<[f EXCEPT !.k = "unlink"]>> \o Tail(stack) IN
     IF f.p # f.from
     THEN /\ process_current' = f.p
          /\ stack' = <<Thread(f.p, "EXIT", "exit")>> \o unlink
     ELSE stack' = unlink /\ UNCHANGED process_current
  /\ UNCHANGED <<list, state, polls, ring, paused, toStart, due>>

(* ... then it leaves the list.                                              *)
ExitUnlink ==
  /\ stack # <<>> /\ Head(stack).k = "unlink"
  /\ Unlink(Head(stack).p)
  /\ process_current' = Head(stack).old
  /\ stack' = Tail(stack)
  /\ UNCHANGED <<state, polls, ring, paused, toStart, due>>

(* process_post: refused when the queue is full. *)
Full == nevents = Capacity
process_post_fromZero(ev, p) ==
  IF Full THEN UNCHANGED ring
  ELSE /\ events' = [events EXCEPT ![nevents % Capacity] = [ev |-> ev, p |-> p]]
       /\ nevents' = nevents + 1
       /\ UNCHANGED fevent
process_post(ev, p) ==
  IF Full THEN UNCHANGED ring
  ELSE /\ events' = [events EXCEPT ![((fevent + nevents) % EventNumbers) % Capacity]
                       = [ev |-> ev, p |-> p]]
       /\ nevents' = nevents + 1
       /\ UNCHANGED fevent

process_poll(p) ==
  IF state[p] \in {"RUNNING", "CALLED"}
  THEN /\ needspoll' = needspoll \cup {p}
       /\ poll_requested' = TRUE
       /\ asked' = IF p \in Listed THEN asked \cup {p} ELSE asked
  ELSE UNCHANGED polls

----------------------------------------------------------------------------
(* The main loop: process_run polls if that is requested, then delivers one   *)
(* event.                                                                     *)
Walk(rest) ==
  /\ poll_requested' = FALSE
  /\ stack' = <<DoPoll("poll", head)>> \o rest

process_run_pollOnly ==
  /\ stack = <<>> /\ toStart = <<>>
  /\ IF poll_requested
     THEN Walk(<<>>)
     ELSE stack' = <<TakeEvent>> /\ UNCHANGED poll_requested
  /\ UNCHANGED <<list, state, needspoll, ring, process_current, paused, toStart,
                 history>>
process_run ==
  /\ stack = <<>> /\ toStart = <<>>
  /\ IF poll_requested
     THEN Walk(<<TakeEvent>>)
     ELSE stack' = <<TakeEvent>> /\ UNCHANGED poll_requested
  /\ UNCHANGED <<list, state, needspoll, ring, process_current, paused, toStart,
                 history>>

(* do_poll, one process of the walk at a time. *)
PollWalk ==
  /\ stack # <<>> /\ Head(stack).k = "poll"
  /\ LET q == Head(stack).q
         on == <<DoPoll("pollnext", q)>> \o Tail(stack) IN
     CASE q = Null ->
            /\ stack' = Tail(stack)
            /\ UNCHANGED <<state, needspoll, asked, process_current, paused>>
       [] q \in needspoll ->
            /\ needspoll' = needspoll \ {q}
            /\ asked' = asked \ {q}
            /\ call_process(q, [state EXCEPT ![q] = "RUNNING"], "POLL", on)
       [] OTHER ->
            /\ stack' = on
            /\ UNCHANGED <<state, needspoll, asked, process_current, paused>>
  /\ UNCHANGED <<list, poll_requested, ring, toStart, due>>

PollWalkOn_clears ==
  /\ stack # <<>> /\ Head(stack).k = "pollnext"
  /\ stack' = <<DoPoll("poll", next[Head(stack).q])>> \o Tail(stack)
  /\ poll_requested' = FALSE
  /\ UNCHANGED <<list, state, needspoll, ring, process_current, paused, toStart,
                 history>>
PollWalkOn ==
  /\ stack # <<>> /\ Head(stack).k = "pollnext"
  /\ stack' = <<DoPoll("poll", next[Head(stack).q])>> \o Tail(stack)
  /\ UNCHANGED <<list, state, polls, ring, process_current, paused, toStart, due>>

(* do_event: the oldest event leaves the queue. *)
Taken ==
  /\ fevent' = (fevent + 1) % Capacity
  /\ nevents' = nevents - 1
  /\ UNCHANGED events

NoEvent ==
  /\ stack # <<>> /\ Head(stack).k = "take" /\ nevents = 0
  /\ stack' = Tail(stack)
  /\ UNCHANGED <<list, state, polls, ring, process_current, paused, toStart, due>>

EventForOne ==
  /\ stack # <<>> /\ Head(stack).k = "take" /\ nevents > 0
  /\ LET e == events[fevent] IN
     /\ e.p # Broadcast
     /\ call_process(e.p,
          IF e.ev = "INIT" THEN [state EXCEPT ![e.p] = "RUNNING"] ELSE state,
          e.ev, Tail(stack))
  /\ Taken
  /\ UNCHANGED <<list, polls, toStart, due>>

EventForAll ==
  /\ stack # <<>> /\ Head(stack).k = "take" /\ nevents > 0
  /\ events[fevent].p = Broadcast
  /\ Taken
  /\ stack' = <<DoEvent("bcast", head, events[fevent].ev)>> \o Tail(stack)
  /\ due' = Listed
  /\ UNCHANGED <<list, state, polls, process_current, paused, toStart>>

(* The walk of a broadcast polls, if that is requested, before every call. *)
BroadcastPoll ==
  /\ stack # <<>> /\ Head(stack).k = "bcast"
  /\ Head(stack).q # Null /\ poll_requested
  /\ Walk(<<[Head(stack) EXCEPT !.k = "bcall"]>> \o Tail(stack))
  /\ UNCHANGED <<list, state, needspoll, ring, process_current, paused, toStart,
                 history>>

BroadcastCall ==
  /\ stack # <<>>
  /\ \/ Head(stack).k = "bcast" /\ ~poll_requested
     \/ Head(stack).k = "bcall"
  /\ LET f == Head(stack) IN
     /\ f.q # Null
     /\ call_process(f.q, state, f.ev,
                     <<[f EXCEPT !.k = "bnext"]>> \o Tail(stack))
     /\ due' = due \ {f.q}
  /\ UNCHANGED <<list, polls, ring, toStart>>

BroadcastOn ==
  /\ stack # <<>>
  /\ \/ /\ Head(stack).k = "bnext"
        /\ stack' = <<[Head(stack) EXCEPT !.k = "bcast", !.q = next[Head(stack).q]]>>
                    \o Tail(stack)
     \/ /\ Head(stack).k = "bcast" /\ Head(stack).q = Null
        /\ stack' = Tail(stack)
  /\ UNCHANGED <<list, state, polls, ring, process_current, paused, toStart, due>>

----------------------------------------------------------------------------
(* A thread.  One that waits in PROCESS_PAUSE() does nothing but return.      *)
Running(p) == stack # <<>> /\ Head(stack).k = "thread" /\ Head(stack).p = p
Active(p, op) == Running(p) /\ p \notin paused /\ op \in Ops

Starts(p, q) ==
  /\ Active(p, "start") /\ process_start(q, stack)
  /\ UNCHANGED <<ring, toStart>>

(* process_exit, of a process that is neither running nor about to exit.      *)
Exits(p, q) ==
  /\ Active(p, "exit") /\ ~Called(q) /\ ~Exiting(q)
  /\ exit_process(q, process_current, stack)
  /\ UNCHANGED <<needspoll, poll_requested, ring, process_current, paused, toStart>>

Posts(p, q, ev) ==
  /\ \/ Active(p, "post") /\ ev \in UserEvent
     \/ Active(p, "postExit") /\ ev = "EXIT" /\ q # Broadcast
  /\ process_post(ev, q)
  /\ UNCHANGED <<list, state, polls, process_current, paused, stack, toStart, due>>

CallsOther(p, q, ev) ==
  /\ Active(p, "call") /\ process_post_synch(q, state, ev, stack)
  /\ UNCHANGED <<list, polls, ring, toStart, due>>

Polls(p, q) ==
  /\ Active(p, "poll") /\ process_poll(q)
  /\ UNCHANGED <<list, state, ring, process_current, paused, stack, toStart, due>>

(* The rest of call_process, or of exit_process, after the thread returned. *)
Returned(p, ended) ==
  LET f == Head(stack) IN
  IF f.by = "exit"
  THEN stack' = Tail(stack) /\ UNCHANGED <<list, state, asked, due>>
  ELSE IF ended \/ f.ev = "EXIT"
  THEN exit_process(p, p, Tail(stack))
  ELSE /\ state' = [state EXCEPT ![p] = "RUNNING"]
       /\ stack' = Tail(stack)
       /\ UNCHANGED <<list, asked, due>>

Yields(p) ==
  /\ Running(p)
  /\ Returned(p, FALSE)
  /\ UNCHANGED <<needspoll, poll_requested, ring, process_current, paused, toStart>>

Ends(p) ==
  /\ Active(p, "end")
  /\ Returned(p, TRUE)
  /\ UNCHANGED <<needspoll, poll_requested, ring, process_current, paused, toStart>>

(* PROCESS_PAUSE(): a CONTINUE event to itself, whose post is not looked at,  *)
(* and a wait for that event.                                                 *)
Pauses(p) ==
  /\ Active(p, "pause")
  /\ process_post("CONTINUE", process_current)
  /\ paused' = paused \cup {p}
  /\ Returned(p, FALSE)
  /\ UNCHANGED <<needspoll, poll_requested, process_current, toStart>>

----------------------------------------------------------------------------
(* main() starts the processes; afterwards it calls process_run for ever. *)
Boot ==
  /\ stack = <<>> /\ toStart # <<>>
  /\ process_start(Head(toStart), stack)
  /\ toStart' = Tail(toStart)
  /\ UNCHANGED ring

Interrupt(p) ==
  /\ p \in Interrupting
  /\ process_poll(p)
  /\ UNCHANGED <<list, state, ring, process_current, paused, stack, toStart, due>>

Kernel ==
  \/ Boot \/ process_run
  \/ SynchReturn
  \/ ExitWalk \/ ExitWalkOn \/ ExitTold \/ ExitUnlink
  \/ PollWalk \/ PollWalkOn
  \/ NoEvent \/ EventForOne \/ EventForAll
  \/ BroadcastPoll \/ BroadcastCall \/ BroadcastOn

Program(p) ==
  \/ \E q \in Process : Starts(p, q) \/ Exits(p, q) \/ Polls(p, q)
  \/ \E q \in Pointer, ev \in UserEvent \cup {"EXIT"} :
       Posts(p, q, ev)
  \/ \E q \in Process, ev \in UserEvent : CallsOther(p, q, ev)
  \/ Ends(p)
  \/ Pauses(p)

Next ==
  \/ Kernel
  \/ \E p \in Process : Program(p) \/ Yields(p) \/ Interrupt(p)

Spec == Init /\ [][Next]_vars

----------------------------------------------------------------------------
TypeOK ==
  /\ head \in Pointer /\ next \in [Process -> Pointer]
  /\ state \in [Process -> {"NONE", "RUNNING", "CALLED"}]
  /\ needspoll \subseteq Process /\ poll_requested \in BOOLEAN
  /\ nevents \in 0..Capacity /\ fevent \in 0..Capacity - 1
  /\ events \in [0..Capacity - 1 -> Item]
  /\ process_current \in Pointer
  /\ paused \subseteq Process
  /\ stack \in Seq(Frame)
  /\ toStart \in Seq(Process)
  /\ asked \subseteq Process /\ due \subseteq Process

(* The process list has no cycle, which every loop over it relies on, and     *)
(* holds exactly the processes that run or are about to leave: one that exits *)
(* is no longer running and one that runs gets its events.                    *)
ListConsistent ==
  /\ \A p \in Listed : p \notin From(next[p])
  /\ \A p \in Process : p \in Listed <=> (state[p] # "NONE" \/ Exiting(p))

(* However threads call, exit and restart one another, no thread is entered   *)
(* while it is on the call stack, and only a thread on the stack counts as    *)
(* called: no process stays deaf.                                             *)
CalledOnce ==
  \A p \in Process :
    /\ \A i, j \in 1..Len(stack) :
         /\ stack[i].k = "thread" /\ stack[i].p = p
         /\ stack[j].k = "thread" /\ stack[j].p = p
         => i = j
    /\ state[p] = "CALLED" => Called(p)

(* process_current is the process whose thread runs, after calls, exits and   *)
(* broadcasts alike: timers are set and pauses are ended in its name.         *)
CurrentIsRunning ==
  \A p \in Process : Running(p) => process_current = p

(* No poll is lost: after process_poll(), from an interrupt or a thread, a    *)
(* poll is requested or the walk of do_poll still comes to the process.       *)
AheadOf(p, f) ==
  \/ f.k = "poll" /\ p \in From(f.q)
  \/ f.k = "pollnext" /\ p \in From(next[f.q])
NoPollLost ==
  \A p \in asked :
    /\ p \in needspoll
    /\ poll_requested \/ \E i \in 1..Len(stack) : AheadOf(p, stack[i])

(* A broadcast reaches every process that stays: the walk never loses one,    *)
(* whoever exits or is started on the way.                                    *)
BroadcastReaches ==
  \/ due = {}
  \/ \E i \in 1..Len(stack) :
       \/ stack[i].k \in {"bcast", "bcall"} /\ due \subseteq From(stack[i].q)
       \/ stack[i].k = "bnext" /\ due \subseteq From(next[stack[i].q])

(* Whoever exits, restarts or is called on the way: the list has no cycle and *)
(* holds the processes that run or are about to leave, and the walk of a      *)
(* broadcast comes to every process that stays on it.  Who is reached by the  *)
(* walks of polls and exits is not said here.                                 *)
WalksReachAll == ListConsistent /\ BroadcastReaches

(* The ring is a bounded queue, see EventQueue.                               *)
Queue == INSTANCE EventQueue WITH
  queue <- [i \in 1..nevents |-> events[(fevent + i - 1) % Capacity]]
QueueImplemented == Queue!Spec
=============================================================================
