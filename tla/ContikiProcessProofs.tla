------------------------ MODULE ContikiProcessProofs ------------------------
(* Proofs about the process kernel: its types, process_current, the ring, and *)
(* the stack, the list and the walks over it.                                 *)
EXTENDS ContikiProcess, TLAPS

States == {"NONE", "RUNNING", "CALLED"}

(* Pushing on a stack, and taking its top.                                    *)
LEMMA PushType ==
  ASSUME NEW S, NEW s \in Seq(S), NEW f \in S
  PROVE  /\ <<f>> \o s \in Seq(S)
         /\ <<f>> \o s # <<>>
         /\ Len(<<f>> \o s) = Len(s) + 1
         /\ Head(<<f>> \o s) = f
         /\ (<<f>> \o s)[1] = f
         /\ \A i \in 1..Len(s) : (<<f>> \o s)[i + 1] = s[i]
OBVIOUS

LEMMA PopType ==
  ASSUME NEW S, NEW s \in Seq(S), s # <<>>
  PROVE  /\ Head(s) \in S /\ Head(s) = s[1]
         /\ Tail(s) \in Seq(S)
         /\ Len(Tail(s)) = Len(s) - 1
         /\ \A i \in 1..Len(s) - 1 : Tail(s)[i] = s[i + 1]
OBVIOUS

(* What a frame of a kind holds. *)
LEMMA FrameFields ==
  ASSUME NEW f \in Frame
  PROVE  /\ f.k = "thread" => f.p \in Process /\ f.ev \in Event
         /\ f.k = "synch" => f.old \in Pointer
         /\ f.k = "poll" => f.q \in Pointer
         /\ f.k = "pollnext" => f.q \in Process
         /\ f.k = "bcast" => f.q \in Pointer /\ f.ev \in Event
         /\ f.k \in {"bcall", "bnext"} => f.q \in Process /\ f.ev \in Event
         /\ f.k \in {"exit", "unlink", "exitnext"} =>
              f.p \in Process /\ f.q \in Pointer /\ f.from \in Pointer /\ f.old \in Pointer
         /\ f.k = "exitnext" => f.q \in Process
BY DEF Frame, Pointer, TakeEvent

LEMMA FrameMade ==
  /\ \A p \in Process, ev \in Event, by \in {"call", "exit"} : Thread(p, ev, by) \in Frame
  /\ \A old \in Pointer : Synch(old) \in Frame
  /\ \A q \in Pointer : DoPoll("poll", q) \in Frame
  /\ \A q \in Process : DoPoll("pollnext", q) \in Frame
  /\ \A q \in Pointer, ev \in Event : DoEvent("bcast", q, ev) \in Frame
  /\ \A k \in {"bcall", "bnext"}, q \in Process, ev \in Event : DoEvent(k, q, ev) \in Frame
  /\ \A k \in {"exit", "unlink"}, p \in Process, q, from, old \in Pointer :
       Exit(k, p, q, from, old) \in Frame
  /\ TakeEvent \in Frame
BY DEF Frame, Thread, Synch, DoPoll, DoEvent, Exit, TakeEvent

LEMMA FrameChanged ==
  ASSUME NEW f \in Frame
  PROVE  /\ f.k = "exit" => /\ \A q \in Pointer : [f EXCEPT !.q = q] \in Frame
                            /\ [f EXCEPT !.k = "unlink"] \in Frame
                            /\ f.q \in Process => [f EXCEPT !.k = "exitnext"] \in Frame
         /\ f.k = "exitnext" =>
              \A q \in Pointer : [f EXCEPT !.k = "exit", !.q = q] \in Frame
         /\ f.k \in {"bcast", "bcall"} /\ f.q \in Process =>
              /\ [f EXCEPT !.k = "bcall"] \in Frame
              /\ [f EXCEPT !.k = "bnext"] \in Frame
         /\ f.k = "bnext" =>
              \A q \in Pointer : [f EXCEPT !.k = "bcast", !.q = q] \in Frame
<1>1. f.k = "exit" => /\ \A q \in Pointer : [f EXCEPT !.q = q] \in Frame
                      /\ [f EXCEPT !.k = "unlink"] \in Frame
                      /\ f.q \in Process => [f EXCEPT !.k = "exitnext"] \in Frame
  BY DEF Frame, TakeEvent
<1>2. f.k = "exitnext" => \A q \in Pointer : [f EXCEPT !.k = "exit", !.q = q] \in Frame
  <2>1. f.k = "exitnext" =>
          f \in [k : {"exitnext"}, p : Process, q : Process, from : Pointer, old : Pointer]
    BY DEF Frame, TakeEvent
  <2>2. \A g \in [k : {"exitnext"}, p : Process, q : Process, from : Pointer, old : Pointer],
           q \in Pointer :
          [g EXCEPT !.k = "exit", !.q = q]
            \in [k : {"exit", "unlink"}, p : Process, q : Pointer, from : Pointer, old : Pointer]
    OBVIOUS
  <2> QED BY <2>1, <2>2 DEF Frame
<1>3. f.k \in {"bcast", "bcall"} /\ f.q \in Process =>
        [f EXCEPT !.k = "bcall"] \in Frame /\ [f EXCEPT !.k = "bnext"] \in Frame
  BY DEF Frame, TakeEvent
<1>4. f.k = "bnext" => \A q \in Pointer : [f EXCEPT !.k = "bcast", !.q = q] \in Frame
  <2>1. f.k = "bnext" => f \in [k : {"bcall", "bnext"}, q : Process, ev : Event]
    BY DEF Frame, TakeEvent
  <2>2. \A g \in [k : {"bcall", "bnext"}, q : Process, ev : Event], q \in Pointer :
          [g EXCEPT !.k = "bcast", !.q = q] \in [k : {"bcast"}, q : Pointer, ev : Event]
    OBVIOUS
  <2> QED BY <2>1, <2>2 DEF Frame
<1> QED BY <1>1, <1>2, <1>3, <1>4

----------------------------------------------------------------------------
(* Types, operator by operator.                                               *)
LEMMA CallType ==
  ASSUME TypeOK, NEW p \in Process, NEW st \in [Process -> States],
         NEW ev \in Event, NEW rest \in Seq(Frame),
         call_process(p, st, ev, rest)
  PROVE  /\ process_current' \in Pointer
         /\ state' \in [Process -> States]
         /\ paused' \subseteq Process
         /\ stack' \in Seq(Frame)
<1>1. <<Thread(p, ev, "call")>> \o rest \in Seq(Frame)
  BY FrameMade, PushType
<1>2. [st EXCEPT ![p] = "CALLED"] \in [Process -> States]
  BY DEF States
<1> QED BY <1>1, <1>2 DEF call_process, TypeOK, Pointer, States

LEMMA UnlinkType ==
  ASSUME TypeOK, NEW p \in Process, Unlink(p)
  PROVE  head' \in Pointer /\ next' \in [Process -> Pointer]
BY DEF TypeOK, Unlink, Pointer

LEMMA ExitType ==
  ASSUME TypeOK, NEW p \in Process, NEW from \in Pointer, NEW rest \in Seq(Frame),
         exit_process(p, from, rest)
  PROVE  /\ head' \in Pointer /\ next' \in [Process -> Pointer]
         /\ state' \in [Process -> States]
         /\ stack' \in Seq(Frame)
         /\ asked' \subseteq Process /\ due' \subseteq Process
<1>1. CASE p \notin Listed
  BY <1>1 DEF exit_process, TypeOK, list, States
<1>2. CASE p \in Listed /\ state[p] = "NONE"
  BY <1>2, UnlinkType DEF exit_process, TypeOK, States
<1>3. CASE p \in Listed /\ state[p] # "NONE"
  <2>1. Exit("exit", p, head, from, process_current) \in Frame
    BY FrameMade DEF TypeOK
  <2>2. <<Exit("exit", p, head, from, process_current)>> \o rest \in Seq(Frame)
    BY <2>1, PushType
  <2> QED BY <1>3, <2>2 DEF exit_process, TypeOK, list, States
<1> QED BY <1>1, <1>2, <1>3

LEMMA StartType ==
  ASSUME TypeOK, NEW p \in Process, NEW rest \in Seq(Frame), process_start(p, rest)
  PROVE  /\ head' \in Pointer /\ next' \in [Process -> Pointer]
         /\ state' \in [Process -> States]
         /\ process_current' \in Pointer
         /\ paused' \subseteq Process
         /\ stack' \in Seq(Frame)
         /\ needspoll' \subseteq Process /\ poll_requested' \in BOOLEAN
         /\ asked' \subseteq Process /\ due' \subseteq Process
<1>1. CASE p \in Listed
  BY <1>1 DEF process_start, TypeOK, list, polls, States
<1>2. CASE p \notin Listed
  <2>1. Thread(p, "INIT", "call") \in Frame /\ Synch(process_current) \in Frame
    BY FrameMade DEF TypeOK, Event
  <2>2. <<Thread(p, "INIT", "call")>> \o (<<Synch(process_current)>> \o rest) \in Seq(Frame)
    BY <2>1, PushType
  <2> QED BY <1>2, <2>2 DEF process_start, TypeOK, States, Pointer
<1> QED BY <1>1, <1>2

(* What a walk visits are processes, wherever it begins.                      *)
LEMMA WalkType == ASSUME TypeOK PROVE Listed \subseteq Process
BY DEF Listed, From

(* Reduction modulo the number of slots, for numbers below twice that.        *)
LEMMA Modulo ==
  ASSUME NEW x \in 0..2 * Capacity - 1
  PROVE  /\ x % Capacity = IF x < Capacity THEN x ELSE x - Capacity
         /\ x % Capacity \in 0..Capacity - 1
         /\ (x % EventNumbers) % Capacity = x % Capacity
<1> Capacity \in 1..128 BY CapacityAssumption
<1>1. CASE x < Capacity
  <2> x % Capacity = x BY <1>1
  <2> x % EventNumbers = x BY DEF EventNumbers
  <2> QED BY <1>1
<1>2. CASE ~(x < Capacity)
  <2> DEFINE y == x - Capacity
  <2>1. y \in 0..Capacity - 1 /\ x = 1 * Capacity + y BY <1>2
  <2>2. x % Capacity = y BY <2>1, SMTT(30)
  <2> x % EventNumbers = x BY DEF EventNumbers
  <2> QED BY <1>2, <2>1, <2>2
<1> QED BY <1>1, <1>2

LEMMA PostType ==
  ASSUME TypeOK, NEW ev \in Event, NEW p \in Pointer, process_post(ev, p)
  PROVE  /\ nevents' \in 0..Capacity /\ fevent' \in 0..Capacity - 1
         /\ events' \in [0..Capacity - 1 -> Item]
<1>1. CASE Full
  BY <1>1 DEF process_post, ring, TypeOK
<1>2. CASE ~Full
  <2> Capacity \in 1..128 BY CapacityAssumption
  <2>1. nevents' \in 0..Capacity /\ fevent' \in 0..Capacity - 1
    BY <1>2 DEF process_post, Full, TypeOK
  <2>2. [ev |-> ev, p |-> p] \in Item BY DEF Item
  <2>3. \A x : [events EXCEPT ![x] = [ev |-> ev, p |-> p]] \in [0..Capacity - 1 -> Item]
    BY <2>2 DEF TypeOK
  <2>4. events' \in [0..Capacity - 1 -> Item]
    BY <1>2, <2>3 DEF process_post
  <2> QED BY <2>1, <2>4
<1> QED BY <1>1, <1>2

LEMMA TakenType ==
  ASSUME TypeOK, nevents > 0, Taken
  PROVE  /\ nevents' \in 0..Capacity /\ fevent' \in 0..Capacity - 1
         /\ events' \in [0..Capacity - 1 -> Item]
<1> Capacity \in 1..128 BY CapacityAssumption
<1>1. fevent + 1 \in 0..2 * Capacity - 1 BY DEF TypeOK
<1>2. fevent' \in 0..Capacity - 1
  BY <1>1, Modulo DEF Taken
<1>3. nevents' \in 0..Capacity /\ events' \in [0..Capacity - 1 -> Item]
  BY DEF Taken, TypeOK
<1> QED BY <1>2, <1>3

----------------------------------------------------------------------------
LEMMA TypeInit == Init => TypeOK
<1> SUFFICES ASSUME Init PROVE TypeOK OBVIOUS
<1> Capacity \in 1..128 BY CapacityAssumption
<1>1. events \in [0..Capacity - 1 -> Item] BY DEF Init, Item, Event, Pointer
<1>2. toStart \in Seq(Process) BY OpsAssumption DEF Init
<1>3. stack \in Seq(Frame) BY DEF Init
<1>4. /\ head \in Pointer /\ process_current \in Pointer
      /\ next \in [Process -> Pointer]
      /\ state \in [Process -> {"NONE", "RUNNING", "CALLED"}]
  BY DEF Init, Pointer
<1>5. nevents \in 0..Capacity /\ fevent \in 0..Capacity - 1
  BY DEF Init
<1>6. /\ needspoll \subseteq Process /\ poll_requested \in BOOLEAN
      /\ paused \subseteq Process /\ asked \subseteq Process /\ due \subseteq Process
  BY DEF Init
<1> QED BY <1>1, <1>2, <1>3, <1>4, <1>5, <1>6 DEF TypeOK

(* The main loop and the walks. *)
LEMMA TypeKernel == TypeOK /\ Kernel => TypeOK'
<1> SUFFICES ASSUME TypeOK, Kernel PROVE TypeOK' OBVIOUS
<1> USE DEF States
<1>t. stack \in Seq(Frame) BY DEF TypeOK
<1> DEFINE f == Head(stack)
<1>h. stack # <<>> => f \in Frame /\ Tail(stack) \in Seq(Frame)
  BY <1>t
<1> HIDE DEF f
<1>1. CASE Boot
  <2>1. Head(toStart) \in Process /\ Tail(toStart) \in Seq(Process)
    BY <1>1 DEF Boot, TypeOK
  <2> QED BY <1>1, <1>t, <2>1, StartType DEF Boot, TypeOK, ring
<1>2. CASE process_run
  <2>1. head \in Pointer BY DEF TypeOK
  <2>2. DoPoll("poll", head) \in Frame /\ TakeEvent \in Frame BY <2>1, FrameMade
  <2>3. <<DoPoll("poll", head)>> \o <<TakeEvent>> \in Seq(Frame) BY <2>2
  <2>4. <<TakeEvent>> \in Seq(Frame) BY <2>2
  <2>5. stack' \in Seq(Frame) /\ poll_requested' \in BOOLEAN
    BY <1>2, <2>3, <2>4 DEF process_run, Walk, TypeOK
  <2> QED BY <1>2, <2>5 DEF process_run, TypeOK, list, ring, history
<1>3. CASE SynchReturn
  <2>1. stack # <<>> /\ f.k = "synch" BY <1>3 DEF SynchReturn, f
  <2>2. f.old \in Pointer BY <1>h, <2>1, FrameFields
  <2> QED BY <1>3, <1>h, <2>1, <2>2 DEF SynchReturn, TypeOK, list, polls, ring, f
<1>4. CASE ExitWalk
  <2>1. stack # <<>> /\ f.k = "exit" /\ f.q # Null BY <1>4 DEF ExitWalk, f
  <2>2. f.p \in Process /\ f.q \in Process BY <1>h, <2>1, FrameFields DEF Pointer
  <2>3. CASE f.q = f.p
    <3>1. next[f.q] \in Pointer BY <2>2 DEF TypeOK
    <3>2. <<[f EXCEPT !.q = next[f.q]]>> \o Tail(stack) \in Seq(Frame)
      BY <1>h, <2>1, <3>1, FrameChanged, PushType
    <3>3. stack' = <<[f EXCEPT !.q = next[f.q]]>> \o Tail(stack)
          /\ UNCHANGED <<state, process_current, paused>>
      BY <1>4, <2>3 DEF ExitWalk, f
    <3> QED BY <1>4, <3>2, <3>3 DEF ExitWalk, TypeOK, list, polls, ring
  <2>4. CASE f.q # f.p
    <3>1. <<[f EXCEPT !.k = "exitnext"]>> \o Tail(stack) \in Seq(Frame)
      BY <1>h, <2>1, <2>2, FrameChanged, PushType
    <3>2. call_process(f.q, state, "EXITED",
                       <<[f EXCEPT !.k = "exitnext"]>> \o Tail(stack))
      BY <1>4, <2>4 DEF ExitWalk, f
    <3>3. state \in [Process -> States] /\ "EXITED" \in Event BY DEF TypeOK, Event
    <3> HIDE DEF States
    <3>4. /\ process_current' \in Pointer /\ state' \in [Process -> States]
          /\ paused' \subseteq Process /\ stack' \in Seq(Frame)
      BY <2>2, <3>1, <3>2, <3>3, CallType
    <3> QED BY <1>4, <3>4 DEF ExitWalk, TypeOK, list, polls, ring, States
  <2> QED BY <2>3, <2>4
<1>5. CASE ExitWalkOn
  <2>1. stack # <<>> /\ f.k = "exitnext" BY <1>5 DEF ExitWalkOn, f
  <2>2. next[f.q] \in Pointer BY <1>h, <2>1, FrameFields DEF TypeOK
  <2>3. <<[f EXCEPT !.k = "exit", !.q = next[f.q]]>> \o Tail(stack) \in Seq(Frame)
    BY <1>h, <2>1, <2>2, FrameChanged, PushType
  <2>4. stack' = <<[f EXCEPT !.k = "exit", !.q = next[f.q]]>> \o Tail(stack)
    BY <1>5 DEF ExitWalkOn, f
  <2> QED BY <1>5, <2>3, <2>4 DEF ExitWalkOn, TypeOK, list, polls, ring
<1>6. CASE ExitTold
  <2>1. stack # <<>> /\ f.k = "exit" BY <1>6 DEF ExitTold, f
  <2>2. f.p \in Process BY <1>h, <2>1, FrameFields
  <2> DEFINE unlink == <<[f EXCEPT !.k = "unlink"]>> \o Tail(stack)
  <2>3. unlink \in Seq(Frame) BY <1>h, <2>1, FrameChanged, PushType
  <2>4. Thread(f.p, "EXIT", "exit") \in Frame BY <2>2, FrameMade DEF Event
  <2>5. <<Thread(f.p, "EXIT", "exit")>> \o unlink \in Seq(Frame)
    BY <2>3, <2>4, PushType
  <2>6. IF f.p # f.from
        THEN process_current' = f.p /\ stack' = <<Thread(f.p, "EXIT", "exit")>> \o unlink
        ELSE stack' = unlink /\ UNCHANGED process_current
    BY <1>6 DEF ExitTold, f
  <2> HIDE DEF unlink
  <2> QED BY <1>6, <2>2, <2>3, <2>5, <2>6
          DEF ExitTold, TypeOK, list, polls, ring, Pointer
<1>7. CASE ExitUnlink
  <2>1. stack # <<>> /\ f.k = "unlink" BY <1>7 DEF ExitUnlink, f
  <2>2. f.p \in Process /\ f.old \in Pointer BY <1>h, <2>1, FrameFields
  <2>3. Unlink(f.p) /\ process_current' = f.old /\ stack' = Tail(stack)
    BY <1>7 DEF ExitUnlink, f
  <2>4. head' \in Pointer /\ next' \in [Process -> Pointer] BY <2>2, <2>3, UnlinkType
  <2> QED BY <1>7, <1>h, <2>1, <2>2, <2>3, <2>4 DEF ExitUnlink, TypeOK, polls, ring
<1>8. CASE PollWalk
  <2>1. stack # <<>> /\ f.k = "poll" BY <1>8 DEF PollWalk, f
  <2>2. f.q \in Pointer BY <1>h, <2>1, FrameFields
  <2> DEFINE on == <<DoPoll("pollnext", f.q)>> \o Tail(stack)
  <2>3. f.q \in Process => on \in Seq(Frame) BY <1>h, <2>1, FrameMade, PushType
  <2> HIDE DEF on
  <2>4. /\ stack' \in Seq(Frame) /\ state' \in [Process -> States]
        /\ needspoll' \subseteq Process /\ asked' \subseteq Process
        /\ process_current' \in Pointer /\ paused' \subseteq Process
    <3>1. CASE f.q = Null
      <4>1. /\ stack' = Tail(stack)
            /\ UNCHANGED <<state, needspoll, asked, process_current, paused>>
        BY <1>8, <3>1, NullAssumption DEF PollWalk, f, TypeOK
      <4> QED BY <4>1, <1>h, <2>1 DEF TypeOK
    <3>2. CASE f.q # Null /\ f.q \in needspoll
      <4>1. /\ needspoll' = needspoll \ {f.q} /\ asked' = asked \ {f.q}
            /\ call_process(f.q, [state EXCEPT ![f.q] = "RUNNING"], "POLL", on)
        BY <1>8, <3>2 DEF PollWalk, f, on
      <4>2. [state EXCEPT ![f.q] = "RUNNING"] \in [Process -> States] BY DEF TypeOK
      <4>3. f.q \in Process /\ "POLL" \in Event BY <2>2, <3>2 DEF Pointer, Event
      <4> HIDE DEF States
      <4>4. /\ process_current' \in Pointer /\ state' \in [Process -> States]
            /\ paused' \subseteq Process /\ stack' \in Seq(Frame)
        BY <4>1, <4>2, <4>3, <2>3, CallType
      <4> QED BY <4>1, <4>4 DEF TypeOK
    <3>3. CASE f.q # Null /\ f.q \notin needspoll
      <4>1. stack' = on /\ UNCHANGED <<state, needspoll, asked, process_current, paused>>
        BY <1>8, <3>3 DEF PollWalk, f, on
      <4> QED BY <4>1, <2>2, <2>3, <3>3 DEF TypeOK, Pointer
    <3> QED BY <3>1, <3>2, <3>3
  <2> QED BY <1>8, <2>4 DEF PollWalk, TypeOK, list, ring
<1>9. CASE PollWalkOn
  <2>1. stack # <<>> /\ f.k = "pollnext" BY <1>9 DEF PollWalkOn, f
  <2>2. next[f.q] \in Pointer BY <1>h, <2>1, FrameFields DEF TypeOK
  <2>3. <<DoPoll("poll", next[f.q])>> \o Tail(stack) \in Seq(Frame)
    BY <1>h, <2>1, <2>2, FrameMade, PushType
  <2>4. stack' = <<DoPoll("poll", next[f.q])>> \o Tail(stack)
    BY <1>9 DEF PollWalkOn, f
  <2> QED BY <1>9, <2>3, <2>4 DEF PollWalkOn, TypeOK, list, polls, ring
<1>10. CASE NoEvent
  BY <1>10, <1>h DEF NoEvent, TypeOK, list, polls, ring
<1>11. CASE EventForOne
  <2> DEFINE e == events[fevent]
  <2>1. e \in Item /\ nevents > 0 /\ stack # <<>> BY <1>11 DEF EventForOne, TypeOK
  <2>2. e.p \in Process /\ e.ev \in Event
    BY <1>11, <2>1 DEF EventForOne, Item, Pointer, Broadcast
  <2> DEFINE st == IF e.ev = "INIT" THEN [state EXCEPT ![e.p] = "RUNNING"] ELSE state
  <2>3. st \in [Process -> States] BY DEF TypeOK
  <2>4. call_process(e.p, st, e.ev, Tail(stack)) /\ Taken BY <1>11 DEF EventForOne
  <2> HIDE DEF e, st, States
  <2>5. /\ process_current' \in Pointer /\ state' \in [Process -> States]
        /\ paused' \subseteq Process /\ stack' \in Seq(Frame)
    BY <1>h, <2>1, <2>2, <2>3, <2>4, CallType
  <2>6. /\ nevents' \in 0..Capacity /\ fevent' \in 0..Capacity - 1
        /\ events' \in [0..Capacity - 1 -> Item]
    BY <2>1, <2>4, TakenType
  <2> QED BY <1>11, <2>5, <2>6 DEF EventForOne, TypeOK, list, polls, States
<1>12. CASE EventForAll
  <2>1. events[fevent] \in Item /\ nevents > 0 /\ stack # <<>> /\ Taken
    BY <1>12 DEF EventForAll, TypeOK
  <2>2. DoEvent("bcast", head, events[fevent].ev) \in Frame
    BY <2>1, FrameMade DEF Item, TypeOK
  <2>3. stack' \in Seq(Frame)
    BY <1>12, <1>h, <2>1, <2>2, PushType DEF EventForAll
  <2>4. /\ nevents' \in 0..Capacity /\ fevent' \in 0..Capacity - 1
        /\ events' \in [0..Capacity - 1 -> Item]
    BY <2>1, TakenType
  <2>5. Listed \subseteq Process BY WalkType
  <2> QED BY <1>12, <2>3, <2>4, <2>5 DEF EventForAll, TypeOK, list, polls
<1>13. CASE BroadcastPoll
  <2>1. stack # <<>> /\ f.k = "bcast" /\ f.q # Null BY <1>13 DEF BroadcastPoll, f
  <2>2. f.q \in Process BY <1>h, <2>1, FrameFields DEF Pointer
  <2>3. [f EXCEPT !.k = "bcall"] \in Frame BY <1>h, <2>1, <2>2, FrameChanged
  <2>4. DoPoll("poll", head) \in Frame BY FrameMade DEF TypeOK
  <2>5. <<[f EXCEPT !.k = "bcall"]>> \o Tail(stack) \in Seq(Frame)
    BY <1>h, <2>1, <2>3, PushType
  <2>6. <<DoPoll("poll", head)>> \o (<<[f EXCEPT !.k = "bcall"]>> \o Tail(stack)) \in Seq(Frame)
    BY <2>4, <2>5, PushType
  <2>7. Walk(<<[f EXCEPT !.k = "bcall"]>> \o Tail(stack)) BY <1>13 DEF BroadcastPoll, f
  <2> QED BY <1>13, <2>6, <2>7 DEF BroadcastPoll, Walk, TypeOK, list, ring, history
<1>14. CASE BroadcastCall
  <2>1. stack # <<>> /\ f.k \in {"bcast", "bcall"} /\ f.q # Null
    BY <1>14 DEF BroadcastCall, f
  <2>2. f.q \in Process /\ f.ev \in Event
    BY <1>h, <2>1, FrameFields DEF Pointer
  <2>3. <<[f EXCEPT !.k = "bnext"]>> \o Tail(stack) \in Seq(Frame)
    BY <1>h, <2>1, <2>2, FrameChanged, PushType
  <2>4. call_process(f.q, state, f.ev, <<[f EXCEPT !.k = "bnext"]>> \o Tail(stack))
        /\ due' = due \ {f.q}
    BY <1>14 DEF BroadcastCall, f
  <2>5. state \in [Process -> States] BY DEF TypeOK
  <2> HIDE DEF States
  <2>6. /\ process_current' \in Pointer /\ state' \in [Process -> States]
        /\ paused' \subseteq Process /\ stack' \in Seq(Frame)
    BY <2>2, <2>3, <2>4, <2>5, CallType
  <2> QED BY <1>14, <2>4, <2>6 DEF BroadcastCall, TypeOK, list, polls, ring, States
<1>15. CASE BroadcastOn
  <2>1. CASE f.k = "bnext"
    <3>1. stack # <<>> BY <1>15 DEF BroadcastOn
    <3>2. next[f.q] \in Pointer BY <1>h, <2>1, <3>1, FrameFields DEF TypeOK
    <3>3. <<[f EXCEPT !.k = "bcast", !.q = next[f.q]]>> \o Tail(stack) \in Seq(Frame)
      BY <1>h, <2>1, <3>1, <3>2, FrameChanged, PushType
    <3>4. stack' = <<[f EXCEPT !.k = "bcast", !.q = next[f.q]]>> \o Tail(stack)
      BY <1>15, <2>1 DEF BroadcastOn, f
    <3> QED BY <1>15, <3>3, <3>4 DEF BroadcastOn, TypeOK, list, polls, ring
  <2>2. CASE f.k # "bnext"
    BY <1>15, <1>h, <2>2 DEF BroadcastOn, TypeOK, list, polls, ring, f
  <2> QED BY <2>1, <2>2
<1> QED
  BY <1>1, <1>2, <1>3, <1>4, <1>5, <1>6, <1>7, <1>8, <1>9, <1>10, <1>11, <1>12,
     <1>13, <1>14, <1>15 DEF Kernel

(* The threads, and the interrupts. *)
LEMMA PollType ==
  ASSUME TypeOK, NEW p \in Process, process_poll(p)
  PROVE  /\ needspoll' \subseteq Process /\ poll_requested' \in BOOLEAN
         /\ asked' \subseteq Process
BY DEF process_poll, polls, TypeOK

LEMMA ReturnType ==
  ASSUME TypeOK, NEW p \in Process, NEW ended \in BOOLEAN, stack # <<>>, Returned(p, ended)
  PROVE  /\ head' \in Pointer /\ next' \in [Process -> Pointer]
         /\ state' \in [Process -> States]
         /\ stack' \in Seq(Frame)
         /\ asked' \subseteq Process /\ due' \subseteq Process
<1>1. Tail(stack) \in Seq(Frame) BY DEF TypeOK
<1>2. CASE Head(stack).by = "exit"
  BY <1>1, <1>2 DEF Returned, TypeOK, list, States
<1>3. CASE Head(stack).by # "exit" /\ (ended \/ Head(stack).ev = "EXIT")
  <2>1. exit_process(p, p, Tail(stack)) BY <1>3 DEF Returned
  <2> QED BY <1>1, <2>1, ExitType DEF Pointer
<1>4. CASE Head(stack).by # "exit" /\ ~(ended \/ Head(stack).ev = "EXIT")
  BY <1>1, <1>4 DEF Returned, TypeOK, list, States
<1> QED BY <1>2, <1>3, <1>4

LEMMA TypeThread ==
  ASSUME TypeOK, NEW p \in Process, Program(p) \/ Yields(p) \/ Interrupt(p)
  PROVE  TypeOK'
<1>t. stack \in Seq(Frame) BY DEF TypeOK
<1>1. CASE \E q \in Process : Starts(p, q)
  <2> PICK q \in Process : Starts(p, q) BY <1>1
  <2>1. process_start(q, stack) BY DEF Starts
  <2>2. /\ head' \in Pointer /\ next' \in [Process -> Pointer]
        /\ state' \in [Process -> States]
        /\ process_current' \in Pointer
        /\ paused' \subseteq Process
        /\ stack' \in Seq(Frame)
        /\ needspoll' \subseteq Process /\ poll_requested' \in BOOLEAN
        /\ asked' \subseteq Process /\ due' \subseteq Process
    BY <1>t, <2>1, StartType
  <2> QED BY <2>2 DEF Starts, TypeOK, ring, States
<1>2. CASE \E q \in Process : Exits(p, q)
  <2> PICK q \in Process : Exits(p, q) BY <1>2
  <2>1. exit_process(q, process_current, stack) /\ process_current \in Pointer
    BY DEF Exits, TypeOK
  <2>2. /\ head' \in Pointer /\ next' \in [Process -> Pointer]
        /\ state' \in [Process -> States]
        /\ stack' \in Seq(Frame)
        /\ asked' \subseteq Process /\ due' \subseteq Process
    BY <1>t, <2>1, ExitType
  <2> QED BY <2>2 DEF Exits, TypeOK, ring, States
<1>3. CASE \E q \in Process : Polls(p, q)
  <2> PICK q \in Process : Polls(p, q) BY <1>3
  <2>1. process_poll(q) BY DEF Polls
  <2> QED BY <2>1, PollType DEF Polls, TypeOK, list, ring
<1>4. CASE \E q \in Pointer, ev \in UserEvent \cup {"EXIT"} : Posts(p, q, ev)
  <2> PICK q \in Pointer, ev \in UserEvent \cup {"EXIT"} : Posts(p, q, ev) BY <1>4
  <2>1. process_post(ev, q) /\ ev \in Event BY DEF Posts, Event
  <2> QED BY <2>1, PostType DEF Posts, TypeOK, list, polls
<1>5. CASE \E q \in Process, ev \in UserEvent : CallsOther(p, q, ev)
  <2> PICK q \in Process, ev \in UserEvent : CallsOther(p, q, ev) BY <1>5
  <2>1. Synch(process_current) \in Frame BY FrameMade DEF TypeOK
  <2>2. <<Synch(process_current)>> \o stack \in Seq(Frame) BY <1>t, <2>1, PushType
  <2>3. call_process(q, state, ev, <<Synch(process_current)>> \o stack)
    BY DEF CallsOther, process_post_synch
  <2>4. state \in [Process -> States] /\ ev \in Event BY DEF TypeOK, States, Event
  <2>5. /\ process_current' \in Pointer /\ state' \in [Process -> States]
        /\ paused' \subseteq Process /\ stack' \in Seq(Frame)
    BY <2>2, <2>3, <2>4, CallType
  <2> QED BY <2>5 DEF CallsOther, TypeOK, list, polls, ring, States
<1>6. CASE Ends(p)
  <2>1. Returned(p, TRUE) /\ stack # <<>> BY <1>6 DEF Ends, Active, Running
  <2> QED BY <1>6, <2>1, ReturnType DEF Ends, TypeOK, ring, States
<1>7. CASE Yields(p)
  <2>1. Returned(p, FALSE) /\ stack # <<>> BY <1>7 DEF Yields, Running
  <2> QED BY <1>7, <2>1, ReturnType DEF Yields, TypeOK, ring, States
<1>8. CASE Pauses(p)
  <2>1. Returned(p, FALSE) /\ stack # <<>> BY <1>8 DEF Pauses, Active, Running
  <2>2. process_post("CONTINUE", process_current) BY <1>8 DEF Pauses
  <2>3. process_current \in Pointer /\ "CONTINUE" \in Event BY DEF TypeOK, Event
  <2>4. /\ nevents' \in 0..Capacity /\ fevent' \in 0..Capacity - 1
        /\ events' \in [0..Capacity - 1 -> Item]
    BY <2>2, <2>3, PostType
  <2>5. /\ head' \in Pointer /\ next' \in [Process -> Pointer]
        /\ state' \in [Process -> States]
        /\ stack' \in Seq(Frame)
        /\ asked' \subseteq Process /\ due' \subseteq Process
    BY <2>1, ReturnType
  <2> QED BY <1>8, <2>4, <2>5 DEF Pauses, TypeOK, States
<1>9. CASE Interrupt(p)
  <2>1. process_poll(p) BY <1>9 DEF Interrupt
  <2> QED BY <1>9, <2>1, PollType DEF Interrupt, TypeOK, list, ring
<1> QED BY <1>1, <1>2, <1>3, <1>4, <1>5, <1>6, <1>7, <1>8, <1>9 DEF Program

LEMMA TypeNext == TypeOK /\ [Next]_vars => TypeOK'
<1> SUFFICES ASSUME TypeOK, [Next]_vars PROVE TypeOK' OBVIOUS
<1>1. CASE UNCHANGED vars
  BY <1>1 DEF vars, list, polls, ring, TypeOK
<1>2. CASE Kernel BY <1>2, TypeKernel
<1>3. CASE \E p \in Process : Program(p) \/ Yields(p) \/ Interrupt(p)
  BY <1>3, TypeThread
<1> QED BY <1>1, <1>2, <1>3 DEF Next

(* Types, for every set of processes, every ring of up to 128 slots and       *)
(* whatever the programs do.                                                  *)
THEOREM KernelTypeCorrect == Spec => []TypeOK
<1> QED BY TypeNext, TypeInit, PTL DEF Spec

----------------------------------------------------------------------------
(* The ring is a bounded queue.                                               *)
RingQueue == [i \in 1..nevents |-> events[(fevent + i - 1) % Capacity]]

LEMMA RingLength ==
  ASSUME TypeOK
  PROVE  RingQueue \in Seq(Item) /\ Len(RingQueue) = nevents
<1> Capacity \in 1..128 BY CapacityAssumption
<1>1. \A i \in 1..nevents : events[(fevent + i - 1) % Capacity] \in Item
  <2> TAKE i \in 1..nevents
  <2>1. fevent + i - 1 \in 0..2 * Capacity - 1 BY DEF TypeOK
  <2> QED BY <2>1, Modulo DEF TypeOK
<1> QED BY <1>1 DEF RingQueue, TypeOK

(* A post that is accepted appends to the queue.                              *)
LEMMA PostAppends ==
  ASSUME TypeOK, NEW ev \in Event, NEW p \in Pointer, process_post(ev, p)
  PROVE  \/ UNCHANGED RingQueue
         \/ /\ Len(RingQueue) < Capacity
            /\ RingQueue' = Append(RingQueue, [ev |-> ev, p |-> p])
<1>0. /\ Capacity \in 1..128 /\ nevents \in 0..Capacity /\ fevent \in 0..Capacity - 1
      /\ events \in [0..Capacity - 1 -> Item]
  BY CapacityAssumption DEF TypeOK
<1>m. \A y \in 0..2 * Capacity - 1 :
        /\ y % Capacity = IF y < Capacity THEN y ELSE y - Capacity
        /\ (y % EventNumbers) % Capacity = y % Capacity
  BY Modulo
<1>1. CASE Full
  BY <1>1 DEF process_post, ring, RingQueue
<1>2. CASE ~Full
  <2> DEFINE x == [ev |-> ev, p |-> p]
             slot == ((fevent + nevents) % EventNumbers) % Capacity
  <2>1. nevents < Capacity /\ nevents' = nevents + 1 /\ fevent' = fevent
    BY <1>0, <1>2 DEF process_post, Full
  <2>2. events' = [events EXCEPT ![slot] = x] BY <1>2 DEF process_post
  <2>3. fevent + nevents \in 0..2 * Capacity - 1 BY <1>0, <2>1
  <2>4. /\ slot = (fevent + nevents) % Capacity
        /\ slot = IF fevent + nevents < Capacity THEN fevent + nevents
                                                 ELSE fevent + nevents - Capacity
    <3> DEFINE y == fevent + nevents
    <3>1. y \in 0..2 * Capacity - 1 /\ slot = (y % EventNumbers) % Capacity BY <2>3
    <3> HIDE DEF y, slot
    <3>2. slot = y % Capacity /\ slot = IF y < Capacity THEN y ELSE y - Capacity
      BY <1>m, <3>1
    <3> QED BY <1>0, <3>2 DEF y
  <2>s. slot \in 0..Capacity - 1 BY <1>0, <2>1, <2>4
  <2> HIDE DEF x, slot
  <2>5. events'[slot] = x /\ \A j \in 0..Capacity - 1 : j # slot => events'[j] = events[j]
    BY <1>0, <2>2, <2>s
  <2>6. \A i \in 1..nevents : events'[(fevent + i - 1) % Capacity]
                               = events[(fevent + i - 1) % Capacity]
    <3> TAKE i \in 1..nevents
    <3> DEFINE y == fevent + i - 1
    <3>1. y \in 0..2 * Capacity - 1 BY <1>0, <2>1
    <3>2. y % Capacity = IF y < Capacity THEN y ELSE y - Capacity BY <1>m, <3>1
    <3>3. y % Capacity # slot /\ y % Capacity \in 0..Capacity - 1
      BY <1>0, <2>1, <2>4, <3>2
    <3> QED BY <2>5, <3>3
  <2>7. RingQueue' = [i \in 1..nevents + 1 |-> events'[(fevent + i - 1) % Capacity]]
    BY <2>1 DEF RingQueue
  <2>8. RingQueue'[nevents + 1] = x
    <3>1. fevent + (nevents + 1) - 1 = fevent + nevents /\ nevents + 1 \in 1..nevents + 1
      BY <1>0
    <3> QED BY <2>4, <2>5, <2>7, <3>1
  <2>9. \A i \in 1..nevents : RingQueue'[i] = RingQueue[i]
    <3> TAKE i \in 1..nevents
    <3>1. i \in 1..nevents + 1 BY <1>0
    <3>2. RingQueue'[i] = events'[(fevent + i - 1) % Capacity] BY <2>7, <3>1
    <3>3. RingQueue[i] = events[(fevent + i - 1) % Capacity] BY DEF RingQueue
    <3> QED BY <2>6, <3>2, <3>3
  <2>l. RingQueue \in Seq(Item) /\ Len(RingQueue) = nevents BY RingLength
  <2>10. RingQueue' = Append(RingQueue, x)
    <3>1. /\ DOMAIN Append(RingQueue, x) = 1..nevents + 1
          /\ Append(RingQueue, x)[nevents + 1] = x
          /\ \A i \in 1..nevents : Append(RingQueue, x)[i] = RingQueue[i]
          /\ Append(RingQueue, x) = [i \in 1..nevents + 1 |-> Append(RingQueue, x)[i]]
      <4>1. x \in Item BY DEF x, Item
      <4>2. Append(RingQueue, x) \in Seq(Item) /\ Len(Append(RingQueue, x)) = nevents + 1
        BY <2>l, <4>1
      <4> HIDE DEF RingQueue
      <4> QED BY <1>0, <2>l, <4>1, <4>2
    <3>2. \A i \in 1..nevents + 1 : RingQueue'[i] = Append(RingQueue, x)[i]
      BY <1>0, <2>8, <2>9, <3>1
    <3>3. RingQueue' = [i \in 1..nevents + 1 |-> RingQueue'[i]]
      BY <2>7
    <3> HIDE DEF RingQueue
    <3> QED BY <3>1, <3>2, <3>3
  <2> QED BY <2>1, <2>10, <2>l DEF x
<1> QED BY <1>1, <1>2

(* do_event takes the oldest event.                                           *)
LEMMA TakenTakes ==
  ASSUME TypeOK, nevents > 0, Taken
  PROVE  RingQueue # <<>> /\ RingQueue' = Tail(RingQueue)
<1>0. Capacity \in 1..128 /\ nevents \in 0..Capacity /\ fevent \in 0..Capacity - 1
  BY CapacityAssumption DEF TypeOK
<1>m. \A y \in 0..2 * Capacity - 1 :
        y % Capacity = IF y < Capacity THEN y ELSE y - Capacity
  BY Modulo
<1>1. nevents' = nevents - 1 /\ events' = events /\ fevent' = (fevent + 1) % Capacity
  BY DEF Taken
<1>f. fevent' = IF fevent + 1 < Capacity THEN fevent + 1 ELSE fevent + 1 - Capacity
  <2> DEFINE y == fevent + 1
  <2>1. y \in 0..2 * Capacity - 1 BY <1>0
  <2>2. fevent' = y % Capacity BY <1>1
  <2> HIDE DEF y
  <2>3. fevent' = IF y < Capacity THEN y ELSE y - Capacity BY <1>m, <2>1, <2>2
  <2> QED BY <1>0, <2>3 DEF y
<1>2. \A i \in 1..nevents - 1 :
        (fevent' + i - 1) % Capacity = (fevent + (i + 1) - 1) % Capacity
  <2> TAKE i \in 1..nevents - 1
  <2> DEFINE y == fevent' + i - 1
             z == fevent + (i + 1) - 1
  <2>1. y \in 0..2 * Capacity - 1 /\ z \in 0..2 * Capacity - 1 BY <1>0, <1>f
  <2>2. y % Capacity = IF y < Capacity THEN y ELSE y - Capacity BY <1>m, <2>1
  <2>3. z % Capacity = IF z < Capacity THEN z ELSE z - Capacity BY <1>m, <2>1
  <2> QED BY <1>0, <1>f, <2>2, <2>3
<1>3. RingQueue' = [i \in 1..nevents - 1 |-> events[(fevent' + i - 1) % Capacity]]
  BY <1>1 DEF RingQueue
<1>4. \A i \in 1..nevents - 1 : RingQueue'[i] = RingQueue[i + 1]
  <2> TAKE i \in 1..nevents - 1
  <2>1. i + 1 \in 1..nevents BY <1>0
  <2>2. RingQueue[i + 1] = events[(fevent + (i + 1) - 1) % Capacity]
    BY <2>1 DEF RingQueue
  <2> QED BY <1>2, <1>3, <2>2
<1>l. RingQueue \in Seq(Item) /\ Len(RingQueue) = nevents BY RingLength
<1>5. /\ RingQueue # <<>>
      /\ Tail(RingQueue) = [i \in 1..nevents - 1 |-> RingQueue[i + 1]]
  <2>1. \A s \in Seq(Item) : s # <<>> => Tail(s) = [i \in 1..Len(s) - 1 |-> s[i + 1]]
    <3> SUFFICES ASSUME NEW s \in Seq(Item), s # <<>>
                 PROVE  Tail(s) = [i \in 1..Len(s) - 1 |-> s[i + 1]]
      OBVIOUS
    <3> DEFINE t == Tail(s)
    <3>1. t \in Seq(Item) /\ Len(t) = Len(s) - 1
          /\ \A i \in 1..Len(s) - 1 : t[i] = s[i + 1]
      BY PopType
    <3> HIDE DEF t
    <3>2. t = [i \in 1..Len(t) |-> t[i]] BY <3>1
    <3>3. t = [i \in 1..Len(s) - 1 |-> s[i + 1]] BY <3>1, <3>2
    <3> QED BY <3>3 DEF t
  <2>2. \A s \in Seq(Item) : Len(s) > 0 => s # <<>>
    OBVIOUS
  <2> HIDE DEF RingQueue
  <2> QED BY <1>l, <2>1, <2>2
<1>6. RingQueue' = [i \in 1..nevents - 1 |-> RingQueue'[i]]
  BY <1>3
<1> HIDE DEF RingQueue
<1> QED BY <1>4, <1>5, <1>6

(* process.c implements EventQueue: whatever threads and interrupts do, the   *)
(* events that process_post() accepts are taken once each, oldest first, and  *)
(* one is refused only when PROCESS_CONF_NUMEVENTS wait.                      *)
THEOREM KernelImplementsQueue == Spec => QueueImplemented
<1>1. Init => Queue!Init
  BY DEF Init, Queue!Init
<1>2. TypeOK /\ [Next]_vars => [Queue!Next]_RingQueue
  <2> SUFFICES ASSUME TypeOK, [Next]_vars PROVE [Queue!Next]_RingQueue OBVIOUS
  <2>1. CASE UNCHANGED ring BY <2>1 DEF ring, RingQueue
  <2>2. CASE nevents > 0 /\ Taken
    BY <2>2, TakenTakes DEF Queue!Next, Queue!Take, RingQueue
  <2>3. ASSUME NEW ev \in Event, NEW p \in Pointer, process_post(ev, p)
        PROVE  [Queue!Next]_RingQueue
    <3>1. [ev |-> ev, p |-> p] \in Item BY DEF Item
    <3> QED BY <2>3, <3>1, PostAppends DEF Queue!Next, Queue!Accept, RingQueue
  <2>4. CASE UNCHANGED vars BY <2>1, <2>4 DEF vars
  <2>5. CASE Kernel
    BY <2>1, <2>2, <2>5
       DEF Kernel, Boot, process_run, SynchReturn, ExitWalk, ExitWalkOn, ExitTold,
           ExitUnlink, PollWalk, PollWalkOn, NoEvent, EventForOne, EventForAll,
           BroadcastPoll, BroadcastCall, BroadcastOn
  <2>6. ASSUME NEW p \in Process, Program(p) \/ Yields(p) \/ Interrupt(p)
        PROVE  [Queue!Next]_RingQueue
    <3>1. CASE \E q \in Pointer, ev \in UserEvent \cup {"EXIT"} : Posts(p, q, ev)
      BY <2>3, <3>1 DEF Posts, Event
    <3>2. CASE Pauses(p)
      BY <2>3, <3>2 DEF Pauses, Event, TypeOK
    <3>3. CASE \/ \E q \in Process : Starts(p, q) \/ Exits(p, q) \/ Polls(p, q)
               \/ \E q \in Process, ev \in UserEvent : CallsOther(p, q, ev)
               \/ Ends(p) \/ Yields(p) \/ Interrupt(p)
      BY <2>1, <3>3 DEF Starts, Exits, Polls, CallsOther, Ends, Yields, Interrupt
    <3> QED BY <2>6, <3>1, <3>2, <3>3 DEF Program
  <2> QED BY <2>4, <2>5, <2>6 DEF Next
<1> QED
  BY <1>1, <1>2, KernelTypeCorrect, PTL DEF Spec, QueueImplemented, Queue!Spec, RingQueue

----------------------------------------------------------------------------
(* process_current.  The invariant: right above every thread that called      *)
(* something lies a frame that has saved its process and will restore it.     *)
Top(s) == IF s = <<>> THEN "main" ELSE s[1].k
Saves(f, p) == f.k \in {"synch", "exit", "exitnext", "unlink"} /\ f.old = p
Saved(s) == \A i \in 2..Len(s) : s[i].k = "thread" => Saves(s[i - 1], s[i].p)
CurrentOf(s, c) == Top(s) = "thread" => c = s[1].p
Restored == Saved(stack) /\ CurrentOf(stack, process_current)

LEMMA SavedPush ==
  ASSUME NEW s \in Seq(Frame), NEW f \in Frame, Saved(s),
         Top(s) = "thread" => Saves(f, s[1].p)
  PROVE  Saved(<<f>> \o s) /\ Top(<<f>> \o s) = f.k /\ (<<f>> \o s)[1] = f
<1> DEFINE t == <<f>> \o s
<1>1. /\ t # <<>> /\ Len(t) = Len(s) + 1 /\ t[1] = f
      /\ \A i \in 1..Len(s) : t[i + 1] = s[i]
  BY PushType
<1> HIDE DEF t
<1>2. ASSUME NEW i \in 2..Len(t), t[i].k = "thread" PROVE Saves(t[i - 1], t[i].p)
  <2>1. i - 1 \in 1..Len(s) /\ t[(i - 1) + 1] = s[i - 1] /\ (i - 1) + 1 = i
    BY <1>1
  <2>2. t[i] = s[i - 1] BY <2>1
  <2>3. CASE i = 2
    <3>1. s # <<>> /\ Top(s) = "thread" BY <1>2, <2>1, <2>2, <2>3 DEF Top
    <3> QED BY <1>1, <2>2, <2>3, <3>1
  <2>4. CASE i # 2
    <3>1. i - 1 \in 2..Len(s) /\ i - 2 \in 1..Len(s) /\ (i - 2) + 1 = i - 1
          /\ (i - 1) - 1 = i - 2
      BY <2>1, <2>4
    <3>2. t[i - 1] = s[i - 2] BY <1>1, <3>1
    <3> QED BY <1>2, <2>2, <3>1, <3>2 DEF Saved
  <2> QED BY <2>3, <2>4
<1>3. Saved(t) BY <1>2 DEF Saved
<1> QED BY <1>1, <1>3 DEF Top, t

LEMMA SavedPop ==
  ASSUME NEW s \in Seq(Frame), s # <<>>, Saved(s)
  PROVE  /\ Saved(Tail(s)) /\ Tail(s) \in Seq(Frame) /\ Head(s) = s[1] /\ s[1] \in Frame
         /\ Top(s) = s[1].k
         /\ Top(Tail(s)) = "thread" => Saves(s[1], Tail(s)[1].p)
<1> DEFINE t == Tail(s)
<1>1. /\ t \in Seq(Frame) /\ Len(t) = Len(s) - 1 /\ Head(s) = s[1] /\ s[1] \in Frame
      /\ \A i \in 1..Len(s) - 1 : t[i] = s[i + 1]
  BY PopType
<1> HIDE DEF t
<1>2. ASSUME NEW i \in 2..Len(t), t[i].k = "thread" PROVE Saves(t[i - 1], t[i].p)
  <2>1. i + 1 \in 2..Len(s) /\ i \in 1..Len(s) - 1 /\ i - 1 \in 1..Len(s) - 1
        /\ (i - 1) + 1 = i /\ (i + 1) - 1 = i
    BY <1>1
  <2>2. t[i] = s[i + 1] /\ t[i - 1] = s[i] BY <1>1, <2>1
  <2> QED BY <1>2, <2>1, <2>2 DEF Saved
<1>3. Top(t) = "thread" => Saves(s[1], t[1].p)
  <2> SUFFICES ASSUME Top(t) = "thread" PROVE Saves(s[1], t[1].p) OBVIOUS
  <2>1. t # <<>> /\ t[1].k = "thread" BY DEF Top
  <2>2. 2 \in 2..Len(s) /\ t[1] = s[2] /\ 2 - 1 = 1 BY <1>1, <2>1
  <2> QED BY <2>1, <2>2 DEF Saved
<1>4. Saved(t) BY <1>2 DEF Saved
<1> QED BY <1>1, <1>3, <1>4 DEF Top, t

LEMMA RestoredCall ==
  ASSUME NEW p \in Process, NEW st, NEW ev \in Event, NEW rest \in Seq(Frame),
         call_process(p, st, ev, rest), Saved(rest), Top(rest) # "thread"
  PROVE  Restored'
<1>1. CASE st[p] = "RUNNING"
  <2> DEFINE f == Thread(p, ev, "call")
  <2>1. f \in Frame BY FrameMade
  <2>2. f.k = "thread" /\ f.p = p BY DEF Thread
  <2> HIDE DEF f
  <2>3. /\ Saved(<<f>> \o rest) /\ Top(<<f>> \o rest) = f.k
        /\ (<<f>> \o rest)[1] = f
    BY <2>1, SavedPush
  <2>4. stack' = <<f>> \o rest /\ process_current' = p
    BY <1>1 DEF call_process, f
  <2>5. Saved(stack') /\ stack'[1] = f BY <2>3, <2>4
  <2> QED BY <2>2, <2>4, <2>5 DEF Restored, CurrentOf, Saved
<1>2. CASE st[p] # "RUNNING"
  <2>1. stack' = rest BY <1>2 DEF call_process
  <2> QED BY <2>1 DEF Restored, CurrentOf, Saved, Top
<1> QED BY <1>1, <1>2

LEMMA RestoredExit ==
  ASSUME TypeOK, NEW p \in Process, NEW from \in Pointer, NEW rest \in Seq(Frame),
         exit_process(p, from, rest), UNCHANGED process_current,
         Saved(rest), CurrentOf(rest, process_current)
  PROVE  Restored'
<1>1. CASE p \notin Listed \/ state[p] = "NONE"
  <2>1. stack' = rest BY <1>1 DEF exit_process
  <2> QED BY <2>1 DEF Restored, CurrentOf, Saved, Top
<1>2. CASE p \in Listed /\ state[p] # "NONE"
  <2> DEFINE f == Exit("exit", p, head, from, process_current)
  <2>1. f \in Frame BY FrameMade DEF TypeOK
  <2>2. f.k = "exit" /\ f.old = process_current BY DEF Exit
  <2>3. stack' = <<f>> \o rest BY <1>2 DEF exit_process
  <2> HIDE DEF f
  <2>4. Top(rest) = "thread" => Saves(f, rest[1].p) BY <2>2 DEF Saves, CurrentOf
  <2>5. /\ Saved(<<f>> \o rest) /\ Top(<<f>> \o rest) = f.k
    BY <2>1, <2>4, SavedPush
  <2> QED BY <2>2, <2>3, <2>5 DEF Restored, CurrentOf, Saved, Top
<1> QED BY <1>1, <1>2

LEMMA RestoredStart ==
  ASSUME TypeOK, Restored, NEW p \in Process, process_start(p, stack)
  PROVE  Restored'
<1>1. CASE p \in Listed
  BY <1>1 DEF process_start, Restored, Saved, CurrentOf, Top
<1>2. CASE p \notin Listed
  <2> DEFINE f == Thread(p, "INIT", "call")
             g == Synch(process_current)
  <2>0. stack \in Seq(Frame) BY DEF TypeOK
  <2>1. f \in Frame /\ g \in Frame BY FrameMade DEF TypeOK, Event
  <2>2. f.k = "thread" /\ f.p = p /\ g.k = "synch" /\ g.old = process_current
    BY DEF Thread, Synch
  <2>3. stack' = <<f>> \o (<<g>> \o stack) /\ process_current' = p
    BY <1>2 DEF process_start
  <2> HIDE DEF f, g
  <2>5. <<g>> \o stack \in Seq(Frame) BY <2>0, <2>1, PushType
  <2>6. Top(stack) = "thread" => Saves(g, stack[1].p)
    BY <2>2 DEF Restored, Saves, CurrentOf
  <2>7. Saved(<<g>> \o stack) /\ Top(<<g>> \o stack) = "synch"
    BY <2>0, <2>1, <2>2, <2>6, SavedPush DEF Restored
  <2>8. /\ Saved(<<f>> \o (<<g>> \o stack))
        /\ (<<f>> \o (<<g>> \o stack))[1] = f
    BY <2>1, <2>5, <2>7, SavedPush
  <2>9. Saved(stack') /\ stack'[1] = f BY <2>3, <2>8
  <2> QED BY <2>2, <2>3, <2>9 DEF Restored, CurrentOf, Saved
<1> QED BY <1>1, <1>2

(* A walk or main() replaces the top of the stack by a frame of its own.      *)
LEMMA RestoredReplace ==
  ASSUME TypeOK, Restored, NEW f \in Frame, f.k # "thread", stack # <<>>,
         \A p : Saves(stack[1], p) => Saves(f, p),
         stack' = <<f>> \o Tail(stack)
  PROVE  Restored'
<1>1. stack \in Seq(Frame) /\ Saved(stack) BY DEF TypeOK, Restored
<1>2. /\ Tail(stack) \in Seq(Frame) /\ Saved(Tail(stack))
      /\ Top(Tail(stack)) = "thread" => Saves(stack[1], Tail(stack)[1].p)
  BY <1>1, SavedPop
<1>3. Saved(<<f>> \o Tail(stack)) /\ Top(<<f>> \o Tail(stack)) = f.k
  BY <1>2, SavedPush
<1> QED BY <1>3 DEF Restored, CurrentOf, Saved, Top

LEMMA RestoredKernel ==
  ASSUME TypeOK, Restored, Kernel PROVE Restored'
<1>t. stack \in Seq(Frame) /\ Saved(stack) BY DEF TypeOK, Restored
<1> DEFINE f == Head(stack)
           rest == Tail(stack)
<1>h. stack # <<>> => /\ f \in Frame /\ rest \in Seq(Frame) /\ f = stack[1]
                      /\ Saved(rest) /\ (Top(rest) = "thread" => Saves(f, rest[1].p))
  BY <1>t, SavedPop
<1> HIDE DEF f, rest
<1>1. CASE Boot
  <2>1. Head(toStart) \in Process BY <1>1 DEF Boot, TypeOK
  <2> QED BY <1>1, <2>1, RestoredStart DEF Boot
<1>2. CASE process_run
  <2>1. DoPoll("poll", head) \in Frame /\ TakeEvent \in Frame
    BY FrameMade DEF TypeOK
  <2>2. stack' = <<TakeEvent>> \/ stack' = <<DoPoll("poll", head)>> \o <<TakeEvent>>
    BY <1>2 DEF process_run, Walk
  <2>3. \A i \in 1..Len(stack') : stack'[i].k # "thread"
    BY <2>2 DEF TakeEvent, DoPoll
  <2> QED BY <2>2, <2>3 DEF Restored, Saved, CurrentOf, Top
<1>3. CASE SynchReturn
  <2>1. stack # <<>> /\ f.k = "synch" /\ process_current' = f.old /\ stack' = rest
    BY <1>3 DEF SynchReturn, f, rest
  <2> QED BY <1>h, <2>1 DEF Restored, Saved, CurrentOf, Top, Saves
<1>4. CASE ExitWalk
  <2>1. stack # <<>> /\ f.k = "exit" /\ f.q # Null BY <1>4 DEF ExitWalk, f
  <2>2. f.p \in Process /\ f.q \in Process BY <1>h, <2>1, FrameFields DEF Pointer
  <2>3. CASE f.q = f.p
    <3> DEFINE g == [f EXCEPT !.q = next[f.q]]
    <3>1. next[f.q] \in Pointer BY <2>2 DEF TypeOK
    <3>2. g \in Frame BY <1>h, <2>1, <3>1, FrameChanged
    <3>3. g.k = f.k /\ \A p : Saves(f, p) => Saves(g, p) BY <1>h, <2>1 DEF Saves, Frame, TakeEvent
    <3>4. stack' = <<g>> \o Tail(stack) BY <1>4, <2>3 DEF ExitWalk, f
    <3> HIDE DEF g
    <3> QED BY <1>h, <2>1, <3>2, <3>3, <3>4, RestoredReplace
  <2>4. CASE f.q # f.p
    <3> DEFINE g == [f EXCEPT !.k = "exitnext"]
    <3>1. g \in Frame BY <1>h, <2>1, <2>2, FrameChanged
    <3>2. g.k = "exitnext" /\ \A p : Saves(f, p) => Saves(g, p)
      BY <1>h, <2>1 DEF Saves, Frame, TakeEvent
    <3>3. call_process(f.q, state, "EXITED", <<g>> \o rest)
      BY <1>4, <2>4 DEF ExitWalk, f, rest
    <3>4. "EXITED" \in Event BY DEF Event
    <3> HIDE DEF g
    <3>5. /\ <<g>> \o rest \in Seq(Frame) /\ Saved(<<g>> \o rest)
          /\ Top(<<g>> \o rest) = "exitnext"
      BY <1>h, <2>1, <3>1, <3>2, SavedPush, PushType
    <3> QED BY <2>2, <3>3, <3>4, <3>5, RestoredCall
  <2> QED BY <2>3, <2>4
<1>5. CASE ExitWalkOn
  <2> DEFINE g == [f EXCEPT !.k = "exit", !.q = next[f.q]]
  <2>1. stack # <<>> /\ f.k = "exitnext" BY <1>5 DEF ExitWalkOn, f
  <2>2. next[f.q] \in Pointer BY <1>h, <2>1, FrameFields DEF TypeOK
  <2>3. g \in Frame BY <1>h, <2>1, <2>2, FrameChanged
  <2>4. g.k = "exit" /\ \A p : Saves(f, p) => Saves(g, p)
    BY <1>h, <2>1 DEF Saves, Frame, TakeEvent
  <2>5. stack' = <<g>> \o Tail(stack) BY <1>5 DEF ExitWalkOn, f
  <2> HIDE DEF g
  <2> QED BY <1>h, <2>1, <2>3, <2>4, <2>5, RestoredReplace
<1>6. CASE ExitTold
  <2> DEFINE g == [f EXCEPT !.k = "unlink"]
             h == Thread(f.p, "EXIT", "exit")
  <2>1. stack # <<>> /\ f.k = "exit" BY <1>6 DEF ExitTold, f
  <2>2. f.p \in Process BY <1>h, <2>1, FrameFields
  <2>3. g \in Frame BY <1>h, <2>1, FrameChanged
  <2>4. g.k = "unlink" /\ \A p : Saves(f, p) => Saves(g, p)
    BY <1>h, <2>1 DEF Saves, Frame, TakeEvent
  <2>5. h \in Frame /\ h.k = "thread" /\ h.p = f.p
    BY <2>2, FrameMade DEF Event, Thread
  <2>6. IF f.p # f.from
        THEN process_current' = f.p /\ stack' = <<h>> \o (<<g>> \o rest)
        ELSE stack' = <<g>> \o rest
    BY <1>6 DEF ExitTold, f, rest
  <2> HIDE DEF g, h
  <2>7. /\ <<g>> \o rest \in Seq(Frame) /\ Saved(<<g>> \o rest)
        /\ Top(<<g>> \o rest) = "unlink"
    BY <1>h, <2>1, <2>3, <2>4, SavedPush, PushType
  <2>8. /\ Saved(<<h>> \o (<<g>> \o rest))
        /\ (<<h>> \o (<<g>> \o rest))[1] = h
    BY <2>5, <2>7, SavedPush
  <2> QED BY <2>5, <2>6, <2>7, <2>8 DEF Restored, Saved, CurrentOf, Top
<1>7. CASE ExitUnlink
  <2>1. stack # <<>> /\ f.k = "unlink" /\ process_current' = f.old /\ stack' = rest
    BY <1>7 DEF ExitUnlink, f, rest
  <2> QED BY <1>h, <2>1 DEF Restored, Saved, CurrentOf, Top, Saves
<1>8. CASE PollWalk
  <2> DEFINE on == <<DoPoll("pollnext", f.q)>> \o rest
  <2>1. stack # <<>> /\ f.k = "poll" BY <1>8 DEF PollWalk, f
  <2>2. Top(rest) # "thread" BY <1>h, <2>1 DEF Saves
  <2>3. ASSUME f.q \in Process
        PROVE  on \in Seq(Frame) /\ Saved(on) /\ Top(on) # "thread"
    <3>1. DoPoll("pollnext", f.q) \in Frame BY <2>3, FrameMade
    <3>2. DoPoll("pollnext", f.q).k = "pollnext" BY DEF DoPoll
    <3> QED BY <1>h, <2>1, <2>2, <3>1, <3>2, SavedPush, PushType
  <2>4. f.q \in Pointer BY <1>h, <2>1, FrameFields
  <2> HIDE DEF on
  <2>5. CASE f.q = Null
    <3>1. stack' = rest BY <1>8, <2>5, NullAssumption DEF PollWalk, TypeOK, f, rest
    <3> QED BY <1>h, <2>1, <2>2, <3>1 DEF Restored, Saved, CurrentOf, Top
  <2>6. CASE f.q # Null /\ f.q \in needspoll
    <3>1. call_process(f.q, [state EXCEPT ![f.q] = "RUNNING"], "POLL", on)
      BY <1>8, <2>6 DEF PollWalk, f, rest, on
    <3>2. f.q \in Process /\ "POLL" \in Event BY <2>4, <2>6 DEF Pointer, Event
    <3> QED BY <2>3, <3>1, <3>2, RestoredCall
  <2>7. CASE f.q # Null /\ f.q \notin needspoll
    <3>1. stack' = on BY <1>8, <2>7 DEF PollWalk, f, rest, on
    <3>2. f.q \in Process BY <2>4, <2>7 DEF Pointer
    <3> QED BY <2>3, <3>1, <3>2 DEF Restored, Saved, CurrentOf, Top
  <2> QED BY <2>5, <2>6, <2>7
<1>9. CASE PollWalkOn
  <2> DEFINE g == DoPoll("poll", next[f.q])
  <2>1. stack # <<>> /\ f.k = "pollnext" BY <1>9 DEF PollWalkOn, f
  <2>2. next[f.q] \in Pointer BY <1>h, <2>1, FrameFields DEF TypeOK
  <2>3. g \in Frame /\ g.k = "poll" BY <2>2, FrameMade DEF DoPoll
  <2>4. \A p : ~Saves(f, p) BY <2>1 DEF Saves
  <2>5. stack' = <<g>> \o Tail(stack) BY <1>9 DEF PollWalkOn, f
  <2> HIDE DEF g
  <2> QED BY <1>h, <2>1, <2>3, <2>4, <2>5, RestoredReplace
<1>10. CASE NoEvent
  <2>1. stack # <<>> /\ f.k = "take" /\ stack' = rest BY <1>10 DEF NoEvent, f, rest
  <2> QED BY <1>h, <2>1 DEF Restored, Saved, CurrentOf, Top, Saves
<1>11. CASE EventForOne
  <2> DEFINE e == events[fevent]
  <2>1. stack # <<>> /\ f.k = "take" BY <1>11 DEF EventForOne, f
  <2>2. e \in Item BY DEF TypeOK
  <2>3. e.p \in Process /\ e.ev \in Event
    BY <1>11, <2>2 DEF EventForOne, Item, Pointer, Broadcast
  <2>4. PICK st : call_process(e.p, st, e.ev, rest) BY <1>11 DEF EventForOne, rest
  <2>5. Top(rest) # "thread" BY <1>h, <2>1 DEF Saves
  <2> HIDE DEF e
  <2> QED BY <1>h, <2>1, <2>3, <2>4, <2>5, RestoredCall
<1>12. CASE EventForAll
  <2> DEFINE g == DoEvent("bcast", head, events[fevent].ev)
  <2>1. stack # <<>> /\ f.k = "take" /\ stack' = <<g>> \o Tail(stack)
    BY <1>12 DEF EventForAll, f
  <2>2. events[fevent] \in Item BY DEF TypeOK
  <2>3. g \in Frame /\ g.k = "bcast" BY <2>2, FrameMade DEF Item, TypeOK, DoEvent
  <2>4. \A p : ~Saves(f, p) BY <2>1 DEF Saves
  <2> HIDE DEF g
  <2> QED BY <1>h, <2>1, <2>3, <2>4, RestoredReplace
<1>13. CASE BroadcastPoll
  <2> DEFINE g == [f EXCEPT !.k = "bcall"]
             h == DoPoll("poll", head)
  <2>1. stack # <<>> /\ f.k = "bcast" /\ f.q # Null BY <1>13 DEF BroadcastPoll, f
  <2>2. f.q \in Process BY <1>h, <2>1, FrameFields DEF Pointer
  <2>3. g \in Frame BY <1>h, <2>1, <2>2, FrameChanged
  <2>4. g.k = "bcall" BY <1>h, <2>1 DEF Frame, TakeEvent
  <2>5. h \in Frame /\ h.k = "poll" BY FrameMade DEF TypeOK, DoPoll
  <2>6. stack' = <<h>> \o (<<g>> \o rest) BY <1>13 DEF BroadcastPoll, Walk, f, rest
  <2> HIDE DEF g, h
  <2>7. Top(rest) # "thread" BY <1>h, <2>1 DEF Saves
  <2>8. /\ <<g>> \o rest \in Seq(Frame) /\ Saved(<<g>> \o rest)
        /\ Top(<<g>> \o rest) = "bcall"
    BY <1>h, <2>1, <2>3, <2>4, <2>7, SavedPush, PushType
  <2>9. Saved(<<h>> \o (<<g>> \o rest)) /\ Top(<<h>> \o (<<g>> \o rest)) = "poll"
    BY <2>5, <2>8, SavedPush
  <2> QED BY <2>6, <2>9 DEF Restored, Saved, CurrentOf, Top
<1>14. CASE BroadcastCall
  <2> DEFINE g == [f EXCEPT !.k = "bnext"]
  <2>1. stack # <<>> /\ f.k \in {"bcast", "bcall"} /\ f.q # Null
    BY <1>14 DEF BroadcastCall, f
  <2>2. f.q \in Process /\ f.ev \in Event BY <1>h, <2>1, FrameFields DEF Pointer
  <2>3. g \in Frame BY <1>h, <2>1, <2>2, FrameChanged
  <2>4. g.k = "bnext" BY <1>h, <2>1 DEF Frame, TakeEvent
  <2>5. call_process(f.q, state, f.ev, <<g>> \o rest)
    BY <1>14 DEF BroadcastCall, f, rest
  <2> HIDE DEF g
  <2>6. Top(rest) # "thread" BY <1>h, <2>1 DEF Saves
  <2>7. /\ <<g>> \o rest \in Seq(Frame) /\ Saved(<<g>> \o rest)
        /\ Top(<<g>> \o rest) = "bnext"
    BY <1>h, <2>1, <2>3, <2>4, <2>6, SavedPush, PushType
  <2> QED BY <2>2, <2>5, <2>7, RestoredCall
<1>15. CASE BroadcastOn
  <2>1. CASE f.k = "bnext"
    <3> DEFINE g == [f EXCEPT !.k = "bcast", !.q = next[f.q]]
    <3>1. stack # <<>> BY <1>15 DEF BroadcastOn
    <3>2. next[f.q] \in Pointer BY <1>h, <2>1, <3>1, FrameFields DEF TypeOK
    <3>3. g \in Frame BY <1>h, <2>1, <3>1, <3>2, FrameChanged
    <3>4. g.k = "bcast" BY <1>h, <2>1, <3>1 DEF Frame, TakeEvent
    <3>5. \A p : ~Saves(f, p) BY <2>1 DEF Saves
    <3>6. stack' = <<g>> \o Tail(stack) BY <1>15, <2>1 DEF BroadcastOn, f
    <3> HIDE DEF g
    <3> QED BY <1>h, <3>1, <3>3, <3>4, <3>5, <3>6, RestoredReplace
  <2>2. CASE f.k # "bnext"
    <3>1. stack # <<>> /\ f.k = "bcast" /\ stack' = rest
      BY <1>15, <2>2 DEF BroadcastOn, f, rest
    <3> QED BY <1>h, <3>1 DEF Restored, Saved, CurrentOf, Top, Saves
  <2> QED BY <2>1, <2>2
<1> QED
  BY <1>1, <1>2, <1>3, <1>4, <1>5, <1>6, <1>7, <1>8, <1>9, <1>10, <1>11, <1>12,
     <1>13, <1>14, <1>15 DEF Kernel

LEMMA RestoredReturn ==
  ASSUME TypeOK, Restored, NEW p \in Process, NEW ended \in BOOLEAN,
         Running(p), Returned(p, ended), UNCHANGED process_current
  PROVE  Restored'
<1>1. stack \in Seq(Frame) /\ Saved(stack) /\ stack # <<>> BY DEF TypeOK, Restored, Running
<1>2. /\ Tail(stack) \in Seq(Frame) /\ Saved(Tail(stack)) /\ Head(stack) = stack[1]
      /\ Top(Tail(stack)) = "thread" => Saves(stack[1], Tail(stack)[1].p)
  BY <1>1, SavedPop
<1>3. Top(Tail(stack)) # "thread" BY <1>2 DEF Saves, Running
<1>4. CASE stack' = Tail(stack)
  BY <1>2, <1>3, <1>4 DEF Restored, Saved, CurrentOf, Top
<1>5. CASE exit_process(p, p, Tail(stack))
  BY <1>2, <1>3, <1>5, RestoredExit DEF CurrentOf, Pointer
<1> QED BY <1>4, <1>5 DEF Returned

LEMMA RestoredThread ==
  ASSUME TypeOK, Restored, NEW p \in Process, Program(p) \/ Yields(p) \/ Interrupt(p)
  PROVE  Restored'
<1>t. stack \in Seq(Frame) /\ Saved(stack) /\ CurrentOf(stack, process_current)
  BY DEF TypeOK, Restored
<1>1. CASE \E q \in Process : Starts(p, q)
  BY <1>1, RestoredStart DEF Starts
<1>2. CASE \E q \in Process : Exits(p, q)
  <2> PICK q \in Process : Exits(p, q) BY <1>2
  <2>1. /\ exit_process(q, process_current, stack) /\ UNCHANGED process_current
        /\ process_current \in Pointer
    BY DEF Exits, TypeOK
  <2> QED BY <1>t, <2>1, RestoredExit
<1>3. CASE UNCHANGED <<stack, process_current>>
  BY <1>3 DEF Restored, Saved, CurrentOf, Top
<1>4. CASE \E q \in Process, ev \in UserEvent : CallsOther(p, q, ev)
  <2> PICK q \in Process, ev \in UserEvent : CallsOther(p, q, ev) BY <1>4
  <2> DEFINE g == Synch(process_current)
  <2>1. g \in Frame /\ g.k = "synch" /\ g.old = process_current
    BY FrameMade DEF TypeOK, Synch
  <2>2. call_process(q, state, ev, <<g>> \o stack) /\ ev \in Event
    BY DEF CallsOther, process_post_synch, Event
  <2> HIDE DEF g
  <2>3. Top(stack) = "thread" => Saves(g, stack[1].p) BY <1>t, <2>1 DEF Saves, CurrentOf
  <2>4. /\ <<g>> \o stack \in Seq(Frame) /\ Saved(<<g>> \o stack)
        /\ Top(<<g>> \o stack) = "synch"
    BY <1>t, <2>1, <2>3, SavedPush, PushType
  <2> QED BY <2>2, <2>4, RestoredCall
<1>5. CASE Ends(p) \/ Yields(p) \/ Pauses(p)
  <2>1. /\ Running(p) /\ UNCHANGED process_current
        /\ Returned(p, TRUE) \/ Returned(p, FALSE)
    BY <1>5 DEF Ends, Yields, Pauses, Active
  <2> QED BY <2>1, RestoredReturn
<1>6. CASE \/ \E q \in Process : Polls(p, q)
           \/ \E q \in Pointer, ev \in UserEvent \cup {"EXIT"} : Posts(p, q, ev)
           \/ Interrupt(p)
  BY <1>3, <1>6 DEF Polls, Posts, Interrupt
<1> QED BY <1>1, <1>2, <1>4, <1>5, <1>6 DEF Program

(* Whatever threads call, start and exit, and whatever the walks do, while a  *)
(* thread runs process_current is its process.                                *)
THEOREM KernelKnowsCurrent == Spec => []CurrentIsRunning
<1>1. Init => Restored
  BY DEF Init, Restored, Saved, CurrentOf, Top
<1>2. TypeOK /\ Restored /\ [Next]_vars => Restored'
  <2> SUFFICES ASSUME TypeOK, Restored, [Next]_vars PROVE Restored' OBVIOUS
  <2>1. CASE UNCHANGED vars
    BY <2>1 DEF vars, Restored, Saved, CurrentOf, Top
  <2>2. CASE Kernel BY <2>2, RestoredKernel
  <2>3. CASE \E p \in Process : Program(p) \/ Yields(p) \/ Interrupt(p)
    BY <2>3, RestoredThread
  <2> QED BY <2>1, <2>2, <2>3 DEF Next
<1>3. TypeOK /\ Restored => CurrentIsRunning
  <2> SUFFICES ASSUME TypeOK, Restored, NEW p \in Process, Running(p)
               PROVE  process_current = p
    BY DEF CurrentIsRunning
  <2>1. stack \in Seq(Frame) /\ stack # <<>> BY DEF TypeOK, Running
  <2>2. Head(stack) = stack[1] BY <2>1
  <2> QED BY <2>1, <2>2 DEF Running, Restored, CurrentOf, Top
<1> QED BY <1>1, <1>2, <1>3, KernelTypeCorrect, PTL DEF Spec

----------------------------------------------------------------------------
(* The process list.  Shut and Reach are Closed and From for given pointers.  *)
Shut(nx, S) == \A p \in S : nx[p] \in S \cup {Null}
Reach(nx, q) ==
  {p \in Process :
     \A S \in SUBSET Process : q \in S \cup {Null} /\ Shut(nx, S) => p \in S}
Acyclic(nx) == \A p \in Process : p \notin Reach(nx, nx[p])

LEMMA ReachFrom ==
  /\ \A q : From(q) = Reach(next, q)
  /\ Listed = Reach(next, head)
BY DEF From, Reach, Closed, Shut, Listed

LEMMA ReachFromNext ==
  /\ \A q : From(q)' = Reach(next', q)
  /\ Listed' = Reach(next', head')
BY DEF From, Reach, Closed, Shut, Listed

LEMMA ReachLeast ==
  ASSUME NEW nx, NEW q, NEW S \in SUBSET Process, q \in S \cup {Null}, Shut(nx, S)
  PROVE  Reach(nx, q) \subseteq S
BY DEF Reach

LEMMA ReachShut ==
  ASSUME NEW nx \in [Process -> Pointer], NEW q \in Pointer
  PROVE  /\ Reach(nx, q) \subseteq Process
         /\ q \in Reach(nx, q) \cup {Null}
         /\ Shut(nx, Reach(nx, q))
<1>1. q \in Reach(nx, q) \cup {Null} BY DEF Reach, Pointer
<1>2. ASSUME NEW p \in Reach(nx, q) PROVE nx[p] \in Reach(nx, q) \cup {Null}
  <2>1. p \in Process /\ nx[p] \in Pointer BY DEF Reach
  <2>2. ASSUME NEW S \in SUBSET Process, q \in S \cup {Null}, Shut(nx, S), nx[p] # Null
        PROVE  nx[p] \in S
    <3>1. p \in S BY <2>2, ReachLeast
    <3> QED BY <2>2, <3>1 DEF Shut
  <2> QED BY <2>1, <2>2 DEF Reach, Pointer
<1> QED BY <1>1, <1>2 DEF Shut, Reach

LEMMA ReachStep ==
  ASSUME NEW nx \in [Process -> Pointer]
  PROVE  /\ Reach(nx, Null) = {}
         /\ \A q \in Process : Reach(nx, q) = {q} \cup Reach(nx, nx[q])
         /\ \A q \in Pointer : \A p \in Reach(nx, q) : Reach(nx, p) \subseteq Reach(nx, q)
<1>1. Reach(nx, Null) = {}
  <2>1. {} \in SUBSET Process /\ Shut(nx, {}) BY DEF Shut
  <2> QED BY <2>1, ReachLeast
<1>2. ASSUME NEW q \in Pointer, NEW p \in Reach(nx, q)
      PROVE  Reach(nx, p) \subseteq Reach(nx, q)
  BY ReachShut, ReachLeast
<1>3. ASSUME NEW q \in Process PROVE Reach(nx, q) = {q} \cup Reach(nx, nx[q])
  <2>0. q \in Pointer /\ nx[q] \in Pointer /\ q # Null BY NullAssumption DEF Pointer
  <2>1. {q} \cup Reach(nx, nx[q]) \in SUBSET Process BY <2>0, ReachShut
  <2>2. Shut(nx, {q} \cup Reach(nx, nx[q])) BY <2>0, ReachShut DEF Shut
  <2>3. Reach(nx, q) \subseteq {q} \cup Reach(nx, nx[q]) BY <2>1, <2>2, ReachLeast
  <2>4. q \in Reach(nx, q) /\ Reach(nx, q) \in SUBSET Process
        /\ nx[q] \in Reach(nx, q) \cup {Null} /\ Shut(nx, Reach(nx, q))
    BY <2>0, ReachShut DEF Shut
  <2>5. Reach(nx, nx[q]) \subseteq Reach(nx, q) BY <2>4, ReachLeast
  <2> QED BY <2>3, <2>4, <2>5
<1> QED BY <1>1, <1>2, <1>3

(* A process that was not on the list becomes its first.                      *)
LEMMA Linked ==
  ASSUME NEW nx \in [Process -> Pointer], NEW h \in Pointer, NEW p \in Process,
         Acyclic(nx), p \notin Reach(nx, h),
         NEW ny \in [Process -> Pointer], ny[p] = h,
         \A q \in Process : q # p => ny[q] = nx[q]
  PROVE  /\ Acyclic(ny)
         /\ Reach(ny, p) = {p} \cup Reach(nx, h)
         /\ \A q \in Pointer : p \notin Reach(nx, q) => Reach(ny, q) = Reach(nx, q)
         /\ \A q \in Pointer : p \in Reach(nx, q) => Reach(nx, h) \subseteq Reach(ny, q)
<1>0. ny \in [Process -> Pointer] /\ ny[p] = h /\ \A q \in Process : q # p => ny[q] = nx[q]
  OBVIOUS
<1>1. ASSUME NEW q \in Pointer, NEW mx \in [Process -> Pointer], NEW my \in [Process -> Pointer],
             p \notin Reach(mx, q), \A x \in Process : x # p => my[x] = mx[x]
      PROVE  Reach(my, q) \subseteq Reach(mx, q)
  <2>1. Shut(my, Reach(mx, q)) BY <1>1, ReachShut DEF Shut
  <2> QED BY <2>1, ReachShut, ReachLeast
<1>2. ASSUME NEW q \in Pointer, p \notin Reach(nx, q) PROVE Reach(ny, q) = Reach(nx, q)
  <2>1. Reach(ny, q) \subseteq Reach(nx, q) BY <1>0, <1>1, <1>2
  <2>2. Reach(nx, q) \subseteq Reach(ny, q) BY <1>0, <1>1, <1>2, <2>1
  <2> QED BY <2>1, <2>2
<1>3. Reach(ny, p) = {p} \cup Reach(nx, h) BY <1>0, <1>2, ReachStep
<1>4. ASSUME NEW q \in Pointer, p \in Reach(nx, q) PROVE Reach(nx, h) \subseteq Reach(ny, q)
  <2>1. p \in Reach(ny, q)
    <3>1. SUFFICES ASSUME p \notin Reach(ny, q) PROVE FALSE OBVIOUS
    <3>2. Reach(nx, q) \subseteq Reach(ny, q) BY <1>0, <1>1, <3>1
    <3> QED BY <1>4, <3>1, <3>2
  <2>2. Reach(ny, p) \subseteq Reach(ny, q) BY <1>0, <2>1, ReachStep
  <2> QED BY <1>3, <2>2
<1>5. ASSUME NEW x \in Process PROVE x \notin Reach(ny, ny[x])
  <2>0. nx[x] \in Pointer /\ x \notin Reach(nx, nx[x]) BY DEF Acyclic
  <2>1. CASE x = p BY <1>0, <1>2, <2>1
  <2>2. CASE x # p /\ p \notin Reach(nx, nx[x]) BY <1>0, <1>2, <2>0, <2>2
  <2>3. CASE x # p /\ p \in Reach(nx, nx[x])
    <3> DEFINE S == Reach(nx, nx[x]) \cup Reach(nx, h)
    <3>1. x \notin Reach(nx, h)
      <4>1. SUFFICES ASSUME x \in Reach(nx, h) PROVE FALSE OBVIOUS
      <4>2. nx[x] \in Reach(nx, h) \cup {Null} BY <4>1, ReachShut DEF Shut
      <4>3. Reach(nx, nx[x]) \subseteq Reach(nx, h) BY <4>2, ReachStep
      <4> QED BY <2>3, <4>3
    <3>2. Shut(ny, S)
      <4>1. Shut(nx, S) BY <2>0, ReachShut DEF Shut
      <4>2. h \in S \cup {Null} BY ReachShut
      <4>3. S \subseteq Process BY <2>0, ReachShut
      <4> HIDE DEF S
      <4> QED BY <1>0, <4>1, <4>2, <4>3 DEF Shut
    <3>3. S \in SUBSET Process /\ nx[x] \in S \cup {Null} BY <2>0, ReachShut
    <3>4. Reach(ny, nx[x]) \subseteq S BY <3>2, <3>3, ReachLeast
    <3> QED BY <1>0, <2>0, <2>3, <3>1, <3>4
  <2> QED BY <2>1, <2>2, <2>3
<1> QED BY <1>0, <1>2, <1>3, <1>4, <1>5 DEF Acyclic

(* A process leaves: those of L that point to it get its pointer.             *)
Bypass(nx, ny, p, L) ==
  \A q \in Process : ny[q] = IF q \in L /\ nx[q] = p THEN nx[p] ELSE nx[q]
LEMMA Unlinked ==
  ASSUME NEW nx \in [Process -> Pointer], NEW p \in Process, NEW L \in SUBSET Process,
         Acyclic(nx),
         NEW ny \in [Process -> Pointer],
         Bypass(nx, ny, p, L)
  PROVE  /\ Acyclic(ny)
         /\ \A x \in Pointer : /\ Reach(nx, x) \ {p} \subseteq Reach(ny, x)
                               /\ Reach(ny, x) \subseteq Reach(nx, x)
         /\ \A x \in L : ny[x] # p
<1>0. /\ ny \in [Process -> Pointer] /\ ny[p] = nx[p] /\ nx[p] # p
      /\ \A q \in Process : ny[q] = IF q \in L /\ nx[q] = p THEN nx[p] ELSE nx[q]
  <2>1. p \notin Reach(nx, nx[p]) /\ nx[p] \in Pointer BY DEF Acyclic
  <2>2. nx[p] # p BY <2>1, ReachShut, NullAssumption
  <2> QED BY <2>2 DEF Bypass
<1>1. ASSUME NEW x \in Pointer PROVE Reach(ny, x) \subseteq Reach(nx, x)
  <2>1. Shut(ny, Reach(nx, x)) BY <1>0, ReachShut, NullAssumption DEF Shut
  <2> QED BY <2>1, ReachShut, ReachLeast
<1>2. ASSUME NEW x \in Pointer PROVE Reach(nx, x) \ {p} \subseteq Reach(ny, x)
  <2> DEFINE R == Reach(ny, x)
  <2>r. R \in SUBSET Process /\ x \in R \cup {Null} /\ \A q \in R : ny[q] \in R \cup {Null}
    BY <1>0, ReachShut DEF Shut
  <2> HIDE DEF R
  <2>1. CASE \A q \in R : nx[q] # p
    <3>1. Shut(nx, R) BY <1>0, <2>r, <2>1 DEF Shut
    <3>2. Reach(nx, x) \subseteq R BY <2>r, <3>1, ReachLeast
    <3> QED BY <3>2 DEF R
  <2>2. CASE \E q \in R : nx[q] = p
    <3>1. nx[p] \in R \cup {Null} BY <1>0, <2>r, <2>2, NullAssumption
    <3>2. Shut(nx, R \cup {p}) BY <1>0, <2>r, <3>1 DEF Shut
    <3>3. R \cup {p} \in SUBSET Process /\ x \in (R \cup {p}) \cup {Null} BY <2>r
    <3>4. Reach(nx, x) \subseteq R \cup {p} BY <3>2, <3>3, ReachLeast
    <3> QED BY <3>4 DEF R
  <2> QED BY <2>1, <2>2
<1>3. ASSUME NEW x \in Process PROVE x \notin Reach(ny, ny[x])
  <2>1. nx[x] \in Pointer /\ ny[x] \in Pointer /\ x \notin Reach(nx, nx[x])
    BY <1>0 DEF Acyclic
  <2>2. CASE ny[x] = nx[x] BY <1>1, <2>1, <2>2
  <2>3. CASE ny[x] # nx[x]
    <3>1. nx[x] = p /\ ny[x] = nx[p] BY <1>0, <2>3
    <3>2. Reach(nx, nx[p]) \subseteq Reach(nx, nx[x]) BY <3>1, ReachStep
    <3> QED BY <1>1, <2>1, <3>1, <3>2
  <2> QED BY <2>2, <2>3
<1> QED BY <1>0, <1>1, <1>2, <1>3 DEF Acyclic

----------------------------------------------------------------------------
(* The call stack.                                                            *)
MainKinds == {"take", "poll", "pollnext", "bcast", "bcall", "bnext"}
BottomKinds == {"take", "bcast", "bcall", "bnext"}
ExitKinds == {"exit", "exitnext", "unlink"}
IsThread(f, p) == f.k = "thread" /\ f.p = p
IsExit(f, p) == f.k \in ExitKinds /\ f.p = p

(* Frame i of stack s: what lies next to it, and the state of its process.    *)
FrameAt(s, st, i) ==
  /\ s[i].k \in BottomKinds => i = Len(s)
  /\ s[i].k = "poll" => i = 1
  /\ s[i].k = "pollnext" /\ i # 1 => IsThread(s[i - 1], s[i].q) \/ IsExit(s[i - 1], s[i].q)
  /\ s[i].k = "thread" =>
       IF s[i].by = "call" THEN st[s[i].p] = "CALLED"
       ELSE i # Len(s) /\ s[i + 1].k = "unlink" /\ s[i + 1].p = s[i].p
  /\ s[i].k \in ExitKinds => st[s[i].p] = "NONE"
Framed(s, st) ==
  /\ \A i, j \in 1..Len(s) : i < j /\ s[i].k \in MainKinds => s[j].k \in MainKinds
  /\ \A i \in 1..Len(s) : FrameAt(s, st, i)
  /\ \A p \in Process : \A i, j \in 1..Len(s) :
       \/ IsThread(s[i], p) /\ IsThread(s[j], p)
       \/ IsExit(s[i], p) /\ IsExit(s[j], p)
       => i = j

(* What must hold to push f on s.                                             *)
NoThread(s, p) == \A i \in 1..Len(s) : ~IsThread(s[i], p)
NoExit(s, p) == \A i \in 1..Len(s) : ~IsExit(s[i], p)
Fits(f, s, st) ==
  /\ f.k \in MainKinds => \A i \in 1..Len(s) : s[i].k \in MainKinds
  /\ f.k \in BottomKinds => s = <<>>
  /\ s # <<>> => /\ s[1].k # "poll"
                 /\ s[1].k = "pollnext" => IsThread(f, s[1].q) \/ IsExit(f, s[1].q)
  /\ f.k = "thread" =>
       /\ NoThread(s, f.p)
       /\ IF f.by = "call" THEN st[f.p] = "CALLED"
          ELSE s # <<>> /\ s[1].k = "unlink" /\ s[1].p = f.p
  /\ f.k \in ExitKinds => NoExit(s, f.p) /\ st[f.p] = "NONE"

LEMMA FramedPush ==
  ASSUME NEW s \in Seq(Frame), NEW f \in Frame, NEW st, Framed(s, st), Fits(f, s, st)
  PROVE  /\ <<f>> \o s \in Seq(Frame)
         /\ Framed(<<f>> \o s, st)
<1> DEFINE t == <<f>> \o s
<1>1. /\ t # <<>> /\ Len(t) = Len(s) + 1 /\ t[1] = f
      /\ \A i \in 1..Len(s) : t[i + 1] = s[i]
      /\ t \in Seq(Frame) /\ Len(s) \in Nat /\ (s # <<>> <=> Len(s) > 0)
  BY PushType
<1> HIDE DEF t
<1>2. \A i \in 2..Len(t) : t[i] = s[i - 1] /\ i - 1 \in 1..Len(s)
  <2> TAKE i \in 2..Len(t)
  <2>1. i - 1 \in 1..Len(s) /\ (i - 1) + 1 = i BY <1>1
  <2> QED BY <1>1, <2>1
<1>3. \A i, j \in 1..Len(t) : i < j /\ t[i].k \in MainKinds => t[j].k \in MainKinds
  <2> SUFFICES ASSUME NEW i \in 1..Len(t), NEW j \in 1..Len(t), i < j, t[i].k \in MainKinds
               PROVE  t[j].k \in MainKinds
    OBVIOUS
  <2>1. j \in 2..Len(t) BY <1>1
  <2>2. CASE i = 1 BY <1>1, <1>2, <2>1, <2>2 DEF Fits
  <2>3. CASE i # 1
    <3>1. i \in 2..Len(t) /\ i - 1 < j - 1 BY <1>1, <2>1, <2>3
    <3> QED BY <1>2, <2>1, <3>1 DEF Framed
  <2> QED BY <2>2, <2>3
<1>4. FrameAt(t, st, 1)
  <2>1. Len(t) # 1 => t[2] = s[1] /\ s # <<>> /\ 1 + 1 = 2 BY <1>1, <1>2
  <2>2. s = <<>> => Len(t) = 1 BY <1>1
  <2> QED BY <1>1, <2>1, <2>2 DEF Fits, FrameAt, BottomKinds, ExitKinds, MainKinds
<1>5. \A i \in 2..Len(t) : FrameAt(t, st, i)
  <2> TAKE i \in 2..Len(t)
  <2>1. t[i] = s[i - 1] /\ i - 1 \in 1..Len(s) BY <1>2
  <2>2. FrameAt(s, st, i - 1) BY <2>1 DEF Framed
  <2>3. i = Len(t) <=> i - 1 = Len(s) BY <1>1, <2>1
  <2>4. i # Len(t) => t[i + 1] = s[(i - 1) + 1]
    <3>1. i # Len(t) => i + 1 \in 2..Len(t) /\ (i + 1) - 1 = (i - 1) + 1 BY <1>1
    <3> QED BY <1>2, <3>1
  <2>5. i - 1 # 1 => t[i - 1] = s[(i - 1) - 1]
    <3>1. i - 1 # 1 => i - 1 \in 2..Len(t) BY <1>1
    <3> QED BY <1>2, <3>1
  <2>6. i - 1 = 1 => t[i - 1] = f /\ s # <<>> /\ s[i - 1] = s[1] BY <1>1, <2>1
  <2>7. s[i - 1].k = "poll" => i = 1
    BY <2>1, <2>2, <2>6 DEF FrameAt, Fits
  <2>8. s[i - 1].k = "pollnext" =>
          IsThread(t[i - 1], s[i - 1].q) \/ IsExit(t[i - 1], s[i - 1].q)
    BY <2>2, <2>5, <2>6 DEF FrameAt, Fits
  <2> QED BY <2>1, <2>2, <2>3, <2>4, <2>7, <2>8 DEF FrameAt
<1>6. ASSUME NEW p \in Process, NEW i \in 1..Len(t), NEW j \in 1..Len(t),
             \/ IsThread(t[i], p) /\ IsThread(t[j], p)
             \/ IsExit(t[i], p) /\ IsExit(t[j], p)
      PROVE  i = j
  <2>1. \A n \in 2..Len(t) : ~(\/ IsThread(t[1], p) /\ IsThread(t[n], p)
                               \/ IsExit(t[1], p) /\ IsExit(t[n], p))
    BY <1>1, <1>2 DEF Fits, NoThread, NoExit, IsThread, IsExit
  <2>2. CASE i \in 2..Len(t) /\ j \in 2..Len(t)
    <3>1. i - 1 = j - 1 BY <1>2, <1>6, <2>2 DEF Framed
    <3> QED BY <3>1
  <2>3. CASE i = 1 \/ j = 1
    <3>1. i \in 2..Len(t) \/ i = 1 BY <1>1
    <3>2. j \in 2..Len(t) \/ j = 1 BY <1>1
    <3> QED BY <1>6, <2>1, <2>3, <3>1, <3>2
  <2> QED BY <1>1, <2>2, <2>3
<1>7. \A i \in 1..Len(t) : FrameAt(t, st, i)
  <2> TAKE i \in 1..Len(t)
  <2>1. i = 1 \/ i \in 2..Len(t) BY <1>1
  <2> QED BY <1>4, <1>5, <2>1
<1>8. t \in Seq(Frame) /\ Framed(t, st) BY <1>1, <1>3, <1>6, <1>7 DEF Framed
<1> QED BY <1>8 DEF t

LEMMA FramedPop ==
  ASSUME NEW s \in Seq(Frame), s # <<>>, NEW st, Framed(s, st)
  PROVE  /\ Tail(s) \in Seq(Frame) /\ s[1] \in Frame /\ Head(s) = s[1]
         /\ Framed(Tail(s), st)
         /\ s[1].k \in MainKinds => \A i \in 1..Len(Tail(s)) : Tail(s)[i].k \in MainKinds
         /\ s[1].k \in BottomKinds => Tail(s) = <<>>
         /\ Tail(s) # <<>> =>
              /\ Tail(s)[1].k # "poll"
              /\ Tail(s)[1].k = "pollnext" =>
                   IsThread(s[1], Tail(s)[1].q) \/ IsExit(s[1], Tail(s)[1].q)
         /\ \A p \in Process : /\ IsThread(s[1], p) => NoThread(Tail(s), p)
                               /\ IsExit(s[1], p) => NoExit(Tail(s), p)
         /\ s[1].k \in ExitKinds => st[s[1].p] = "NONE"
         /\ s[1].k = "thread" =>
              IF s[1].by = "call" THEN st[s[1].p] = "CALLED"
              ELSE Tail(s) # <<>> /\ Tail(s)[1].k = "unlink" /\ Tail(s)[1].p = s[1].p
<1> DEFINE t == Tail(s)
<1>1. /\ t \in Seq(Frame) /\ Len(t) = Len(s) - 1 /\ Head(s) = s[1] /\ s[1] \in Frame
      /\ \A i \in 1..Len(s) - 1 : t[i] = s[i + 1]
      /\ Len(s) \in Nat /\ Len(s) > 0 /\ (t # <<>> <=> Len(t) > 0)
  <2>1. \A u \in Seq(Frame) : u # <<>> <=> Len(u) > 0 OBVIOUS
  <2>2. t \in Seq(Frame) /\ Len(s) \in Nat BY PopType
  <2> QED BY <2>1, <2>2, PopType
<1> HIDE DEF t
<1>2. \A i \in 1..Len(t) : t[i] = s[i + 1] /\ i + 1 \in 2..Len(s) /\ i + 1 \in 1..Len(s)
  BY <1>1
<1>3. \A i, j \in 1..Len(t) : i < j /\ t[i].k \in MainKinds => t[j].k \in MainKinds
  <2> SUFFICES ASSUME NEW i \in 1..Len(t), NEW j \in 1..Len(t), i < j, t[i].k \in MainKinds
               PROVE  t[j].k \in MainKinds
    OBVIOUS
  <2>1. i + 1 < j + 1 BY <1>1
  <2> QED BY <1>2, <2>1 DEF Framed
<1>4. ASSUME NEW i \in 1..Len(t) PROVE FrameAt(t, st, i)
  <2>1. FrameAt(s, st, i + 1) /\ t[i] = s[i + 1] BY <1>2 DEF Framed
  <2>2. (i = Len(t) <=> i + 1 = Len(s)) /\ i + 1 # 1 /\ (i + 1) - 1 = i BY <1>1
  <2>3. i # Len(t) => t[i + 1] = s[(i + 1) + 1]
    <3>1. i # Len(t) => i + 1 \in 1..Len(t) BY <1>1
    <3> QED BY <1>2, <3>1
  <2>4. i # 1 => t[i - 1] = s[i]
    <3>1. i # 1 => i - 1 \in 1..Len(t) /\ (i - 1) + 1 = i BY <1>1
    <3> QED BY <1>2, <3>1
  <2> QED BY <2>1, <2>2, <2>3, <2>4 DEF FrameAt
<1>5. ASSUME NEW p \in Process, NEW i \in 1..Len(t), NEW j \in 1..Len(t),
             \/ IsThread(t[i], p) /\ IsThread(t[j], p)
             \/ IsExit(t[i], p) /\ IsExit(t[j], p)
      PROVE  i = j
  <2>1. i + 1 = j + 1 BY <1>2, <1>5 DEF Framed
  <2> QED BY <2>1
<1>6. Framed(t, st) BY <1>3, <1>4, <1>5 DEF Framed
<1>7. 1 \in 1..Len(s) /\ FrameAt(s, st, 1) BY <1>1 DEF Framed
<1>8. s[1].k \in MainKinds => \A i \in 1..Len(t) : t[i].k \in MainKinds
  <2> SUFFICES ASSUME s[1].k \in MainKinds, NEW i \in 1..Len(t) PROVE t[i].k \in MainKinds
    OBVIOUS
  <2>1. 1 < i + 1 BY <1>1
  <2> QED BY <1>2, <1>7, <2>1 DEF Framed
<1>9. s[1].k \in BottomKinds => t = <<>>
  <2>1. s[1].k \in BottomKinds => 1 = Len(s) BY <1>7 DEF FrameAt
  <2> QED BY <1>1, <2>1
<1>10. t # <<>> => /\ t[1].k # "poll"
                   /\ t[1].k = "pollnext" => IsThread(s[1], t[1].q) \/ IsExit(s[1], t[1].q)
  <2> SUFFICES ASSUME t # <<>>
               PROVE  /\ t[1].k # "poll"
                      /\ t[1].k = "pollnext" => IsThread(s[1], t[1].q) \/ IsExit(s[1], t[1].q)
    OBVIOUS
  <2>1. 1 \in 1..Len(t) /\ 1 + 1 = 2 BY <1>1
  <2>2. t[1] = s[2] /\ 2 \in 1..Len(s) /\ 2 - 1 = 1 BY <1>2, <2>1
  <2>3. FrameAt(s, st, 2) BY <2>2 DEF Framed
  <2> QED BY <2>2, <2>3 DEF FrameAt
<1>11. ASSUME NEW p \in Process PROVE /\ IsThread(s[1], p) => NoThread(t, p)
                                      /\ IsExit(s[1], p) => NoExit(t, p)
  <2>1. ASSUME NEW i \in 1..Len(t)
        PROVE  /\ ~(IsThread(s[1], p) /\ IsThread(t[i], p))
               /\ ~(IsExit(s[1], p) /\ IsExit(t[i], p))
    <3>1. i + 1 # 1 BY <1>1
    <3> QED BY <1>2, <1>7, <3>1 DEF Framed
  <2> QED BY <2>1 DEF NoThread, NoExit
<1>12. s[1].k = "thread" /\ s[1].by # "call" => t # <<>> /\ t[1].k = "unlink" /\ t[1].p = s[1].p
  <2> SUFFICES ASSUME s[1].k = "thread" /\ s[1].by # "call"
               PROVE  t # <<>> /\ t[1].k = "unlink" /\ t[1].p = s[1].p
    OBVIOUS
  <2>1. 1 # Len(s) /\ s[2].k = "unlink" /\ s[2].p = s[1].p /\ 1 + 1 = 2
    BY <1>7 DEF FrameAt
  <2>2. 1 \in 1..Len(t) BY <1>1, <2>1
  <2> QED BY <1>1, <1>2, <2>1, <2>2
<1> QED
  BY <1>1, <1>6, <1>7, <1>8, <1>9, <1>10, <1>11, <1>12 DEF FrameAt, t

(* A process with no frame may change its state.                              *)
LEMMA FramedState ==
  ASSUME NEW s \in Seq(Frame), NEW st \in [Process -> States], Framed(s, st),
         NEW p \in Process, NoThread(s, p), NoExit(s, p), NEW v
  PROVE  Framed(s, [st EXCEPT ![p] = v])
<1> DEFINE su == [st EXCEPT ![p] = v]
<1>1. \A q \in Process : q # p => su[q] = st[q] OBVIOUS
<1> HIDE DEF su
<1>2. ASSUME NEW i \in 1..Len(s) PROVE FrameAt(s, su, i)
  <2>1. FrameAt(s, st, i) /\ s[i] \in Frame BY <1>2 DEF Framed
  <2>2. s[i].k = "thread" => s[i].p \in Process /\ s[i].p # p
    BY <1>2, <2>1, FrameFields DEF NoThread, IsThread
  <2>3. s[i].k \in ExitKinds => s[i].p \in Process /\ s[i].p # p
    BY <1>2, <2>1, FrameFields DEF NoExit, IsExit, ExitKinds
  <2> QED BY <1>1, <2>1, <2>2, <2>3 DEF FrameAt
<1> QED BY <1>2 DEF Framed, su

(* A process that runs, or is called, has no frames that say otherwise.       *)
LEMMA Unframed ==
  ASSUME NEW s \in Seq(Frame), NEW st, Framed(s, st), NEW p \in Process
  PROVE  /\ st[p] # "NONE" => NoExit(s, p)
         /\ st[p] # "CALLED" /\ NoExit(s, p) => NoThread(s, p)
<1>1. ASSUME NEW i \in 1..Len(s), IsExit(s[i], p) PROVE st[p] = "NONE"
  BY <1>1 DEF Framed, FrameAt, IsExit
<1>2. ASSUME NEW i \in 1..Len(s), IsThread(s[i], p), st[p] # "CALLED" PROVE ~NoExit(s, p)
  <2>1. i # Len(s) /\ s[i + 1].k = "unlink" /\ s[i + 1].p = p
    BY <1>2 DEF Framed, FrameAt, IsThread
  <2>2. i + 1 \in 1..Len(s) BY <2>1
  <2> QED BY <2>1, <2>2 DEF NoExit, IsExit, ExitKinds
<1> QED BY <1>1, <1>2 DEF NoExit, NoThread

Frames(s) == {s[i] : i \in 1..Len(s)}

LEMMA FramesPush ==
  ASSUME NEW s \in Seq(Frame), NEW f \in Frame
  PROVE  /\ Frames(<<f>> \o s) = {f} \cup Frames(s)
         /\ Tail(<<f>> \o s) = s /\ (<<f>> \o s)[1] = f /\ <<f>> \o s # <<>>
<1> DEFINE t == <<f>> \o s
<1>1. /\ t # <<>> /\ Len(t) = Len(s) + 1 /\ t[1] = f
      /\ \A i \in 1..Len(s) : t[i + 1] = s[i]
      /\ Len(s) \in Nat
  BY PushType
<1>2. Tail(t) = s
  <2>1. t \in Seq(Frame) /\ Tail(t) \in Seq(Frame) /\ Len(Tail(t)) = Len(s)
        /\ \A i \in 1..Len(s) : Tail(t)[i] = s[i]
    BY <1>1, PushType, PopType
  <2> DEFINE u == Tail(t)
  <2>2. u = [i \in 1..Len(u) |-> u[i]] /\ s = [i \in 1..Len(s) |-> s[i]] BY <2>1
  <2> HIDE DEF u
  <2> QED BY <2>1, <2>2 DEF u
<1> HIDE DEF t
<1>3. \A i \in 2..Len(t) : t[i] = s[i - 1] /\ i - 1 \in 1..Len(s)
  <2> TAKE i \in 2..Len(t)
  <2>1. i - 1 \in 1..Len(s) /\ (i - 1) + 1 = i BY <1>1
  <2> QED BY <1>1, <2>1
<1>4. Frames(t) \subseteq {f} \cup Frames(s)
  <2> SUFFICES ASSUME NEW i \in 1..Len(t) PROVE t[i] \in {f} \cup Frames(s)
    BY DEF Frames
  <2>1. i = 1 \/ i \in 2..Len(t) BY <1>1
  <2> QED BY <1>1, <1>3, <2>1 DEF Frames
<1>5. {f} \cup Frames(s) \subseteq Frames(t)
  <2>1. 1 \in 1..Len(t) /\ \A i \in 1..Len(s) : i + 1 \in 1..Len(t) BY <1>1
  <2> QED BY <1>1, <2>1 DEF Frames
<1> QED BY <1>1, <1>2, <1>4, <1>5 DEF t

LEMMA FramesPop ==
  ASSUME NEW s \in Seq(Frame), s # <<>>
  PROVE  Frames(s) = {s[1]} \cup Frames(Tail(s))
<1>1. s[1] \in Frame /\ Tail(s) \in Seq(Frame) BY PopType
<1>2. s = <<s[1]>> \o Tail(s)
  <2> DEFINE t == Tail(s)
             u == <<s[1]>> \o t
  <2>1. /\ u \in Seq(Frame) /\ Len(u) = Len(t) + 1 /\ u[1] = s[1]
        /\ \A i \in 1..Len(t) : u[i + 1] = t[i]
    BY <1>1, PushType
  <2>2. Len(t) = Len(s) - 1 /\ Len(s) \in Nat /\ Len(u) \in Nat
        /\ \A i \in 1..Len(s) - 1 : t[i] = s[i + 1]
    BY <2>1, PopType
  <2> HIDE DEF t, u
  <2>3. Len(u) = Len(s) BY <2>1, <2>2
  <2>4. \A i \in 1..Len(s) : u[i] = s[i]
    <3> TAKE i \in 1..Len(s)
    <3>1. i = 1 \/ (i - 1 \in 1..Len(s) - 1 /\ i - 1 \in 1..Len(t) /\ (i - 1) + 1 = i)
      BY <2>1, <2>2
    <3> QED BY <2>1, <2>2, <3>1
  <2>5. u = [i \in 1..Len(u) |-> u[i]] /\ s = [i \in 1..Len(s) |-> s[i]] BY <2>1
  <2>6. u = s BY <2>3, <2>4, <2>5
  <2> QED BY <2>6 DEF u, t
<1> QED BY <1>1, <1>2, FramesPush

LEMMA FramesOf ==
  ASSUME NEW s \in Seq(Frame)
  PROVE  /\ Frames(s) \subseteq Frame
         /\ s # <<>> => s[1] \in Frames(s)
         /\ \A p : NoExit(s, p) <=> \A f \in Frames(s) : ~IsExit(f, p)
         /\ \A p : NoThread(s, p) <=> \A f \in Frames(s) : ~IsThread(f, p)
<1>1. s # <<>> => 1 \in 1..Len(s) OBVIOUS
<1> QED BY <1>1 DEF Frames, NoExit, NoThread

LEMMA FramesNone == Frames(<<>>) = {}
BY DEF Frames

(* What the frames say of the processes and of the list L.                    *)
IsCall(f, p) == IsThread(f, p) /\ f.by = "call"
Heard(F, st) == \A p \in Process : st[p] = "CALLED" => \E f \in F : IsCall(f, p)
OnList(F, st, L) ==
  \A p \in Process : p \in L <=> st[p] # "NONE" \/ \E f \in F : IsExit(f, p)
Settled(F, L) == \A f \in F : f.k # "poll" /\ (f.k = "pollnext" => f.q \in L)
TopWalk(f, nx, L) ==
  /\ f.k = "poll" => f.q \in L \cup {Null}
  /\ f.k = "pollnext" => f.q \in L \/ nx[f.q] \in L \cup {Null}
Walking(s, nx, L) ==
  s # <<>> => TopWalk(s[1], nx, L) /\ Settled(Frames(Tail(s)), L)
Kept(s, st, nx, L) ==
  /\ Framed(s, st) /\ Heard(Frames(s), st)
  /\ OnList(Frames(s), st, L) /\ Walking(s, nx, L)

(* Above a frame that is not of a walk over the polls, all of them are settled. *)
LEMMA WalkSettled ==
  ASSUME NEW s \in Seq(Frame), NEW nx, NEW L, Walking(s, nx, L),
         s # <<>> => s[1].k # "poll" /\ (s[1].k = "pollnext" => s[1].q \in L)
  PROVE  Settled(Frames(s), L)
<1>1. CASE s = <<>> BY <1>1, FramesNone DEF Settled
<1>2. CASE s # <<>> BY <1>2, FramesPop DEF Settled, Walking
<1> QED BY <1>1, <1>2

(* Frames of no thread and no exit come and go. *)
LEMMA KeptPush ==
  ASSUME NEW s \in Seq(Frame), NEW st, NEW nx, NEW L, Kept(s, st, nx, L),
         NEW f \in Frame, f.k # "thread", f.k \notin ExitKinds, Fits(f, s, st),
         TopWalk(f, nx, L),
         s # <<>> => s[1].k # "poll" /\ (s[1].k = "pollnext" => s[1].q \in L)
  PROVE  /\ <<f>> \o s \in Seq(Frame)
         /\ Kept(<<f>> \o s, st, nx, L)
         /\ Frames(<<f>> \o s) = {f} \cup Frames(s)
<1>1. Framed(<<f>> \o s, st) /\ <<f>> \o s \in Seq(Frame) BY FramedPush DEF Kept
<1>2. Frames(<<f>> \o s) = {f} \cup Frames(s) /\ Tail(<<f>> \o s) = s /\ (<<f>> \o s)[1] = f
  BY FramesPush
<1>3. Settled(Frames(s), L) BY WalkSettled DEF Kept
<1>4. Walking(<<f>> \o s, nx, L) BY <1>2, <1>3 DEF Walking
<1>5. Heard(Frames(<<f>> \o s), st) BY <1>2 DEF Kept, Heard
<1>6. OnList(Frames(<<f>> \o s), st, L) BY <1>2 DEF Kept, OnList, IsExit
<1> QED BY <1>1, <1>2, <1>4, <1>5, <1>6 DEF Kept

LEMMA KeptPop ==
  ASSUME NEW s \in Seq(Frame), NEW st, NEW nx, NEW L, Kept(s, st, nx, L), s # <<>>,
         s[1].k # "thread" \/ s[1].by # "call", s[1].k \notin ExitKinds
  PROVE  Kept(Tail(s), st, nx, L)
<1>1. Framed(Tail(s), st) /\ Tail(s) \in Seq(Frame) BY FramedPop DEF Kept
<1>2. Frames(s) = {s[1]} \cup Frames(Tail(s)) BY FramesPop
<1>3. Settled(Frames(Tail(s)), L) BY DEF Kept, Walking
<1>4. Walking(Tail(s), nx, L)
  <2>1. CASE Tail(s) = <<>> BY <2>1 DEF Walking
  <2>2. CASE Tail(s) # <<>>
    <3>1. Frames(Tail(s)) = {Tail(s)[1]} \cup Frames(Tail(Tail(s))) BY <1>1, <2>2, FramesPop
    <3> QED BY <1>3, <3>1 DEF Walking, TopWalk, Settled
  <2> QED BY <2>1, <2>2
<1>5. Heard(Frames(Tail(s)), st) BY <1>2 DEF Kept, Heard, IsCall, IsThread
<1>6. OnList(Frames(Tail(s)), st, L) BY <1>2 DEF Kept, OnList, IsExit
<1> QED BY <1>1, <1>4, <1>5, <1>6 DEF Kept

(* A thread is called.                                                        *)
LEMMA KeptThread ==
  ASSUME NEW s \in Seq(Frame), NEW st \in [Process -> States], NEW nx, NEW L,
         Kept(s, st, nx, L), NEW p \in Process, NEW ev \in Event, st[p] = "RUNNING",
         s # <<>> => s[1].k # "poll" /\ (s[1].k = "pollnext" => s[1].q = p)
  PROVE  Kept(<<Thread(p, ev, "call")>> \o s, [st EXCEPT ![p] = "CALLED"], nx, L)
<1> DEFINE f == Thread(p, ev, "call")
           su == [st EXCEPT ![p] = "CALLED"]
<1>0. f \in Frame /\ f.k = "thread" /\ f.p = p /\ f.by = "call"
      /\ f.k \notin ExitKinds \cup MainKinds \cup BottomKinds
  BY FrameMade DEF Thread, ExitKinds, MainKinds, BottomKinds
<1>s. su[p] = "CALLED" /\ \A q \in Process : q # p => su[q] = st[q] OBVIOUS
<1>1. NoThread(s, p) /\ NoExit(s, p) BY Unframed DEF Kept
<1>2. Framed(s, su) BY <1>1, FramedState DEF Kept
<1> HIDE DEF f, su
<1>3. Fits(f, s, su) BY <1>0, <1>1, <1>s DEF Fits, IsThread
<1>4. Framed(<<f>> \o s, su) BY <1>0, <1>2, <1>3, FramedPush
<1>5. Frames(<<f>> \o s) = {f} \cup Frames(s) /\ Tail(<<f>> \o s) = s /\ (<<f>> \o s)[1] = f
  BY <1>0, FramesPush
<1>6. p \in L BY DEF Kept, OnList
<1>7. Settled(Frames(s), L) BY <1>6, WalkSettled DEF Kept
<1>8. Walking(<<f>> \o s, nx, L) BY <1>0, <1>5, <1>7 DEF Walking, TopWalk
<1>9. Heard(Frames(<<f>> \o s), su)
  BY <1>0, <1>5, <1>s DEF Kept, Heard, IsCall, IsThread
<1>10. OnList(Frames(<<f>> \o s), su, L)
  BY <1>0, <1>5, <1>s DEF Kept, OnList, IsExit
<1> QED BY <1>4, <1>8, <1>9, <1>10 DEF Kept, f, su

LEMMA KeptCall ==
  ASSUME TypeOK, NEW s \in Seq(Frame), NEW nx, NEW L,
         Kept(s, state, nx, L), NEW p \in Process, NEW ev \in Event,
         s # <<>> => s[1].k # "poll" /\ (s[1].k = "pollnext" => s[1].q = p),
         call_process(p, state, ev, s)
  PROVE  /\ Kept(stack', state', nx, L)
         /\ Frames(s) \subseteq Frames(stack')
         /\ \A q \in Process : state'[q] = "NONE" <=> state[q] = "NONE"
<1>0. state \in [Process -> States] BY DEF TypeOK, States
<1>1. CASE state[p] = "RUNNING"
  <2>1. stack' = <<Thread(p, ev, "call")>> \o s /\ state' = [state EXCEPT ![p] = "CALLED"]
    BY <1>1 DEF call_process
  <2>2. Thread(p, ev, "call") \in Frame BY FrameMade
  <2>3. Kept(stack', state', nx, L) BY <1>0, <1>1, <2>1, KeptThread
  <2>4. Frames(s) \subseteq Frames(stack') BY <2>1, <2>2, FramesPush
  <2>5. \A q \in Process : state'[q] = "NONE" <=> state[q] = "NONE" BY <1>0, <1>1, <2>1
  <2> QED BY <2>3, <2>4, <2>5
<1>2. CASE state[p] # "RUNNING" BY <1>2 DEF call_process
<1> QED BY <1>1, <1>2

(* An exit goes on to its next step.                                          *)
LEMMA KeptExit ==
  ASSUME NEW s \in Seq(Frame), NEW st, NEW nx, NEW L, Kept(s, st, nx, L), s # <<>>,
         s[1].k \in ExitKinds, NEW f \in Frame, f.k \in ExitKinds, f.p = s[1].p
  PROVE  /\ Tail(s) \in Seq(Frame) /\ <<f>> \o Tail(s) \in Seq(Frame)
         /\ Kept(<<f>> \o Tail(s), st, nx, L)
         /\ Frames(<<f>> \o Tail(s)) = {f} \cup Frames(Tail(s))
         /\ Frames(s) = {s[1]} \cup Frames(Tail(s))
<1> DEFINE r == Tail(s)
<1>p. s[1].p \in Process BY FrameFields, PopType DEF ExitKinds
<1>0. f.k # "thread" /\ f.k \notin MainKinds /\ f.k \notin BottomKinds
      /\ f.k # "poll" /\ f.k # "pollnext"
      /\ s[1].k # "thread" /\ s[1].k # "poll" /\ s[1].k # "pollnext"
  BY DEF ExitKinds, MainKinds, BottomKinds
<1>1. /\ r \in Seq(Frame) /\ Framed(r, st) /\ NoExit(r, s[1].p) /\ st[s[1].p] = "NONE"
      /\ r # <<>> => /\ r[1].k # "poll"
                     /\ r[1].k = "pollnext" => IsThread(s[1], r[1].q) \/ IsExit(s[1], r[1].q)
  BY <1>p, FramedPop DEF Kept, IsExit
<1>2. Frames(s) = {s[1]} \cup Frames(r) BY FramesPop
<1> HIDE DEF r
<1>3. Fits(f, r, st) BY <1>0, <1>1 DEF Fits, IsThread, IsExit
<1>4. Framed(<<f>> \o r, st) /\ <<f>> \o r \in Seq(Frame) BY <1>1, <1>3, FramedPush
<1>5. Frames(<<f>> \o r) = {f} \cup Frames(r) /\ Tail(<<f>> \o r) = r /\ (<<f>> \o r)[1] = f
  BY <1>1, FramesPush
<1>6. Walking(<<f>> \o r, nx, L) BY <1>0, <1>5 DEF Kept, Walking, TopWalk, r
<1>7. Heard(Frames(<<f>> \o r), st)
  BY <1>0, <1>2, <1>5 DEF Kept, Heard, IsCall, IsThread
<1>8. OnList(Frames(<<f>> \o r), st, L)
  BY <1>2, <1>5 DEF Kept, OnList, IsExit
<1> QED BY <1>1, <1>2, <1>4, <1>5, <1>6, <1>7, <1>8 DEF Kept, r

(* An exit is about to leave: its thread gets its EXIT event.                 *)
LEMMA KeptExitThread ==
  ASSUME NEW s \in Seq(Frame), NEW st, NEW nx, NEW L, Kept(s, st, nx, L), s # <<>>,
         s[1].k = "unlink", NoThread(s, s[1].p)
  PROVE  /\ Kept(<<Thread(s[1].p, "EXIT", "exit")>> \o s, st, nx, L)
         /\ Frames(s) \subseteq Frames(<<Thread(s[1].p, "EXIT", "exit")>> \o s)
<1> DEFINE f == Thread(s[1].p, "EXIT", "exit")
<1>p. s[1].p \in Process BY FrameFields, PopType
<1>0. f \in Frame /\ f.k = "thread" /\ f.p = s[1].p /\ f.by = "exit"
      /\ f.k \notin ExitKinds \cup MainKinds \cup BottomKinds
  BY <1>p, FrameMade DEF Thread, Event, ExitKinds, MainKinds, BottomKinds
<1> HIDE DEF f
<1>1. Fits(f, s, st) BY <1>0 DEF Fits
<1>2. Framed(<<f>> \o s, st) BY <1>0, <1>1, FramedPush DEF Kept
<1>3. Frames(<<f>> \o s) = {f} \cup Frames(s) /\ Tail(<<f>> \o s) = s /\ (<<f>> \o s)[1] = f
  BY <1>0, FramesPush
<1>4. Settled(Frames(s), L) BY WalkSettled DEF Kept
<1>5. Walking(<<f>> \o s, nx, L) BY <1>0, <1>3, <1>4 DEF Walking, TopWalk
<1>6. Heard(Frames(<<f>> \o s), st) BY <1>3 DEF Kept, Heard
<1>7. OnList(Frames(<<f>> \o s), st, L) BY <1>0, <1>3 DEF Kept, OnList, IsExit
<1> QED BY <1>2, <1>3, <1>5, <1>6, <1>7 DEF Kept, f

(* A thread that was called returns.                                          *)
LEMMA KeptReturn ==
  ASSUME NEW s \in Seq(Frame), NEW st \in [Process -> States], NEW nx, NEW L,
         Kept(s, st, nx, L), s # <<>>, s[1].k = "thread", s[1].by = "call"
  PROVE  /\ Kept(Tail(s), [st EXCEPT ![s[1].p] = "RUNNING"], nx, L)
         /\ st[s[1].p] = "CALLED"
         /\ NoThread(Tail(s), s[1].p) /\ NoExit(Tail(s), s[1].p)
<1> DEFINE r == Tail(s)
           p == s[1].p
           su == [st EXCEPT ![p] = "RUNNING"]
<1>p. p \in Process BY FrameFields, PopType
<1>1. r \in Seq(Frame) /\ Framed(r, st) /\ NoThread(r, p) /\ st[p] = "CALLED"
  BY <1>p, FramedPop DEF Kept, IsThread
<1>2. Frames(s) = {s[1]} \cup Frames(r) BY FramesPop
<1>3. NoExit(r, p) BY <1>1, <1>p, Unframed
<1>4. Framed(r, su) BY <1>1, <1>3, <1>p, FramedState
<1>s. su[p] = "RUNNING" /\ \A q \in Process : q # p => su[q] = st[q] BY <1>p
<1>t. s[1].k \notin ExitKinds BY DEF ExitKinds
<1>5. Settled(Frames(r), L) BY DEF Kept, Walking
<1> HIDE DEF su, r
<1>6. Walking(r, nx, L)
  <2>1. CASE r = <<>> BY <2>1 DEF Walking
  <2>2. CASE r # <<>>
    <3>1. Frames(r) = {r[1]} \cup Frames(Tail(r)) BY <1>1, <2>2, FramesPop
    <3> QED BY <1>5, <3>1 DEF Walking, TopWalk, Settled
  <2> QED BY <2>1, <2>2
<1>7. Heard(Frames(r), su)
  BY <1>2, <1>s DEF Kept, Heard, IsCall, IsThread
<1>8. OnList(Frames(r), su, L)
  <2> SUFFICES ASSUME NEW q \in Process
               PROVE  q \in L <=> su[q] # "NONE" \/ \E f \in Frames(r) : IsExit(f, q)
    BY DEF OnList
  <2>1. q \in L <=> st[q] # "NONE" \/ \E f \in Frames(s) : IsExit(f, q)
    BY DEF Kept, OnList
  <2>2. \A f \in Frames(s) : IsExit(f, q) => f \in Frames(r) BY <1>2, <1>t DEF IsExit
  <2> QED BY <1>1, <1>2, <1>s, <2>1, <2>2
<1> QED BY <1>1, <1>3, <1>4, <1>6, <1>7, <1>8 DEF Kept, r, su

(* A process that runs, but has no frames, begins to exit.                    *)
LEMMA KeptLeave ==
  ASSUME NEW s \in Seq(Frame), NEW st \in [Process -> States], NEW nx, NEW L,
         Kept(s, st, nx, L), NEW p \in Process, st[p] = "RUNNING",
         NEW f \in Frame, f.k = "exit", f.p = p,
         s # <<>> => s[1].k # "poll" /\ (s[1].k = "pollnext" => s[1].q = p)
  PROVE  /\ Kept(<<f>> \o s, [st EXCEPT ![p] = "NONE"], nx, L)
         /\ Frames(<<f>> \o s) = {f} \cup Frames(s)
<1> DEFINE su == [st EXCEPT ![p] = "NONE"]
<1>0. f.k \in ExitKinds /\ f.k \notin MainKinds \cup BottomKinds
  BY DEF ExitKinds, MainKinds, BottomKinds
<1>s. su[p] = "NONE" /\ \A q \in Process : q # p => su[q] = st[q] OBVIOUS
<1>1. NoThread(s, p) /\ NoExit(s, p) BY Unframed DEF Kept
<1>2. Framed(s, su) BY <1>1, FramedState DEF Kept
<1> HIDE DEF su
<1>3. Fits(f, s, su) BY <1>0, <1>1, <1>s DEF Fits, IsExit
<1>4. Framed(<<f>> \o s, su) BY <1>2, <1>3, FramedPush
<1>5. Frames(<<f>> \o s) = {f} \cup Frames(s) /\ Tail(<<f>> \o s) = s /\ (<<f>> \o s)[1] = f
  BY FramesPush
<1>6. p \in L BY DEF Kept, OnList
<1>7. Settled(Frames(s), L) BY <1>6, WalkSettled DEF Kept
<1>8. Walking(<<f>> \o s, nx, L) BY <1>5, <1>7 DEF Walking, TopWalk
<1>9. Heard(Frames(<<f>> \o s), su) BY <1>5, <1>s DEF Kept, Heard
<1>10. OnList(Frames(<<f>> \o s), su, L)
  BY <1>0, <1>5, <1>6, <1>s DEF Kept, OnList, IsExit
<1> QED BY <1>4, <1>5, <1>8, <1>9, <1>10 DEF Kept, su

----------------------------------------------------------------------------
(* The walks.  AheadIn is AheadOf for given pointers: the walk of f still     *)
(* comes to p; Brings: the broadcast of f still comes to all of D.            *)
AheadIn(nx, p, f) ==
  \/ f.k = "poll" /\ p \in Reach(nx, f.q)
  \/ f.k = "pollnext" /\ p \in Reach(nx, nx[f.q])
Brings(nx, D, f) ==
  \/ f.k \in {"bcast", "bcall"} /\ D \subseteq Reach(nx, f.q)
  \/ f.k = "bnext" /\ D \subseteq Reach(nx, nx[f.q])
WalkKinds == {"poll", "pollnext", "bcast", "bcall", "bnext"}
Reached(F, nx, requested, as, D) ==
  /\ \A p \in as : requested \/ \E f \in F : AheadIn(nx, p, f)
  /\ D = {} \/ \E f \in F : Brings(nx, D, f)

LEMMA SameWalks ==
  ASSUME NEW F, NEW G, NEW nx, NEW requested \in BOOLEAN, NEW as, NEW D,
         NEW bs, NEW E, bs \subseteq as, E \subseteq D,
         \A f \in F : f.k \in WalkKinds => f \in G,
         Reached(F, nx, requested, as, D)
  PROVE  Reached(G, nx, requested, bs, E)
<1>1. \A f, p : AheadIn(nx, p, f) => f.k \in WalkKinds BY DEF AheadIn, WalkKinds
<1>2. \A f : Brings(nx, D, f) => f.k \in WalkKinds /\ Brings(nx, E, f)
  BY DEF Brings, WalkKinds
<1>3. ASSUME NEW p \in bs PROVE requested \/ \E f \in G : AheadIn(nx, p, f)
  BY <1>1 DEF Reached
<1>4. E = {} \/ \E f \in G : Brings(nx, E, f)
  <2>1. CASE D = {} BY <2>1
  <2>2. CASE D # {}
    <3>1. PICK f \in F : Brings(nx, D, f) BY <2>2 DEF Reached
    <3> QED BY <1>2, <3>1
  <2> QED BY <2>1, <2>2
<1> QED BY <1>3, <1>4 DEF Reached

(* The walks over the list go on when a process is started, ...               *)
LEMMA WalksLinked ==
  ASSUME NEW nx \in [Process -> Pointer], NEW h \in Pointer, NEW p \in Process,
         Acyclic(nx), p \notin Reach(nx, h),
         NEW ny \in [Process -> Pointer], ny[p] = h,
         \A q \in Process : q # p => ny[q] = nx[q],
         NEW F \in SUBSET Frame, Settled(F, Reach(nx, h)),
         NEW requested \in BOOLEAN, NEW as, NEW D,
         D \subseteq Reach(nx, h), Reached(F, nx, requested, as, D)
  PROVE  Reached(F, ny, requested, as, D)
<1> DEFINE L == Reach(nx, h)
<1>n. ny \in [Process -> Pointer] /\ ny[p] = h /\ \A q \in Process : q # p => ny[q] = nx[q]
  OBVIOUS
<1>0. /\ \A q \in Pointer : p \notin Reach(nx, q) => Reach(ny, q) = Reach(nx, q)
      /\ \A q \in Pointer : p \in Reach(nx, q) => L \subseteq Reach(ny, q)
      /\ Reach(ny, h) = L
  <2>1. /\ \A q \in Pointer : p \notin Reach(nx, q) => Reach(ny, q) = Reach(nx, q)
        /\ \A q \in Pointer : p \in Reach(nx, q) => Reach(nx, h) \subseteq Reach(ny, q)
    BY Linked
  <2> QED BY <2>1
<1>1. ASSUME NEW x, NEW f \in F, AheadIn(nx, x, f) PROVE AheadIn(ny, x, f)
  <2>1. f.k = "pollnext" /\ f.q \in L BY <1>1 DEF AheadIn, Settled
  <2>2. f.q \in Process /\ nx[f.q] \in Pointer BY <2>1, FrameFields
  <2>3. f.q # p /\ ny[f.q] = nx[f.q] BY <1>n, <2>1, <2>2
  <2>4. Reach(nx, f.q) \subseteq L BY <2>1, ReachStep
  <2>5. Reach(nx, nx[f.q]) \subseteq L BY <2>2, <2>4, ReachStep
  <2>6. Reach(ny, ny[f.q]) = Reach(nx, nx[f.q]) BY <1>0, <2>2, <2>3, <2>5
  <2> QED BY <1>1, <2>1, <2>6 DEF AheadIn
<1>2. ASSUME NEW f \in F, Brings(nx, D, f) PROVE Brings(ny, D, f)
  <2>1. CASE f.k \in {"bcast", "bcall"}
    <3>1. f.q \in Pointer BY <2>1, FrameFields DEF Pointer
    <3>2. D \subseteq Reach(nx, f.q) BY <1>2, <2>1 DEF Brings
    <3> QED BY <1>0, <2>1, <3>1, <3>2 DEF Brings
  <2>2. CASE f.k = "bnext"
    <3>1. f.q \in Process /\ nx[f.q] \in Pointer BY <2>2, FrameFields
    <3>2. D \subseteq Reach(nx, nx[f.q]) BY <1>2, <2>2 DEF Brings
    <3>3. f.q = p => D \subseteq Reach(ny, ny[f.q]) BY <1>0, <1>n
    <3>4. f.q # p => D \subseteq Reach(ny, ny[f.q]) BY <1>0, <1>n, <3>1, <3>2
    <3> QED BY <2>2, <3>3, <3>4 DEF Brings
  <2> QED BY <1>2, <2>1, <2>2 DEF Brings
<1> QED BY <1>1, <1>2 DEF Reached

(* ... and when one leaves.                                                   *)
LEMMA WalksUnlinked ==
  ASSUME NEW nx \in [Process -> Pointer], NEW p \in Process, NEW L \in SUBSET Process,
         Acyclic(nx),
         NEW ny \in [Process -> Pointer],
         Bypass(nx, ny, p, L),
         NEW F \in SUBSET Frame,
         NEW requested \in BOOLEAN, NEW as, NEW D, p \notin as, p \notin D,
         Settled(F, L), Reached(F, nx, requested, as, D)
  PROVE  Reached(F, ny, requested, as, D)
<1>0. \A x \in Pointer : Reach(nx, x) \ {p} \subseteq Reach(ny, x)
  BY Unlinked
<1>n. \A q \in Process : ny[q] = nx[q] \/ (nx[q] = p /\ ny[q] = nx[p]) BY DEF Bypass
<1>1. ASSUME NEW q \in Process PROVE Reach(nx, nx[q]) \ {p} \subseteq Reach(ny, ny[q])
  <2>1. CASE ny[q] = nx[q] BY <1>0, <2>1
  <2>2. CASE nx[q] = p /\ ny[q] = nx[p]
    <3>1. Reach(nx, p) = {p} \cup Reach(nx, nx[p]) BY ReachStep
    <3> QED BY <1>0, <2>2, <3>1
  <2> QED BY <1>n, <2>1, <2>2
<1>2. ASSUME NEW x \in as, NEW f \in F, AheadIn(nx, x, f) PROVE AheadIn(ny, x, f)
  <2>1. f.k = "pollnext" /\ x \in Reach(nx, nx[f.q]) BY <1>2 DEF AheadIn, Settled
  <2>2. f.q \in Process BY <2>1, FrameFields
  <2> QED BY <1>1, <2>1, <2>2 DEF AheadIn
<1>3. ASSUME NEW f \in F, Brings(nx, D, f) PROVE Brings(ny, D, f)
  <2>1. CASE f.k \in {"bcast", "bcall"}
    <3>1. f.q \in Pointer BY <2>1, FrameFields DEF Pointer
    <3> QED BY <1>0, <1>3, <2>1, <3>1 DEF Brings
  <2>2. CASE f.k = "bnext"
    <3>1. f.q \in Process BY <2>2, FrameFields
    <3> QED BY <1>1, <1>3, <2>2, <3>1 DEF Brings
  <2> QED BY <1>3, <2>1, <2>2 DEF Brings
<1> QED BY <1>2, <1>3 DEF Reached

----------------------------------------------------------------------------
(* The invariant: the stack, the list and the walks fit together.             *)
KernelInv ==
  /\ TypeOK /\ Acyclic(next)
  /\ Kept(stack, state, next, Listed)
  /\ \A p \in asked : p \in needspoll /\ state[p] # "NONE"
  /\ \A p \in due : state[p] # "NONE"
  /\ Reached(Frames(stack), next, poll_requested, asked, due)

(* A process is started.                                                      *)
LEMMA KernelStart ==
  ASSUME KernelInv, NEW p \in Process, process_start(p, stack),
         stack = <<>> \/ stack[1].k = "thread"
  PROVE  /\ Acyclic(next') /\ Kept(stack', state', next', Listed')
         /\ \A q \in asked' : q \in needspoll' /\ state'[q] # "NONE"
         /\ \A q \in due' : state'[q] # "NONE"
         /\ Reached(Frames(stack'), next', poll_requested', asked', due')
<1>0. /\ next \in [Process -> Pointer] /\ head \in Pointer /\ stack \in Seq(Frame)
      /\ state \in [Process -> States] /\ process_current \in Pointer
      /\ Listed = Reach(next, head) /\ Listed' = Reach(next', head')
      /\ asked \subseteq Process /\ due \subseteq Process /\ poll_requested \in BOOLEAN
  BY ReachFrom, ReachFromNext DEF KernelInv, TypeOK, States
<1>1. CASE p \in Listed
  BY <1>0, <1>1 DEF process_start, list, polls, KernelInv
<1>2. CASE p \notin Listed
  <2> DEFINE f == Thread(p, "INIT", "call")
             g == Synch(process_current)
             t == <<g>> \o stack
             su == [[state EXCEPT ![p] = "RUNNING"] EXCEPT ![p] = "CALLED"]
             L == Listed
             M == {p} \cup L
  <2>1. /\ next' = [next EXCEPT ![p] = head] /\ head' = p /\ state' = su
        /\ stack' = <<f>> \o t /\ asked' = asked \ {p} /\ due' = due
        /\ needspoll' = needspoll /\ poll_requested' = poll_requested
    BY <1>2 DEF process_start
  <2>2. f \in Frame /\ f.k = "thread" /\ f.p = p /\ f.by = "call"
        /\ g \in Frame /\ g.k = "synch"
    BY <1>0, FrameMade DEF Thread, Synch, Event
  <2>s. su = [state EXCEPT ![p] = "CALLED"] BY <1>0
  <2>t. su[p] = "CALLED" /\ \A q \in Process : q # p => su[q] = state[q] BY <1>0
  <2>n. /\ next' \in [Process -> Pointer] /\ next'[p] = head
        /\ \A q \in Process : q # p => next'[q] = next[q]
    BY <1>0, <2>1 DEF Pointer
  <2>l. /\ Acyclic(next') /\ Listed' = M
    BY <1>0, <1>2, <2>1, <2>n, Linked DEF KernelInv
  <2>3. state[p] = "NONE" /\ NoExit(stack, p) /\ NoThread(stack, p)
    <3>1. state[p] = "NONE" /\ NoExit(stack, p)
      BY <1>0, <1>2, FramesOf DEF KernelInv, Kept, OnList
    <3> QED BY <1>0, <3>1, Unframed DEF KernelInv, Kept
  <2>4. Settled(Frames(stack), L) /\ Framed(stack, state)
    BY <1>0, WalkSettled DEF KernelInv, Kept
  <2>k. /\ f.k \notin ExitKinds \cup MainKinds \cup BottomKinds
        /\ g.k \notin ExitKinds \cup MainKinds \cup BottomKinds
        /\ g.k # "poll" /\ g.k # "pollnext" /\ g.k # "thread"
    BY <2>2 DEF ExitKinds, MainKinds, BottomKinds
  <2> HIDE DEF f, g, su, L, M
  <2>5. Fits(g, stack, state) BY <2>2, <2>k DEF Fits
  <2>6. /\ t \in Seq(Frame) /\ Framed(t, state)
        /\ Frames(t) = {g} \cup Frames(stack) /\ t # <<>> /\ t[1] = g
    BY <1>0, <2>2, <2>4, <2>5, FramedPush, FramesPush
  <2> HIDE DEF t
  <2>7. NoThread(t, p) /\ NoExit(t, p)
    BY <1>0, <2>3, <2>6, <2>k, FramesOf DEF IsThread, IsExit
  <2>8. Framed(t, su) BY <1>0, <2>6, <2>7, <2>s, FramedState
  <2>9. Fits(f, t, su) BY <2>2, <2>6, <2>7, <2>k, <2>t DEF Fits
  <2>10. /\ Framed(stack', su) /\ Frames(stack') = {f} \cup Frames(t)
         /\ Tail(stack') = t /\ stack'[1] = f
    BY <2>1, <2>2, <2>6, <2>8, <2>9, FramedPush, FramesPush
  <2>11. Walking(stack', next', M)
    <3>1. Settled(Frames(t), M) BY <2>4, <2>6, <2>k DEF Settled, M
    <3> QED BY <2>10, <2>2, <3>1 DEF Walking, TopWalk
  <2>12. Heard(Frames(stack'), su)
    <3>1. IsCall(f, p) BY <2>2 DEF IsCall, IsThread
    <3>2. Heard(Frames(stack), state) BY DEF KernelInv, Kept
    <3> QED BY <2>6, <2>10, <2>t, <3>1, <3>2 DEF Heard
  <2>13. OnList(Frames(stack'), su, M)
    <3>1. OnList(Frames(stack), state, L) BY DEF KernelInv, Kept, L
    <3>2. \A q : ~IsExit(f, q) /\ ~IsExit(g, q) BY <2>k DEF IsExit
    <3> QED BY <2>6, <2>10, <2>t, <3>1, <3>2 DEF OnList, M
  <2>14. Kept(stack', state', next', Listed')
    BY <2>1, <2>l, <2>10, <2>11, <2>12, <2>13 DEF Kept
  <2>15. due \subseteq Listed
    BY <1>0 DEF KernelInv, Kept, OnList
  <2>16. Frames(stack) \in SUBSET Frame BY <1>0, FramesOf
  <2>17. Reached(Frames(stack), next', poll_requested, asked, due)
    <3>1. /\ Acyclic(next) /\ p \notin Reach(next, head)
          /\ Settled(Frames(stack), Reach(next, head))
          /\ due \subseteq Reach(next, head)
          /\ Reached(Frames(stack), next, poll_requested, asked, due)
      BY <1>0, <1>2, <2>4, <2>15 DEF KernelInv, L
    <3> QED BY <1>0, <2>n, <2>16, <3>1, WalksLinked
  <2>18. Reached(Frames(stack'), next', poll_requested', asked', due')
    <3>1. asked' \subseteq asked /\ due' \subseteq due
          /\ \A h \in Frames(stack) : h.k \in WalkKinds => h \in Frames(stack')
      BY <2>1, <2>6, <2>10
    <3>2. poll_requested' = poll_requested BY <2>1
    <3> QED BY <1>0, <2>17, <3>1, <3>2, SameWalks
  <2>19. /\ \A q \in asked' : q \in needspoll' /\ state'[q] # "NONE"
         /\ \A q \in due' : state'[q] # "NONE"
    BY <1>0, <2>1, <2>t DEF KernelInv
  <2> QED BY <2>l, <2>14, <2>18, <2>19
<1> QED BY <1>1, <1>2

(* A process leaves the list.                                                 *)
LEMMA KernelLeave ==
  ASSUME KernelInv, stack # <<>>, stack[1].k = "unlink", Unlink(stack[1].p)
  PROVE  /\ Acyclic(next') /\ Kept(Tail(stack), state, next', Listed')
         /\ Reached(Frames(Tail(stack)), next', poll_requested, asked, due)
<1> DEFINE p == stack[1].p
           r == Tail(stack)
           L == Listed
<1>0. /\ next \in [Process -> Pointer] /\ head \in Pointer /\ stack \in Seq(Frame)
      /\ state \in [Process -> States]
      /\ L = Reach(next, head) /\ Listed' = Reach(next', head')
      /\ asked \subseteq Process /\ due \subseteq Process /\ poll_requested \in BOOLEAN
      /\ L \in SUBSET Process /\ Acyclic(next) /\ Kept(stack, state, next, L)
  BY ReachFrom, ReachFromNext, WalkType DEF KernelInv, TypeOK, States
<1>1. /\ r \in Seq(Frame) /\ Framed(r, state)
      /\ Frames(stack) = {stack[1]} \cup Frames(r) /\ stack[1] \in Frame
      /\ r # <<>> => r[1].k # "poll" /\ (r[1].k = "pollnext" => r[1].q = p)
      /\ \A x \in Process : IsExit(stack[1], x) => NoExit(r, x)
      /\ state[p] = "NONE"
  BY <1>0, FramedPop, FramesPop DEF Kept, IsThread, IsExit, ExitKinds
<1>2. p \in Process /\ IsExit(stack[1], p)
  BY <1>0, <1>1, FrameFields DEF IsExit, ExitKinds
<1>3. NoExit(r, p) /\ NoThread(r, p) BY <1>1, <1>2, Unframed
<1>4. p \in L BY <1>0, <1>1, <1>2 DEF Kept, OnList
<1>5. /\ next' \in [Process -> Pointer] /\ Acyclic(next') /\ Listed' = L \ {p}
      /\ next'[p] = next[p] /\ next[p] \in (L \ {p}) \cup {Null}
  <2>1. next[p] \in (L \ {p}) \cup {Null} /\ p \notin Reach(next, next[p]) /\ next[p] \in Pointer
    <3>1. next[p] \in L \cup {Null} BY <1>0, <1>4, ReachShut DEF Shut
    <3>2. p \notin Reach(next, next[p]) /\ next[p] \in Pointer BY <1>0, <1>2 DEF Acyclic
    <3>3. next[p] # p BY <1>0, <1>2, <3>2, ReachShut, NullAssumption
    <3> QED BY <3>1, <3>2, <3>3
  <2>2. CASE p = head
    <3>1. head' = next[p] /\ next' = next BY <2>2 DEF Unlink
    <3>2. Reach(next, p) = {p} \cup Reach(next, next[p]) BY <1>0, <1>2, ReachStep
    <3> QED BY <1>0, <2>1, <2>2, <3>1, <3>2
  <2>3. CASE p # head
    <3>1. /\ Bypass(next, next', p, L)
          /\ next' \in [Process -> Pointer] /\ head' = head
      BY <1>0, <1>2, <2>3 DEF Unlink, Bypass
    <3>2. /\ Acyclic(next')
          /\ L \ {p} \subseteq Listed' /\ Listed' \subseteq L
          /\ \A x \in L : next'[x] # p
      <4>f. /\ next \in [Process -> Pointer] /\ next' \in [Process -> Pointer]
            /\ p \in Process /\ L \in SUBSET Process
            /\ Acyclic(next) /\ Bypass(next, next', p, L)
        BY <1>0, <1>2, <3>1
      <4> HIDE DEF p, L
      <4>1. Acyclic(next') BY <4>f, Unlinked
      <4>2. \A x \in Pointer : /\ Reach(next, x) \ {p} \subseteq Reach(next', x)
                               /\ Reach(next', x) \subseteq Reach(next, x)
        BY <4>f, Unlinked
      <4>3. \A x \in L : next'[x] # p BY <4>f, Unlinked
      <4> QED BY <1>0, <3>1, <4>1, <4>2, <4>3 DEF L
    <3>3. next'[p] = next[p] BY <1>2, <2>1, <3>1 DEF Bypass
    <3>4. p \notin Listed'
      <4> DEFINE S == L \ {p}
      <4>1. Shut(next', Listed') /\ head \in Listed' \cup {Null} /\ Listed' \subseteq Process
        BY <1>0, <3>1, <3>2, ReachShut
      <4>2. Shut(next', S)
        <5> SUFFICES ASSUME NEW x \in S PROVE next'[x] \in S \cup {Null} BY DEF Shut
        <5>1. next'[x] # p BY <3>2
        <5>2. next[x] \in L \cup {Null} BY <1>0, ReachShut DEF Shut
        <5>3. next'[x] = next[x] \/ next'[x] = next[p] BY <1>0, <3>1 DEF Bypass
        <5> QED BY <2>1, <5>1, <5>2, <5>3
      <4>3. S \in SUBSET Process /\ head \in S \cup {Null}
        BY <1>0, <2>3, ReachShut
      <4>4. Reach(next', head) \subseteq S BY <4>2, <4>3, ReachLeast
      <4> QED BY <1>0, <3>1, <4>4
    <3> QED BY <2>1, <3>1, <3>2, <3>3, <3>4
  <2> QED BY <2>2, <2>3
<1>6. Settled(Frames(r), L) BY <1>0 DEF Kept, Walking
<1>7. Walking(r, next', Listed')
  <2> SUFFICES ASSUME r # <<>>
               PROVE  TopWalk(r[1], next', Listed') /\ Settled(Frames(Tail(r)), Listed')
    BY DEF Walking
  <2>1. TopWalk(r[1], next', Listed')
    BY <1>1, <1>5 DEF TopWalk
  <2>2. ASSUME NEW i \in 1..Len(Tail(r)) PROVE
          /\ Tail(r)[i].k # "poll"
          /\ Tail(r)[i].k = "pollnext" => Tail(r)[i].q \in L /\ Tail(r)[i].q # p
    <3> DEFINE j == i + 1
    <3>1. Tail(r)[i] = r[j] /\ j \in 1..Len(r) /\ j # 1 /\ j - 1 = i /\ i \in 1..Len(r)
      BY <1>1, PopType
    <3>2. r[j] \in Frames(r) /\ FrameAt(r, state, j)
      BY <1>1, <3>1 DEF Frames, Framed
    <3> HIDE DEF j
    <3>3. r[j].k = "pollnext" => r[j].q # p
      BY <1>3, <3>1, <3>2 DEF FrameAt, NoThread, NoExit
    <3> QED BY <1>6, <3>1, <3>2, <3>3 DEF Settled
  <2>3. Settled(Frames(Tail(r)), Listed')
    BY <1>5, <2>2 DEF Settled, Frames
  <2> QED BY <2>1, <2>3
<1>8. Heard(Frames(r), state)
  BY <1>0, <1>1 DEF Kept, Heard, IsCall, IsThread
<1>9. OnList(Frames(r), state, Listed')
  <2> SUFFICES ASSUME NEW q \in Process
               PROVE  q \in Listed' <=> state[q] # "NONE" \/ \E f \in Frames(r) : IsExit(f, q)
    BY DEF OnList
  <2>1. q \in L <=> state[q] # "NONE" \/ \E f \in Frames(stack) : IsExit(f, q)
    BY <1>0 DEF Kept, OnList
  <2>2. CASE q = p BY <1>1, <1>3, <1>5, <2>2, FramesOf
  <2>3. CASE q # p
    <3>1. ~IsExit(stack[1], q) BY <2>3 DEF IsExit
    <3> QED BY <1>1, <1>5, <2>1, <2>3, <3>1
  <2> QED BY <2>2, <2>3
<1>10. Kept(r, state, next', Listed') BY <1>1, <1>7, <1>8, <1>9 DEF Kept
<1>11. Frames(r) \in SUBSET Frame BY <1>1, FramesOf
<1>12. Reached(Frames(r), next, poll_requested, asked, due)
  <2>1. \A f \in Frames(stack) : f.k \in WalkKinds => f \in Frames(r)
    BY <1>1 DEF WalkKinds
  <2> QED BY <1>0, <2>1, SameWalks DEF KernelInv
<1>13. Reached(Frames(r), next', poll_requested, asked, due)
  <2>1. CASE p = head
    <3>1. next' = next BY <2>1 DEF Unlink
    <3> QED BY <1>12, <3>1
  <2>2. CASE p # head
    <3>1. /\ Bypass(next, next', p, L)
          /\ next' \in [Process -> Pointer]
      BY <1>0, <1>2, <2>2 DEF Unlink, Bypass
    <3>2. p \notin asked /\ p \notin due BY <1>1 DEF KernelInv
    <3> QED BY <1>0, <1>2, <1>6, <1>11, <1>12, <3>1, <3>2, WalksUnlinked
  <2> QED BY <2>1, <2>2
<1> QED BY <1>5, <1>10, <1>13

----------------------------------------------------------------------------
(* Steps that leave the list alone.                                           *)
LEMMA KernelSame ==
  ASSUME KernelInv, UNCHANGED list, Kept(stack', state', next, Listed),
         \A p \in asked' : p \in needspoll' /\ state'[p] # "NONE",
         \A p \in due' : state'[p] # "NONE",
         Reached(Frames(stack'), next, poll_requested', asked', due')
  PROVE  /\ Acyclic(next') /\ Kept(stack', state', next', Listed')
         /\ \A p \in asked' : p \in needspoll' /\ state'[p] # "NONE"
         /\ \A p \in due' : state'[p] # "NONE"
         /\ Reached(Frames(stack'), next', poll_requested', asked', due')
<1>1. next' = next /\ Listed' = Listed BY ReachFrom, ReachFromNext DEF list
<1> QED BY <1>1 DEF KernelInv

(* ... and the polls and the broadcast, but for processes that are no longer  *)
(* waited for.                                                                *)
LEMMA KernelQuiet ==
  ASSUME KernelInv, UNCHANGED <<list, needspoll, poll_requested>>,
         Kept(stack', state', next, Listed),
         asked' \subseteq asked, due' \subseteq due,
         \A p \in asked' \cup due' : state'[p] # "NONE",
         \A f \in Frames(stack) : f.k \in WalkKinds => f \in Frames(stack')
  PROVE  /\ Acyclic(next') /\ Kept(stack', state', next', Listed')
         /\ \A p \in asked' : p \in needspoll' /\ state'[p] # "NONE"
         /\ \A p \in due' : state'[p] # "NONE"
         /\ Reached(Frames(stack'), next', poll_requested', asked', due')
<1>1. Reached(Frames(stack), next, poll_requested, asked, due) /\ poll_requested \in BOOLEAN
  BY DEF KernelInv, TypeOK
<1>2. Reached(Frames(stack'), next, poll_requested, asked', due')
  BY <1>1, SameWalks
<1>3. poll_requested' = poll_requested /\ needspoll' = needspoll OBVIOUS
<1>4. UNCHANGED list OBVIOUS
<1>5. Reached(Frames(stack'), next, poll_requested', asked', due') BY <1>2, <1>3
<1>6. \A p \in asked' : p \in needspoll' /\ state'[p] # "NONE" BY <1>3 DEF KernelInv
<1> QED BY <1>4, <1>5, <1>6, KernelSame

(* What the invariant says of the top of the stack and of the rest.           *)
LEMMA KernelTop ==
  ASSUME KernelInv, stack # <<>>
  PROVE  /\ stack \in Seq(Frame) /\ Tail(stack) \in Seq(Frame)
         /\ Head(stack) = stack[1] /\ stack[1] \in Frame
         /\ Frames(stack) = {stack[1]} \cup Frames(Tail(stack))
         /\ next \in [Process -> Pointer] /\ head \in Pointer
         /\ state \in [Process -> States]
         /\ Listed = Reach(next, head)
         /\ stack[1].k \notin ExitKinds /\ (stack[1].k # "thread" \/ stack[1].by # "call") =>
              Kept(Tail(stack), state, next, Listed)
         /\ stack[1].k \in BottomKinds => Tail(stack) = <<>>
         /\ Tail(stack) # <<>> =>
              /\ Tail(stack)[1].k # "poll"
              /\ Tail(stack)[1].k = "pollnext" =>
                   \/ IsThread(stack[1], Tail(stack)[1].q)
                   \/ IsExit(stack[1], Tail(stack)[1].q)
<1>1. stack \in Seq(Frame) /\ next \in [Process -> Pointer] /\ head \in Pointer
      /\ state \in [Process -> States] /\ Kept(stack, state, next, Listed)
  BY DEF KernelInv, TypeOK, States
<1>2. stack[1].k \notin ExitKinds /\ (stack[1].k # "thread" \/ stack[1].by # "call") =>
        Kept(Tail(stack), state, next, Listed)
  BY <1>1, KeptPop
<1> QED BY <1>1, <1>2, FramesPop, FramedPop, ReachFrom DEF Kept

(* While the main loop walks, nothing runs.                                   *)
LEMMA KernelMain ==
  ASSUME KernelInv, stack # <<>>, stack[1].k \in MainKinds
  PROVE  /\ \A i \in 1..Len(Tail(stack)) : Tail(stack)[i].k \in MainKinds
         /\ \A p \in Process : p \in Listed <=> state[p] = "RUNNING"
<1>1. stack \in Seq(Frame) /\ state \in [Process -> States]
      /\ Kept(stack, state, next, Listed)
  BY DEF KernelInv, TypeOK, States
<1>2. \A i \in 1..Len(Tail(stack)) : Tail(stack)[i].k \in MainKinds
  BY <1>1, FramedPop DEF Kept
<1>3. \A f \in Frames(stack) : f.k \in MainKinds
  <2>1. \A f \in Frames(Tail(stack)) : f.k \in MainKinds BY <1>2 DEF Frames
  <2>2. Frames(stack) = {stack[1]} \cup Frames(Tail(stack)) BY <1>1, FramesPop
  <2> QED BY <2>1, <2>2
<1>4. \A f \in Frames(stack), p \in Process : ~IsExit(f, p) /\ ~IsCall(f, p)
  BY <1>3 DEF IsExit, IsCall, IsThread, ExitKinds, MainKinds
<1>5. \A p \in Process : p \in Listed <=> state[p] # "NONE"
  BY <1>1, <1>4 DEF Kept, OnList
<1>6. \A p \in Process : state[p] # "CALLED"
  BY <1>1, <1>4 DEF Kept, Heard
<1> QED BY <1>1, <1>2, <1>5, <1>6 DEF States

(* main() and the walks of the main loop. *)
LEMMA RunKept ==
  ASSUME KernelInv, process_run
  PROVE  /\ Acyclic(next') /\ Kept(stack', state', next', Listed')
         /\ \A p \in asked' : p \in needspoll' /\ state'[p] # "NONE"
         /\ \A p \in due' : state'[p] # "NONE"
         /\ Reached(Frames(stack'), next', poll_requested', asked', due')
<1> DEFINE t == <<TakeEvent>>
<1>0. /\ stack = <<>> /\ next \in [Process -> Pointer] /\ head \in Pointer
      /\ state \in [Process -> States]
      /\ Listed = Reach(next, head) /\ Kept(<<>>, state, next, Listed)
      /\ asked \subseteq Process
  BY ReachFrom DEF process_run, KernelInv, TypeOK, States
<1>1. TakeEvent \in Frame /\ DoPoll("poll", head) \in Frame
      /\ TakeEvent.k = "take" /\ DoPoll("poll", head).k = "poll" /\ DoPoll("poll", head).q = head
  BY <1>0, FrameMade DEF TakeEvent, DoPoll
<1>2. <<TakeEvent>> \o <<>> = t /\ <<>> \in Seq(Frame) BY <1>1
<1>3. /\ t \in Seq(Frame) /\ Kept(t, state, next, Listed)
      /\ Frames(t) = {TakeEvent} /\ t # <<>> /\ t[1] = TakeEvent
  <2>1. Fits(TakeEvent, <<>>, state)
    BY <1>1 DEF Fits, ExitKinds
  <2>2. TopWalk(TakeEvent, next, Listed) BY <1>1 DEF TopWalk
  <2>3. TakeEvent.k # "thread" /\ TakeEvent.k \notin ExitKinds BY <1>1 DEF ExitKinds
  <2> DEFINE e == <<>>
  <2>e. e \in Seq(Frame) /\ e = <<>> /\ Kept(e, state, next, Listed) /\ Fits(TakeEvent, e, state)
    BY <1>0, <1>2, <2>1
  <2>h. e # <<>> => e[1].k # "poll" /\ (e[1].k = "pollnext" => e[1].q \in Listed)
    BY <2>e
  <2> HIDE DEF t, e
  <2>f. /\ <<TakeEvent>> \o e \in Seq(Frame) /\ Kept(<<TakeEvent>> \o e, state, next, Listed)
        /\ Frames(<<TakeEvent>> \o e) = {TakeEvent} \cup Frames(e)
    <3>1. TakeEvent \in Frame BY <1>1
    <3>2. e \in Seq(Frame) /\ Kept(e, state, next, Listed) /\ Fits(TakeEvent, e, state)
      BY <2>e
    <3> HIDE <2>e
    <3> QED BY <3>1, <3>2, <2>h, <2>2, <2>3, KeptPush
  <2>4. /\ t \in Seq(Frame) /\ Kept(t, state, next, Listed)
        /\ Frames(t) = {TakeEvent} \cup Frames(<<>>)
    BY <1>2, <2>f DEF e
  <2> QED BY <1>1, <2>4, FramesNone DEF t
<1>4. due = {}
  BY <1>0, FramesNone DEF KernelInv, Reached
<1>5. \A p \in asked : p \in Listed
  BY <1>0 DEF KernelInv, Kept, OnList
<1>6. CASE ~poll_requested
  <2>1. stack' = t /\ UNCHANGED <<list, state, polls, history>>
    BY <1>6 DEF process_run, polls, history
  <2>2. Frames(stack) = {} BY <1>0, FramesNone
  <2> HIDE DEF t
  <2> QED BY <1>0, <1>3, <2>1, <2>2, KernelQuiet DEF polls, history, KernelInv
<1>7. CASE poll_requested
  <2> DEFINE f == DoPoll("poll", head)
             u == <<f>> \o t
  <2>1. /\ stack' = u /\ poll_requested' = FALSE
        /\ UNCHANGED <<list, state, needspoll, history>>
    BY <1>7 DEF process_run, Walk
  <2>2. Fits(f, t, state) /\ f.k # "thread" /\ f.k \notin ExitKinds
    <3>1. \A i \in 1..Len(t) : t[i].k \in MainKinds BY <1>1 DEF MainKinds
    <3> HIDE DEF t
    <3> QED BY <1>1, <1>3, <3>1 DEF Fits, ExitKinds, BottomKinds
  <2>3. TopWalk(f, next, Listed) BY <1>0, <1>1, ReachShut DEF TopWalk
  <2> HIDE DEF t, f
  <2>4. u \in Seq(Frame) /\ Kept(u, state, next, Listed) /\ Frames(u) = {f} \cup Frames(t)
    BY <1>1, <1>3, <2>2, <2>3, KeptPush DEF f
  <2>5. \A p \in asked : AheadIn(next, p, f)
    BY <1>0, <1>1, <1>5 DEF AheadIn, f
  <2> HIDE DEF u
  <2>6. Reached(Frames(stack'), next, poll_requested', asked', due')
    BY <1>4, <2>1, <2>4, <2>5 DEF Reached, history
  <2> QED BY <1>4, <2>1, <2>4, <2>6, KernelSame DEF KernelInv, history
<1> QED BY <1>6, <1>7

LEMMA PollWalkKept ==
  ASSUME KernelInv, PollWalk
  PROVE  /\ Acyclic(next') /\ Kept(stack', state', next', Listed')
         /\ \A p \in asked' : p \in needspoll' /\ state'[p] # "NONE"
         /\ \A p \in due' : state'[p] # "NONE"
         /\ Reached(Frames(stack'), next', poll_requested', asked', due')
<1> DEFINE f == Head(stack)
           q == f.q
           r == Tail(stack)
           g == DoPoll("pollnext", q)
           L == Listed
<1>0. stack # <<>> /\ f.k = "poll" BY DEF PollWalk
<1>1. /\ stack[1] = f /\ f \in Frame /\ q \in Pointer /\ r \in Seq(Frame)
      /\ Frames(stack) = {f} \cup Frames(r) /\ Kept(r, state, next, L)
      /\ next \in [Process -> Pointer] /\ L = Reach(next, head) /\ state \in [Process -> States]
      /\ r # <<>> => r[1].k # "poll" /\ r[1].k # "pollnext"
  BY <1>0, KernelTop, FrameFields DEF ExitKinds, IsThread, IsExit
<1>2. /\ \A i \in 1..Len(r) : r[i].k \in MainKinds
      /\ \A p \in Process : p \in L <=> state[p] = "RUNNING"
  BY <1>0, <1>1, KernelMain DEF MainKinds
<1>3. q \in L \cup {Null} BY <1>0, <1>1 DEF KernelInv, Kept, Walking, TopWalk
<1>k. /\ asked \subseteq Process /\ poll_requested \in BOOLEAN
      /\ \A p \in asked : p \in needspoll /\ state[p] # "NONE"
      /\ \A p \in due : state[p] # "NONE"
      /\ Reached({f} \cup Frames(r), next, poll_requested, asked, due)
  BY <1>1 DEF KernelInv, TypeOK
<1>4. UNCHANGED <<list, poll_requested, due>> BY DEF PollWalk
<1>b. ~Brings(next, due, f) BY <1>0 DEF Brings
<1>5. CASE q = Null
  <2>1. stack' = r /\ UNCHANGED <<state, needspoll, asked>>
    BY <1>5, NullAssumption DEF PollWalk, KernelInv, TypeOK
  <2>2. \A p : ~AheadIn(next, p, f) BY <1>0, <1>1, <1>5, ReachStep DEF AheadIn
  <2> HIDE DEF f, r, q
  <2>3. Reached(Frames(r), next, poll_requested, asked, due)
    BY <1>k, <1>b, <2>2 DEF Reached
  <2> HIDE DEF L
  <2>4. Kept(stack', state', next, L) BY <1>1, <2>1
  <2>5. Reached(Frames(stack'), next, poll_requested', asked', due') BY <1>4, <2>1, <2>3
  <2>6. /\ \A p \in asked' : p \in needspoll' /\ state'[p] # "NONE"
        /\ \A p \in due' : state'[p] # "NONE"
    BY <1>k, <1>4, <2>1
  <2> QED BY <1>4, <2>4, <2>5, <2>6, KernelSame DEF L
<1>6. CASE q # Null
  <2> DEFINE on == <<g>> \o r
  <2>1. q \in L /\ q \in Process BY <1>1, <1>3, <1>6 DEF Pointer
  <2>2. g \in Frame /\ g.k = "pollnext" /\ g.q = q BY <2>1, FrameMade DEF DoPoll
  <2>x. Reach(next, q) = {q} \cup Reach(next, next[q]) BY <1>1, <2>1, ReachStep
  <2>a. \A p : AheadIn(next, p, f) /\ p # q => AheadIn(next, p, g)
    BY <1>0, <2>2, <2>x DEF AheadIn
  <2>w. IF q \in needspoll
        THEN /\ needspoll' = needspoll \ {q} /\ asked' = asked \ {q}
             /\ call_process(q, [state EXCEPT ![q] = "RUNNING"], "POLL", on)
        ELSE stack' = on /\ UNCHANGED <<state, needspoll, asked>>
    BY <1>6 DEF PollWalk
  <2> HIDE DEF f, r, q, g, L
  <2>3. /\ on \in Seq(Frame) /\ Kept(on, state, next, L)
        /\ Frames(on) = {g} \cup Frames(r) /\ on # <<>> /\ on[1] = g
    <3>1. Fits(g, r, state)
      BY <1>1, <1>2, <2>2 DEF Fits, MainKinds, BottomKinds, ExitKinds
    <3>2. g.k # "thread" /\ g.k \notin ExitKinds /\ TopWalk(g, next, L)
      BY <2>1, <2>2 DEF ExitKinds, TopWalk
    <3> QED BY <1>1, <2>2, <3>1, <3>2, KeptPush, FramesPush
  <2> HIDE DEF on
  <2>4. CASE q \in needspoll
    <3>1. needspoll' = needspoll \ {q} /\ asked' = asked \ {q} BY <2>w, <2>4
    <3>2. [state EXCEPT ![q] = "RUNNING"] = state
      <4>1. state[q] = "RUNNING" BY <1>2, <2>1
      <4> QED BY <1>1, <4>1
    <3>3. call_process(q, state, "POLL", on) BY <2>w, <2>4, <3>2
    <3>4. /\ Kept(stack', state', next, L) /\ Frames(on) \subseteq Frames(stack')
          /\ \A p \in Process : state'[p] = "NONE" <=> state[p] = "NONE"
      <4>1. on # <<>> => on[1].k # "poll" /\ (on[1].k = "pollnext" => on[1].q = q)
        BY <2>2, <2>3
      <4>2. TypeOK /\ "POLL" \in Event BY DEF KernelInv, Event
      <4> QED BY <2>1, <2>3, <3>3, <4>1, <4>2, KeptCall
    <3>5. Reached(Frames(stack'), next, poll_requested', asked', due')
      <4>1. Reached(Frames(on), next, poll_requested, asked \ {q}, due)
        BY <1>k, <1>b, <2>a, <2>3 DEF Reached
      <4> QED BY <1>4, <1>k, <3>1, <3>4, <4>1, SameWalks
    <3>6. /\ \A p \in asked' : p \in needspoll' /\ state'[p] # "NONE"
          /\ \A p \in due' : state'[p] # "NONE"
      <4>1. due \subseteq Process BY DEF KernelInv, TypeOK
      <4> QED BY <1>k, <1>4, <3>1, <3>4, <4>1
    <3> QED BY <1>4, <3>4, <3>5, <3>6, KernelSame DEF L
  <2>5. CASE q \notin needspoll
    <3>1. stack' = on /\ UNCHANGED <<state, needspoll, asked>> BY <2>w, <2>5
    <3>2. Reached(Frames(on), next, poll_requested, asked, due)
      BY <1>k, <1>b, <2>a, <2>3, <2>5 DEF Reached
    <3>3. Reached(Frames(stack'), next, poll_requested', asked', due') BY <1>4, <3>1, <3>2
    <3>4. Kept(stack', state', next, L) BY <2>3, <3>1
    <3>5. /\ \A p \in asked' : p \in needspoll' /\ state'[p] # "NONE"
          /\ \A p \in due' : state'[p] # "NONE"
      BY <1>k, <1>4, <3>1
    <3> QED BY <1>4, <3>3, <3>4, <3>5, KernelSame DEF L
  <2> QED BY <2>4, <2>5
<1> QED BY <1>5, <1>6

LEMMA PollWalkOnKept ==
  ASSUME KernelInv, PollWalkOn
  PROVE  /\ Acyclic(next') /\ Kept(stack', state', next', Listed')
         /\ \A p \in asked' : p \in needspoll' /\ state'[p] # "NONE"
         /\ \A p \in due' : state'[p] # "NONE"
         /\ Reached(Frames(stack'), next', poll_requested', asked', due')
<1> DEFINE f == Head(stack)
           q == next[f.q]
           r == Tail(stack)
           g == DoPoll("poll", q)
           L == Listed
<1>0. stack # <<>> /\ f.k = "pollnext" BY DEF PollWalkOn
<1>1. /\ stack[1] = f /\ f \in Frame /\ f.q \in Process /\ r \in Seq(Frame)
      /\ Frames(stack) = {f} \cup Frames(r) /\ Kept(r, state, next, L)
      /\ next \in [Process -> Pointer] /\ L = Reach(next, head) /\ head \in Pointer
      /\ r # <<>> => r[1].k # "poll" /\ r[1].k # "pollnext"
  BY <1>0, KernelTop, FrameFields DEF ExitKinds, IsThread, IsExit
<1>2. \A i \in 1..Len(r) : r[i].k \in MainKinds
  BY <1>0, <1>1, KernelMain DEF MainKinds
<1>3. q \in L \cup {Null} /\ q \in Pointer
  <2>1. f.q \in L => next[f.q] \in L \cup {Null} BY <1>1, ReachShut DEF Shut
  <2> QED BY <1>0, <1>1, <2>1 DEF KernelInv, Kept, Walking, TopWalk
<1>k. /\ poll_requested \in BOOLEAN
      /\ \A p \in asked : p \in needspoll /\ state[p] # "NONE"
      /\ \A p \in due : state[p] # "NONE"
      /\ Reached({f} \cup Frames(r), next, poll_requested, asked, due)
  BY <1>1 DEF KernelInv, TypeOK
<1>4. UNCHANGED <<list, state, needspoll, poll_requested, asked, due>> /\ stack' = <<g>> \o r
  BY DEF PollWalkOn, polls
<1>5. g \in Frame /\ g.k = "poll" /\ g.q = q BY <1>3, FrameMade DEF DoPoll
<1>a. \A p : AheadIn(next, p, f) => AheadIn(next, p, g)
  BY <1>0, <1>5 DEF AheadIn
<1>b. ~Brings(next, due, f) BY <1>0 DEF Brings
<1> HIDE DEF f, q, r, g, L
<1>6. Kept(stack', state', next, L) /\ Frames(stack') = {g} \cup Frames(r)
  <2>1. Fits(g, r, state)
    BY <1>1, <1>2, <1>5 DEF Fits, MainKinds, BottomKinds, ExitKinds
  <2>2. g.k # "thread" /\ g.k \notin ExitKinds /\ TopWalk(g, next, L)
    BY <1>3, <1>5 DEF ExitKinds, TopWalk
  <2>3. /\ Kept(<<g>> \o r, state, next, L) /\ Frames(<<g>> \o r) = {g} \cup Frames(r)
    BY <1>1, <1>5, <2>1, <2>2, KeptPush
  <2> QED BY <1>4, <2>3
<1>7. Reached(Frames(stack'), next, poll_requested', asked', due')
  <2>1. Reached({g} \cup Frames(r), next, poll_requested, asked, due)
    BY <1>k, <1>a, <1>b DEF Reached
  <2> QED BY <1>4, <1>6, <2>1
<1>8. /\ \A p \in asked' : p \in needspoll' /\ state'[p] # "NONE"
      /\ \A p \in due' : state'[p] # "NONE"
  BY <1>k, <1>4
<1> QED BY <1>4, <1>6, <1>7, <1>8, KernelSame DEF L

(* No event that waits is an INIT event: that one is never queued.            *)
NoInit == \A i \in 1..nevents : events[(fevent + i - 1) % Capacity].ev # "INIT"

LEMMA EventKept ==
  ASSUME KernelInv, NoInit, NoEvent \/ EventForOne \/ EventForAll
  PROVE  /\ Acyclic(next') /\ Kept(stack', state', next', Listed')
         /\ \A p \in asked' : p \in needspoll' /\ state'[p] # "NONE"
         /\ \A p \in due' : state'[p] # "NONE"
         /\ Reached(Frames(stack'), next', poll_requested', asked', due')
<1> DEFINE f == Head(stack)
           r == Tail(stack)
           L == Listed
<1>0. stack # <<>> /\ f.k = "take" BY DEF NoEvent, EventForOne, EventForAll
<1>1. /\ stack[1] = f /\ f \in Frame /\ r = <<>> /\ r \in Seq(Frame)
      /\ Frames(stack) = {f} \cup Frames(r) /\ Kept(r, state, next, L)
      /\ next \in [Process -> Pointer] /\ L = Reach(next, head) /\ head \in Pointer
      /\ Frames(r) = {} /\ state \in [Process -> States]
  BY <1>0, KernelTop, FramesNone DEF ExitKinds, BottomKinds
<1>e. Len(r) = 0
  <2>1. Len(<<>>) = 0 OBVIOUS
  <2> HIDE DEF r
  <2> QED BY <1>1, <2>1
<1>2. UNCHANGED <<list, needspoll, poll_requested, asked>>
  BY DEF NoEvent, EventForOne, EventForAll, polls
<1>k. /\ poll_requested \in BOOLEAN /\ due \subseteq Process /\ asked \subseteq Process
      /\ \A p \in asked : p \in needspoll /\ state[p] # "NONE"
      /\ \A p \in due : state[p] # "NONE"
  BY <1>1 DEF KernelInv, TypeOK
<1>w. \A h \in Frames(stack) : h.k \in WalkKinds => h \in Frames(stack')
  BY <1>0, <1>1 DEF WalkKinds
<1>3. CASE NoEvent
  <2>1. stack' = r /\ UNCHANGED <<state, due>> BY <1>3 DEF NoEvent
  <2> HIDE DEF r, L
  <2>2. Kept(stack', state', next, L) BY <1>1, <2>1
  <2>3. asked' \subseteq asked /\ due' \subseteq due BY <1>2, <2>1
  <2>4. \A p \in asked' \cup due' : state'[p] # "NONE" BY <1>k, <1>2, <2>1
  <2> QED BY <1>2, <1>w, <2>2, <2>3, <2>4, KernelQuiet DEF L
<1>4. CASE EventForOne
  <2> DEFINE e == events[fevent]
  <2>1. e.p \in Process /\ e.ev \in Event /\ nevents > 0
    BY <1>4 DEF EventForOne, KernelInv, TypeOK, Item, Pointer, Broadcast
  <2>2. e.ev # "INIT"
    <3>1. Capacity \in 1..128 /\ fevent \in 0..Capacity - 1 /\ nevents \in 0..Capacity
      BY CapacityAssumption DEF KernelInv, TypeOK
    <3>2. 1 \in 1..nevents BY <2>1, <3>1
    <3>3. fevent + 1 - 1 = fevent /\ fevent % Capacity = fevent BY <3>1
    <3>4. events[(fevent + 1 - 1) % Capacity].ev # "INIT" BY <3>2 DEF NoInit
    <3> QED BY <3>3, <3>4
  <2>3. call_process(e.p, state, e.ev, r) /\ due' = due BY <1>4, <2>2 DEF EventForOne
  <2> HIDE DEF e
  <2>4. /\ Kept(stack', state', next, L)
        /\ \A p \in Process : state'[p] = "NONE" <=> state[p] = "NONE"
    <3>1. r # <<>> => r[1].k # "poll" /\ (r[1].k = "pollnext" => r[1].q = e.p) BY <1>1
    <3>2. TypeOK /\ r \in Seq(Frame) /\ Kept(r, state, next, L) BY <1>1 DEF KernelInv
    <3> HIDE DEF r, L
    <3> QED BY <2>1, <2>3, <3>1, <3>2, KeptCall
  <2>5. asked' \subseteq asked /\ due' \subseteq due BY <1>2, <2>3
  <2>6. \A p \in asked' \cup due' : state'[p] # "NONE" BY <1>k, <1>2, <2>3, <2>4
  <2> QED BY <1>2, <1>w, <2>4, <2>5, <2>6, KernelQuiet
<1>5. CASE EventForAll
  <2> DEFINE g == DoEvent("bcast", head, events[fevent].ev)
  <2>1. stack' = <<g>> \o r /\ due' = L /\ state' = state BY <1>5 DEF EventForAll
  <2>2. g \in Frame /\ g.k = "bcast" /\ g.q = head
    <3>1. events[fevent] \in Item BY <1>5 DEF EventForAll, KernelInv, TypeOK
    <3>2. events[fevent].ev \in Event BY <3>1 DEF Item
    <3> QED BY <1>1, <3>2, FrameMade DEF DoEvent
  <2>3. \A p \in L : state[p] # "NONE"
    <3>1. L \subseteq Process /\ OnList(Frames(r), state, L)
      BY <1>1, WalkType DEF Kept, KernelInv
    <3> QED BY <1>1, <3>1 DEF OnList
  <2> HIDE DEF g
  <2>4. Kept(stack', state, next, L) /\ Frames(stack') = {g} \cup Frames(r)
    <3>1. Fits(g, r, state) /\ r \in Seq(Frame) /\ Kept(r, state, next, L)
      <4> HIDE DEF r, L
      <4> QED BY <1>1, <1>e, <2>2 DEF Fits, MainKinds, BottomKinds, ExitKinds
    <3>2. g.k # "thread" /\ g.k \notin ExitKinds /\ TopWalk(g, next, L)
      BY <2>2 DEF ExitKinds, TopWalk
    <3>3. r # <<>> => r[1].k # "poll" /\ (r[1].k = "pollnext" => r[1].q \in L) BY <1>1
    <3> HIDE DEF r, L
    <3>4. Kept(<<g>> \o r, state, next, L) /\ Frames(<<g>> \o r) = {g} \cup Frames(r)
      BY <2>2, <3>1, <3>2, <3>3, KeptPush
    <3> QED BY <2>1, <3>4
  <2>5. Reached(Frames(stack'), next, poll_requested', asked', due')
    <3>1. Brings(next, L, g) BY <1>1, <2>2 DEF Brings
    <3>2. \A p \in asked : poll_requested
      <4>1. \A p : ~AheadIn(next, p, f) BY <1>0 DEF AheadIn
      <4>2. Frames(stack) = {f} BY <1>1
      <4> HIDE DEF f
      <4> QED BY <4>1, <4>2 DEF KernelInv, Reached
    <3> QED BY <1>2, <2>1, <2>4, <3>1, <3>2 DEF Reached
  <2>6. /\ \A p \in asked' : p \in needspoll' /\ state'[p] # "NONE"
        /\ \A p \in due' : state'[p] # "NONE"
    BY <1>k, <1>2, <2>1, <2>3
  <2>7. Kept(stack', state', next, L) BY <2>1, <2>4
  <2> QED BY <1>2, <2>5, <2>6, <2>7, KernelSame
<1> QED BY <1>3, <1>4, <1>5

LEMMA BroadcastKept ==
  ASSUME KernelInv, BroadcastPoll \/ BroadcastCall \/ BroadcastOn
  PROVE  /\ Acyclic(next') /\ Kept(stack', state', next', Listed')
         /\ \A p \in asked' : p \in needspoll' /\ state'[p] # "NONE"
         /\ \A p \in due' : state'[p] # "NONE"
         /\ Reached(Frames(stack'), next', poll_requested', asked', due')
<1> DEFINE f == Head(stack)
           r == Tail(stack)
           L == Listed
<1>0. stack # <<>> /\ f.k \in {"bcast", "bcall", "bnext"}
  BY DEF BroadcastPoll, BroadcastCall, BroadcastOn
<1>1. /\ stack[1] = f /\ f \in Frame /\ r = <<>> /\ r \in Seq(Frame)
      /\ Frames(stack) = {f} /\ Kept(r, state, next, L)
      /\ next \in [Process -> Pointer] /\ L = Reach(next, head) /\ head \in Pointer
      /\ Frames(r) = {}
  BY <1>0, KernelTop, FramesNone DEF ExitKinds, BottomKinds
<1>e. Len(r) = 0
  <2>1. Len(<<>>) = 0 OBVIOUS
  <2> HIDE DEF r
  <2> QED BY <1>1, <2>1
<1>2. f.q \in Pointer BY <1>0, <1>1, FrameFields DEF Pointer
<1>3. UNCHANGED <<list, needspoll, asked>>
  BY DEF BroadcastPoll, BroadcastCall, BroadcastOn, polls, history
<1>k. /\ poll_requested \in BOOLEAN /\ due \subseteq Process /\ asked \subseteq Process
      /\ \A p \in asked : p \in needspoll /\ state[p] # "NONE"
      /\ \A p \in due : state[p] # "NONE"
  BY <1>1 DEF KernelInv, TypeOK
<1>a. \A p \in asked : poll_requested
  <2>1. \A p : ~AheadIn(next, p, f) BY <1>0 DEF AheadIn
  <2> HIDE DEF f
  <2> QED BY <1>1, <2>1 DEF KernelInv, Reached
<1>b. due = {} \/ Brings(next, due, f)
  <2> HIDE DEF f
  <2> QED BY <1>1 DEF KernelInv, Reached
<1>p. ASSUME NEW g \in Frame, g.k \in {"bcast", "bcall", "bnext"}
      PROVE  /\ <<g>> \o r \in Seq(Frame) /\ Kept(<<g>> \o r, state, next, L)
             /\ Frames(<<g>> \o r) = {g} /\ <<g>> \o r # <<>>
             /\ (<<g>> \o r)[1] = g /\ Tail(<<g>> \o r) = r
  <2>1. Fits(g, r, state) /\ r \in Seq(Frame) /\ Kept(r, state, next, L) /\ Frames(r) = {}
    <3> HIDE DEF r, L
    <3> QED BY <1>1, <1>e, <1>p DEF Fits, MainKinds, BottomKinds, ExitKinds
  <2>2. g.k # "thread" /\ g.k \notin ExitKinds /\ TopWalk(g, next, L)
    BY <1>p DEF ExitKinds, TopWalk
  <2>3. r # <<>> => r[1].k # "poll" /\ (r[1].k = "pollnext" => r[1].q \in L) BY <1>1
  <2> HIDE DEF r, L
  <2>4. /\ <<g>> \o r \in Seq(Frame) /\ Kept(<<g>> \o r, state, next, L)
        /\ Frames(<<g>> \o r) = {g} \cup Frames(r)
    BY <2>1, <2>2, <2>3, KeptPush
  <2> QED BY <2>1, <2>4, FramesPush
<1>4. CASE BroadcastPoll
  <2> DEFINE g == [f EXCEPT !.k = "bcall"]
             h == DoPoll("poll", head)
             t == <<g>> \o r
  <2>1. f.k = "bcast" /\ f.q # Null BY <1>4 DEF BroadcastPoll
  <2>2. f.q \in Process BY <1>2, <2>1 DEF Pointer
  <2>3. g \in Frame /\ g.k = "bcall" /\ g.q = f.q
    BY <1>1, <2>1, <2>2, FrameChanged DEF Frame, TakeEvent
  <2>4. h \in Frame /\ h.k = "poll" /\ h.q = head BY <1>1, FrameMade DEF DoPoll
  <2>5. /\ stack' = <<h>> \o t /\ poll_requested' = FALSE /\ UNCHANGED <<state, due>>
    BY <1>4 DEF BroadcastPoll, Walk, history
  <2>6. /\ t \in Seq(Frame) /\ Kept(t, state, next, L) /\ Frames(t) = {g}
        /\ t # <<>> /\ t[1] = g /\ Tail(t) = r
    BY <1>p, <2>3
  <2>7. \A i \in 1..Len(t) : t[i].k \in MainKinds
    <3>1. \A x \in Frames(t) : x.k \in MainKinds BY <2>3, <2>6 DEF MainKinds
    <3> QED BY <3>1 DEF Frames
  <2>8. Brings(next, due, f) => Brings(next, due, g) BY <2>1, <2>3 DEF Brings
  <2> HIDE DEF f, g, h, r, t, L
  <2>9. Kept(stack', state, next, L) /\ Frames(stack') = {h, g}
    <3>1. Fits(h, t, state)
      BY <2>3, <2>4, <2>6, <2>7 DEF Fits, MainKinds, BottomKinds, ExitKinds
    <3>2. h.k # "thread" /\ h.k \notin ExitKinds /\ TopWalk(h, next, L)
      BY <1>1, <2>4, ReachShut DEF ExitKinds, TopWalk
    <3>3. Kept(<<h>> \o t, state, next, L) /\ Frames(<<h>> \o t) = {h} \cup Frames(t)
      BY <2>3, <2>4, <2>6, <3>1, <3>2, KeptPush
    <3> QED BY <2>5, <2>6, <3>3
  <2>10. \A p \in asked : AheadIn(next, p, h)
    <3>1. Kept(r, state, next, L) /\ Frames(r) = {} BY <1>1
    <3>2. \A p \in asked : p \in L BY <1>k, <3>1 DEF Kept, OnList
    <3> QED BY <1>1, <2>4, <3>2 DEF AheadIn
  <2>11. Reached(Frames(stack'), next, poll_requested', asked', due')
    BY <1>3, <1>b, <2>5, <2>8, <2>9, <2>10 DEF Reached
  <2>12. /\ \A p \in asked' : p \in needspoll' /\ state'[p] # "NONE"
         /\ \A p \in due' : state'[p] # "NONE"
    BY <1>k, <1>3, <2>5
  <2>13. Kept(stack', state', next, L) BY <2>5, <2>9
  <2> QED BY <1>3, <2>11, <2>12, <2>13, KernelSame DEF L
<1>5. CASE BroadcastCall
  <2> DEFINE g == [f EXCEPT !.k = "bnext"]
             t == <<g>> \o r
  <2>1. f.k \in {"bcast", "bcall"} /\ f.q # Null BY <1>5 DEF BroadcastCall
  <2>2. f.q \in Process /\ f.ev \in Event BY <1>1, <1>2, <2>1, FrameFields DEF Pointer
  <2>3. g \in Frame /\ g.k = "bnext" /\ g.q = f.q
    BY <1>1, <2>1, <2>2, FrameChanged DEF Frame, TakeEvent
  <2>4. /\ call_process(f.q, state, f.ev, t) /\ due' = due \ {f.q}
        /\ poll_requested' = poll_requested
    BY <1>5 DEF BroadcastCall, polls
  <2>5. /\ t \in Seq(Frame) /\ Kept(t, state, next, L) /\ Frames(t) = {g}
        /\ t # <<>> /\ t[1] = g
    BY <1>p, <2>3
  <2>x. Reach(next, f.q) = {f.q} \cup Reach(next, next[f.q]) BY <1>1, <2>2, ReachStep
  <2>6. Brings(next, due, f) => Brings(next, due', g)
    BY <2>1, <2>3, <2>4, <2>x DEF Brings
  <2> HIDE DEF f, g, r, t, L
  <2>7. /\ Kept(stack', state', next, L) /\ Frames(t) \subseteq Frames(stack')
        /\ \A p \in Process : state'[p] = "NONE" <=> state[p] = "NONE"
    <3>1. t # <<>> => t[1].k # "poll" /\ (t[1].k = "pollnext" => t[1].q = f.q)
      BY <2>3, <2>5
    <3>2. TypeOK BY DEF KernelInv
    <3> QED BY <2>2, <2>4, <2>5, <3>1, <3>2, KeptCall
  <2>8. Reached(Frames(stack'), next, poll_requested', asked', due')
    BY <1>3, <1>a, <1>b, <2>4, <2>5, <2>6, <2>7 DEF Reached
  <2>9. /\ \A p \in asked' : p \in needspoll' /\ state'[p] # "NONE"
        /\ \A p \in due' : state'[p] # "NONE"
    BY <1>k, <1>3, <2>4, <2>7
  <2> QED BY <1>3, <2>7, <2>8, <2>9, KernelSame DEF L
<1>6. CASE BroadcastOn /\ f.k = "bnext"
  <2> DEFINE q == next[f.q]
             g == [f EXCEPT !.k = "bcast", !.q = q]
             t == <<g>> \o r
  <2>1. f.q \in Process BY <1>1, <1>6, FrameFields
  <2>2. q \in Pointer BY <1>1, <2>1
  <2>3. g \in Frame /\ g.k = "bcast" /\ g.q = q
    <3>1. f \in [k : {"bcall", "bnext"}, q : Process, ev : Event]
      BY <1>1, <1>6 DEF Frame, TakeEvent
    <3>2. \A h \in [k : {"bcall", "bnext"}, q : Process, ev : Event], x \in Pointer :
            /\ [h EXCEPT !.k = "bcast", !.q = x].k = "bcast"
            /\ [h EXCEPT !.k = "bcast", !.q = x].q = x
      OBVIOUS
    <3> QED BY <1>1, <1>6, <2>2, <3>1, <3>2, FrameChanged
  <2>4. stack' = t /\ UNCHANGED <<state, poll_requested, due>>
    BY <1>6 DEF BroadcastOn, polls
  <2>5. Kept(t, state, next, L) /\ Frames(t) = {g} BY <1>p, <2>3
  <2>6. Brings(next, due, f) => Brings(next, due, g) BY <1>6, <2>3 DEF Brings
  <2> HIDE DEF f, g, r, t, L, q
  <2>7. Reached(Frames(stack'), next, poll_requested', asked', due')
    BY <1>3, <1>a, <1>b, <2>4, <2>5, <2>6 DEF Reached
  <2>8. /\ \A p \in asked' : p \in needspoll' /\ state'[p] # "NONE"
        /\ \A p \in due' : state'[p] # "NONE"
    BY <1>k, <1>3, <2>4
  <2>9. Kept(stack', state', next, L) BY <2>4, <2>5
  <2> QED BY <1>3, <2>7, <2>8, <2>9, KernelSame DEF L
<1>7. CASE BroadcastOn /\ f.k # "bnext"
  <2>1. stack' = r /\ f.k = "bcast" /\ f.q = Null /\ UNCHANGED <<state, poll_requested, due>>
    BY <1>7 DEF BroadcastOn, polls
  <2>2. due = {} BY <1>1, <1>b, <2>1, ReachStep DEF Brings
  <2> HIDE DEF f, r, L
  <2>3. Reached(Frames(stack'), next, poll_requested', asked', due')
    BY <1>3, <1>a, <2>1, <2>2 DEF Reached
  <2>4. /\ \A p \in asked' : p \in needspoll' /\ state'[p] # "NONE"
        /\ \A p \in due' : state'[p] # "NONE"
    BY <1>k, <1>3, <2>1
  <2>5. Kept(stack', state', next, L) BY <1>1, <2>1
  <2> QED BY <1>3, <2>3, <2>4, <2>5, KernelSame DEF L
<1> QED BY <1>4, <1>5, <1>6, <1>7

LEMMA ExitKept ==
  ASSUME KernelInv, ExitWalk \/ ExitWalkOn \/ ExitTold
  PROVE  /\ Acyclic(next') /\ Kept(stack', state', next', Listed')
         /\ \A p \in asked' : p \in needspoll' /\ state'[p] # "NONE"
         /\ \A p \in due' : state'[p] # "NONE"
         /\ Reached(Frames(stack'), next', poll_requested', asked', due')
<1> DEFINE f == Head(stack)
           r == Tail(stack)
           L == Listed
<1>0. stack # <<>> /\ f.k \in {"exit", "exitnext"} BY DEF ExitWalk, ExitWalkOn, ExitTold
<1>1. /\ stack \in Seq(Frame) /\ stack[1] = f /\ f \in Frame
      /\ f.p \in Process /\ f.q \in Pointer /\ r \in Seq(Frame)
      /\ Frames(stack) = {f} \cup Frames(r) /\ Kept(stack, state, next, L)
      /\ next \in [Process -> Pointer] /\ state \in [Process -> States]
  BY <1>0, KernelTop, FrameFields DEF KernelInv
<1>2. UNCHANGED <<list, needspoll, poll_requested, asked, due>>
  BY DEF ExitWalk, ExitWalkOn, ExitTold, polls
<1>3. /\ asked \subseteq Process /\ due \subseteq Process
      /\ \A p \in asked \cup due : state[p] # "NONE"
  BY DEF KernelInv, TypeOK
<1>4. f.k \in ExitKinds /\ f.k \notin WalkKinds BY <1>0 DEF ExitKinds, WalkKinds
<1>5. ASSUME NEW g \in Frame, g.k \in ExitKinds, g.p = f.p
      PROVE  /\ <<g>> \o r \in Seq(Frame) /\ Kept(<<g>> \o r, state, next, L)
             /\ Frames(<<g>> \o r) = {g} \cup Frames(r)
             /\ <<g>> \o r # <<>> /\ (<<g>> \o r)[1] = g
  <2>1. /\ <<g>> \o r \in Seq(Frame) /\ Kept(<<g>> \o r, state, next, L)
        /\ Frames(<<g>> \o r) = {g} \cup Frames(r)
    BY <1>0, <1>1, <1>4, <1>5, KeptExit
  <2> QED BY <1>1, <1>5, <2>1, FramesPush
<1>6. ASSUME Kept(stack', state', next, L), Frames(r) \subseteq Frames(stack'),
             \A p \in Process : state'[p] = "NONE" <=> state[p] = "NONE"
      PROVE  /\ Acyclic(next') /\ Kept(stack', state', next', Listed')
             /\ \A p \in asked' : p \in needspoll' /\ state'[p] # "NONE"
             /\ \A p \in due' : state'[p] # "NONE"
             /\ Reached(Frames(stack'), next', poll_requested', asked', due')
  <2>1. \A h \in Frames(stack) : h.k \in WalkKinds => h \in Frames(stack')
    BY <1>1, <1>4, <1>6
  <2>2. asked' \subseteq asked /\ due' \subseteq due BY <1>2
  <2>3. \A p \in asked' \cup due' : state'[p] # "NONE" BY <1>2, <1>3, <1>6
  <2> QED BY <1>2, <1>6, <2>1, <2>2, <2>3, KernelQuiet
<1>7. CASE ExitWalk
  <2>1. f.k = "exit" /\ f.q \in Process BY <1>1, <1>7 DEF ExitWalk, Pointer
  <2>2. CASE f.q = f.p
    <3> DEFINE q == next[f.q]
               g == [f EXCEPT !.q = q]
    <3>1. q \in Pointer BY <1>1, <2>1
    <3>2. g \in Frame /\ g.k = "exit" /\ g.p = f.p
      BY <1>1, <2>1, <3>1, FrameChanged DEF Frame, TakeEvent
    <3>3. stack' = <<g>> \o r /\ state' = state BY <1>7, <2>2 DEF ExitWalk
    <3>4. g.k \in ExitKinds BY <3>2 DEF ExitKinds
    <3> HIDE DEF f, r, g, q, L
    <3>5. Kept(stack', state', next, L) /\ Frames(r) \subseteq Frames(stack')
      BY <1>5, <3>2, <3>3, <3>4
    <3>6. \A p \in Process : state'[p] = "NONE" <=> state[p] = "NONE" BY <3>3
    <3> QED BY <1>6, <3>5, <3>6
  <2>3. CASE f.q # f.p
    <3> DEFINE g == [f EXCEPT !.k = "exitnext"]
               t == <<g>> \o r
    <3>1. g \in Frame /\ g.k = "exitnext" /\ g.p = f.p
      BY <1>1, <2>1, FrameChanged DEF Frame, TakeEvent
    <3>2. call_process(f.q, state, "EXITED", t) BY <1>7, <2>3 DEF ExitWalk
    <3>3. g.k \in ExitKinds BY <3>1 DEF ExitKinds
    <3> HIDE DEF f, r, g, L
    <3>4. /\ t \in Seq(Frame) /\ Kept(t, state, next, L)
          /\ Frames(t) = {g} \cup Frames(r) /\ t # <<>> /\ t[1] = g
      BY <1>5, <3>1, <3>3
    <3> HIDE DEF t
    <3>5. t # <<>> => t[1].k # "poll" /\ (t[1].k = "pollnext" => t[1].q = f.q)
      BY <3>1, <3>4
    <3>6. TypeOK /\ "EXITED" \in Event BY DEF KernelInv, Event
    <3>7. /\ Kept(stack', state', next, L) /\ Frames(t) \subseteq Frames(stack')
          /\ \A p \in Process : state'[p] = "NONE" <=> state[p] = "NONE"
      BY <2>1, <3>2, <3>4, <3>5, <3>6, KeptCall
    <3> QED BY <1>6, <3>4, <3>7
  <2> QED BY <2>2, <2>3
<1>8. CASE ExitWalkOn
  <2> DEFINE q == next[f.q]
             g == [f EXCEPT !.k = "exit", !.q = q]
  <2>1. f.k = "exitnext" BY <1>8 DEF ExitWalkOn
  <2>2. q \in Pointer BY <1>1, <2>1, FrameFields
  <2>3. g \in Frame /\ g.k = "exit" /\ g.p = f.p
    <3>1. f \in [k : {"exitnext"}, p : Process, q : Process, from : Pointer, old : Pointer]
      BY <1>1, <2>1 DEF Frame, TakeEvent
    <3>2. \A h \in [k : {"exitnext"}, p : Process, q : Process, from : Pointer, old : Pointer],
             x \in Pointer :
            /\ [h EXCEPT !.k = "exit", !.q = x].k = "exit"
            /\ [h EXCEPT !.k = "exit", !.q = x].p = h.p
      OBVIOUS
    <3> QED BY <1>1, <2>1, <2>2, <3>1, <3>2, FrameChanged
  <2>4. stack' = <<g>> \o r /\ state' = state BY <1>8 DEF ExitWalkOn
  <2>5. g.k \in ExitKinds BY <2>3 DEF ExitKinds
  <2> HIDE DEF f, r, g, q, L
  <2>6. Kept(stack', state', next, L) /\ Frames(r) \subseteq Frames(stack')
    BY <1>5, <2>3, <2>4, <2>5
  <2>7. \A p \in Process : state'[p] = "NONE" <=> state[p] = "NONE" BY <2>4
  <2> QED BY <1>6, <2>6, <2>7
<1>9. CASE ExitTold
  <2> DEFINE g == [f EXCEPT !.k = "unlink"]
             t == <<g>> \o r
  <2>1. f.k = "exit" BY <1>9 DEF ExitTold
  <2>2. g \in Frame /\ g.k = "unlink" /\ g.p = f.p
    BY <1>1, <2>1, FrameChanged DEF Frame, TakeEvent
  <2>3. /\ stack' = IF f.p # f.from THEN <<Thread(f.p, "EXIT", "exit")>> \o t ELSE t
        /\ state' = state
    BY <1>9 DEF ExitTold
  <2>4. g.k \in ExitKinds BY <2>2 DEF ExitKinds
  <2> HIDE DEF f, r, g, L
  <2>5. /\ t \in Seq(Frame) /\ Kept(t, state, next, L)
        /\ Frames(t) = {g} \cup Frames(r) /\ t # <<>> /\ t[1] = g
    BY <1>5, <2>2, <2>4
  <2>n. NoThread(t, f.p)
    <3>1. Framed(r, state) /\ NoExit(r, f.p) /\ state[f.p] = "NONE"
      BY <1>0, <1>1, <1>4, FramedPop DEF Kept, IsExit, r
    <3>2. NoThread(r, f.p) BY <1>1, <3>1, Unframed
    <3>3. ~IsThread(g, f.p) BY <2>2 DEF IsThread
    <3> QED BY <1>1, <2>5, <3>2, <3>3, FramesOf
  <2> HIDE DEF t
  <2>6. Kept(<<Thread(f.p, "EXIT", "exit")>> \o t, state, next, L)
        /\ Frames(t) \subseteq Frames(<<Thread(f.p, "EXIT", "exit")>> \o t)
    BY <2>2, <2>5, <2>n, KeptExitThread
  <2>7. Kept(stack', state', next, L) /\ Frames(r) \subseteq Frames(stack')
    BY <2>3, <2>5, <2>6
  <2>8. \A p \in Process : state'[p] = "NONE" <=> state[p] = "NONE" BY <2>3
  <2> QED BY <1>6, <2>7, <2>8
<1> QED BY <1>7, <1>8, <1>9

(* exit_process, of a process that is called no longer. *)
LEMMA LeaveKept ==
  ASSUME KernelInv, NEW s \in Seq(Frame), NEW st \in [Process -> States],
         Kept(s, st, next, Listed), NEW p \in Process, NEW from \in Pointer,
         p \in Listed, state[p] # "NONE", st[p] = "RUNNING",
         \A q \in Process : q # p => st[q] = state[q],
         s # <<>> => s[1].k # "poll" /\ (s[1].k = "pollnext" => s[1].q = p),
         \A f \in Frames(stack) : f.k \in WalkKinds => f \in Frames(s),
         exit_process(p, from, s), UNCHANGED <<needspoll, poll_requested>>
  PROVE  /\ Acyclic(next') /\ Kept(stack', state', next', Listed')
         /\ \A q \in asked' : q \in needspoll' /\ state'[q] # "NONE"
         /\ \A q \in due' : state'[q] # "NONE"
         /\ Reached(Frames(stack'), next', poll_requested', asked', due')
<1> DEFINE f == Exit("exit", p, head, from, process_current)
<1>1. /\ state' = [state EXCEPT ![p] = "NONE"] /\ stack' = <<f>> \o s
      /\ asked' = asked \ {p} /\ due' = due \ {p} /\ UNCHANGED list
  BY DEF exit_process
<1>2. f \in Frame /\ f.k = "exit" /\ f.p = p
  BY FrameMade DEF KernelInv, TypeOK, Exit
<1> HIDE DEF f
<1>3. Kept(<<f>> \o s, [st EXCEPT ![p] = "NONE"], next, Listed)
      /\ Frames(<<f>> \o s) = {f} \cup Frames(s)
  <2>1. Kept(<<f>> \o s, [st EXCEPT ![p] = "NONE"], next, Listed) BY <1>2, KeptLeave
  <2>2. Frames(<<f>> \o s) = {f} \cup Frames(s) BY <1>2, FramesPush
  <2> QED BY <2>1, <2>2
<1>4. [st EXCEPT ![p] = "NONE"] = [state EXCEPT ![p] = "NONE"]
  BY DEF KernelInv, TypeOK, States
<1>5. Kept(stack', state', next, Listed) BY <1>1, <1>3, <1>4
<1>6. asked' \subseteq asked /\ due' \subseteq due BY <1>1
<1>7. \A q \in asked' \cup due' : state'[q] # "NONE"
  BY <1>1 DEF KernelInv, TypeOK
<1>8. \A g \in Frames(stack) : g.k \in WalkKinds => g \in Frames(stack') BY <1>1, <1>3
<1>9. UNCHANGED <<list, needspoll, poll_requested>> BY <1>1
<1> QED BY <1>5, <1>6, <1>7, <1>8, <1>9, KernelQuiet

(* A thread returns. *)
LEMMA ReturnedKept ==
  ASSUME KernelInv, NEW p \in Process, NEW ended \in BOOLEAN,
         Running(p), Returned(p, ended), UNCHANGED <<needspoll, poll_requested>>
  PROVE  /\ Acyclic(next') /\ Kept(stack', state', next', Listed')
         /\ \A q \in asked' : q \in needspoll' /\ state'[q] # "NONE"
         /\ \A q \in due' : state'[q] # "NONE"
         /\ Reached(Frames(stack'), next', poll_requested', asked', due')
<1> DEFINE f == Head(stack)
           r == Tail(stack)
           L == Listed
           su == [state EXCEPT ![p] = "RUNNING"]
<1>0. stack # <<>> /\ f.k = "thread" /\ f.p = p BY DEF Running
<1>1. /\ stack \in Seq(Frame) /\ stack[1] = f /\ f \in Frame /\ r \in Seq(Frame)
      /\ Frames(stack) = {f} \cup Frames(r) /\ Kept(stack, state, next, L)
      /\ state \in [Process -> States]
      /\ r # <<>> => r[1].k # "poll" /\ (r[1].k = "pollnext" => r[1].q = p)
  BY <1>0, KernelTop DEF KernelInv, IsThread, IsExit, ExitKinds
<1>2. \A h \in Frames(stack) : h.k \in WalkKinds => h \in Frames(r)
  BY <1>0, <1>1 DEF WalkKinds
<1>3. /\ asked \subseteq Process /\ due \subseteq Process
      /\ \A q \in asked \cup due : state[q] # "NONE"
  BY DEF KernelInv, TypeOK
<1>b. f.by \in {"call", "exit"} BY <1>0, <1>1 DEF Frame, TakeEvent
<1>4. CASE f.by = "exit"
  <2>1. stack' = r /\ UNCHANGED <<list, state, asked, due>> BY <1>4 DEF Returned
  <2>2. Kept(r, state, next, L) BY <1>0, <1>1, <1>4, KernelTop DEF ExitKinds
  <2> HIDE DEF f, r, L
  <2>3. asked' \subseteq asked /\ due' \subseteq due BY <2>1
  <2>4. \A q \in asked' \cup due' : state'[q] # "NONE" BY <1>3, <2>1
  <2>5. \A h \in Frames(stack) : h.k \in WalkKinds => h \in Frames(stack') BY <1>2, <2>1
  <2>6. Kept(stack', state', next, L) BY <2>1, <2>2
  <2>7. UNCHANGED <<list, needspoll, poll_requested>> BY <2>1
  <2> QED BY <2>3, <2>4, <2>5, <2>6, <2>7, KernelQuiet DEF L
<1>5. CASE f.by = "call"
  <2>1. Kept(r, su, next, L) /\ state[p] = "CALLED"
    BY <1>0, <1>1, <1>5, KeptReturn
  <2>s. su \in [Process -> States] /\ su[p] = "RUNNING" /\ \A q \in Process : q # p => su[q] = state[q]
    BY <1>1 DEF States
  <2>2. CASE ended \/ f.ev = "EXIT"
    <3>1. exit_process(p, p, r) BY <1>5, <2>2 DEF Returned
    <3>2. p \in L BY <1>1, <2>1 DEF Kept, OnList
    <3>3. p \in Pointer /\ state[p] # "NONE" BY <2>1 DEF Pointer
    <3> HIDE DEF f, r, su
    <3> QED BY <1>1, <1>2, <2>1, <2>s, <3>1, <3>2, <3>3, LeaveKept
  <2>3. CASE ~(ended \/ f.ev = "EXIT")
    <3>1. stack' = r /\ state' = su /\ UNCHANGED <<list, asked, due>>
      BY <1>5, <2>3 DEF Returned
    <3> HIDE DEF f, r, su, L
    <3>2. asked' \subseteq asked /\ due' \subseteq due BY <3>1
    <3>3. \A q \in asked' \cup due' : state'[q] # "NONE" BY <1>3, <2>s, <3>1
    <3>4. \A h \in Frames(stack) : h.k \in WalkKinds => h \in Frames(stack') BY <1>2, <3>1
    <3>5. Kept(stack', state', next, L) BY <2>1, <3>1
    <3>6. UNCHANGED <<list, needspoll, poll_requested>> BY <3>1
    <3> QED BY <3>2, <3>3, <3>4, <3>5, <3>6, KernelQuiet DEF L
  <2> QED BY <2>2, <2>3
<1> QED BY <1>b, <1>4, <1>5

----------------------------------------------------------------------------
LEMMA PolledKept ==
  ASSUME KernelInv, NEW p \in Process, process_poll(p), UNCHANGED <<list, state, stack, due>>
  PROVE  /\ Acyclic(next') /\ Kept(stack', state', next', Listed')
         /\ \A q \in asked' : q \in needspoll' /\ state'[q] # "NONE"
         /\ \A q \in due' : state'[q] # "NONE"
         /\ Reached(Frames(stack'), next', poll_requested', asked', due')
<1>1. Kept(stack', state', next, Listed) BY DEF KernelInv
<1>2. \A q \in asked' : q \in needspoll' /\ state'[q] # "NONE"
  BY DEF process_poll, polls, KernelInv
<1>3. \A q \in due' : state'[q] # "NONE" BY DEF KernelInv
<1>4. Reached(Frames(stack'), next, poll_requested', asked', due')
  BY DEF process_poll, polls, KernelInv, Reached
<1> QED BY <1>1, <1>2, <1>3, <1>4, KernelSame

(* A thread exits, or calls, another process.                                 *)
LEMMA ExitsKept ==
  ASSUME KernelInv, NEW p \in Process, NEW q \in Process, Exits(p, q)
  PROVE  /\ Acyclic(next') /\ Kept(stack', state', next', Listed')
         /\ \A x \in asked' : x \in needspoll' /\ state'[x] # "NONE"
         /\ \A x \in due' : state'[x] # "NONE"
         /\ Reached(Frames(stack'), next', poll_requested', asked', due')
<1>0. stack # <<>> /\ Head(stack).k = "thread" BY DEF Exits, Active, Running
<1>1. /\ stack \in Seq(Frame) /\ stack[1].k = "thread" /\ Kept(stack, state, next, Listed)
      /\ state \in [Process -> States] /\ process_current \in Pointer
  BY <1>0, KernelTop DEF KernelInv, TypeOK
<1>2. /\ exit_process(q, process_current, stack)
      /\ UNCHANGED <<needspoll, poll_requested>>
      /\ ~Called(q) /\ ~Exiting(q)
  BY DEF Exits
<1>3. \A f \in Frames(stack) : ~IsThread(f, q) /\ ~IsExit(f, q)
  BY <1>2 DEF Frames, Called, Exiting, On, IsThread, IsExit, ExitKinds
<1>4. state[q] # "CALLED" BY <1>1, <1>3 DEF Kept, Heard, IsCall
<1>5. q \in Listed <=> state[q] # "NONE" BY <1>1, <1>3 DEF Kept, OnList
<1>6. CASE q \notin Listed
  <2>1. stack' = stack /\ UNCHANGED <<list, state, asked, due>>
    BY <1>2, <1>5, <1>6 DEF exit_process
  <2>2. Kept(stack', state', next, Listed) BY <1>1, <2>1
  <2>3. \A x \in asked' \cup due' : state'[x] # "NONE" BY <2>1 DEF KernelInv
  <2> QED BY <1>2, <2>1, <2>2, <2>3, KernelQuiet
<1>7. CASE q \in Listed
  <2>1. state[q] = "RUNNING" BY <1>1, <1>4, <1>5, <1>7 DEF States
  <2>2. \A f \in Frames(stack) : f.k \in WalkKinds => f \in Frames(stack) OBVIOUS
  <2>3. stack # <<>> => stack[1].k # "poll" /\ (stack[1].k = "pollnext" => stack[1].q = q)
    BY <1>1
  <2>4. state[q] # "NONE" /\ \A x \in Process : x # q => state[x] = state[x] BY <2>1
  <2> QED BY <1>1, <1>2, <1>7, <2>1, <2>2, <2>3, <2>4, LeaveKept
<1> QED BY <1>6, <1>7

LEMMA CallsKept ==
  ASSUME KernelInv, NEW p \in Process, NEW q \in Process, NEW ev \in UserEvent,
         CallsOther(p, q, ev)
  PROVE  /\ Acyclic(next') /\ Kept(stack', state', next', Listed')
         /\ \A x \in asked' : x \in needspoll' /\ state'[x] # "NONE"
         /\ \A x \in due' : state'[x] # "NONE"
         /\ Reached(Frames(stack'), next', poll_requested', asked', due')
<1> DEFINE g == Synch(process_current)
           t == <<g>> \o stack
<1>0. stack # <<>> /\ Head(stack).k = "thread" BY DEF CallsOther, Active, Running
<1>1. /\ stack \in Seq(Frame) /\ stack[1].k = "thread" /\ Kept(stack, state, next, Listed)
      /\ process_current \in Pointer
  BY <1>0, KernelTop DEF KernelInv, TypeOK
<1>2. /\ call_process(q, state, ev, t)
      /\ UNCHANGED <<list, needspoll, poll_requested, asked, due>>
  BY DEF CallsOther, process_post_synch, polls
<1>3. g \in Frame /\ g.k = "synch" BY <1>1, FrameMade DEF Synch
<1> HIDE DEF g
<1>4. g.k # "thread" /\ g.k \notin ExitKinds /\ TopWalk(g, next, Listed)
      /\ Fits(g, stack, state)
  BY <1>1, <1>3 DEF ExitKinds, TopWalk, Fits, MainKinds, BottomKinds
<1>5. /\ t \in Seq(Frame) /\ Kept(t, state, next, Listed)
      /\ Frames(t) = {g} \cup Frames(stack)
  BY <1>1, <1>3, <1>4, KeptPush
<1>6. t # <<>> /\ t[1] = g BY <1>1, <1>3, FramesPush
<1> HIDE DEF t
<1>7. /\ Kept(stack', state', next, Listed) /\ Frames(t) \subseteq Frames(stack')
      /\ \A x \in Process : state'[x] = "NONE" <=> state[x] = "NONE"
  <2>1. t # <<>> => t[1].k # "poll" /\ (t[1].k = "pollnext" => t[1].q = q)
    BY <1>3, <1>6
  <2>2. TypeOK /\ ev \in Event BY DEF KernelInv, Event
  <2> QED BY <1>2, <1>5, <2>1, <2>2, KeptCall
<1>8. \A f \in Frames(stack) : f.k \in WalkKinds => f \in Frames(stack') BY <1>5, <1>7
<1>9. asked' \subseteq asked /\ due' \subseteq due BY <1>2
<1>10. \A x \in asked' \cup due' : state'[x] # "NONE"
  BY <1>2, <1>7 DEF KernelInv, TypeOK
<1> QED BY <1>2, <1>7, <1>8, <1>9, <1>10, KernelQuiet

LEMMA SynchKept ==
  ASSUME KernelInv, SynchReturn
  PROVE  /\ Acyclic(next') /\ Kept(stack', state', next', Listed')
         /\ \A x \in asked' : x \in needspoll' /\ state'[x] # "NONE"
         /\ \A x \in due' : state'[x] # "NONE"
         /\ Reached(Frames(stack'), next', poll_requested', asked', due')
<1>0. stack # <<>> /\ stack[1].k = "synch" /\ stack' = Tail(stack)
      /\ UNCHANGED <<list, state, needspoll, poll_requested, asked, due>>
  BY KernelTop DEF SynchReturn, polls
<1>1. Kept(stack', state', next, Listed) /\ Frames(stack) = {stack[1]} \cup Frames(stack')
  BY <1>0, KernelTop DEF ExitKinds
<1>2. \A f \in Frames(stack) : f.k \in WalkKinds => f \in Frames(stack')
  BY <1>0, <1>1 DEF WalkKinds
<1>3. \A x \in asked' \cup due' : state'[x] # "NONE" BY <1>0 DEF KernelInv
<1> QED BY <1>0, <1>1, <1>2, <1>3, KernelQuiet

LEMMA UnlinkKept ==
  ASSUME KernelInv, ExitUnlink
  PROVE  /\ Acyclic(next') /\ Kept(stack', state', next', Listed')
         /\ \A x \in asked' : x \in needspoll' /\ state'[x] # "NONE"
         /\ \A x \in due' : state'[x] # "NONE"
         /\ Reached(Frames(stack'), next', poll_requested', asked', due')
<1>0. /\ stack # <<>> /\ stack[1].k = "unlink" /\ Unlink(stack[1].p)
      /\ stack' = Tail(stack) /\ state' = state /\ needspoll' = needspoll
      /\ poll_requested' = poll_requested /\ asked' = asked /\ due' = due
  BY KernelTop DEF ExitUnlink, polls
<1>1. /\ Acyclic(next') /\ Kept(Tail(stack), state, next', Listed')
      /\ Reached(Frames(Tail(stack)), next', poll_requested, asked, due)
  BY <1>0, KernelLeave
<1> QED BY <1>0, <1>1 DEF KernelInv

----------------------------------------------------------------------------
LEMMA NoInitNext ==
  ASSUME TypeOK, NoInit, [Next]_vars
  PROVE  NoInit'
<1>q. NoInit <=> \A i \in 1..Len(RingQueue) : RingQueue[i].ev # "INIT"
  BY RingLength DEF NoInit, RingQueue
<1>r. TypeOK' BY TypeNext
<1>n. NoInit' <=> \A i \in 1..Len(RingQueue') : RingQueue'[i].ev # "INIT"
  <2>1. RingQueue' = [i \in 1..nevents' |-> events'[(fevent' + i - 1) % Capacity]]
    BY DEF RingQueue
  <2>2. nevents' \in Nat BY <1>r DEF TypeOK
  <2>3. Len(RingQueue') = nevents' BY <2>1, <2>2
  <2> QED BY <2>1, <2>3 DEF NoInit
<1>1. CASE UNCHANGED ring BY <1>1 DEF ring, NoInit
<1>2. CASE nevents > 0 /\ Taken
  <2>1. RingQueue # <<>> /\ RingQueue' = Tail(RingQueue) BY <1>2, TakenTakes
  <2>2. RingQueue \in Seq(Item) BY RingLength
  <2> DEFINE s == RingQueue
             t == Tail(s)
  <2>3. Len(t) = Len(s) - 1 /\ Len(s) \in Nat /\ \A i \in 1..Len(s) - 1 : t[i] = s[i + 1]
    BY <2>1, <2>2, PopType
  <2>4. RingQueue' = t BY <2>1
  <2> HIDE DEF s, t
  <2>5. \A i \in 1..Len(t) : i \in 1..Len(s) - 1 /\ i + 1 \in 1..Len(s) BY <2>3
  <2>6. \A i \in 1..Len(s) : s[i].ev # "INIT" BY <1>q DEF s
  <2>7. \A i \in 1..Len(t) : t[i].ev # "INIT" BY <2>3, <2>5, <2>6
  <2> QED BY <1>n, <2>4, <2>7
<1>3. ASSUME NEW ev \in Event, NEW p \in Pointer, process_post(ev, p), ev # "INIT"
      PROVE  NoInit'
  <2> DEFINE s == RingQueue
             x == [ev |-> ev, p |-> p]
             t == Append(s, x)
  <2>1. s' = s \/ s' = t BY <1>3, PostAppends
  <2>2. s \in Seq(Item) /\ x \in Item /\ x.ev = ev BY RingLength DEF Item
  <2>3. \A i \in 1..Len(s) : s[i].ev # "INIT" BY <1>q
  <2>n. NoInit' <=> \A i \in 1..Len(s') : s'[i].ev # "INIT" BY <1>n
  <2>4. \A i \in 1..Len(t) : t[i].ev # "INIT"
    <3> HIDE DEF s, x
    <3>1. Len(t) = Len(s) + 1 /\ t[Len(s) + 1] = x /\ \A i \in 1..Len(s) : t[i] = s[i]
          /\ Len(s) \in Nat
      BY <2>2
    <3> HIDE DEF t
    <3> TAKE i \in 1..Len(t)
    <3>2. i \in 1..Len(s) \/ i = Len(s) + 1 BY <3>1
    <3> QED BY <1>3, <2>2, <2>3, <3>1, <3>2
  <2> HIDE DEF t
  <2>5. CASE s' = s BY <2>3, <2>5, <2>n
  <2>6. CASE s' = t BY <2>4, <2>6, <2>n
  <2> QED BY <2>1, <2>5, <2>6
<1>4. CASE UNCHANGED vars BY <1>1, <1>4 DEF vars
<1>5. CASE Kernel
  BY <1>1, <1>2, <1>5
     DEF Kernel, Boot, process_run, SynchReturn, ExitWalk, ExitWalkOn, ExitTold,
         ExitUnlink, PollWalk, PollWalkOn, NoEvent, EventForOne, EventForAll,
         BroadcastPoll, BroadcastCall, BroadcastOn
<1>6. ASSUME NEW p \in Process, Program(p) \/ Yields(p) \/ Interrupt(p)
      PROVE  NoInit'
  <2>1. CASE \E q \in Pointer, ev \in UserEvent \cup {"EXIT"} : Posts(p, q, ev)
    BY <1>3, <2>1, EventAssumption DEF Posts, Event
  <2>2. CASE Pauses(p)
    BY <1>3, <2>2 DEF Pauses, Event, TypeOK
  <2>3. CASE \/ \E q \in Process : Starts(p, q) \/ Exits(p, q) \/ Polls(p, q)
             \/ \E q \in Process, ev \in UserEvent : CallsOther(p, q, ev)
             \/ Ends(p) \/ Yields(p) \/ Interrupt(p)
    BY <1>1, <2>3 DEF Starts, Exits, Polls, CallsOther, Ends, Yields, Interrupt
  <2> QED BY <1>6, <2>1, <2>2, <2>3 DEF Program
<1> QED BY <1>4, <1>5, <1>6 DEF Next

LEMMA KernelNext ==
  ASSUME KernelInv, NoInit, [Next]_vars
  PROVE  KernelInv'
<1> DEFINE Goal == /\ Acyclic(next') /\ Kept(stack', state', next', Listed')
                   /\ \A x \in asked' : x \in needspoll' /\ state'[x] # "NONE"
                   /\ \A x \in due' : state'[x] # "NONE"
                   /\ Reached(Frames(stack'), next', poll_requested', asked', due')
<1>1. TypeOK' BY TypeNext DEF KernelInv
<1>u. ASSUME UNCHANGED <<list, state, needspoll, poll_requested, asked, due, stack>>
      PROVE  Goal
  <2>1. Kept(stack', state', next, Listed) BY <1>u DEF KernelInv
  <2>2. \A x \in asked' \cup due' : state'[x] # "NONE" BY <1>u DEF KernelInv
  <2> QED BY <1>u, <2>1, <2>2, KernelQuiet
<1>g. SUFFICES Goal BY <1>1 DEF KernelInv
<1>2. CASE UNCHANGED vars BY <1>2, <1>u DEF vars, polls
<1>3. CASE Kernel
  <2>1. CASE Boot
    <3>1. Head(toStart) \in Process BY <2>1 DEF Boot, KernelInv, TypeOK
    <3> QED BY <2>1, <3>1, KernelStart DEF Boot
  <2>2. CASE process_run BY <2>2, RunKept
  <2>3. CASE SynchReturn BY <2>3, SynchKept
  <2>4. CASE ExitWalk \/ ExitWalkOn \/ ExitTold BY <2>4, ExitKept
  <2>5. CASE ExitUnlink BY <2>5, UnlinkKept
  <2>6. CASE PollWalk BY <2>6, PollWalkKept
  <2>7. CASE PollWalkOn BY <2>7, PollWalkOnKept
  <2>8. CASE NoEvent \/ EventForOne \/ EventForAll BY <2>8, EventKept
  <2>9. CASE BroadcastPoll \/ BroadcastCall \/ BroadcastOn BY <2>9, BroadcastKept
  <2> HIDE DEF Goal
  <2> QED BY <1>3, <2>1, <2>2, <2>3, <2>4, <2>5, <2>6, <2>7, <2>8, <2>9 DEF Kernel
<1>4. ASSUME NEW p \in Process, Program(p) \/ Yields(p) \/ Interrupt(p)
      PROVE  Goal
  <2>1. ASSUME NEW q \in Process, Starts(p, q) PROVE Goal
    <3>1. process_start(q, stack) /\ stack # <<>> /\ Head(stack).k = "thread"
      BY <2>1 DEF Starts, Active, Running
    <3>2. stack[1].k = "thread" BY <3>1, KernelTop
    <3> QED BY <3>1, <3>2, KernelStart
  <2>2. ASSUME NEW q \in Process, Exits(p, q) PROVE Goal BY <2>2, ExitsKept
  <2>3. ASSUME NEW q \in Process, Polls(p, q) PROVE Goal
    BY <2>3, PolledKept DEF Polls
  <2>4. ASSUME NEW q \in Pointer, NEW ev \in UserEvent \cup {"EXIT"}, Posts(p, q, ev)
        PROVE  Goal
    BY <1>u, <2>4 DEF Posts, polls
  <2>5. ASSUME NEW q \in Process, NEW ev \in UserEvent, CallsOther(p, q, ev) PROVE Goal
    BY <2>5, CallsKept
  <2>6. CASE Ends(p) BY <2>6, ReturnedKept DEF Ends, Active
  <2>7. CASE Yields(p) BY <2>7, ReturnedKept DEF Yields
  <2>8. CASE Pauses(p) BY <2>8, ReturnedKept DEF Pauses, Active
  <2>9. CASE Interrupt(p) BY <2>9, PolledKept DEF Interrupt
  <2> HIDE DEF Goal
  <2> QED BY <1>4, <2>1, <2>2, <2>3, <2>4, <2>5, <2>6, <2>7, <2>8, <2>9 DEF Program
<1> HIDE DEF Goal
<1> QED BY <1>2, <1>3, <1>4 DEF Next

LEMMA KernelInit == Init => KernelInv /\ NoInit
<1> SUFFICES ASSUME Init PROVE KernelInv /\ NoInit OBVIOUS
<1>1. TypeOK BY TypeInit
<1>2. stack = <<>> /\ head = Null /\ asked = {} /\ due = {} /\ nevents = 0
      /\ (\A p \in Process : next[p] = Null /\ state[p] = "NONE")
  BY DEF Init
<1>3. Reach(next, Null) = {} BY <1>1, ReachStep DEF TypeOK
<1>4. Acyclic(next) BY <1>2, <1>3 DEF Acyclic
<1>5. Listed = {} BY <1>2, <1>3, ReachFrom
<1>6. Frames(stack) = {} BY <1>2, FramesNone
<1>7. Framed(stack, state)
  <2>1. \A i \in 1..Len(stack) : FALSE BY <1>2
  <2> QED BY <2>1 DEF Framed
<1>8. Kept(stack, state, next, Listed)
  BY <1>2, <1>5, <1>6, <1>7 DEF Kept, Heard, OnList, Walking
<1>9. Reached(Frames(stack), next, poll_requested, asked, due) BY <1>2 DEF Reached
<1>10. NoInit BY <1>2 DEF NoInit
<1> QED BY <1>1, <1>2, <1>4, <1>8, <1>9, <1>10 DEF KernelInv

LEMMA KernelAlways == Spec => [](KernelInv /\ NoInit)
<1>1. KernelInv /\ NoInit /\ [Next]_vars => (KernelInv /\ NoInit)'
  BY KernelNext, NoInitNext DEF KernelInv
<1> QED BY <1>1, KernelInit, PTL DEF Spec

(* However threads call, exit and restart one another, no thread is entered   *)
(* while it is on the call stack, and no process stays deaf.                  *)
THEOREM KernelCallsOnce == Spec => []CalledOnce
<1>1. KernelInv => CalledOnce
  <2> SUFFICES ASSUME KernelInv PROVE CalledOnce OBVIOUS
  <2>1. Framed(stack, state) /\ Heard(Frames(stack), state) BY DEF KernelInv, Kept
  <2>2. ASSUME NEW p \in Process, NEW i \in 1..Len(stack), NEW j \in 1..Len(stack),
               stack[i].k = "thread" /\ stack[i].p = p, stack[j].k = "thread" /\ stack[j].p = p
        PROVE  i = j
    BY <2>1, <2>2 DEF Framed, IsThread
  <2>3. ASSUME NEW p \in Process, state[p] = "CALLED" PROVE Called(p)
    BY <2>1, <2>3 DEF Heard, Frames, Called, On, IsCall, IsThread
  <2> QED BY <2>2, <2>3 DEF CalledOnce
<1> QED BY <1>1, KernelAlways, PTL

(* No poll is lost, from an interrupt or a thread, whoever exits or starts    *)
(* while the walk of do_poll is under way.                                    *)
THEOREM KernelLosesNoPoll == Spec => []NoPollLost
<1>1. KernelInv => NoPollLost
  <2> SUFFICES ASSUME KernelInv, NEW p \in asked
               PROVE  /\ p \in needspoll
                      /\ poll_requested \/ \E i \in 1..Len(stack) : AheadOf(p, stack[i])
    BY DEF NoPollLost
  <2>1. \A f : AheadIn(next, p, f) => AheadOf(p, f) BY ReachFrom DEF AheadIn, AheadOf
  <2>2. poll_requested \/ \E f \in Frames(stack) : AheadIn(next, p, f)
    BY DEF KernelInv, Reached
  <2> QED BY <2>1, <2>2 DEF KernelInv, Frames
<1> QED BY <1>1, KernelAlways, PTL

(* The process list has no cycle and holds the processes that run or are      *)
(* about to leave, and the walk of a broadcast comes to every process that    *)
(* stays on it, whoever exits, restarts or is called on the way.              *)
THEOREM KernelWalksReachAll == Spec => []WalksReachAll
<1>1. KernelInv => ListConsistent
  <2> SUFFICES ASSUME KernelInv PROVE ListConsistent OBVIOUS
  <2>1. \A p \in Listed : p \notin From(next[p])
    BY ReachFrom, WalkType DEF KernelInv, Acyclic
  <2>2. ASSUME NEW p \in Process PROVE p \in Listed <=> (state[p] # "NONE" \/ Exiting(p))
    <3>1. Exiting(p) <=> \E f \in Frames(stack) : IsExit(f, p)
      BY DEF Exiting, On, Frames, IsExit, ExitKinds
    <3> QED BY <3>1 DEF KernelInv, Kept, OnList
  <2> QED BY <2>1, <2>2 DEF ListConsistent
<1>2. KernelInv => BroadcastReaches
  <2> SUFFICES ASSUME KernelInv, due # {} PROVE BroadcastReaches BY DEF BroadcastReaches
  <2>1. PICK i \in 1..Len(stack) : Brings(next, due, stack[i])
    BY DEF KernelInv, Reached, Frames
  <2> QED BY <2>1, ReachFrom DEF Brings, BroadcastReaches
<1> QED BY <1>1, <1>2, KernelAlways, PTL DEF WalksReachAll
=============================================================================
