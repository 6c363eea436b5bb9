----------------------------- MODULE EventQueue -----------------------------
(* What the event queue of core/sys/process.c promises its users: a bounded   *)
(* queue.  Every event that process_post() accepts is delivered, once and in  *)
(* the order of acceptance; an event is refused only when the queue is full.  *)
EXTENDS Naturals, Sequences

CONSTANTS
  Item,      \* what is posted: an event with its receiver
  Capacity   \* PROCESS_CONF_NUMEVENTS

VARIABLE queue   \* the events accepted and not yet delivered, oldest first

Init == queue = <<>>

(* process_post() returned PROCESS_ERR_OK. *)
Accept(i) ==
  /\ Len(queue) < Capacity
  /\ queue' = Append(queue, i)

(* do_event() takes the oldest event. *)
Take ==
  /\ queue # <<>>
  /\ queue' = Tail(queue)

Next ==
  \/ \E i \in Item : Accept(i)
  \/ Take

Spec == Init /\ [][Next]_queue

=============================================================================
