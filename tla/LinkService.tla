----------------------------- MODULE LinkService -----------------------------
(* What a MAC layer promises to the layer above: a packet handed over is      *)
(* reported once, at once when it is refused, and otherwise in the order of   *)
(* the packets for the same neighbour; only acknowledgements may go first.    *)
EXTENDS Naturals

CONSTANTS Neighbor, Packet   \* the packets are numbered as they are handed over

VARIABLES
  waiting,    \* the packets on their way to each neighbour
  acks,       \* those of all packets that are acknowledgements
  reported    \* those whose sender has been called back

vars == <<waiting, acks, reported>>

Init == waiting = [n \in Neighbor |-> {}] /\ acks = {} /\ reported = {}

New(p) == p \notin acks \cup reported /\ \A n \in Neighbor : p \notin waiting[n]

Accept(n, p) ==
  /\ New(p) /\ \A q \in waiting[n] : q < p
  /\ waiting' = [waiting EXCEPT ![n] = @ \cup {p}]
  /\ acks' \in {acks, acks \cup {p}}
  /\ UNCHANGED reported

Refuse(p) ==
  /\ New(p)
  /\ reported' = reported \cup {p}
  /\ acks' \in {acks, acks \cup {p}}
  /\ UNCHANGED waiting

Report(n, p) ==
  /\ p \in waiting[n]
  /\ p \in acks \/ \A q \in waiting[n] \ acks : p <= q
  /\ reported' = reported \cup {p}
  /\ waiting' = [waiting EXCEPT ![n] = @ \ {p}]
  /\ UNCHANGED acks

Next == \E p \in Packet : Refuse(p) \/ \E n \in Neighbor : Accept(n, p) \/ Report(n, p)

Spec == Init /\ [][Next]_vars
=============================================================================
