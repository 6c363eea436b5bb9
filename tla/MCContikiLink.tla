---------------------------- MODULE MCContikiLink ----------------------------
(* TLC's instances of the link layer.  A behaviour is one of two scenarios,   *)
(* which its first state decides.                                             *)
EXTENDS Csma, Sicslowpan

CONSTANTS a, b, c
VARIABLE scenario

(* "service" is CSMA over either driver; "lowpan" is datagrams of one frame   *)
(* and of three, from two nodes at a time.                                    *)
MCvars == <<scenario, vars, lowpanVars>>

MCInit == LowpanInit /\ Init /\ scenario \in {"service", "lowpan"}

MCNext ==
  /\ UNCHANGED scenario
  /\ \/ scenario = "service" /\ Next /\ UNCHANGED lowpanVars
     \/ scenario = "lowpan" /\ LowpanNext /\ UNCHANGED vars

Timer(n) ==
  scenario = "service" /\ transmit_packet_list(n) /\ UNCHANGED <<scenario, lowpanVars>>
Sent(S) ==
  /\ scenario = "service" /\ UNCHANGED <<scenario, lowpanVars>>
  /\ \E status \in S : Transmit(status)

(* Timers run off, the driver returns, and the medium is not busy whenever it *)
(* is tried.                                                                  *)
MCSpec ==
  /\ MCInit /\ [][MCNext]_MCvars
  /\ \A n \in Neighbor : SF_MCvars(Timer(n))
  /\ WF_MCvars(Sent(Status))
  /\ \A n \in Neighbor : SF_MCvars(rdc # None /\ rdc.n = n /\ Sent(Status \ {"COLLISION"}))

----------------------------------------------------------------------------
(* Over nullrdc every packet handed over is reported, when the medium is free *)
(* again and again.                                                           *)
PacketsReported ==
  \A p \in Packet : scenario = "service" /\ ~Sicslowmac /\ seqno >= p ~> p \in reported
=============================================================================
