----------------------------- MODULE BusRequest -----------------------------
(***************************************************************************)
(* What a node of the RS485 bus promises whoever asks it to transmit,      *)
(* without the bus, the arbitration and the timers: a request is granted   *)
(* or fails, only a granted one succeeds, a request that failed was never  *)
(* granted, and each request comes to its end.  Listening abandons a       *)
(* request that is not granted yet.                                        *)
(***************************************************************************)
CONSTANT Nodes

VARIABLE phase

Requested == [Nodes -> {"none", "waiting", "granted"}]

RequestInit == phase = [n \in Nodes |-> "none"]

Move(n, from, to) == phase[n] = from /\ phase' = [phase EXCEPT ![n] = to]

Request(n) == Move(n, "none", "waiting")
Grant(n) == Move(n, "waiting", "granted")
Fail(n) == Move(n, "waiting", "none")
Abandon(n) == Move(n, "waiting", "none")
Succeed(n) == Move(n, "granted", "none")

Settle(n) == Grant(n) \/ Fail(n) \/ Abandon(n)

RequestNext == \E n \in Nodes : Request(n) \/ Settle(n) \/ Succeed(n)

RequestSpec ==
    /\ RequestInit /\ [][RequestNext]_phase
    /\ \A n \in Nodes : WF_phase(Settle(n) \/ Succeed(n))
=============================================================================
