------------------------------- MODULE MmbClaims -------------------------------
(* What comments say of the bus and the code does not do.                    *)
EXTENDS MCMmb485

(* "Wait until the bus is idle i.e. no received messages" (mmb485.c:438): a  *)
(* node does not announce itself while another is in the midst of its data.  *)
(* A node that waits has its receiver off.                                   *)
InMidstOfData(m) == pc[m] = "data" /\ tx[m] \in 1 .. (desc[m].bytes_left - 1)

AnnouncesOnIdleBus ==
    [][\A n \in Nodes : pc[n] = "none" /\ pc'[n] = "id" =>
          \A m \in Nodes \ {n} : ~InMidstOfData(m)]_vars
===============================================================================
