------------------------------ MODULE MCMmb485 ------------------------------
(* Two nodes: the user of one asks with either priority and listens, the    *)
(* user of the other asks with the higher one.                              *)
EXTENDS Mmb485

CONSTANTS n1, n2

MCAsks == {<<n1, 1>>, <<n1, 2>>, <<n2, 1>>}
=============================================================================
