------------------------------ MODULE RecordLog ------------------------------
(***************************************************************************)
(* What the storage driver promises its callers: every file is a log of    *)
(* records that grows by one record at a time and that a power loss leaves *)
(* as it is.  The exception the driver makes is part of the promise: while *)
(* it rewrites its metadata sector (compacting), a power loss empties all  *)
(* files.                                                                  *)
(***************************************************************************)
EXTENDS Naturals, Sequences

CONSTANTS File, Values

VARIABLES log, compacting

logVars == <<log, compacting>>

EmptyLog == [f \in File |-> <<>>]

LogInit == log = EmptyLog /\ compacting = FALSE

\* A record is written, and that may be when a rewrite starts or ends.
Write(f, v) ==
    /\ log' = [log EXCEPT ![f] = Append(@, v)]
    /\ compacting' \in BOOLEAN

StartCompacting == ~compacting /\ compacting' = TRUE /\ UNCHANGED log
StopCompacting == compacting /\ compacting' = FALSE /\ UNCHANGED log

Lose == compacting /\ compacting' = FALSE /\ log' = EmptyLog

LogNext ==
    \/ \E f \in File, v \in Values : Write(f, v)
    \/ StartCompacting \/ StopCompacting \/ Lose

LogSpec == LogInit /\ [][LogNext]_logVars
=============================================================================
