----------------------------- MODULE MCSchedule -----------------------------
(***************************************************************************)
(* A day of four hours for TLC: intervals of four hours, two, one (24/4)   *)
(* and a truncated one (4/3).                                              *)
(***************************************************************************)
EXTENDS Schedule

\* An empty storage, a schedule without frequency, and a complete one.
StoredSchedules ==
    {[amount |-> 0, freq |-> 0], [amount |-> 1, freq |-> 0],
     [amount |-> 1, freq |-> 2]}
=============================================================================
