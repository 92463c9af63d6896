----------------------------- MODULE GardenClaims -----------------------------
(***************************************************************************)
(* What a comment of the repository says of the master, and the code does  *)
(* not do.                                                                 *)
(***************************************************************************)
EXTENDS MCGardenSensor

\* garden_sensor_master.c:111: "Read a byte from the sensor."  In an attempt
\* without a fault the bytes the master has read behind its command are those
\* the sensor answers.  (The sensor looks at its command only when it gets a
\* third byte, the first the master takes for an answer.)
ReadsTheAnswer ==
    pc = "slots" /\ AllSent /\ faults = 0 /\ call.cmd = READ_SENSOR
        => SubSeq(got, OW_CMD_SIZE * Len(Command) + 1, Len(got)) = frame
=============================================================================
