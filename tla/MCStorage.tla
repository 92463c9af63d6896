------------------------------ MODULE MCStorage ------------------------------
(* Values of the constants of Storage for TLC: sizes of two files and of     *)
(* their records.                                                            *)
EXTENDS Storage

\* Records of file 0 fill their words; those of file 1 need padding.
RecordSizes == [f \in File |-> IF f = 0 THEN 4 ELSE 3]
\* File 1 is larger than file 0.  (A file that is smaller than the one before it
\* overlaps it: its start is computed from its own size.)
SizesRise == [f \in File |-> IF f = 0 THEN 8 ELSE 12]

\* The theorems about records hold for such a configuration.
ASSUME RecordsAreSafe == FilesAreApart /\ RecordsFit
=============================================================================
