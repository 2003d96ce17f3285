----------------------------- MODULE MCFileLock -----------------------------
(* Constants for model checking FileLock. *)
EXTENDS FileLock
CONSTANTS a, b, c
OneHost == [p \in Procs |-> 1]
TwoHosts == [p \in Procs |-> IF p = b THEN 2 ELSE 1]
Clean == {NoFile}
Dirty == {NoFile, Corrupt}
=============================================================================
