---------------------------- MODULE MCRecordLock ----------------------------
(***************************************************************************)
(* Instances of RecordLock for TLC: processes and files are alike.         *)
(***************************************************************************)
EXTENDS RecordLock, TLC

Symmetric == Permutations(Procs) \cup Permutations(Files)
=============================================================================
