---------------------------- MODULE MCBufCache ----------------------------
(***************************************************************************)
(* Instances of BufCache for TLC: the constants the .cfg files give as     *)
(* definitions, and the symmetry of processes and buffers.                 *)
(***************************************************************************)
EXTENDS BufStoreProofs, TLC

FlushOps  == {"bread", "breada", "bflush", "blkflush", "binvalfree"}
SizeOps   == {"bread", "getblk", "blkflush"}
LiveOps   == {"bread", "getblk", "geteblk", "blkflush"}
EveryOps  == {"bread", "geteblk", "bflush", "bflush0", "binval"}
Symmetric == Permutations(Procs) \cup Permutations(Bufs) \cup Permutations(Vals)
=============================================================================
