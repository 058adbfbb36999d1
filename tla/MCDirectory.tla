---------------------------- MODULE MCDirectory ----------------------------
(***************************************************************************)
(* Instances of Directory for TLC.  A behaviour has the calls of one part, *)
(* which bounds how many different ones meet.                              *)
(***************************************************************************)
EXTENDS Directory, TLC

CONSTANT Parts

VARIABLE part

PartInit == part \in Parts /\ Init
PartNext == Next /\ part' = part /\ \A p \in Procs : proc'[p].op \in part \cup {"none"}
PartSpec == PartInit /\ [][PartNext]_<<part, vars>>

DirSymmetric == Permutations(Procs) \cup Permutations(Slots) \cup Permutations(Names)
=============================================================================
