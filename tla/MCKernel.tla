------------------------------ MODULE MCKernel ------------------------------
(***************************************************************************)
(* Instances of remote calls, user-level locks and pipes for TLC.  They    *)
(* share nothing but the processes, so a behaviour is one of a single      *)
(* facility (part): their states add up, they do not multiply.             *)
(***************************************************************************)
EXTENDS Rpc, UserLocks, Pipes, TLC

CONSTANT Parts  \* the facilities of an instance

VARIABLE part

Init == part \in Parts /\ RpcInit /\ LockInit /\ PipeInit

\* The bounds on calls stop it.
RpcDone == clntkudpxid = MaxXid /\ UNCHANGED rpcVars

Next ==
  /\ part' = part
  /\ \/ part = "rpc" /\ (RpcNext \/ RpcDone) /\ UNCHANGED <<lockVars, pipeVars>>
     \/ part = "lock" /\ LockNext /\ UNCHANGED <<rpcVars, pipeVars>>
     \/ part = "pipe" /\ PipeNext /\ UNCHANGED <<rpcVars, lockVars>>

Spec == Init /\ [][Next]_<<part, rpcVars, lockVars, pipeVars>>

\* A hard mount that sends twice, a soft one that sends once.
MountKinds == {[hard |-> TRUE, retrans |-> 2], [hard |-> FALSE, retrans |-> 1]}
Calls == {[op |-> "remove", name |-> "f"], [op |-> "mkdir", name |-> "f"]}

\* Offsets and sizes: all of the file (no size), its middle, which is also the
\* head of the third, its tail.
Spans == {<<0, 0>>, <<1, 1>>, <<1, 2>>}

KernelSymmetric == Permutations(Procs)
=============================================================================
