------------------------------- MODULE MCIpc -------------------------------
(***************************************************************************)
(* Instances of the System V IPC modules and of terminal streams for TLC.  *)
(* They share nothing but the processes, so a behaviour is one of a single *)
(* facility (part): their states add up, they do not multiply.             *)
(***************************************************************************)
EXTENDS Semaphores, Messages, Streams, TLC

CONSTANT Parts  \* the facilities of an instance

VARIABLE part

Init == part \in Parts /\ SemInit /\ MsgInit /\ StreamInit

\* Bound: the short message of type 2 is on a queue only while no other is in
\* use; so two queues share the pool, or two types a queue.
InService == {q \in Queues : msgque[q].alloc}
Few == \/ Cardinality(InService) <= 1
       \/ \A q \in InService : \A m \in ToSet(msgque[q].msgs) : m.type = 1 \/ Cardinality(m.text) = 2

Next ==
  /\ part' = part
  /\ \/ part = "sem" /\ SemNext /\ UNCHANGED <<msgVars, streamVars>>
     \/ part = "msg" /\ MsgNext /\ Few' /\ UNCHANGED <<semVars, streamVars>>
     \/ part = "stream" /\ StreamNext /\ UNCHANGED <<semVars, msgVars>>

Spec == Init /\ [][Next]_<<part, semVars, msgVars, streamVars>>

O(n, op, undo) == [num |-> n, op |-> op, undo |-> undo]

\* Waits, posts, waits for zero, several at once, with and without SEM_UNDO;
\* no list names a semaphore twice.
Lists == {
  <<O(0, 0, FALSE), O(1, 1, TRUE)>>,
  <<O(0, 1, TRUE), O(1, -1, TRUE)>>, <<O(0, -1, TRUE), O(1, -1, FALSE)>>,
  <<O(1, 2, FALSE)>> }

\* Short and long messages, and of two types the short ones.
Kinds == {<<1, 1>>, <<2, 1>>, <<2, 2>>}
Types == {1, -2}

IpcSymmetric == Permutations(Procs) \cup Permutations(Queues)
=============================================================================
