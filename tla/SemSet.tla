------------------------------- MODULE SemSet -------------------------------
(***************************************************************************)
(* What sem.c promises: a semop changes all the semaphores it names at     *)
(* once or none, and a process that exits gives back exactly the sum of    *)
(* its SEM_UNDO operations since each semaphore was last set or removed.   *)
(***************************************************************************)
EXTENDS Integers

CONSTANTS
  Procs, Sems,  \* processes, semaphores
  Greatest,     \* the greatest value
  Calls         \* [all, undo]: what a call adds to each semaphore, and with SEM_UNDO

VARIABLES
  value,  \* of each semaphore
  owed    \* owed[p][s] is to be added to s when p exits

Init ==
  /\ value = [s \in Sems |-> 0]
  /\ owed = [p \in Procs |-> [s \in Sems |-> 0]]

InRange(f) == \A s \in Sems : f[s] \in 0 .. Greatest

Op(p, c) ==
  LET new == [s \in Sems |-> c.all[s] + value[s]]
  IN /\ value' = new /\ InRange(new)
     /\ owed' = [owed EXCEPT ![p] = [s \in Sems |-> @[s] - c.undo[s]]]

\* The semaphores of S get new values, and nothing done before is undone.
Set(S) ==
  /\ InRange(value')
  /\ \A s \in Sems \ S : value'[s] = value[s]
  /\ owed' = [p \in Procs |-> [s \in Sems |-> IF s \in S THEN 0 ELSE owed[p][s]]]

Exit(p) ==
  /\ value' = [s \in Sems |-> LET v == value[s] + owed[p][s]
                              IN IF v \in 0 .. Greatest THEN v ELSE value[s]]
  /\ owed' = [owed EXCEPT ![p] = [s \in Sems |-> 0]]

Stutter == UNCHANGED <<value, owed>>  \* first: for most steps of TLC it is enough

Next ==
  \/ Stutter
  \/ \E p \in Procs, c \in Calls : Op(p, c)
  \/ \E S \in SUBSET Sems : Set(S)
  \/ \E p \in Procs : Exit(p)

Spec == Init /\ [][Next]_<<value, owed>>
=============================================================================
