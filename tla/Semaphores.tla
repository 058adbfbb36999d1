----------------------------- MODULE Semaphores -----------------------------
(***************************************************************************)
(* System V semaphores: PAGING/os/sem.c, with the identifiers of ipc.c.    *)
(* semop does the operations of its list in order; at the first that can   *)
(* not be done semundo takes the others back and the process sleeps, to    *)
(* start again from the first one.  Permissions are left out, and every    *)
(* set has semaphores of its own (semmap): Nums is the numbers in a set.   *)
(***************************************************************************)
EXTENDS Kernel

CONSTANTS
  SemSlots,  \* the slots of sema[] (seminfo.semmni)
  Nums,      \* semaphores of a set
  semvmx, semaem,  \* greatest value, greatest adjustment on exit
  semume, semmnu,  \* entries in an undo structure, undo structures
  SemCalls,  \* lists of operations [num, op, undo] semop is called with
  SetVals,   \* values semctl is called with
  SemRemovals  \* bound: IPC_RMIDs of a slot

ASSUME SemAssumption ==
  /\ semvmx \in Nat /\ semaem \in Nat /\ semume \in Nat /\ semmnu \in Nat
  /\ SemRemovals \in Nat /\ SetVals \subseteq Nat
  /\ \A ops \in SemCalls : \A i \in DOMAIN ops :
       ops[i] \in [num : Nums, op : Int, undo : BOOLEAN]

VARIABLES
  sema,    \* of each slot: if it is allocated (IPC_ALLOC), its seq
  sem,     \* sem[i][n]: semval, semncnt and semzcnt
  sem_undo,  \* un_ent of each process with an undo structure: un_aoe by <<id, num>>
  semwait  \* the processes asleep in semop, with their call (see Kernel)

semVars == <<sema, sem, sem_undo, semwait>>

Id(i) == <<i, sema[i].seq>>
semconv(id) == sema[id[1]].alloc /\ id = Id(id[1])
SemChan(i, n, cnt) == <<i, n, cnt>>
Zero == [val |-> 0, ncnt |-> 0, zcnt |-> 0]

\* semget, where ipcget finds no set of that key and a free slot.
SemGet(i) ==
  /\ ~sema[i].alloc
  /\ sema' = [sema EXCEPT ![i].alloc = TRUE]
  /\ UNCHANGED <<sem, sem_undo, semwait>>
-----------------------------------------------------------------------------
\* semaoe: U is sem_undo; says if it failed.
semaoe(U, p, val, k) ==
  LET E == IF p \in DOMAIN U THEN U[p] ELSE <<>>
      aoe == (IF k \in DOMAIN E THEN E[k] ELSE 0) - val
      With(F) == [U |-> Put(U, p, F), err |-> FALSE]
  IN CASE val = 0 -> [U |-> U, err |-> FALSE]
       [] /\ val # 0
          /\ \/ val \notin -semaem .. semaem
             \/ p \notin DOMAIN U /\ Cardinality(DOMAIN U) >= semmnu ->
            [U |-> U, err |-> TRUE]
       [] OTHER ->
            IF IF k \in DOMAIN E THEN aoe \notin -semaem .. semaem
               ELSE Cardinality(DOMAIN E) >= semume
            THEN [With(E) EXCEPT !.err = TRUE]
            ELSE With(IF aoe = 0 THEN Drop(E, k) ELSE Put(E, k, aoe))

\* The state of semop: set i, undo table, addresses woken, operations done,
\* and what it comes to: "ok", an error, or the count to sleep on.
Woken(S, o, cnt) == SemChan(S.id[1], o.num, cnt)

Done(S, o, v, U) ==
  LET was == S.set[o.num]
  IN [S EXCEPT
       !.U = U, !.done = Append(@, o),
       !.set[o.num] = [val |-> v, ncnt |-> IF o.op > 0 THEN 0 ELSE was.ncnt,
                       zcnt |-> IF o.op < 0 /\ v = 0 THEN 0 ELSE was.zcnt],
       !.woken = @ \cup {Woken(S, o, c) :
                          c \in {x \in {"ncnt", "zcnt"} :
                                  IF x = "ncnt" THEN o.op > 0 /\ was.ncnt # 0
                                  ELSE o.op < 0 /\ v = 0 /\ was.zcnt # 0}}]

Try(S, p, o) ==
  LET v == S.set[o.num].val + o.op
      A == IF o.undo THEN semaoe(S.U, p, o.op, <<S.id, o.num>>)
           ELSE [U |-> S.U, err |-> FALSE]
  IN CASE S.res # "ok" -> S
       [] S.res = "ok" /\ o.op < 0 /\ v < 0 -> [S EXCEPT !.res = "ncnt"]
       [] S.res = "ok" /\ o.op = 0 /\ v # 0 -> [S EXCEPT !.res = "zcnt"]
       [] S.res = "ok" /\ o.op > 0 /\ v > semvmx -> [S EXCEPT !.res = "error"]
       [] OTHER -> IF A.err THEN [S EXCEPT !.res = "error", !.U = A.U]
                   ELSE Done(S, o, v, A.U)

\* Faulty: what is owed at exit is not taken back.
UndoValue(S, p, o) == [S EXCEPT !.set[o.num].val = @ - o.op]

\* semundo: takes back what was done, the last operation first.
Undo(S, p, o) ==
  [S EXCEPT !.set[o.num].val = @ - o.op,
            !.U = IF o.undo THEN semaoe(@, p, -o.op, <<S.id, o.num>>).U ELSE @]

semundo(S, p) == FoldRight(LAMBDA o, T : Undo(T, p, o), S.done, S)

\* The loop of semop over its list.
Operations(p, id, ops) ==
  LET S == FoldLeft(LAMBDA T, o : Try(T, p, o),
                    [id |-> id, set |-> sem[id[1]], U |-> sem_undo, woken |-> {},
                     done |-> <<>>, res |-> "ok"], ops)
  IN IF S.res = "ok" THEN S ELSE semundo(S, p)

\* semop from check on; w is semwait without p.  With IPC_NOWAIT a call that
\* would sleep fails.
SemTry(p, id, ops, w) ==
  LET S == Operations(p, id, ops)
      i == id[1]
      num == ops[Len(S.done) + 1].num
  IN /\ sem_undo' = S.U
     /\ UNCHANGED sema
     /\ \/ /\ S.res \in {"ok", "error"}
           /\ sem' = [sem EXCEPT ![i] = S.set]
           /\ semwait' = wakeup(w, S.woken)
        \/ /\ S.res \in {"ncnt", "zcnt"}
           /\ \/ /\ sem' = [sem EXCEPT ![i] = S.set]
                 /\ semwait' = wakeup(w, S.woken)
              \/ /\ sem' = [sem EXCEPT ![i] = [S.set EXCEPT ![num][S.res] = @ + 1]]
                 /\ semwait' = sleep(wakeup(w, S.woken), p,
                                     [chan |-> SemChan(i, num, S.res), id |-> id,
                                      ops |-> ops, on |-> <<num, S.res>>])

SemOp(p, id, ops) ==
  /\ p \notin DOMAIN semwait /\ semconv(id)
  /\ SemTry(p, id, ops, semwait)

\* A sleeper runs again: the set may be gone (EIDRM).
SemResume(p) ==
  /\ p \in DOMAIN semwait \ Asleep(semwait)
  /\ LET call == semwait[p]  w == unsleep(semwait, p)
     IN IF semconv(call.id) THEN SemTry(p, call.id, call.ops, w)
        ELSE semwait' = w /\ UNCHANGED <<sema, sem, sem_undo>>

\* Faulty: the others are not woken.
SemInterruptQuiet(p) ==
  /\ p \in DOMAIN semwait
  /\ LET i == semwait[p].id[1]
         n == semwait[p].on[1]
         left == sem[i][n][semwait[p].on[2]] - 1
     IN sem' = [sem EXCEPT ![i][n][semwait[p].on[2]] = IF left <= 0 THEN 0 ELSE left]
  /\ semwait' = unsleep(semwait, p) /\ UNCHANGED <<sema, sem_undo>>

\* A signal ends the sleep, perhaps after a wakeup that reset the count.
SemInterrupt(p) ==
  /\ p \in DOMAIN semwait
  /\ LET i == semwait[p].id[1]
         n == semwait[p].on[1]
         cnt == semwait[p].on[2]
         left == sem[i][n][cnt] - 1
         w == unsleep(semwait, p)
     IN /\ sem' = [sem EXCEPT ![i][n][cnt] = IF left <= 0 THEN 0 ELSE left]
        /\ semwait' = IF left <= 0 THEN wakeup(w, {SemChan(i, n, cnt)}) ELSE w
        /\ UNCHANGED <<sema, sem_undo>>
-----------------------------------------------------------------------------
\* semunrm: nobody undoes anything on these semaphores any more.
semunrm(U, id, low, high) ==
  [p \in DOMAIN U |->
    [k \in {x \in DOMAIN U[p] : ~(x[1] = id /\ x[2] \in low .. high)} |-> U[p][k]]]

\* The addresses of set i to wake when its semaphores get the values of new.
Affected(i, new) ==
  {SemChan(i, n, "ncnt") : n \in {m \in DOMAIN new : new[m] # 0}}
  \cup {SemChan(i, n, "zcnt") : n \in {m \in DOMAIN new : new[m] = 0}}

Reset(i, new) ==
  /\ sem' = [sem EXCEPT ![i] =
       [n \in Nums |->
          IF n \notin DOMAIN new THEN @[n]
          ELSE IF new[n] # 0 THEN [@[n] EXCEPT !.val = new[n], !.ncnt = 0]
          ELSE [@[n] EXCEPT !.val = 0, !.zcnt = 0]]]
  /\ semwait' = wakeup(semwait, Affected(i, new))

\* semctl(SETVAL)
SemSetVal(id, n, v) ==
  /\ semconv(id) /\ v <= semvmx
  /\ Reset(id[1], [m \in {n} |-> v])
  /\ sem_undo' = semunrm(sem_undo, id, n, n)
  /\ UNCHANGED sema

\* semctl(SETALL); semunrm is given sem_nsems as the highest number.
SemSetAll(id, new) ==
  /\ semconv(id) /\ \A n \in Nums : new[n] <= semvmx
  /\ Reset(id[1], new)
  /\ sem_undo' = semunrm(sem_undo, id, 0, Cardinality(Nums))
  /\ UNCHANGED sema

\* semctl(IPC_RMID): everyone is woken.
SemRemove(id) ==
  /\ semconv(id) /\ id[2] < SemRemovals
  /\ sema' = [sema EXCEPT ![id[1]] = [alloc |-> FALSE, seq |-> @.seq + 1]]
  /\ sem' = [sem EXCEPT ![id[1]] = [n \in Nums |-> Zero]]
  /\ sem_undo' = semunrm(sem_undo, id, 0, Cardinality(Nums))
  /\ semwait' = wakeup(semwait, {SemChan(id[1], n, c) : n \in Nums, c \in {"ncnt", "zcnt"}})

\* semexit, with the structure freed even if it is empty.
Adjust(S, k, aoe) ==
  LET i == k[1][1]  n == k[2]
      v == S.sem[i][n].val + aoe
      z == v = 0 /\ S.sem[i][n].zcnt # 0
      g == aoe > 0 /\ S.sem[i][n].ncnt # 0
  IN IF ~semconv(k[1]) \/ v < 0 \/ v > semvmx THEN S
     ELSE [sem |-> [S.sem EXCEPT ![i][n] =
                     [val |-> v, zcnt |-> IF z THEN 0 ELSE @.zcnt,
                      ncnt |-> IF g THEN 0 ELSE @.ncnt]],
           woken |-> S.woken \cup (IF z THEN {SemChan(i, n, "zcnt")} ELSE {})
                             \cup (IF g THEN {SemChan(i, n, "ncnt")} ELSE {})]

SemExit(p) ==
  /\ p \notin DOMAIN semwait /\ p \in DOMAIN sem_undo
  /\ LET S == FoldLeft(LAMBDA T, k : Adjust(T, k, sem_undo[p][k]),
                       [sem |-> sem, woken |-> {}],
                       SetToSeq(DOMAIN sem_undo[p]))
     IN sem' = S.sem /\ semwait' = wakeup(semwait, S.woken)
  /\ sem_undo' = Drop(sem_undo, p)
  /\ UNCHANGED sema
-----------------------------------------------------------------------------
SemInit ==
  /\ sema = [i \in SemSlots |-> [alloc |-> FALSE, seq |-> 0]]
  /\ sem = [i \in SemSlots |-> [n \in Nums |-> Zero]]
  /\ sem_undo = <<>> /\ semwait = <<>>

SemNext ==
  \/ \E i \in SemSlots : SemGet(i)
  \/ \E p \in Procs, i \in SemSlots, ops \in SemCalls : SemOp(p, Id(i), ops)
  \/ \E p \in Procs : SemResume(p) \/ SemInterrupt(p) \/ SemExit(p)
  \/ \E i \in SemSlots : SemRemove(Id(i))
  \/ \E i \in SemSlots, n \in Nums, v \in SetVals : SemSetVal(Id(i), n, v)
  \/ \E i \in SemSlots, new \in [Nums -> SetVals] : SemSetAll(Id(i), new)

SemSpec == SemInit /\ [][SemNext]_semVars
-----------------------------------------------------------------------------
\* Nobody sleeps in semop while all the operations of the call could be done,
\* or on a set that was removed: every change that lets a sleeper go on wakes
\* it, although counts are reset early and interrupted calls decrement them.
SemSleeperBlocked ==
  \A p \in Asleep(semwait) :
    /\ semconv(semwait[p].id)
    /\ Operations(p, semwait[p].id, semwait[p].ops).res # "ok"

Owed(p, i, n) ==
  LET k == <<Id(i), n>>
  IN IF p \in DOMAIN sem_undo /\ k \in DOMAIN sem_undo[p] THEN sem_undo[p][k] ELSE 0

\* What a call adds to the semaphores of a slot.
Sum(ops, n, Counts(_)) ==
  FoldLeft(LAMBDA t, o : IF o.num = n /\ Counts(o) THEN t + o.op ELSE t, 0, ops)

Effects ==
  {[all |-> [s \in SemSlots \X Nums |->
              IF s[1] = i THEN Sum(ops, s[2], LAMBDA o : TRUE) ELSE 0],
    undo |-> [s \in SemSlots \X Nums |->
              IF s[1] = i THEN Sum(ops, s[2], LAMBDA o : o.undo) ELSE 0]] :
   i \in SemSlots, ops \in SemCalls}

Abstract == INSTANCE SemSet WITH
  Sems <- SemSlots \X Nums,
  Greatest <- semvmx,
  Calls <- Effects,
  value <- [s \in SemSlots \X Nums |-> sem[s[1]][s[2]].val],
  owed <- [p \in Procs |-> [s \in SemSlots \X Nums |-> Owed(p, s[1], s[2])]]

\* semop is all or nothing, and the undo entries add up, although semop does
\* its operations one after the other, takes them back, and every one of these
\* steps may fail for want of an entry.
ImplementsSemSet == Abstract!Spec
=============================================================================
