----------------------------- MODULE RecordLock -----------------------------
(***************************************************************************)
(* Record locks: COMMON/os/flock.c, the locks fcntl sets on parts of a     *)
(* file.  Every file with locks has a header (struct flino) with a chain   *)
(* of locks (struct filock) that is meant to be sorted by start; headers   *)
(* and locks come from fixed pools.  A process sleeps in one place only,   *)
(* the SLEEP of setflck, and has a record on sleeplcks meanwhile: an       *)
(* action is what a process does in the kernel from its call, or from      *)
(* being woken, until it returns or sleeps.                                *)
(***************************************************************************)
EXTENDS Naturals, FiniteSets, SequencesExt

CONSTANTS
  Procs,    \* processes
  Files,    \* files, by (fl_dev, fl_number)
  Recs,     \* flckinfo.recs, the size of flox[]
  Heads,    \* flckinfo.fils, the size of flinotab[]
  Bytes,    \* a lock covers bytes of 0 .. Bytes-1; Bytes stands for MAXEND
  Types,    \* F_RDLCK "RD", F_WRLCK "WR": those the processes of an instance set
  Leaks,    \* bound: failing F_GETLK calls (0 for none)
  NoLock

\* Locks: owner, type, range; rec is the record of flox[] the lock is in, as
\* far as it matters: which of the otherwise equal locks of the chain it is.
Locks == [pid : Procs, type : Types, start : Nat, end : Nat, rec : Nat]

ASSUME ConstAssumption ==
  /\ IsFiniteSet(Procs)
  /\ Recs \in Nat /\ Heads \in Nat /\ Bytes \in Nat /\ Leaks \in Nat
  /\ Types \subseteq {"RD", "WR"}
  /\ NoLock \notin Locks

VARIABLES
  flck,    \* the chain of each file
  fids,    \* files that have a header
  refcnt,  \* fl_refcnt of the header
  sleeplcks  \* the record of each process that sleeps: its request, the
             \* lock it sleeps on (its blkpid is on.pid), if it was woken

vars == <<flck, fids, refcnt, sleeplcks>>

\* What fcntl is asked for; convoff has made the offsets absolute, and l_len
\* is kept as the end of the range ("UN" is F_UNLCK).
Range0 == {r \in (0 .. Bytes) \X (0 .. Bytes) : r[1] < r[2]}
Request == [file : Files, type : Types \cup {"UN"}, range : Range0]

\* A lock to be set.
Lock(p, t, s, e) == [pid |-> p, type |-> t, start |-> s, end |-> e, rec |-> 0]
-----------------------------------------------------------------------------
\* Records in use, on chains and on sleeplcks (flckinfo.reccnt).
OnChains == UNION {{f} \X (1 .. Len(flck[f])) : f \in Files}
reccnt == Cardinality(OnChains) + Cardinality(DOMAIN sleeplcks)

\* Lock x keeps p from setting a lock of type t on [s, e).
Conflict(x, p, t, s, e) ==
  /\ x.pid # p /\ s < x.end /\ e > x.start
  /\ x.type = "WR" \/ (x.type = "RD" /\ t = "WR")

\* blocked: the first loop runs over locks that start before s and stops at
\* one of p's own that touches the range; the second starts there ...
Turn(c, p, s, e) ==
  SelectInSubSeq(c \o <<Lock(p, "UN", s, e)>>, 1, Len(c) + 1,
    LAMBDA x : x.start >= s \/ (x.pid = p /\ s <= x.end /\ e >= x.start))

\* Faulty variant: it stops after the first lock that starts behind s.
blockedNear(c, p, t, s, e) ==
  LET n == SelectInSubSeq(c, Turn(c, p, s, e), Len(c), LAMBDA x : x.start > s)
      i == SelectInSubSeq(c, 1, IF n = 0 THEN Len(c) ELSE n,
                          LAMBDA x : Conflict(x, p, t, s, e))
  IN IF i = 0 THEN NoLock ELSE c[i]

\* ... and stops after the first lock that starts behind the range.
blocked(c, p, t, s, e) ==
  LET n == SelectInSubSeq(c, Turn(c, p, s, e), Len(c), LAMBDA x : x.start > e)
      i == SelectInSubSeq(c, 1, IF n = 0 THEN Len(c) ELSE n,
                          LAMBDA x : Conflict(x, p, t, s, e))
  IN IF i = 0 THEN NoLock ELSE c[i]

\* blocked: the lock flckadj is to start at.
insrt(c, p, s, e) ==
  LET k == Turn(c, p, s, e)
      i == IF k <= Len(c) /\ c[k].start < s THEN k ELSE k - 1
  IN IF i = 0 THEN NoLock ELSE c[i]

Index(c, x) == IF x = NoLock THEN 0 ELSE SelectInSeq(c, LAMBDA y : y = x)

Fresh(c, y) ==
  LET With(k) == [y EXCEPT !.rec = k]
  IN With(Min({k \in 0 .. Len(c) : With(k) \notin ToSet(c)}))

Without(c, x) == RemoveAt(c, Index(c, x))

\* insflck: insert y after x.
insflck(c, x, y) == InsertAt(c, Index(c, x) + 1, Fresh(c, y))

\* The last of the locks from x on that start before s, no gap between; x if
\* it does not itself.
LastBefore(c, x, s) ==
  LET i == Index(c, x)
      j == SelectInSubSeq(c, i, Len(c), LAMBDA y : y.start >= s)
      k == IF j = 0 THEN Len(c) ELSE j - 1
  IN c[IF k > i THEN k ELSE i]

prev(c, x) == IF Index(c, x) = 1 THEN NoLock ELSE c[Index(c, x) - 1]

\* The state of flckadj: chain c, request ld = [type, start, end], insertion
\* point at, free records, locks whose sleepers are woken, what the call is to
\* return, and whether the loop is left.
delflck(S, x) == [S EXCEPT !.c = Without(@, x), !.free = @ + 1,
                           !.woken = @ \cup {x}]

\* insrtp moves to the lock before x if it is x.
StepBack(S, x) == IF S.at = x THEN [S EXCEPT !.at = prev(S.c, x)] ELSE S

\* Faulty variants: nobody is woken; the lock is not shortened.
CutQuietly(S, x) ==
  LET y == Fresh(Without(S.c, x), [x EXCEPT !.end = S.ld.start])
  IN [S EXCEPT !.c = ReplaceAt(@, Index(@, x), y), !.at = y]
CutNothing(S, x) == [S EXCEPT !.at = x, !.woken = @ \cup {x}]

Cut(S, x) ==
  LET y == Fresh(Without(S.c, x), [x EXCEPT !.end = S.ld.start])
  IN [S EXCEPT !.c = ReplaceAt(@, Index(@, x), y), !.at = y,
               !.woken = @ \cup {x}]

Leave(S, rv) == [S EXCEPT !.done = TRUE, !.rv = rv]

\* Faulty variant: the severed piece starts one byte late.
SeverLate(S, x) ==
  LET td == [x EXCEPT !.start = S.ld.end + 1]
  IN IF S.free = 0 THEN Leave(S, "ENOSPC")
     ELSE [S EXCEPT !.c = insflck(@, LastBefore(@, x, S.ld.start), td),
                    !.free = @ - 1]

\* The part of x behind the range becomes a lock of its own.
Sever(S, x) ==
  LET td == [x EXCEPT !.start = S.ld.end]
  IN IF S.free = 0 THEN Leave(S, "ENOSPC")
     ELSE [S EXCEPT !.c = insflck(@, LastBefore(@, x, S.ld.start), td),
                    !.free = @ - 1]

\* Lock x goes; the insertion point moves if it is x, or to the lock before x.
Dropped(S, x) == delflck(StepBack(S, x), x)
Gone(S, x) == delflck([S EXCEPT !.at = prev(S.c, x)], x)

Stop(S) == [S EXCEPT !.done = TRUE]

\* x becomes part of the range, which ends or begins with it.
JoinEnd(S, x) == [Stop(Dropped(S, x)) EXCEPT !.ld.end = x.end]
JoinStart(S, x) == [Gone(S, x) EXCEPT !.ld.start = x.start]

\* flckadj: what the request does to lock x of the caller, by the position of
\* the range relative to it (regflck).
Own(S, x) ==
  LET s == S.ld.start  e == S.ld.end  same == S.ld.type = x.type
      cut == Sever(S, x)
  IN CASE e < x.start -> Stop(S)
       [] e = x.start -> IF same THEN JoinEnd(S, x) ELSE Stop(S)
       [] s = x.start /\ e >= x.end ->
            IF same /\ e = x.end THEN Leave(S, "none") ELSE Gone(S, x)
       [] s < x.start /\ e >= x.end ->
            IF same /\ e = x.end THEN Stop(Dropped(S, x)) ELSE Dropped(S, x)
       [] s < x.start /\ x.start < e /\ e < x.end ->
            IF same THEN JoinEnd(S, x)
            ELSE IF cut.rv # "set" THEN cut ELSE Stop(Dropped(cut, x))
       [] x.start <= s /\ e < x.end ->
            IF same THEN Leave(S, "none")
            ELSE IF cut.rv # "set" THEN cut
            ELSE Stop(IF x.start < s THEN Cut(cut, x) ELSE Gone(cut, x))
       [] x.start < s /\ s < x.end /\ e = x.end ->
            IF same THEN Leave(S, "none") ELSE Cut(S, x)
       [] x.start < s /\ s <= x.end /\ e > x.end ->
            IF same THEN JoinStart(S, x) ELSE Cut(S, x)
       [] OTHER -> [S EXCEPT !.at = x]

\* flckadj: one turn of its loop, and the loop from the insertion point on.
Adjust(p, S, x) ==
  IF S.done THEN S
  ELSE IF x.pid = p THEN Own(S, x)
  ELSE IF x.start > S.ld.end THEN Stop(S) ELSE S

\* flckadj: the new lock is inserted where the chain stays sorted.
Insert(p, S) ==
  LET x == IF S.at = NoLock THEN NoLock ELSE LastBefore(S.c, S.at, S.ld.start)
  IN IF S.ld.type = "UN" THEN [S EXCEPT !.rv = "none"]
     ELSE IF S.free = 0 THEN [S EXCEPT !.rv = "ENOSPC"]
     ELSE [S EXCEPT !.c = insflck(@, x, Lock(p, S.ld.type, S.ld.start, S.ld.end)),
                    !.free = @ - 1, !.rv = "none"]

flckadj(p, c, at, ld, free) ==
  LET from == IF at = NoLock THEN 1 ELSE Index(c, at)
      S == FoldLeft(LAMBDA S, x : Adjust(p, S, x),
                    [c |-> c, ld |-> ld, at |-> at, free |-> free,
                     woken |-> {}, rv |-> "set", done |-> FALSE],
                    SubSeq(c, from, Len(c)))
  IN IF S.rv = "set" THEN Insert(p, S) ELSE S
-----------------------------------------------------------------------------
\* Faulty variant: only the owner of the lock itself is looked at.
deadflckOwner(p, x) == x.pid = p

\* q is on the way from the owner of lock x along the processes that sleep on
\* a lock of the next one, up to p: it is in every set that has the start and,
\* with each sleeper but p, the one it waits for.
OnWay(q, x, p) ==
  \A S \in SUBSET Procs :
    /\ x.pid \in S
    /\ \A y \in (S \cap DOMAIN sleeplcks) \ {p} : sleeplcks[y].on.pid \in S
    => q \in S

deadflck(p, x) == OnWay(p, x, p)

\* p is in setflck with request r: it has just called, and there is a header
\* (or one is to be had), or it has been woken.
InSetflck(p, r) ==
  \/ /\ p \notin DOMAIN sleeplcks /\ r \in Request
     /\ r.file \in fids \/ (r.type # "UN" /\ Cardinality(fids) < Heads)
  \/ /\ p \in DOMAIN sleeplcks /\ sleeplcks[p].woken
     /\ r = sleeplcks[p].req

\* The lock that keeps p from what it asks for, if any.
Found(p, r) ==
  IF r.type = "UN" THEN NoLock
  ELSE blocked(flck[r.file], p, r.type, r.range[1], r.range[2])

\* Free records, the one p slept on included.
Free(p) == Recs - reccnt + (IF p \in DOMAIN sleeplcks THEN 1 ELSE 0)

\* What flckadj makes of the chain.
Adjusted(p, r) ==
  LET c == flck[r.file]
      head == IF c = <<>> THEN NoLock ELSE c[1]
  IN flckadj(p, c, IF r.type = "UN" THEN head
                   ELSE insrt(c, p, r.range[1], r.range[2]),
             [type |-> r.type, start |-> r.range[1], end |-> r.range[2]],
             Free(p))

\* Faulty variant: the header is kept.
freefidKeep(p, f) ==
  LET n == refcnt[f] - (IF p \in DOMAIN sleeplcks THEN 1 ELSE 0)
  IN refcnt' = [refcnt EXCEPT ![f] = n] /\ fids' = fids \cup {f}

\* freefid at the end of a call of p: the reference of the call is given up,
\* with the header if nothing else needs it.
freefid(p, f) ==
  LET n == refcnt[f] - (IF p \in DOMAIN sleeplcks THEN 1 ELSE 0)
  IN /\ refcnt' = [refcnt EXCEPT ![f] = n]
     /\ fids' = IF n = 0 /\ flck'[f] = <<>> THEN fids \ {f} ELSE fids \cup {f}

\* Whoever sleeps on one of the locks L of file f is woken; p is off sleeplcks.
Wake(p, f, L) ==
  sleeplcks' = [q \in DOMAIN sleeplcks \ {p} |->
    LET w == sleeplcks[q]
    IN [req |-> w.req, on |-> w.on,
        woken |-> w.woken \/ (w.req.file = f /\ w.on \in L)]]

\* setflck: nothing is in the way, flckadj sets or removes the lock, or fails
\* half way for want of a record.
Set(p, r) ==
  /\ InSetflck(p, r)
  /\ Found(p, r) = NoLock
  /\ flck' = [flck EXCEPT ![r.file] = Adjusted(p, r).c]
  /\ Wake(p, r.file, Adjusted(p, r).woken)
  /\ freefid(p, r.file)

\* setflck: the range is locked and the caller does not wait, or there is no
\* record left to sleep on.
Refuse(p, r) ==
  /\ InSetflck(p, r)
  /\ Found(p, r) # NoLock
  /\ p \notin DOMAIN sleeplcks
  /\ UNCHANGED flck
  /\ Wake(p, r.file, {})
  /\ freefid(p, r.file)

\* setflck: waiting would close a circle.
Deadlk(p, r) ==
  /\ InSetflck(p, r)
  /\ Found(p, r) # NoLock /\ deadflck(p, Found(p, r))
  /\ UNCHANGED flck
  /\ Wake(p, r.file, {})
  /\ freefid(p, r.file)

\* setflck: p goes to sleep on the lock in its way.
Sleep(p, r) ==
  LET x == Found(p, r) IN
  /\ InSetflck(p, r)
  /\ x # NoLock /\ ~ deadflck(p, x) /\ Free(p) > 0
  /\ sleeplcks' = [q \in DOMAIN sleeplcks \cup {p} |->
                     IF q = p THEN [req |-> r, on |-> x, woken |-> FALSE]
                     ELSE sleeplcks[q]]
  /\ refcnt' = [refcnt EXCEPT ![r.file] =
                   IF p \in DOMAIN sleeplcks THEN @ ELSE @ + 1]
  /\ fids' = fids \cup {r.file}
  /\ UNCHANGED flck

\* setflck: a signal comes while p sleeps, or before it runs after a wakeup.
Interrupt(p) ==
  /\ p \in DOMAIN sleeplcks
  /\ UNCHANGED flck
  /\ LET f == sleeplcks[p].req.file IN Wake(p, f, {}) /\ freefid(p, f)

\* cleanlocks: one turn of its loop, and the loop.
Drop(p, c, x) == IF x.pid = p THEN Without(c, x) ELSE c
Cleaned(p, c) == FoldLeft(LAMBDA d, x : Drop(p, d, x), c, c)

\* cleanlocks: p closes a descriptor of f and loses all its locks on it.
cleanlocks(p, f) ==
  /\ p \notin DOMAIN sleeplcks /\ f \in fids
  /\ flck' = [flck EXCEPT ![f] = Cleaned(p, @)]
  /\ Wake(p, f, {x \in ToSet(flck[f]) : x.pid = p})
  /\ freefid(p, f)

\* getflck with an offset convoff refuses (no such whence, or before the file):
\* findfid counts the caller, and the early return forgets freefid.
GetBadOffset(p, f) ==
  /\ p \notin DOMAIN sleeplcks /\ f \in fids /\ refcnt[f] < Leaks
  /\ refcnt' = [refcnt EXCEPT ![f] = @ + 1]
  /\ UNCHANGED <<flck, fids, sleeplcks>>

\* flckinit.
Init == /\ flck = [f \in Files |-> <<>>]
        /\ fids = {}
        /\ refcnt = [f \in Files |-> 0]
        /\ sleeplcks = [p \in {} |-> NoLock]

Setflck(p) == \E r \in Request : Set(p, r) \/ Refuse(p, r) \/ Deadlk(p, r)
                                           \/ Sleep(p, r)

Next == \E p \in Procs : \/ Setflck(p)
                         \/ Interrupt(p)
                         \/ \E f \in Files : cleanlocks(p, f) \/ GetBadOffset(p, f)

Spec == Init /\ [][Next]_vars
-----------------------------------------------------------------------------
\* Type correctness.
LockType == [pid : Procs, type : Types, start : 0 .. Bytes, end : 0 .. Bytes,
             rec : 0 .. Recs]
SleepType == [req : Request, on : LockType, woken : BOOLEAN]

TypeOK ==
  /\ flck \in [Files -> Seq(LockType)]
  /\ fids \subseteq Files /\ Cardinality(fids) <= Heads
  /\ refcnt \in [Files -> Nat]
  /\ DOMAIN sleeplcks \subseteq Procs
  /\ \A p \in DOMAIN sleeplcks : sleeplcks[p] \in SleepType
  /\ reccnt <= Recs

\* No two processes have locks that exclude each other.
NoConflict ==
  \A f \in Files : \A i, j \in DOMAIN flck[f] :
    LET x == flck[f][i]  y == flck[f][j]
    IN ~ Conflict(x, y.pid, y.type, y.start, y.end)

\* Chains are sorted by start, as blocked assumes when it stops early, and the
\* locks of a process are apart: joined when alike, cut when not.
Normal ==
  \A f \in Files : \A i, j \in DOMAIN flck[f] :
    LET x == flck[f][i]  y == flck[f][j]
    IN i < j => /\ x.start <= y.start
                /\ x.pid = y.pid => x.end + (IF x.type = y.type THEN 1 ELSE 0)
                                      <= y.start

\* Whoever sleeps and has not been woken sleeps on a lock that is still there
\* and still in its way: there is a wakeup to come.
SleeperBlocked ==
  \A p \in DOMAIN sleeplcks : ~ sleeplcks[p].woken =>
    LET r == sleeplcks[p].req  x == sleeplcks[p].on IN
    /\ x \in ToSet(flck[r.file])
    /\ Conflict(x, p, r.type, r.range[1], r.range[2])

\* The processes on sleeplcks never wait in a circle: deadflck ends, and no
\* set of processes sleeps for ever on each other's locks.
NoCircle ==
  \A S \in SUBSET DOMAIN sleeplcks :
    (\A p \in S : sleeplcks[p].on.pid \in S) => S = {}

\* Header accounting: fl_refcnt is never less than the calls asleep on the
\* file, and a header is kept exactly as long as it has a lock or a reference:
\* none goes back to the pool too early, or stays for nothing.
RefsKept ==
  \A f \in Files :
    /\ refcnt[f] >= Cardinality({p \in DOMAIN sleeplcks : sleeplcks[p].req.file = f})
    /\ f \in fids <=> refcnt[f] > 0 \/ flck[f] # <<>>

\* fl_refcnt is the "# of procs currently referencing this flino" (flock.h): of
\* the calls that sleep, between two actions.  An F_GETLK that fails in convoff
\* counts for ever.
RefsExact ==
  \A f \in Files :
    refcnt[f] = Cardinality({p \in DOMAIN sleeplcks : sleeplcks[p].req.file = f})

\* What p has locked of byte b by chain c.
Mode(c, p, b) ==
  LET X == {x \in ToSet(c) : x.pid = p /\ x.start <= b /\ b < x.end}
  IN IF X = {} THEN "UN" ELSE (CHOOSE x \in X : TRUE).type

\* Whatever is split, joined or replaced, a call sets exactly the bytes asked
\* for; one that runs out of records half way has at worst lost the caller's
\* own locks on some of them.
SetsExactly ==
  \A p \in Procs : \A r \in Request :
    InSetflck(p, r) /\ Found(p, r) = NoLock =>
      LET S == Adjusted(p, r) IN
      \A q \in Procs, b \in 0 .. Bytes - 1 :
        LET old == Mode(flck[r.file], q, b)
            Allowed == IF q # p \/ b < r.range[1] \/ b >= r.range[2] THEN {old}
                       ELSE IF S.rv = "ENOSPC" THEN {old, "UN"} ELSE {r.type}
        IN Mode(S.c, q, b) \in Allowed

held == [f \in Files |->
           [p \in Procs |-> [b \in 0 .. Bytes - 1 |-> Mode(flck[f], p, b)]]]

\* The chains behave like a table of what each process has locked: a step
\* changes one process's bytes, all alike, and only to what the others' locks
\* allow.
Table == INSTANCE LockTable
ImplementsLockTable == Table!Spec
=============================================================================
