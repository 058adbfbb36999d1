----------------------------- MODULE UserLocks -----------------------------
(***************************************************************************)
(* The locking system call: PAGING/os/ulocking.c.  A file has a list of    *)
(* locked regions, by start, in records of one pool; all locks exclude     *)
(* everybody else, from reading and writing too (svfs_rdwr).  A process    *)
(* sleeps in one place, in locked, on a record of another process.         *)
(***************************************************************************)
EXTENDS Kernel

CONSTANTS
  LockFiles,  \* files
  Records,    \* records of locklist[] but the first, which heads the free ones
  MAXSIZE,    \* the end of a region without one
  Asked       \* bound: the offsets and sizes the processes ask for

ASSUME UserLockAssumption ==
  /\ MAXSIZE \in Nat /\ Records \subseteq Nat /\ IsFiniteSet(Records)
  /\ Asked \subseteq Nat \X Int

\* locking: the region <<LB, UB>> of an offset and a size.  No size, or a sum
\* that is not positive or leaves the 32 bits of off_t (twice MAXSIZE), means
\* up to MAXSIZE; nothing else is checked.
Bounds(at, size) ==
  <<at, IF size # 0 /\ at + size > 0 /\ at + size < 2 * MAXSIZE THEN at + size ELSE MAXSIZE>>
Regions == {Bounds(a[1], a[2]) : a \in Asked}

\* The regions have bytes, below MAXSIZE.  locking sees to neither: a negative
\* size makes a region end before it starts, as an offset of MAXSIZE or more
\* does, and such locks put a list out of order.
ProperRegions == \A rg \in Regions : rg[1] < rg[2] /\ rg[2] <= MAXSIZE

VARIABLES
  locklist,  \* of each file: ll_proc, ll_start, ll_end and the record
  want,      \* records marked IWANT
  lockers    \* processes in locked, and what for

lockVars == <<locklist, want, lockers>>

-----------------------------------------------------------------------------
Record(r) == <<"lock", r>>  \* the address slept on
Used == {x.rec : x \in UNION {ToSet(locklist[f]) : f \in LockFiles}}
Unused == Records \ Used

\* The places of list c before the first lock that starts behind the region.
Upto(c, UB) == {i \in 1 .. Len(c) : \A j \in 1 .. i : c[j].start < UB}

\* Faulty: a lock that starts before the region is taken to end before it.
BlockingInside(p, c, LB, UB) ==
  {i \in Upto(c, UB) : c[i].proc # p /\ c[i].start >= LB}

\* The locks of others in a region.
Blocking(p, c, LB, UB) ==
  {i \in Upto(c, UB) : c[i].proc # p /\ c[i].end > LB}

Owner(r) == (CHOOSE x \in UNION {ToSet(locklist[f]) : f \in LockFiles} : x.rec = r).proc
\* The owner of the lock o sleeps on.
WaitsFor(o) == Owner(lockers[o].chan[2])

\* Faulty: only the owner itself is looked at.
deadlockNear(p, x) ==
  \E o \in {x.proc} \cap Asleep(lockers) : WaitsFor(o) = p

\* deadlock: from the owner of lock x to the owner of the lock it sleeps on,
\* and so on, the walk comes to p: p is in every set it cannot leave.
deadlock(p, x) ==
  \A S \in SUBSET Procs :
    x.proc \in S /\ (\A o \in S \cap Asleep(lockers) : WaitsFor(o) \in S) => p \in S

\* Faulty: the sleepers are forgotten.
WakeNot(w, recs) == w

\* lockfree, and unlock of a part: who sleeps on the records is woken.
Wake(w, recs) == wakeup(w, {Record(r) : r \in recs \cap want})
-----------------------------------------------------------------------------
Mine(p, LB, UB, r) == [proc |-> p, start |-> LB, end |-> UB, rec |-> r]

\* The last lock after the first one that starts before LB.
Place(c, LB) == Min({j \in 2 .. Len(c) + 1 : j > Len(c) \/ c[j].start >= LB}) - 1

\* Faulty: nothing is dropped.
CompactedNot(p, c, i) == c

\* What the end of lock i now reaches is dropped, the last with its end.
Compacted(p, c, i) ==
  LET past == Min({j \in i + 1 .. Len(c) + 1 :
                     j > Len(c) \/ c[j].proc # p \/ c[i].end < c[j].start \/ c[i].end <= c[j].end})
      takes == past <= Len(c) /\ c[past].proc = p /\ c[i].end >= c[past].start
  IN SubSeq(c, 1, i - 1)
     \o <<[c[i] EXCEPT !.end = IF takes THEN c[past].end ELSE @]>>
     \o SubSeq(c, IF takes THEN past + 1 ELSE past, Len(c))

AtHead(p, c, LB, UB) ==
  c = <<>> \/ UB < c[1].start \/ (UB = c[1].start /\ p # c[1].proc)
Stretched(c, LB) == [c EXCEPT ![1].start = IF LB < @ THEN LB ELSE @]

\* Lock i of p reaches up to the region; lock i, not the last, reaches as far.
Touches(p, c, i, LB) == LB <= c[i].end /\ p = c[i].proc
Resolved(c, i, UB) == i < Len(c) /\ UB <= c[i].end

\* A record is needed.
Needs(p, c, LB, UB) ==
  \/ AtHead(p, c, LB, UB)
  \/ LET d == Stretched(c, LB)
         i == Place(d, LB)
     IN ~Touches(p, d, i, LB) /\ ~Resolved(d, i, UB)

\* The list with a lock of p added, in record r where it needs one.
Added(p, c, LB, UB, r) ==
  LET d == Stretched(c, LB)
      i == Place(d, LB)
  IN CASE AtHead(p, c, LB, UB) -> <<Mine(p, LB, UB, r)>> \o c
       [] ~AtHead(p, c, LB, UB) /\ ~Touches(p, d, i, LB) ->
            IF Resolved(d, i, UB) THEN d
            ELSE Compacted(p, InsertAt(d, i + 1, Mine(p, LB, UB, r)), i + 1)
       [] ~AtHead(p, c, LB, UB) /\ Touches(p, d, i, LB) ->
            IF UB <= d[i].end THEN d ELSE Compacted(p, [d EXCEPT ![i].end = UB], i)

\* What is left of a lock when a region is unlocked, r the record for a tail.
Left(x, LB, UB, r) ==
  (IF x.start < LB THEN <<[x EXCEPT !.end = LB]>> ELSE <<>>)
  \o (IF UB < x.end
      THEN <<[x EXCEPT !.start = UB, !.rec = IF x.start < LB THEN r ELSE @]>> ELSE <<>>)

\* The locks of p an unlock comes to: it stops at one that goes on past UB.
Severed(x, LB, UB) == x.start < LB /\ UB < x.end
Hit(p, c, LB, UB) ==
  {i \in 1 .. Len(c) :
     /\ c[i].proc = p /\ c[i].start < UB /\ LB < c[i].end
     /\ \A j \in 1 .. i - 1 : c[j].proc = p => c[j].start < UB /\ (UB < c[j].end => c[j].end <= LB)}

\* The list with a region of p unlocked, r the record for the tail of a severed lock.
Unlocked(p, c, LB, UB, r) ==
  LET hit == Hit(p, c, LB, UB)
  IN FlattenSeq([i \in 1 .. Len(c) |-> IF i \in hit THEN Left(c[i], LB, UB, r) ELSE <<c[i]>>])

\* The region is unlocked; everybody who sleeps on one of the locks is woken,
\* even if there is no record for the tail of a severed one.
Unlock(p, f, LB, UB) ==
  LET c == locklist[f]
      hit == Hit(p, c, LB, UB)
      fails == Unused = {} /\ \E i \in hit : Severed(c[i], LB, UB)
      r == IF Unused = {} THEN 0 ELSE Min(Unused)
      recs == {c[i].rec : i \in hit}
  IN /\ locklist' = IF fails THEN locklist
                    ELSE [locklist EXCEPT ![f] = Unlocked(p, c, LB, UB, r)]
     /\ want' = want \ recs
     /\ lockers' = Wake(lockers, recs)
-----------------------------------------------------------------------------
\* A lock of p is added, unless it needs a record and there is none; records
\* that are freed wake who sleeps on them.
Lock(p, f, LB, UB) ==
  IF Needs(p, locklist[f], LB, UB) /\ Unused = {}
  THEN /\ lockers' = unsleep(lockers, p) /\ want' = want
       /\ locklist' = [locklist EXCEPT ![f] =
                         IF AtHead(p, @, LB, UB) THEN @ ELSE Stretched(@, LB)]
  ELSE LET r == IF Unused = {} THEN 0 ELSE Min(Unused)
           c == Added(p, locklist[f], LB, UB, r)
           freed == {x.rec : x \in ToSet(locklist[f]) \cup ToSet(c)} \ {x.rec : x \in ToSet(c)}
       IN /\ locklist' = [locklist EXCEPT ![f] = c]
          /\ want' = want \ freed
          /\ lockers' = Wake(unsleep(lockers, p), freed)

\* locked: the call ends, with or without an error, or p sleeps on a lock.
locked(p, c) ==
  LET b == Blocking(p, locklist[c.file], c.LB, c.UB)
      x == locklist[c.file][Min(b)]
      Return == lockers' = unsleep(lockers, p) /\ UNCHANGED <<locklist, want>>
  IN \/ b = {} /\ c.io /\ Return
     \/ b = {} /\ ~c.io /\ Lock(p, c.file, c.LB, c.UB)
     \/ b # {} /\ (~c.wait \/ deadlock(p, x)) /\ Return
     \/ /\ b # {} /\ c.wait /\ ~deadlock(p, x)
        /\ want' = want \cup {x.rec}
        /\ lockers' = sleep(lockers, p, [c EXCEPT !.chan = Record(x.rec)])
        /\ UNCHANGED locklist

\* locking with a flag of 1 (wait) or 2, and svfs_rdwr of a file with locks.
Locking(p, f, rg, wait) ==
  /\ p \notin DOMAIN lockers
  /\ locked(p, [chan |-> Run, file |-> f, LB |-> rg[1], UB |-> rg[2], wait |-> wait, io |-> FALSE])

RdWr(p, f, rg) ==
  /\ p \notin DOMAIN lockers /\ locklist[f] # <<>>
  /\ locked(p, [chan |-> Run, file |-> f, LB |-> rg[1], UB |-> rg[2], wait |-> TRUE, io |-> TRUE])

Woken(p) ==
  p \in DOMAIN lockers /\ lockers[p].chan = Run /\ locked(p, lockers[p])

\* A signal: the call is left from the sleep.
LockInterrupt(p) ==
  p \in DOMAIN lockers /\ lockers' = unsleep(lockers, p) /\ UNCHANGED <<locklist, want>>

\* locking with a flag of 0.
Unlocking(p, f, rg) == p \notin DOMAIN lockers /\ Unlock(p, f, rg[1], rg[2])

\* The list without the locks of p.
Without(p, c) == FlattenSeq([i \in 1 .. Len(c) |-> IF c[i].proc = p THEN <<>> ELSE <<c[i]>>])

\* unlock, called by svfs_close.
unlock(p, f) ==
  LET gone == {x.rec : x \in {y \in ToSet(locklist[f]) : y.proc = p}}
  IN /\ p \notin DOMAIN lockers
     /\ locklist' = [locklist EXCEPT ![f] = Without(p, @)]
     /\ want' = want \ gone
     /\ lockers' = Wake(lockers, gone)
-----------------------------------------------------------------------------
LockInit == locklist = [f \in LockFiles |-> <<>>] /\ want = {} /\ lockers = <<>>

LockNext ==
  \E p \in Procs :
    \/ Woken(p) \/ LockInterrupt(p)
    \/ \E f \in LockFiles :
         \/ unlock(p, f)
         \/ \E rg \in Regions : \/ Unlocking(p, f, rg) \/ RdWr(p, f, rg)
                                \/ \E wait \in BOOLEAN : Locking(p, f, rg, wait)

LockSpec == LockInit /\ [][LockNext]_lockVars
-----------------------------------------------------------------------------
\* The list of a file is in order and without overlaps, regions of one process
\* that touch are one lock, and no record is in two places: locked and locking
\* stop their searches where only that makes them right.
ListsOrdered ==
  /\ \A f \in LockFiles : \A i, j \in DOMAIN locklist[f] :
       LET x == locklist[f][i]
           y == locklist[f][j]
       IN /\ x.start < x.end
          /\ i < j => x.end <= y.start /\ (x.proc = y.proc => x.end < y.start)
  /\ \A f, g \in LockFiles : \A i \in DOMAIN locklist[f], j \in DOMAIN locklist[g] :
       locklist[f][i].rec = locklist[g][j].rec => f = g /\ i = j
  /\ want \subseteq Used

\* Whoever sleeps in locked sleeps on a lock that is in its way and is marked,
\* so that the unlock that opens its way wakes it.
LockSleeper ==
  \A p \in Asleep(lockers) :
    LET c == lockers[p]
    IN /\ c.chan[2] \in want
       /\ \E x \in ToSet(locklist[c.file]) :
            x.rec = c.chan[2] /\ x.proc # p /\ x.start < c.UB /\ c.LB < x.end

\* No processes sleep on each other's locks in a circle.
NoLockCircle ==
  \A S \in SUBSET Asleep(lockers) : (\A p \in S : WaitsFor(p) \in S) => S = {}

\* What the processes have locked is a table of locked bytes: a call locks or
\* unlocks its region or nothing, and never a byte somebody else has.
held == [f \in LockFiles |-> [p \in Procs |-> [b \in 0 .. MAXSIZE - 1 |->
          IF \E x \in ToSet(locklist[f]) : x.proc = p /\ x.start <= b /\ b < x.end
          THEN "WR" ELSE "UN"]]]
Table == INSTANCE LockTable WITH Files <- LockFiles, Bytes <- MAXSIZE, Types <- {"WR"}
ImplementsTable == Table!Spec
=============================================================================
