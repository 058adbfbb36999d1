------------------------------- MODULE Inodes -------------------------------
(***************************************************************************)
(* The inode cache, the name cache and the operations on one directory:    *)
(* SVFS/sys/5_inode.c, 5_alloc.c, 5_dir.c and COMMON/os/vfs_dnlc.c.        *)
(* The kernel is not preempted: a process that has the cpu keeps it until  *)
(* it waits for an inode's lock, for the list of free inodes, or for the   *)
(* disk.  Its routines call each other: each process has a stack of        *)
(* frames, the routine it is in first; at says where in it the process is, *)
(* x is the routine's argument.                                            *)
(***************************************************************************)
EXTENDS Integers, FiniteSets, SequencesExt

CONSTANTS
  Procs,        \* processes
  Names,        \* names in the directory
  Slots,        \* the inode table, the directory's own inode apart
  Inos,         \* inumbers the disk has inodes for are 1 .. Inos
  NICINOD,      \* size of the super block's list of free inodes
  NcSize,       \* NC_SIZE, entries of the name cache
  PurgeSleeps,  \* dnlc_purge may have to wait for the block of an inode
  Root, None, Nobody

ASSUME InodesAssumption ==
  /\ Inos \in Nat /\ NICINOD \in Nat \ {0} /\ NcSize \in Nat
  /\ PurgeSleeps \in BOOLEAN /\ Root \notin Slots /\ None \notin Slots

VARIABLES
  core,   \* the inode table: i_number, ILOCKED, IWANT, v_count, i_mode,
          \* i_nlink, and if it differs from its buffer (IUPD|IACC|ICHG)
  freel,  \* ifreeh, the list of slots nobody refers to
  buf,    \* inodes as they are in the buffers of their blocks ...
  disk,   \* ... and on the disk, delayed writes being done at any time: the
          \* fewest links an inode may have there, 0 if it may be free
  dir,    \* the directory: the inumber of each name, or 0
  ddir,   \* the directory as it is on the disk
  sb,     \* the super block: s_inode, s_ninode, s_ilock
  nc,     \* the name cache from the least recently used entry on
  proc,   \* the processes
  cpu     \* the process running in the kernel

fsVars == <<core, freel, buf, disk, dir, ddir, sb, nc>>
vars == <<fsVars, proc, cpu>>

Ino == 1 .. Inos
Awake == "awake"
Ilist == "s_ilock"
NoEntry == [name |-> None, vp |-> None]
Idle == [stk |-> <<>>, chan |-> Awake, op |-> "none", name |-> None,
         to |-> None, mode |-> "file", sip |-> None, tip |-> None,
         got |-> None, fd |-> None]

\* Frames.
goto(q, l) == [q EXCEPT !.stk[1].at = l]
call(q, l, arg) == [q EXCEPT !.stk = <<[at |-> l, x |-> arg]>> \o @]
return(q, v) == [q EXCEPT !.stk = Tail(@), !.got = v]
finish(q) == [Idle EXCEPT !.fd = q.fd]

\* p may run, in the kernel, and what it does then.
Running(p) == cpu \in {p, Nobody} /\ proc[p].chan = Awake /\ proc[p].stk # <<>>
At(p, l) == proc[p].stk[1].at = l
Arg(p) == proc[p].stk[1].x

\* p becomes q, sleepers on the channels in woken are woken, and c has the cpu.
Step(p, q, woken, c) ==
  /\ proc' = [r \in Procs |-> IF r = p THEN q
                ELSE IF proc[r].chan \in woken THEN [proc[r] EXCEPT !.chan = Awake]
                ELSE proc[r]]
  /\ cpu' = c
Continue(p, q) == Step(p, q, {}, IF q.stk = <<>> THEN Nobody ELSE p)
Wait(p, q) == Step(p, q, {}, Nobody)  \* for the disk
Sleep(p, c) == Wait(p, [proc[p] EXCEPT !.chan = c])

\* iunlock in table c: the others it wakes.
iunlock(c, s) == [c EXCEPT ![s].lock = FALSE, ![s].want = FALSE]
Waiting(s) == IF core[s].want THEN {s} ELSE {}
Unlocking(p, q, S) ==
  Step(p, q, UNION {Waiting(s) : s \in S}, IF q.stk = <<>> THEN Nobody ELSE p)

\* Faulty: an inode without links is not kept for those who hold it.
UnreferencedOrRemoved(c, s) == c[s].count = 0 \/ c[s].nlink <= 0

\* VN_RELE in table c, and what it has the process do.
rele(c, s) == [c EXCEPT ![s].count = @ - 1]
Unreferenced(c, s) == c[s].count = 0
inactive(q, c, s) == IF Unreferenced(c, s) THEN call(q, "inactive", s) ELSE q
-----------------------------------------------------------------------------
\* ilock, also as the end of a lookup that had a hit in the name cache.
Ilock(p) ==
  /\ At(p, "ilock") \/ At(p, "ilockhit")
  /\ LET s == Arg(p)
     IN IF core[s].lock
        THEN core' = [core EXCEPT ![s].want = TRUE] /\ Sleep(p, s)
        ELSE /\ core' = [core EXCEPT ![s].lock = TRUE]
             /\ Continue(p, return(proc[p], IF At(p, "ilock") THEN None ELSE s))
  /\ UNCHANGED <<freel, buf, disk, dir, ddir, sb, nc>>

InCore(n) == {s \in Slots : core[s].num = n}

\* iget of an inode in core.
IgetHit(p) ==
  /\ At(p, "iget")
  /\ \E s \in InCore(Arg(p)) :
       IF core[s].lock
       THEN /\ core' = [core EXCEPT ![s].want = TRUE] /\ Sleep(p, s)
            /\ UNCHANGED freel
       ELSE /\ core' = [core EXCEPT ![s].lock = TRUE, ![s].count = @ + 1]
            /\ freel' = SelectSeq(freel, LAMBDA t : t # s)
            /\ Continue(p, return(proc[p], s))
  /\ UNCHANGED <<buf, disk, dir, ddir, sb, nc>>

\* iget of another one: when no slot is free, names are purged ...
IgetPurge(p) ==
  /\ At(p, "iget") /\ InCore(Arg(p)) = {} /\ freel = <<>>
  /\ Continue(p, call(goto(proc[p], "igetfree"), "purge", None))
  /\ UNCHANGED fsVars

\* ... and if there is none then, it fails (ENFILE).
IgetFails(p) ==
  /\ At(p, "igetfree") /\ freel = <<>>
  /\ Continue(p, return(proc[p], None))
  /\ UNCHANGED fsVars

\* Faulty: the slot goes to its new hash chain when the inode has been read.
IgetFreeLate(p) ==
  /\ (At(p, "iget") /\ InCore(Arg(p)) = {}) \/ At(p, "igetfree")
  /\ freel # <<>>
  /\ core' = [core EXCEPT ![Head(freel)].num = 0, ![Head(freel)].lock = TRUE]
  /\ freel' = Tail(freel)
  /\ Wait(p, call(goto(proc[p], "igetread"), "igetslot", Head(freel)))
  /\ UNCHANGED <<buf, disk, dir, ddir, sb, nc>>

\* The first free slot gets the inode, which is then read.
IgetFree(p) ==
  /\ (At(p, "iget") /\ InCore(Arg(p)) = {}) \/ At(p, "igetfree")
  /\ freel # <<>>
  /\ core' = [core EXCEPT ![Head(freel)].num = Arg(p), ![Head(freel)].lock = TRUE]
  /\ freel' = Tail(freel)
  /\ Wait(p, call(goto(proc[p], "igetread"), "igetslot", Head(freel)))
  /\ UNCHANGED <<buf, disk, dir, ddir, sb, nc>>

IgetRead(p) ==
  /\ At(p, "igetslot")
  /\ LET s == Arg(p)  q == return(proc[p], None)  n == q.stk[1].x
     IN /\ core' = [core EXCEPT ![s] = [@ EXCEPT !.num = n, !.count = 1,
                      !.mode = buf[n].mode, !.nlink = buf[n].nlink, !.mark = FALSE]]
        /\ Continue(p, return(q, s))
  /\ UNCHANGED <<freel, buf, disk, dir, ddir, sb, nc>>

Links(d) == IF d.mode = "free" THEN 0 ELSE d.nlink

\* iupdat once the block has been read: the inode is copied to the buffer,
\* which is written some day, or at once ("ipackw").
Iupdat(p) ==
  /\ At(p, "ipack") \/ At(p, "ipackw")
  /\ LET s == Arg(p)  d == [mode |-> core[s].mode, nlink |-> core[s].nlink]
     IN /\ buf' = [buf EXCEPT ![core[s].num] = d]
        /\ disk' = [disk EXCEPT ![core[s].num] = IF Links(d) < @ THEN Links(d) ELSE @]
        /\ core' = [core EXCEPT ![s].mark = FALSE]
  /\ IF At(p, "ipack") THEN Continue(p, return(proc[p], None))
     ELSE Wait(p, goto(proc[p], "bwrite"))
  /\ UNCHANGED <<freel, dir, ddir, sb, nc>>

IupdatWritten(p) ==
  /\ At(p, "bwrite")
  /\ disk' = [disk EXCEPT ![core[Arg(p)].num] = Links(buf[core[Arg(p)].num])]
  /\ Continue(p, return(proc[p], None))
  /\ UNCHANGED <<core, freel, buf, dir, ddir, sb, nc>>

\* Faulty: the inode goes to the free list still locked, its sleepers asleep.
InactiveEndQuiet(p) ==
  /\ At(p, "inactend")
  /\ core' = [core EXCEPT ![Arg(p)].lock = FALSE, ![Arg(p)].want = FALSE]
  /\ freel' = Append(freel, Arg(p))
  /\ Continue(p, return(proc[p], None))
  /\ UNCHANGED <<buf, disk, dir, ddir, sb, nc>>

\* iinactive: an inode without links is truncated, which writes it, ...
InactiveStart(p) ==
  /\ At(p, "inactive")
  /\ LET s == Arg(p)
         purging == \E i \in DOMAIN proc[p].stk : proc[p].stk[i].at = "purged"
     IN IF core[s].nlink <= 0
        THEN /\ core' = [core EXCEPT ![s].lock = TRUE, ![s].mark = TRUE]
             /\ Wait(p, call(goto(proc[p], "inactfree"), "ipackw", s))
        ELSE /\ core' = [core EXCEPT ![s].lock = TRUE]
             /\ IF ~core[s].mark THEN Continue(p, goto(proc[p], "inactend"))
                ELSE Step(p, call(goto(proc[p], "inactend"), "ipack", s), {},
                          IF purging /\ ~PurgeSleeps THEN p ELSE Nobody)
  /\ UNCHANGED <<freel, buf, disk, dir, ddir, sb, nc>>

\* ifree: the number goes to the list unless that is in use or full; a full
\* list keeps in its last place the lowest, where the next search starts.
ifree(n) ==
  IF sb.ilock THEN sb
  ELSE IF sb.n < NICINOD THEN [sb EXCEPT !.inode[sb.n] = n, !.n = @ + 1]
  ELSE IF n < sb.inode[0] THEN [sb EXCEPT !.inode[0] = n] ELSE sb

\* Faulty: the inode is not marked, so it is not written.
InactiveFreeUnmarked(p) ==
  /\ At(p, "inactfree")
  /\ core' = [core EXCEPT ![Arg(p)].mode = "free"]
  /\ sb' = ifree(core[Arg(p)].num)
  /\ Continue(p, goto(proc[p], "inactend"))
  /\ UNCHANGED <<freel, buf, disk, dir, ddir, nc>>

\* ... freed and written, some day, ...
InactiveFree(p) ==
  /\ At(p, "inactfree")
  /\ core' = [core EXCEPT ![Arg(p)].mode = "free", ![Arg(p)].mark = TRUE]
  /\ sb' = ifree(core[Arg(p)].num)
  /\ Wait(p, call(goto(proc[p], "inactend"), "ipack", Arg(p)))
  /\ UNCHANGED <<freel, buf, disk, dir, ddir, nc>>

\* ... and any inode goes to the end of the free list.
InactiveEnd(p) ==
  /\ At(p, "inactend")
  /\ core' = iunlock(core, Arg(p))
  /\ freel' = Append(freel, Arg(p))
  /\ Unlocking(p, return(proc[p], None), {Arg(p)})
  /\ UNCHANGED <<buf, disk, dir, ddir, sb, nc>>
-----------------------------------------------------------------------------
\* ialloc(mode, nlink): a number from the list ...
Ialloc(p) ==
  /\ At(p, "ialloc")
  /\ IF sb.ilock THEN Sleep(p, Ilist) /\ UNCHANGED sb
     ELSE IF sb.n > 0 /\ sb.inode[sb.n - 1] # 0
     THEN /\ sb' = [sb EXCEPT !.n = @ - 1]
          /\ Continue(p, call(goto(proc[p], "ialloced"), "iget", sb.inode[sb.n - 1]))
     \* ... or, when it is used up, those found on the disk from s_inode[0] on
     ELSE /\ sb' = [sb EXCEPT !.n = NICINOD, !.ilock = TRUE]
          /\ Wait(p, call(proc[p], "scan", IF sb.inode[0] = 0 THEN 1 ELSE sb.inode[0]))
  /\ UNCHANGED <<core, freel, buf, disk, dir, ddir, nc>>

IallocScan(p) ==
  /\ At(p, "scan") /\ Arg(p) \in Ino /\ sb.n > 0
  /\ sb' = IF buf[Arg(p)].mode = "free"
           THEN [sb EXCEPT !.inode[sb.n - 1] = Arg(p), !.n = @ - 1] ELSE sb
  /\ Wait(p, [proc[p] EXCEPT !.stk[1].x = @ + 1])
  /\ UNCHANGED <<core, freel, buf, disk, dir, ddir, nc>>

\* The list is full, or filled up with zeros, or there is none (ENOSPC).
IallocScanned(p) ==
  /\ At(p, "scan") /\ (Arg(p) \notin Ino \/ sb.n = 0)
  /\ LET clear == IF sb.n = 0 THEN sb.inode
                  ELSE [sb.inode EXCEPT ![sb.n - 1] = 0, ![0] = 0]
         none == sb.n = NICINOD
         q == return(proc[p], None)
     IN /\ sb' = [inode |-> clear, n |-> IF none THEN 0 ELSE NICINOD, ilock |-> FALSE]
        /\ Step(p, IF none THEN return(q, None) ELSE q, {Ilist}, p)
  /\ UNCHANGED <<core, freel, buf, disk, dir, ddir, nc>>

\* The inode is taken if it is free.  It need not be: its block may have been
\* searched before its new owner had written to it.
IallocGot(p) ==
  /\ At(p, "ialloced")
  /\ LET s == proc[p].got  q == [proc[p] EXCEPT !.got = None]
     IN IF s = None
        THEN core' = core /\ Continue(p, return(q, None))
        ELSE IF core[s].mode = "free"
        THEN /\ core' = [core EXCEPT ![s] = [@ EXCEPT !.mode = q.mode, !.mark = TRUE,
                           !.nlink = IF q.mode = "dir" THEN 2 ELSE 1]]
             /\ Wait(p, call([q EXCEPT !.stk[1] = [at |-> "result", x |-> s]],
                             "ipack", s))
        ELSE /\ core' = [core EXCEPT ![s].mark = TRUE]
             /\ Wait(p, call([q EXCEPT !.stk[1] = [at |-> "iallocput", x |-> s]],
                             "ipack", s))
  /\ UNCHANGED <<freel, buf, disk, dir, ddir, sb, nc>>

IallocPut(p) ==
  /\ At(p, "iallocput")
  /\ LET s == Arg(p)  c == rele(iunlock(core, s), s)
         q == [proc[p] EXCEPT !.stk[1] = [at |-> "ialloc", x |-> None]]
     IN core' = c /\ Unlocking(p, inactive(q, c, s), {s})
  /\ UNCHANGED <<freel, buf, disk, dir, ddir, sb, nc>>

\* The end of ialloc, and of dirlook.
Result(p) ==
  /\ At(p, "result")
  /\ Continue(p, return(proc[p], Arg(p)))
  /\ UNCHANGED fsVars
-----------------------------------------------------------------------------
Entries(name) == {i \in DOMAIN nc : nc[i].name = name}

\* Faulty: the inode named is not held.
DnlcFillUnheld(p) ==
  /\ At(p, "ncfill")
  /\ nc' = Append(nc, [name |-> Arg(p).name, vp |-> Arg(p).vp])
  /\ Continue(p, return(proc[p], None))
  /\ UNCHANGED <<core, freel, buf, disk, dir, ddir, sb>>

\* dnlc_enter: the least recently used entry is released ...
DnlcEnter(p) ==
  /\ At(p, "dnlc_enter")
  /\ IF nc = <<>> \/ Entries(Arg(p).name) # {}
     THEN Continue(p, return(proc[p], None)) /\ UNCHANGED <<core, nc>>
     ELSE LET v == Head(nc).vp
              c == IF v = None THEN core ELSE rele(core, v)
              q == goto(proc[p], "ncfill")
          IN /\ core' = c /\ nc' = Tail(nc)
             /\ Continue(p, IF v = None THEN q ELSE inactive(q, c, v))
  /\ UNCHANGED <<freel, buf, disk, dir, ddir, sb>>

\* ... and filled in.
DnlcFill(p) ==
  /\ At(p, "ncfill")
  /\ core' = [core EXCEPT ![Arg(p).vp].count = @ + 1]
  /\ nc' = Append(nc, [name |-> Arg(p).name, vp |-> Arg(p).vp])
  /\ Continue(p, return(proc[p], None))
  /\ UNCHANGED <<freel, buf, disk, dir, ddir, sb>>

\* Faulty: the entry stays.
dnlc_removeNot(name) == UNCHANGED <<nc, core>>

\* dnlc_remove; the caller holds the inode, so that it does not go inactive.
NcAfterRemove(name) ==
  [i \in 1 .. Cardinality(Entries(name)) |-> NoEntry]
    \o SelectSeq(nc, LAMBDA e : e.name # name)
dnlc_remove(name) ==
  /\ nc' = NcAfterRemove(name)
  /\ core' = [s \in DOMAIN core |->
               [core[s] EXCEPT !.count = @ - Cardinality({i \in Entries(name) : nc[i].vp = s})]]

\* dnlc_purge: one entry after the other.
DnlcPurge(p) ==
  /\ At(p, "purge")
  /\ IF \A i \in DOMAIN nc : nc[i] = NoEntry
     THEN Continue(p, return(proc[p], None)) /\ UNCHANGED <<core, nc>>
     ELSE \E i \in DOMAIN nc :
            /\ nc[i] # NoEntry
            /\ LET c == rele(core, nc[i].vp)
               IN /\ core' = c /\ nc' = RemoveAt(nc, i)
                  /\ Continue(p, inactive(goto(proc[p], "purged"), c, nc[i].vp))
  /\ UNCHANGED <<freel, buf, disk, dir, ddir, sb>>

DnlcPurged(p) ==
  /\ At(p, "purged")
  /\ nc' = <<NoEntry>> \o nc
  /\ Continue(p, goto(proc[p], "purge"))
  /\ UNCHANGED <<core, freel, buf, disk, dir, ddir, sb>>
=============================================================================
