------------------------------ MODULE BufCache ------------------------------
(***************************************************************************)
(* The block buffer cache of the kernel: COMMON/os/vfs_bio.c, with         *)
(* PAGING/os/bio.c, binit() of PAGING/os/init.c, the macros of             *)
(* include/sys/buf.h and the block I/O of an NFS client (nfs_strategy).    *)
(*                                                                         *)
(* Processes call bread, breada, getblk, geteblk, the three writes and the *)
(* flushing and invalidating routines; the disk interrupt, or whoever does *)
(* the remote I/O, calls biodone.  The kernel is not preemptive: a process *)
(* runs until it sleeps or returns to user mode, and only interrupts come  *)
(* between two of its instructions.  cpu is the process running in the     *)
(* kernel; an action of another process waits until cpu is given up, the   *)
(* interrupt does not.                                                     *)
(***************************************************************************)
EXTENDS Naturals, FiniteSets

CONSTANTS
  Procs,      \* processes that call the cache
  Bufs,       \* the buffer pool sbuf[0..v.v_buf-1]
  Vnodes,     \* device or remote vnodes whose blocks are cached
  NBlks,      \* device blocks (DEV_BSIZE bytes each) of a vnode
  Sizes,      \* buffer sizes in use, in device blocks
  Vals, Junk, \* contents of a device block; what reused memory holds
  Ops,        \* the calls the processes of an instance make
  Remote,     \* the vnodes are remote: VOP_STRATEGY is nfs_strategy
  IOErrors,   \* may a transfer fail
  SyncBSize,  \* SYNCBSIZE, the group bflush() collects
  NoProc, NoBuf, NoVnode, NoView

AllOps == {"bread", "breada", "getblk", "geteblk", "bflush", "bflush0",
           "blkflush", "binvalfree", "binval"}

ASSUME ConstAssumption ==
  /\ NoProc \notin Procs /\ NoBuf \notin Bufs /\ NoVnode \notin Vnodes
  /\ NBlks \in Nat \ {0} /\ Sizes \subseteq Nat \ {0} /\ Vals # {}
  /\ Remote \in BOOLEAN /\ IOErrors \in BOOLEAN
  /\ SyncBSize \in Nat \ {0} /\ Ops \subseteq AllOps

\* The wait channels that are no buffer: none, and that of bfreelist.
NoChan   == "nochan"
FreeChan == "bfreelist"

ASSUME ChanAssumption == NoChan \notin Bufs /\ FreeChan \notin Bufs

\* The b_flags bits the cache reads.  B_LOCKED, B_NOCACHE and B_CALL are
\* tested but set nowhere in the kernel, B_CACHE is set but never read.
Flag == {"READ", "DONE", "ERROR", "BUSY", "WANTED", "AGE", "ASYNC",
         "DELWRI", "INVAL"}

\* The lists a buffer with memory is released to (BQ_LOCKED and BQ_EMPTY stay
\* empty); "none" is a buffer on no list.  The order within a list is left out.
Queue == {"LRU", "AGE", "none"}

Fault == {"strategy without vnode", "bremfree of a busy buffer"}

\* Where a process is: one label per place it can sleep or be interrupted.
Label == {"user", "getblk", "getnewbuf", "brealloc", "bread", "biowait",
          "hold", "dirty", "breada", "breada1", "breada_ra", "breada2",
          "breada_end", "bwrite", "bwstrat", "bwait", "bflush", "bflush_w",
          "blkflush", "binvalfree", "binval"}

VARIABLES
  b_flags, b_vp, b_dev, b_blkno, b_bcount, b_data,   \* struct buf
  freeq,       \* the free list each buffer is on
  listWanted,  \* B_WANTED of bfreelist[0]
  io,          \* buffers handed to a strategy routine, not yet biodone
  disk,        \* contents of the devices
  fault,       \* a panic, or the use of what the code has no claim to
  cpu,         \* process running in the kernel, or NoProc
  wchan,       \* what each process sleeps on
  rpc,         \* the buffer a process does the remote I/O of (do_bio)
  pc, call,    \* where each process is, and the call it is in
  bp, first,   \* buffer it holds or is being given; breada's block proper
  gret,        \* where getblk returns to
  wb, wflag, wret, \* bwrite: its buffer, the flags on entry, the way back
  group        \* bflush: buflist[]

idVars    == <<b_vp, b_dev, b_blkno, b_bcount>>
listVars  == <<freeq, listWanted>>
storeVars == <<b_data, disk>>
holdVars  == <<bp, first>>
wrVars    == <<wb, wflag, wret>>
locVars   == <<call, gret, holdVars, wrVars, group>>
bufVars   == <<b_flags, idVars, listVars, storeVars, io>>
vars == <<bufVars, fault, cpu, wchan, rpc, pc, locVars>>

NoCall == [op |-> "none", vp |-> NoVnode, blkno |-> 0, size |-> 0, ra |-> 0]

DevBlks == 0 .. NBlks - 1

\* NoView is what no process sees of the blocks it has.
ASSUME ViewAssumption ==
  \A op \in {"take", "read"}, vp \in Vnodes, S \in SUBSET DevBlks :
    \A data \in [S -> Vals \cup {Junk}] :
      NoView # [op |-> op, vp |-> vp, data |-> data]

\* The blocks a caller may ask for: a multiple of its block size, so that
\* overlapping blocks fall on one hash chain (BUFHASH divides by MAXBSIZE).
Block == {blk \in DevBlks \X Sizes : /\ blk[1] % blk[2] = 0
                                     /\ blk[1] + blk[2] <= NBlks}
-----------------------------------------------------------------------------
\* The device blocks a buffer holds.
Extent(b) == {d \in DevBlks : b_blkno[b] <= d /\ d < b_blkno[b] + b_bcount[b]}

\* Buffers the searches of getblk and incore stop at.
Matches(vp, n) == {b \in Bufs : /\ b_vp[b] = vp /\ b_blkno[b] = n
                                /\ "INVAL" \notin b_flags[b]}

\* Buffers that hold a part of the blocks n .. n+s-1 of vp, the test of
\* brealloc and blkflush.
Overlapping(vp, n, s) ==
  {b \in Bufs : /\ b_vp[b] = vp /\ "INVAL" \notin b_flags[b]
                /\ b_bcount[b] # 0
                /\ b_blkno[b] < n + s /\ n < b_blkno[b] + b_bcount[b]}

\* p may take a step: it is awake and no other process is in the kernel.
Runs(p) == /\ cpu \in {p, NoProc} /\ wchan[p] = NoChan /\ rpc[p] = NoBuf
           /\ fault = {}

\* p goes on to label l, keeping the processor or letting others run first.
Goto(p, l)  == pc' = [pc EXCEPT ![p] = l] /\ cpu' = p
Yield(p, l) == pc' = [pc EXCEPT ![p] = l] /\ cpu' = NoProc

\* sleep(): p stays at label l and looks again when it is woken.
Sleep(p, c, l) == wchan' = [wchan EXCEPT ![p] = c] /\ Yield(p, l)

\* p returns to its caller.
Return(p) == /\ Yield(p, "user")
             /\ call' = [call EXCEPT ![p] = NoCall]
             /\ gret' = [gret EXCEPT ![p] = "hold"]

\* The code cannot go on from here in any defined way.
Crash(what) ==
  /\ fault' = {what}
  /\ UNCHANGED <<bufVars, cpu, wchan, rpc, pc, locVars>>

\* wakeup(b) if f has B_WANTED, and wakeup(bfreelist) if it is wanted.
RelWake(b, f) ==
  [q \in Procs |-> IF \/ wchan[q] = b /\ "WANTED" \in f
                      \/ wchan[q] = FreeChan /\ listWanted
                   THEN NoChan ELSE wchan[q]]

\* Faulty variant: B_ASYNC survives the release.
brelseAsync(b, f) ==
  /\ wchan' = RelWake(b, f)
  /\ listWanted' = FALSE
  /\ b_vp' = IF "ERROR" \in f THEN [b_vp EXCEPT ![b] = NoVnode] ELSE b_vp
  /\ freeq' = [freeq EXCEPT ![b] =
       IF {"ERROR", "INVAL", "AGE"} \cap f # {} THEN "AGE" ELSE "LRU"]
  /\ b_flags' = [b_flags EXCEPT ![b] = f \ {"WANTED", "BUSY", "AGE"}]
  /\ UNCHANGED <<b_dev, b_blkno, b_bcount>>

\* brelse(b) of a buffer whose flags are f: wake the sleepers, drop the vnode
\* of a failed transfer, put it on a free list, clear the transient flags.
brelse(b, f) ==
  /\ wchan' = RelWake(b, f)
  /\ listWanted' = FALSE
  /\ b_vp' = IF "ERROR" \in f THEN [b_vp EXCEPT ![b] = NoVnode] ELSE b_vp
  /\ freeq' = [freeq EXCEPT ![b] =
       IF {"ERROR", "INVAL", "AGE"} \cap f # {} THEN "AGE" ELSE "LRU"]
  /\ b_flags' = [b_flags EXCEPT ![b] = f \ {"WANTED", "BUSY", "ASYNC", "AGE"}]
  /\ UNCHANGED <<b_dev, b_blkno, b_bcount>>

\* Faulty variant: the buffer leaves its list but is not marked B_BUSY.
notavailIdle(b, more) ==
  /\ b_flags' = [b_flags EXCEPT ![b] = @ \cup more]
  /\ freeq' = [freeq EXCEPT ![b] = "none"]

\* notavail(b), with further flags set at the same time.
notavail(b, more) ==
  /\ b_flags' = [b_flags EXCEPT ![b] = @ \cup {"BUSY"} \cup more]
  /\ freeq' = [freeq EXCEPT ![b] = "none"]

\* Faulty variant: sleep without setting B_WANTED.
WaitForUnmarked(p, b) ==
  /\ "BUSY" \in b_flags[b]
  /\ Sleep(p, b, pc[p])
  /\ UNCHANGED <<bufVars, fault, rpc, locVars>>

\* Wait for a busy buffer: B_WANTED and sleep.
WaitFor(p, b) ==
  /\ "BUSY" \in b_flags[b]
  /\ b_flags' = [b_flags EXCEPT ![b] = @ \cup {"WANTED"}]
  /\ Sleep(p, b, pc[p])
  /\ UNCHANGED <<idVars, listVars, storeVars, io, fault, rpc, locVars>>

\* bwrite(b), to come back to label ret.
CallBwrite(p, b, ret) ==
  /\ wb' = [wb EXCEPT ![p] = b]
  /\ wret' = [wret EXCEPT ![p] = ret]
  /\ Goto(p, "bwrite")
  /\ UNCHANGED <<wflag, storeVars, io, fault, rpc, wchan>>

\* VOP_STRATEGY(b) with flags f, to continue at l.  A disk driver queues the
\* request; nfs_strategy leaves an asynchronous one to an idle daemon, or has
\* the caller do the remote call itself.
Strategy(p, b, f, l) ==
  /\ b_vp[b] # NoVnode
  /\ b_flags' = [b_flags EXCEPT ![b] = f]
  /\ io' = io \cup {b}
  /\ \/ (Remote => "ASYNC" \in f) /\ Goto(p, l) /\ UNCHANGED rpc
     \/ Remote /\ Yield(p, l) /\ rpc' = [rpc EXCEPT ![p] = b]
-----------------------------------------------------------------------------
\* A process calls the cache.
Call(p, o, vp, blk, ra) ==
  /\ pc[p] = "user" /\ Runs(p) /\ o \in Ops
  /\ call' = [call EXCEPT ![p] = [op |-> o, vp |-> vp, blkno |-> blk[1],
                                  size |-> blk[2], ra |-> ra]]
  /\ gret' = [gret EXCEPT ![p] = IF o = "bread" THEN "bread" ELSE "hold"]
  /\ Goto(p, CASE o \in {"bread", "getblk"} -> "getblk"
               [] o = "geteblk"             -> "getnewbuf"
               [] o = "bflush0"             -> "bflush"
               [] OTHER                     -> o)
  /\ UNCHANGED <<bufVars, fault, wchan, rpc, holdVars, wrVars, group>>

\* The block getblk is looking for.
Target(p) == IF gret[p] = "breada2" THEN call[p].ra ELSE call[p].blkno

\* getblk: the block is cached in a buffer that is in use; wait for it.
GetblkBusy(p) ==
  /\ pc[p] = "getblk" /\ Runs(p)
  /\ \E b \in Matches(call[p].vp, Target(p)) : WaitFor(p, b)

\* getblk: the block is cached and free; take it off its list.  (brealloc's
\* first assignment: a buffer that has to grow is no longer B_DONE.)
GetblkHit(p) ==
  /\ pc[p] = "getblk" /\ Runs(p)
  /\ \E b \in Matches(call[p].vp, Target(p)) :
       /\ "BUSY" \notin b_flags[b]
       /\ b_flags' = [b_flags EXCEPT ![b] = (@ \cup {"BUSY"}) \
            (IF call[p].size > b_bcount[b] THEN {"DONE"} ELSE {})]
       /\ freeq' = [freeq EXCEPT ![b] = "none"]
       /\ bp' = [bp EXCEPT ![p] = b]
  /\ Goto(p, "brealloc")
  /\ UNCHANGED <<idVars, listWanted, storeVars, io, fault, wchan, rpc, call,
                 gret, first, wrVars, group>>

\* getblk: not cached, a buffer is taken from a free list.
GetblkMiss(p) ==
  /\ pc[p] = "getblk" /\ Runs(p)
  /\ Matches(call[p].vp, Target(p)) = {}
  /\ Goto(p, "getnewbuf")
  /\ UNCHANGED <<bufVars, fault, wchan, rpc, locVars>>

\* The buffers getnewbuf may find first: of BQ_AGE, else of BQ_LRU.
Candidates ==
  {b \in Bufs : /\ freeq[b] # "none"
                /\ freeq[b] = "LRU" => \A c \in Bufs : freeq[c] # "AGE"}

\* Faulty variant: sleep without setting B_WANTED of the list.
GetnewbufWaitUnmarked(p) ==
  /\ pc[p] = "getnewbuf" /\ Runs(p)
  /\ Candidates = {}
  /\ Sleep(p, FreeChan, "getnewbuf")
  /\ UNCHANGED <<bufVars, fault, rpc, locVars>>

\* getnewbuf: no free buffer, wait for one.
GetnewbufWait(p) ==
  /\ pc[p] = "getnewbuf" /\ Runs(p)
  /\ Candidates = {}
  /\ listWanted' = TRUE
  /\ Sleep(p, FreeChan, "getnewbuf")
  /\ UNCHANGED <<b_flags, idVars, freeq, storeVars, io, fault, rpc, locVars>>

\* getnewbuf: the buffer is dirty; start writing it and look again.
GetnewbufDirty(p) ==
  /\ pc[p] = "getnewbuf" /\ Runs(p)
  /\ \E b \in Candidates : /\ "DELWRI" \in b_flags[b]
                           /\ notavail(b, {"ASYNC"})
                           /\ CallBwrite(p, b, "getnewbuf")
  /\ UNCHANGED <<idVars, listWanted, call, gret, holdVars, group>>

\* getnewbuf returns a clean buffer; getblk gives it its new identity, geteblk
\* leaves it without one.  Either way it has no size yet (bfree).
GetnewbufClean(p) ==
  /\ pc[p] = "getnewbuf" /\ Runs(p)
  /\ \E b \in Candidates :
       /\ "DELWRI" \notin b_flags[b]
       /\ freeq' = [freeq EXCEPT ![b] = "none"]
       /\ b_bcount' = [b_bcount EXCEPT ![b] = 0]
       /\ b_data' = [b_data EXCEPT ![b] = [d \in DevBlks |-> Junk]]
       /\ IF call[p].op = "geteblk"
          THEN /\ b_flags' = [b_flags EXCEPT ![b] = {"BUSY", "INVAL"}]
               /\ b_vp' = [b_vp EXCEPT ![b] = NoVnode]
               /\ UNCHANGED <<b_dev, b_blkno>>
          ELSE /\ b_flags' = [b_flags EXCEPT ![b] = {"BUSY"}]
               /\ b_vp' = [b_vp EXCEPT ![b] = call[p].vp]
               /\ b_dev' = [b_dev EXCEPT ![b] = call[p].vp]
               /\ b_blkno' = [b_blkno EXCEPT ![b] = Target(p)]
       /\ bp' = [bp EXCEPT ![p] = b]
  /\ Goto(p, "brealloc")
  /\ UNCHANGED <<listWanted, disk, io, fault, wchan, rpc, call, gret,
                 first, wrVars, group>>
-----------------------------------------------------------------------------
\* Faulty variant: buffers in use are not looked at.
InTheWayFree(p) ==
  IF call[p].size > b_bcount[bp[p]] /\ b_vp[bp[p]] # NoVnode
  THEN {e \in Overlapping(b_vp[bp[p]], b_blkno[bp[p]], call[p].size) \ {bp[p]} :
          "BUSY" \notin b_flags[e]}
  ELSE {}

\* brealloc: the other buffers that hold a part of the block a buffer grows to.
InTheWay(p) ==
  IF call[p].size > b_bcount[bp[p]] /\ b_vp[bp[p]] # NoVnode
  THEN Overlapping(b_vp[bp[p]], b_blkno[bp[p]], call[p].size) \ {bp[p]}
  ELSE {}

\* brealloc: the buffer is dirty and too large.
CutsDirty(p) == call[p].size < b_bcount[bp[p]] /\ "DELWRI" \in b_flags[bp[p]]

\* brealloc: nothing is in the way; allocbuf sets the size.
BreallocDone(p) ==
  /\ pc[p] = "brealloc" /\ Runs(p)
  /\ ~ CutsDirty(p) /\ InTheWay(p) = {}
  /\ b_bcount' = [b_bcount EXCEPT ![bp[p]] = call[p].size]
  /\ Goto(p, gret[p])
  /\ UNCHANGED <<b_flags, b_vp, b_dev, b_blkno, listVars, storeVars, io,
                 fault, wchan, rpc, locVars>>

\* brealloc: a dirty buffer is to shrink; it is written and released, and
\* getblk starts over.
BreallocShrink(p) ==
  /\ pc[p] = "brealloc" /\ Runs(p)
  /\ CutsDirty(p)
  /\ CallBwrite(p, bp[p], "getblk")
  /\ bp' = [bp EXCEPT ![p] = NoBuf]
  /\ UNCHANGED <<b_flags, idVars, listVars, call, gret, first, group>>

\* brealloc: an overlapping buffer is in use; wait for it.
BreallocBusy(p) ==
  /\ pc[p] = "brealloc" /\ Runs(p)
  /\ \E e \in InTheWay(p) : WaitFor(p, e)

\* brealloc: an overlapping buffer is dirty; write it and look again.
BreallocFlush(p) ==
  /\ pc[p] = "brealloc" /\ Runs(p)
  /\ \E e \in InTheWay(p) :
       /\ "BUSY" \notin b_flags[e] /\ "DELWRI" \in b_flags[e]
       /\ notavail(e, {})
       /\ CallBwrite(p, e, "brealloc")
  /\ UNCHANGED <<idVars, listWanted, call, gret, holdVars, group>>

\* brealloc: an overlapping buffer is clean; notavail, B_INVAL, brelse.
BreallocInval(p) ==
  /\ pc[p] = "brealloc" /\ Runs(p)
  /\ \E e \in InTheWay(p) :
       /\ {"BUSY", "DELWRI"} \cap b_flags[e] = {}
       /\ brelse(e, b_flags[e] \cup {"BUSY", "INVAL"})
  /\ Goto(p, "brealloc")
  /\ UNCHANGED <<storeVars, io, fault, rpc, locVars>>
-----------------------------------------------------------------------------
\* bread: the block is there, or its read is started.
Bread(p) ==
  /\ pc[p] = "bread" /\ Runs(p)
  /\ \/ /\ "DONE" \in b_flags[bp[p]]
        /\ Yield(p, "hold") /\ UNCHANGED <<b_flags, io, rpc>>
     \/ /\ "DONE" \notin b_flags[bp[p]]
        /\ Strategy(p, bp[p], b_flags[bp[p]] \cup {"READ"}, "biowait")
  /\ UNCHANGED <<idVars, listVars, storeVars, fault, wchan, locVars>>

\* biowait(bp) of a read.
Biowait(p) ==
  /\ pc[p] = "biowait" /\ Runs(p)
  /\ IF "DONE" \in b_flags[bp[p]]
     THEN Yield(p, "hold") /\ UNCHANGED wchan
     ELSE Sleep(p, bp[p], "biowait")
  /\ UNCHANGED <<bufVars, fault, rpc, locVars>>

\* breada: the block proper, unless it is cached already (incore).
Breada(p) ==
  /\ pc[p] = "breada" /\ Runs(p)
  /\ IF Matches(call[p].vp, call[p].blkno) # {}
     THEN Goto(p, "breada_ra") /\ UNCHANGED gret
     ELSE Goto(p, "getblk") /\ gret' = [gret EXCEPT ![p] = "breada1"]
  /\ UNCHANGED <<bufVars, fault, wchan, rpc, call, holdVars, wrVars, group>>

\* breada: start the read of the block proper without waiting for it.
BreadaStart(p) ==
  /\ pc[p] = "breada1" /\ Runs(p)
  /\ IF "DONE" \in b_flags[bp[p]]
     THEN Goto(p, "breada_ra") /\ UNCHANGED <<b_flags, io, rpc>>
     ELSE Strategy(p, bp[p], b_flags[bp[p]] \cup {"READ"}, "breada_ra")
  /\ first' = [first EXCEPT ![p] = bp[p]]
  /\ bp' = [bp EXCEPT ![p] = NoBuf]
  /\ UNCHANGED <<idVars, listVars, storeVars, fault, wchan, call, gret, wrVars,
                 group>>

\* breada: a buffer for the read-ahead block, unless it is cached or there is
\* none (rablkno 0).
BreadaAhead(p) ==
  /\ pc[p] = "breada_ra" /\ Runs(p)
  /\ IF call[p].ra = 0 \/ Matches(call[p].vp, call[p].ra) # {}
     THEN Goto(p, "breada_end") /\ UNCHANGED gret
     ELSE Goto(p, "getblk") /\ gret' = [gret EXCEPT ![p] = "breada2"]
  /\ UNCHANGED <<bufVars, fault, wchan, rpc, call, holdVars, wrVars, group>>

\* breada: release a read-ahead block that is there already, ...
BreadaAheadHit(p) ==
  /\ pc[p] = "breada2" /\ Runs(p)
  /\ brelse(bp[p], b_flags[bp[p]])
  /\ bp' = [bp EXCEPT ![p] = NoBuf]
  /\ Goto(p, "breada_end")
  /\ UNCHANGED <<storeVars, io, fault, rpc, call, gret, first, wrVars, group>>

\* ... or start the asynchronous read; biodone releases the buffer.
BreadaAheadStart(p) ==
  /\ pc[p] = "breada2" /\ Runs(p)
  /\ Strategy(p, bp[p], b_flags[bp[p]] \cup {"READ", "ASYNC"}, "breada_end")
  /\ bp' = [bp EXCEPT ![p] = NoBuf]
  /\ UNCHANGED <<idVars, listVars, storeVars, fault, wchan, call, gret, first,
                 wrVars, group>>

BreadaSecond(p) ==
  /\ pc[p] = "breada2"
  /\ IF "DONE" \in b_flags[bp[p]] THEN BreadaAheadHit(p) ELSE BreadaAheadStart(p)

\* Faulty variant: breada does not wait for the block it started to read.
BreadaEndNow(p) ==
  /\ pc[p] = "breada_end" /\ Runs(p)
  /\ gret' = [gret EXCEPT ![p] = "bread"]
  /\ bp' = [bp EXCEPT ![p] = first[p]]
  /\ first' = [first EXCEPT ![p] = NoBuf]
  /\ Goto(p, IF first[p] = NoBuf THEN "getblk" ELSE "hold")
  /\ UNCHANGED <<bufVars, fault, wchan, rpc, call, wrVars, group>>

\* breada: wait for the block proper, or let bread get it.
BreadaEnd(p) ==
  /\ pc[p] = "breada_end" /\ Runs(p)
  /\ gret' = [gret EXCEPT ![p] = "bread"]
  /\ bp' = [bp EXCEPT ![p] = first[p]]
  /\ first' = [first EXCEPT ![p] = NoBuf]
  /\ Goto(p, IF first[p] = NoBuf THEN "getblk" ELSE "biowait")
  /\ UNCHANGED <<bufVars, fault, wchan, rpc, call, wrVars, group>>
-----------------------------------------------------------------------------
\* The caller is done with a buffer it did not change, or whose read failed.
Release(p) ==
  /\ pc[p] = "hold" /\ Runs(p)
  /\ call[p].op = "getblk" => "ERROR" \in b_flags[bp[p]]
  /\ brelse(bp[p], b_flags[bp[p]])
  /\ Return(p)
  /\ bp' = [bp EXCEPT ![p] = NoBuf]
  /\ UNCHANGED <<storeVars, io, fault, rpc, first, wrVars, group>>

\* The blocks of a device, or of a buffer's memory, after v is stored in S.
Stored(old, S, v) == [d \in DevBlks |-> IF d \in S THEN v[d] ELSE old[d]]

\* The caller stores new contents in the buffer it holds.
Modify(p, v) ==
  LET b == bp[p]  new == [d \in DevBlks |-> v] IN
  /\ pc[p] = "hold" /\ Runs(p)
  /\ call[p].op \in {"bread", "breada", "getblk"} /\ "ERROR" \notin b_flags[b]
  /\ b_data' = [b_data EXCEPT ![b] = Stored(@, Extent(b), new)]
  /\ Yield(p, "dirty")
  /\ UNCHANGED <<b_flags, idVars, listVars, disk, io, fault, wchan, rpc,
                 locVars>>

\* bdwrite(bp).
Bdwrite(p) ==
  /\ pc[p] = "dirty" /\ Runs(p)
  /\ brelse(bp[p], b_flags[bp[p]] \cup {"DELWRI", "DONE"})
  /\ Return(p)
  /\ bp' = [bp EXCEPT ![p] = NoBuf]
  /\ UNCHANGED <<storeVars, io, fault, rpc, first, wrVars, group>>

\* bwrite(bp), or bawrite(bp) when async, as the last thing of the call.
WriteOut(p, async) ==
  /\ pc[p] = "dirty" /\ Runs(p)
  /\ b_flags' = [b_flags EXCEPT ![bp[p]] =
                   IF async THEN @ \cup {"ASYNC"} ELSE @]
  /\ CallBwrite(p, bp[p], "user")
  /\ bp' = [bp EXCEPT ![p] = NoBuf]
  /\ UNCHANGED <<idVars, listVars, call, gret, first, group>>

\* Faulty: B_DONE is left set.
ClearedNotDone == {"READ", "ERROR", "DELWRI"}

\* The flags bwrite clears before it calls the driver.
Cleared == {"READ", "DONE", "ERROR", "DELWRI"}

\* bwrite: clear the flags of the last transfer and call the driver.
Bwrite(p) ==
  LET f == b_flags[wb[p]] IN
  /\ pc[p] = "bwrite" /\ Runs(p)
  /\ wflag' = [wflag EXCEPT ![p] = f \cap {"ASYNC", "DELWRI"}]
  /\ Strategy(p, wb[p], f \ Cleared, "bwstrat")
  /\ UNCHANGED <<idVars, listVars, storeVars, fault, wchan, call, gret,
                 holdVars, wb, wret, group>>

\* bwrite is done with its buffer: back to whoever called it.
BwriteReturn(p) ==
  /\ wb' = [wb EXCEPT ![p] = NoBuf]
  /\ wflag' = [wflag EXCEPT ![p] = {}]
  /\ wret' = [wret EXCEPT ![p] = "user"]
  /\ IF wret[p] = "user" THEN Return(p)
     ELSE Goto(p, wret[p]) /\ UNCHANGED <<call, gret>>
  /\ UNCHANGED <<storeVars, io, fault, rpc, holdVars, group>>

\* bwrite: an asynchronous write is left to biodone.  B_AGE is set on a buffer
\* that biodone may have released by now.
BwriteAsync(p) ==
  /\ pc[p] = "bwstrat" /\ Runs(p)
  /\ "ASYNC" \in wflag[p]
  /\ b_flags' = [b_flags EXCEPT ![wb[p]] =
                   IF "DELWRI" \in wflag[p] THEN @ \cup {"AGE"} ELSE @]
  /\ BwriteReturn(p)
  /\ UNCHANGED <<idVars, listVars, wchan>>

\* bwrite: a synchronous write waits in biowait ...
BwriteWait(p) ==
  /\ pc[p] \in {"bwstrat", "bwait"} /\ Runs(p)
  /\ "ASYNC" \notin wflag[p] /\ "DONE" \notin b_flags[wb[p]]
  /\ Sleep(p, wb[p], "bwait")
  /\ UNCHANGED <<bufVars, fault, rpc, locVars>>

\* ... and releases the buffer.
BwriteDone(p) ==
  /\ pc[p] \in {"bwstrat", "bwait"} /\ Runs(p)
  /\ "ASYNC" \notin wflag[p] /\ "DONE" \in b_flags[wb[p]]
  /\ brelse(wb[p], b_flags[wb[p]])
  /\ BwriteReturn(p)

\* A strategy routine is called through the vnode of a buffer that has none.
StrategyNoVnode(p) ==
  /\ Runs(p)
  /\ \/ /\ pc[p] \in {"bread", "breada1", "breada2"}
        /\ b_vp[bp[p]] = NoVnode /\ "DONE" \notin b_flags[bp[p]]
     \/ pc[p] = "bwrite" /\ b_vp[wb[p]] = NoVnode
  /\ Crash("strategy without vnode")
-----------------------------------------------------------------------------
\* What a transfer does, if it succeeds: a read fills the buffer from the
\* device, a write the device from the buffer.
Transfer(b) ==
  IF "READ" \in b_flags[b]
  THEN /\ b_data' = [b_data EXCEPT ![b] = Stored(@, Extent(b), disk[b_dev[b]])]
       /\ UNCHANGED disk
  ELSE /\ disk' = [disk EXCEPT ![b_dev[b]] = Stored(@, Extent(b), b_data[b])]
       /\ UNCHANGED b_data

\* The transfer of b ends, well or not, and biodone(b) is called: by the
\* interrupt of a disk, by a process that did the remote I/O.  (A buffer that
\* is B_DONE already makes it panic: NoDupBiodone.)
Biodone(b, ok) ==
  LET f == b_flags[b] \cup {"DONE"} \cup (IF ok THEN {} ELSE {"ERROR"}) IN
  /\ b \in io /\ fault = {} /\ "DONE" \notin b_flags[b]
  /\ Remote => cpu = NoProc
  /\ IF ok THEN Transfer(b) ELSE IOErrors /\ UNCHANGED <<b_data, disk>>
  /\ io' = io \ {b}
  /\ rpc' = [q \in Procs |-> IF rpc[q] = b THEN NoBuf ELSE rpc[q]]
  /\ IF "ASYNC" \in f
     THEN brelse(b, f)
     ELSE /\ b_flags' = [b_flags EXCEPT ![b] = f \ {"WANTED"}]
          /\ wchan' = [q \in Procs |-> IF wchan[q] = b THEN NoChan
                                                       ELSE wchan[q]]
          /\ UNCHANGED <<idVars, listVars>>
  /\ UNCHANGED <<fault, cpu, pc, locVars>>
-----------------------------------------------------------------------------
\* bflush(vp) is to write b (op bflush0 is bflush((struct vnode *) 0)).
StillDirty(p, b) == /\ "DELWRI" \in b_flags[b]
                    /\ call[p].op = "bflush0" \/ b_vp[b] = call[p].vp

DirtyFree(p, q) == {b \in Bufs : freeq[b] = q /\ StillDirty(p, b)}

\* bflush: collect a group.  The break at SYNCBSIZE leaves only the inner loop,
\* so a full group still takes one buffer of the next list.
Grab(S, n) == {T \in SUBSET S : /\ Cardinality(T) <= n
                                /\ Cardinality(T) < n => T = S}

BflushCollect(p) ==
  /\ pc[p] = "bflush" /\ Runs(p)
  /\ DirtyFree(p, "LRU") \cup DirtyFree(p, "AGE") # {}
  /\ \E L \in Grab(DirtyFree(p, "LRU"), SyncBSize) :
     \E A \in Grab(DirtyFree(p, "AGE"), IF Cardinality(L) < SyncBSize
                            THEN SyncBSize - Cardinality(L) ELSE 1) :
       group' = [group EXCEPT ![p] = L \cup A]
  /\ Goto(p, "bflush_w")
  /\ UNCHANGED <<bufVars, fault, wchan, rpc, call, gret, holdVars, wrVars>>

\* bflush: nothing left to write.
BflushDone(p) ==
  /\ pc[p] = "bflush" /\ Runs(p)
  /\ DirtyFree(p, "LRU") \cup DirtyFree(p, "AGE") = {}
  /\ Return(p)
  /\ UNCHANGED <<bufVars, fault, wchan, rpc, holdVars, wrVars, group>>

\* bflush: start the write of a member of the group that is still dirty.
BflushWrite(p) ==
  /\ pc[p] = "bflush_w" /\ Runs(p)
  /\ \E b \in group[p] :
       /\ StillDirty(p, b) /\ freeq[b] # "none"
       /\ notavail(b, {"ASYNC"})
       /\ CallBwrite(p, b, "bflush_w")
       /\ group' = [group EXCEPT ![p] = @ \ {b}]
  /\ UNCHANGED <<idVars, listWanted, call, gret, holdVars>>

\* bflush does not look at B_BUSY again: notavail of a buffer on no list.
BflushSteal(p) ==
  /\ pc[p] = "bflush_w" /\ Runs(p)
  /\ \E b \in group[p] : StillDirty(p, b) /\ freeq[b] = "none"
  /\ Crash("bremfree of a busy buffer")

\* bflush: skip a member that is clean by now; scan again after the last.
BflushSkip(p) ==
  /\ pc[p] = "bflush_w" /\ Runs(p)
  /\ \/ group[p] = {} /\ Goto(p, "bflush") /\ UNCHANGED group
     \/ /\ \E b \in group[p] : /\ ~ StillDirty(p, b)
                               /\ group' = [group EXCEPT ![p] = @ \ {b}]
        /\ Goto(p, "bflush_w")
  /\ UNCHANGED <<bufVars, fault, wchan, rpc, call, gret, holdVars, wrVars>>

\* Faulty variant: a write under way is not waited for.
ToFlushDirty(p) == {b \in Overlapping(call[p].vp, call[p].blkno, call[p].size) :
                      "DELWRI" \in b_flags[b]}

\* blkflush: what it waits for or writes.
ToFlush(p) == {b \in Overlapping(call[p].vp, call[p].blkno, call[p].size) :
                 {"BUSY", "DELWRI"} \cap b_flags[b] # {}}

BlkflushBusy(p) ==
  /\ pc[p] = "blkflush" /\ Runs(p)
  /\ \E b \in ToFlush(p) : WaitFor(p, b)

BlkflushWrite(p) ==
  /\ pc[p] = "blkflush" /\ Runs(p)
  /\ \E b \in ToFlush(p) : /\ "BUSY" \notin b_flags[b]
                           /\ notavail(b, {})
                           /\ CallBwrite(p, b, "blkflush")
  /\ UNCHANGED <<idVars, listWanted, call, gret, holdVars, group>>

BlkflushDone(p) ==
  /\ pc[p] = "blkflush" /\ Runs(p)
  /\ ToFlush(p) = {}
  /\ Return(p)
  /\ UNCHANGED <<bufVars, fault, wchan, rpc, holdVars, wrVars, group>>
-----------------------------------------------------------------------------
\* binvalfree: invalidate the clean free buffers of vp; a dirty one is written
\* and the scan starts over (S: the clean ones the scan met before it).
FreeOf(vp) == {b \in Bufs : freeq[b] # "none" /\ b_vp[b] = vp}

\* brelvp and B_INVAL for every buffer of S.
Drop(S) == /\ b_vp' = [c \in Bufs |-> IF c \in S THEN NoVnode ELSE b_vp[c]]
           /\ UNCHANGED <<b_dev, b_blkno, b_bcount>>

Marked(S, f) == [c \in Bufs |-> b_flags[c] \cup IF c \in S THEN f ELSE {}]

BinvalfreeWrite(p) ==
  /\ pc[p] = "binvalfree" /\ Runs(p)
  /\ \E b \in FreeOf(call[p].vp) :
     \E S \in SUBSET {c \in FreeOf(call[p].vp) : "DELWRI" \notin b_flags[c]} :
       /\ "DELWRI" \in b_flags[b]
       /\ Drop(S)
       /\ b_flags' = [Marked(S, {"INVAL"}) EXCEPT ![b] =
                        @ \cup {"BUSY", "ASYNC"}]
       /\ freeq' = [freeq EXCEPT ![b] = "none"]
       /\ CallBwrite(p, b, "binvalfree")
  /\ UNCHANGED <<listWanted, call, gret, holdVars, group>>

\* Faulty variant: dirty buffers are invalidated too.
BinvalfreeAll(p) ==
  /\ pc[p] = "binvalfree" /\ Runs(p)
  /\ Drop(FreeOf(call[p].vp))
  /\ b_flags' = Marked(FreeOf(call[p].vp), {"INVAL"})
  /\ Return(p)
  /\ UNCHANGED <<listVars, storeVars, io, fault, wchan, rpc, holdVars,
                 wrVars, group>>

BinvalfreeDone(p) ==
  /\ pc[p] = "binvalfree" /\ Runs(p)
  /\ \A b \in FreeOf(call[p].vp) : "DELWRI" \notin b_flags[b]
  /\ Drop(FreeOf(call[p].vp))
  /\ b_flags' = Marked(FreeOf(call[p].vp), {"INVAL"})
  /\ Return(p)
  /\ UNCHANGED <<listVars, storeVars, io, fault, wchan, rpc, holdVars,
                 wrVars, group>>

\* binval: every buffer of vp, the busy ones too.
Binval(p) ==
  LET S == {b \in Bufs : b_vp[b] = call[p].vp /\ "INVAL" \notin b_flags[b]} IN
  /\ pc[p] = "binval" /\ Runs(p)
  /\ Drop(S)
  /\ b_flags' = Marked(S, {"INVAL"})
  /\ Return(p)
  /\ UNCHANGED <<listVars, storeVars, io, fault, wchan, rpc, holdVars,
                 wrVars, group>>
-----------------------------------------------------------------------------
\* binit: every buffer invalid and on BQ_AGE.
Init ==
  /\ b_flags = [b \in Bufs |-> {"INVAL"}]
  /\ b_vp = [b \in Bufs |-> NoVnode] /\ b_dev = [b \in Bufs |-> NoVnode]
  /\ b_blkno = [b \in Bufs |-> 0] /\ b_bcount = [b \in Bufs |-> 0]
  /\ b_data = [b \in Bufs |-> [d \in DevBlks |-> Junk]]
  /\ freeq = [b \in Bufs |-> "AGE"] /\ listWanted = FALSE /\ io = {}
  /\ \E v \in Vals : disk = [vp \in Vnodes |-> [d \in DevBlks |-> v]]
  /\ fault = {} /\ cpu = NoProc
  /\ wchan = [p \in Procs |-> NoChan] /\ rpc = [p \in Procs |-> NoBuf]
  /\ pc = [p \in Procs |-> "user"] /\ call = [p \in Procs |-> NoCall]
  /\ bp = [p \in Procs |-> NoBuf] /\ first = [p \in Procs |-> NoBuf]
  /\ gret = [p \in Procs |-> "hold"]
  /\ wb = [p \in Procs |-> NoBuf] /\ wflag = [p \in Procs |-> {}]
  /\ wret = [p \in Procs |-> "user"] /\ group = [p \in Procs |-> {}]

Lookup(p) == \/ GetblkBusy(p) \/ GetblkHit(p) \/ GetblkMiss(p)
             \/ GetnewbufWait(p) \/ GetnewbufDirty(p) \/ GetnewbufClean(p)
             \/ BreallocDone(p) \/ BreallocShrink(p) \/ BreallocBusy(p)
             \/ BreallocFlush(p) \/ BreallocInval(p)

Reading(p) == \/ Bread(p) \/ Biowait(p)
              \/ Breada(p) \/ BreadaStart(p) \/ BreadaAhead(p)
              \/ BreadaSecond(p) \/ BreadaEnd(p)

Using(p) == \/ Release(p) \/ Bdwrite(p)
            \/ \E v \in Vals : Modify(p, v)
            \/ \E async \in BOOLEAN : WriteOut(p, async)

Writing(p) == \/ Bwrite(p) \/ BwriteAsync(p) \/ BwriteWait(p)
              \/ BwriteDone(p) \/ StrategyNoVnode(p)

Flushing(p) == \/ BflushCollect(p) \/ BflushDone(p) \/ BflushWrite(p)
               \/ BflushSteal(p) \/ BflushSkip(p)
               \/ BlkflushBusy(p) \/ BlkflushWrite(p) \/ BlkflushDone(p)
               \/ BinvalfreeWrite(p) \/ BinvalfreeDone(p) \/ Binval(p)

\* Calls without a block number.
Unplaced == {"geteblk", "bflush", "bflush0", "binvalfree", "binval"}

\* p goes on with the call it is in.
Step(p) == Lookup(p) \/ Reading(p) \/ Using(p) \/ Writing(p) \/ Flushing(p)

Next ==
  \/ \E p \in Procs, o \in Ops, vp \in Vnodes, blk \in Block, ra \in DevBlks :
       /\ ra # 0 => o = "breada" /\ ra = blk[1] + blk[2] /\ ra + blk[2] <= NBlks
       /\ o \in Unplaced => blk[1] = 0
       /\ Call(p, o, vp, blk, ra)
  \/ \E p \in Procs : Step(p)
  \/ \E b \in Bufs, ok \in BOOLEAN : Biodone(b, ok)

Spec == Init /\ [][Next]_vars

\* A process in the kernel is scheduled again and devices answer; nobody has
\* to call.
FairSpec ==
  /\ Spec
  /\ \A p \in Procs : WF_vars(Step(p))
  /\ \A b \in Bufs : WF_vars(\E ok \in BOOLEAN : Biodone(b, ok))
-----------------------------------------------------------------------------
\* Type correctness.
Chans == Bufs \cup {NoChan, FreeChan}
Buf0  == Bufs \cup {NoBuf}
CallRecord == [op : AllOps \cup {"none"}, vp : Vnodes \cup {NoVnode},
               blkno : DevBlks, size : Sizes \cup {0}, ra : DevBlks]

BufType ==
  /\ b_flags \in [Bufs -> SUBSET Flag]
  /\ b_vp \in [Bufs -> Vnodes \cup {NoVnode}]
  /\ b_dev \in [Bufs -> Vnodes \cup {NoVnode}]
  /\ b_blkno \in [Bufs -> DevBlks] /\ b_bcount \in [Bufs -> Sizes \cup {0}]
  /\ freeq \in [Bufs -> Queue] /\ listWanted \in BOOLEAN

StoreType ==
  /\ io \subseteq Bufs
  /\ b_data \in [Bufs -> [DevBlks -> Vals \cup {Junk}]]
  /\ disk \in [Vnodes -> [DevBlks -> Vals \cup {Junk}]]

SchedType ==
  /\ fault \subseteq Fault /\ cpu \in Procs \cup {NoProc}
  /\ wchan \in [Procs -> Chans] /\ rpc \in [Procs -> Buf0]
  /\ pc \in [Procs -> Label]

LocType ==
  /\ call \in [Procs -> CallRecord] /\ gret \in [Procs -> Label]
  /\ bp \in [Procs -> Buf0] /\ first \in [Procs -> Buf0]
  /\ wb \in [Procs -> Buf0] /\ wflag \in [Procs -> SUBSET Flag]
  /\ wret \in [Procs -> Label] /\ group \in [Procs -> SUBSET Bufs]

TypeOK == BufType /\ StoreType /\ SchedType /\ LocType

\* The buffers p has checked out: it must release each of them, or hand it to
\* a driver that will.  An asynchronous write belongs to the driver as soon as
\* the strategy routine is called.
Holds(p) ==
  ({bp[p], first[p]} \cup
   (IF pc[p] = "bwstrat" /\ "ASYNC" \in wflag[p] THEN {} ELSE {wb[p]}))
  \ {NoBuf}

\* The buffers a driver will release.
InFlight == {b \in io : "ASYNC" \in b_flags[b]}

\* A buffer is B_BUSY exactly when it is on no free list ("not on av_forw/back
\* list", buf.h), and then exactly one process, or a driver, has to release it:
\* no buffer is lost to the pool, none is used by two.
ExclusiveUse ==
  /\ \A b \in Bufs : "BUSY" \in b_flags[b] <=> freeq[b] = "none"
  /\ \A b \in Bufs : "BUSY" \in b_flags[b] <=>
                       b \in InFlight \/ \E p \in Procs : b \in Holds(p)
  /\ \A p \in Procs : Holds(p) \cap InFlight = {}
  /\ \A p, q \in Procs : p # q => Holds(p) \cap Holds(q) = {}

\* A buffer under I/O is busy and not B_DONE: biodone does not panic
\* ("dup biodone").
NoDupBiodone ==
  \A b \in io : "BUSY" \in b_flags[b] /\ "DONE" \notin b_flags[b]

\* "A disk block must be mapped by at most one buffer at any point in time"
\* (comment in brealloc), whatever sleeps there are between lookup and use.
UniqueMapping ==
  \A b, c \in Bufs :
    /\ b # c /\ b_vp[b] # NoVnode /\ "INVAL" \notin b_flags[b]
    /\ b_bcount[b] # 0
    => c \notin Overlapping(b_vp[b], b_blkno[b], b_bcount[b])

\* Nobody sleeps on a buffer or on the free list with no wakeup to come: the
\* buffer is busy and B_WANTED, or its transfer is under way; the list is
\* empty and marked.
NoStrandedSleeper ==
  \A p \in Procs :
    /\ wchan[p] \in Bufs =>
         /\ "BUSY" \in b_flags[wchan[p]]
         /\ "WANTED" \in b_flags[wchan[p]] \/ wchan[p] \in io
    /\ wchan[p] = FreeChan => listWanted /\ \A b \in Bufs : freeq[b] = "none"

\* A buffer whose contents stand for its blocks: it has been filled or written
\* to since it got them.
Current(b) ==
  /\ "INVAL" \notin b_flags[b]
  /\ \/ "DONE" \in b_flags[b]
     \/ b \in io /\ "READ" \notin b_flags[b]
     \/ \E p \in Procs : \/ pc[p] = "dirty" /\ bp[p] = b
                         \/ pc[p] = "bwrite" /\ wb[p] = b

\* What the cache and the devices together store in block d of vp.
Stores(vp, d) ==
  IF \E b \in Bufs : b_vp[b] = vp /\ d \in Extent(b) /\ Current(b)
  THEN b_data[CHOOSE b \in Bufs : /\ b_vp[b] = vp /\ d \in Extent(b)
                                  /\ Current(b)][d]
  ELSE disk[vp][d]

\* What p may use of the store: the blocks of the buffer it was given by bread,
\* breada or getblk, until it gives the buffer back.
View(p) ==
  IF pc[p] \in {"hold", "dirty"} /\ b_vp[bp[p]] # NoVnode
                                 /\ "ERROR" \notin b_flags[bp[p]]
  THEN [op |-> IF call[p].op = "getblk" THEN "take" ELSE "read",
        vp |-> b_vp[bp[p]],
        data |-> [d \in Extent(bp[p]) |-> b_data[bp[p]][d]]]
  ELSE NoView

\* The cache and its devices behave like one memory that is read and written
\* directly, a block by one process at a time: no write is lost, none is read
\* stale, whatever is cached, delayed, read ahead, flushed or invalidated.
Memory == INSTANCE BlockStore
            WITH store <- [vp \in Vnodes |-> [d \in DevBlks |-> Stores(vp, d)]],
                 view <- [p \in Procs |-> View(p)]
ImplementsBlockStore == Memory!Spec

\* When blkflush returns, the device has what the cache stores in the block.
FlushDurable ==
  [][\A p \in Procs : BlkflushDone(p) =>
       \A d \in DevBlks : call[p].blkno <= d /\ d < call[p].blkno + call[p].size
         => disk[call[p].vp][d] = Stores(call[p].vp, d)]_vars

\* "If it is grabbed for another purpose it will be written out before being
\* given up" (comment of bdwrite): no read replaces the contents of a buffer
\* with a delayed write.
DelayedWriteKept == \A b \in io : ~ ({"READ", "DELWRI"} \subseteq b_flags[b])

\* The code never calls a strategy routine through a null vnode, and never
\* takes a buffer off a free list it is not on.
NoFault == fault = {}

\* A process that sleeps for a buffer, for a free one or for a transfer is
\* woken.
SleeperWakes == \A p \in Procs : wchan[p] # NoChan ~> wchan[p] = NoChan
=============================================================================
