--------------------------- MODULE BufStoreProofs ---------------------------
(***************************************************************************)
(* Proof that blkflush writes what it promises: what the buffers say about *)
(* the device.  A clean buffer agrees with the device on the blocks it     *)
(* maps; to keep that, no transfer may be under way for a buffer that was  *)
(* invalidated, so the theorem is about a system that does not call        *)
(* binval.                                                                 *)
(* From the same invariant, that the cache implements BlockStore, and that *)
(* on local disks neither panic of the cache is reachable.                 *)
(***************************************************************************)
EXTENDS BufCacheProofs

\* A process has stored in b and not yet handed it to the driver or to the
\* delayed writes.
Changed(b) == \E p \in Procs : \/ pc[p] = "dirty" /\ bp[p] = b
                               \/ pc[p] = "bwrite" /\ wb[p] = b

\* b holds what its blocks have on the device.
Clean(b) ==
  /\ b_vp[b] # NoVnode /\ "DONE" \in b_flags[b]
  /\ {"INVAL", "ERROR", "DELWRI"} \cap b_flags[b] = {}
  /\ ~ Changed(b)

Agrees(b) == \A d \in Extent(b) : b_data[b][d] = disk[b_vp[b]][d]

Coherent == \A b \in Bufs : Clean(b) => Agrees(b)

\* A buffer that is invalid is clean and free, or without a vnode; one whose
\* transfer failed loses its vnode when it is released; a transfer is for the
\* vnode of its buffer.
PlacedAt(b) ==
  /\ "INVAL" \in b_flags[b] =>
       b_vp[b] = NoVnode \/ {"BUSY", "DELWRI"} \cap b_flags[b] = {}
  /\ "ERROR" \in b_flags[b] => b_vp[b] = NoVnode \/ "BUSY" \in b_flags[b]
  /\ b \in io => b_vp[b] # NoVnode

Placed == \A b \in Bufs : PlacedAt(b)

\* A buffer that is about to grow is not B_DONE: the new blocks are not in it.
Growing ==
  \A p \in Procs : At(p) = "brealloc" /\ call[p].size > b_bcount[bp[p]]
                     => "DONE" \notin b_flags[bp[p]]

\* Nobody is in binval.
NoBinval == \A p \in Procs : pc[p] # "binval"

StoreInv == IInv /\ UniqueMapping /\ NoBinval /\ Coherent /\ Placed /\ Growing

\* The others stay where they are; p has no changed buffer to hand over, or
\* hands it over; a buffer p is about to let grow is not B_DONE.
Stays(p) ==
  /\ \A q \in Procs \ {p} : UNCHANGED <<pc[q], wret[q], bp[q], wb[q], call[q]>>
  /\ \/ pc[p] \notin {"dirty", "bwrite"} \/ UNCHANGED <<pc[p], bp[p], wb[p]>>
     \/ pc[p] = "dirty" /\ pc'[p] = "bwrite" /\ wb'[p] = bp[p]
     \/ pc[p] = "bwrite" /\ "DONE" \notin b_flags'[wb[p]]
  /\ pc'[p] # "binval"
  /\ At(p)' = "brealloc" =>
       \/ At(p) = "brealloc" /\ UNCHANGED <<bp[p], call[p]>>
       \/ call'[p].size > b_bcount'[bp'[p]] => "DONE" \notin b_flags'[bp'[p]]

\* No buffer becomes clean, and what the clean ones say is not touched.
Keeps ==
  /\ UNCHANGED disk
  /\ \A b \in Bufs :
       \/ "DONE" \notin b_flags'[b]
       \/ /\ UNCHANGED <<b_blkno[b], b_bcount[b], b_data[b]>>
          /\ "DONE" \in b_flags[b]
          /\ {"INVAL", "ERROR", "DELWRI"} \cap b_flags[b] \subseteq b_flags'[b]
          /\ b_vp'[b] \in {b_vp[b], NoVnode}

USE ConstAssumption
USE DEF bufVars, idVars, listVars, storeVars, holdVars, wrVars, locVars
-----------------------------------------------------------------------------
\* Such a step keeps what is said of the contents of the buffers.
LEMMA KeepsStep ==
  ASSUME IInv, NoBinval, Coherent, Growing, NEW p \in Procs, Stays(p), Keeps
  PROVE  NoBinval' /\ Coherent' /\ Growing'
<1>1. NoBinval'
  BY DEF NoBinval, Stays
<1>2. ASSUME NEW b \in Bufs, Clean(b)'
      PROVE  Agrees(b)'
  <2>1. ~ Changed(b)
    BY <1>2 DEF Clean, Changed, Stays
  <2>2. Clean(b) /\ UNCHANGED <<b_vp[b], b_blkno[b], b_bcount[b], b_data[b], disk>>
    BY <1>2, <2>1 DEF Clean, Keeps
  <2> QED
    BY <2>2 DEF Coherent, Agrees, Extent
<1>3. ASSUME NEW q \in Procs, At(q)' = "brealloc", (call[q].size > b_bcount[bp[q]])'
      PROVE  ("DONE" \notin b_flags[bp[q]])'
  <2>1. CASE q = p /\ ~ (At(p) = "brealloc" /\ UNCHANGED <<bp[p], call[p]>>)
    BY <1>3, <2>1 DEF Stays
  <2>2. CASE At(q) = "brealloc" /\ UNCHANGED <<bp[q], call[q]>>
    <3>1. bp[q] \in Bufs
      BY <2>2 DEF IInv, Control, TypeOK, LocType, Buf0, BpLabel
    <3> QED
      BY <1>3, <2>2, <3>1 DEF Growing, Keeps
  <2>3. q # p => At(q) = "brealloc" /\ UNCHANGED <<bp[q], call[q]>>
    BY <1>3 DEF Stays, At
  <2> QED
    BY <2>1, <2>2, <2>3
<1> QED
  BY <1>1, <1>2, <1>3 DEF Coherent, Growing

\* The contents of the buffers are left alone by all these steps.
LEMMA FlagSteps ==
  ASSUME IInv, Placed, NEW p \in Procs,
         \/ GetblkBusy(p) \/ BreallocBusy(p) \/ BlkflushBusy(p)
         \/ GetnewbufDirty(p) \/ BreallocFlush(p) \/ BflushWrite(p)
         \/ BlkflushWrite(p) \/ BwriteAsync(p)
         \/ (\E async \in BOOLEAN : WriteOut(p, async))
  PROVE  Keeps /\ Placed'
<1>1. UNCHANGED <<idVars, storeVars, io>>
  BY DEF GetblkBusy, BreallocBusy, BlkflushBusy, WaitFor, GetnewbufDirty,
     BreallocFlush, BflushWrite, BlkflushWrite, BwriteAsync, BwriteReturn,
     WriteOut, CallBwrite
<1>2. PICK c \in Bufs :
        /\ \A b \in Bufs \ {c} : b_flags'[b] = b_flags[b]
        /\ \A f \in Flag \ {"BUSY", "WANTED", "ASYNC", "AGE"} :
             f \in b_flags'[c] <=> f \in b_flags[c]
        /\ "BUSY" \in b_flags[c] => "BUSY" \in b_flags'[c]
        /\ \/ {"BUSY", "DELWRI"} \cap b_flags[c] # {}
           \/ "INVAL" \notin b_flags[c]
           \/ "BUSY" \notin b_flags'[c]
  <2> USE DEF IInv, TypeOK, BufType
  <2>1. CASE GetblkBusy(p) \/ BreallocBusy(p) \/ BlkflushBusy(p)
    BY <2>1 DEF GetblkBusy, BreallocBusy, BlkflushBusy, WaitFor, Matches,
       InTheWay, ToFlush, Overlapping
  <2>2. CASE GetnewbufDirty(p)
    BY <2>2 DEF GetnewbufDirty, notavail, Candidates
  <2>3. CASE BreallocFlush(p)
    BY <2>3 DEF BreallocFlush, notavail, InTheWay, Overlapping
  <2>4. CASE BflushWrite(p)
    BY <2>4 DEF BflushWrite, notavail, StillDirty, LocType
  <2>5. CASE BlkflushWrite(p)
    BY <2>5 DEF BlkflushWrite, notavail, ToFlush, Overlapping
  <2>6. CASE BwriteAsync(p)
    BY <2>6 DEF BwriteAsync, LocType, Control, Buf0, Writing0
  <2>7. CASE \E async \in BOOLEAN : WriteOut(p, async)
    <3>1. bp[p] \in Bufs /\ "BUSY" \in b_flags[bp[p]]
      <4>1. pc[p] = "dirty"
        BY <2>7 DEF WriteOut
      <4>2. bp[p] \in Bufs
        BY <4>1 DEF LocType, Control, Buf0, At, BpLabel, Writing0
      <4> QED
        BY <4>2 DEF OnlyOwner, Has
    <3> QED
      BY <2>7, <3>1 DEF WriteOut
  <2> QED
    BY <2>1, <2>2, <2>3, <2>4, <2>5, <2>6, <2>7
<1>3. Keeps
  BY <1>1, <1>2 DEF Keeps, Flag
<1>4. ASSUME NEW b \in Bufs
      PROVE  PlacedAt(b)'
  BY <1>1, <1>2 DEF Placed, PlacedAt, Flag
<1> QED
  BY <1>3, <1>4 DEF Placed

\* brelse takes the vnode of a buffer with an error.
LEMMA BrelseSteps ==
  ASSUME IInv, Placed, NEW p \in Procs,
         BreallocInval(p) \/ BreadaAheadHit(p) \/ Release(p) \/ BwriteDone(p)
  PROVE  Keeps /\ Placed'
<1>1. UNCHANGED <<b_blkno, b_bcount, storeVars, io>>
  BY DEF BreallocInval, BreadaAheadHit, Release, BwriteDone, BwriteReturn,
     brelse
<1>2. PICK c \in Bufs :
        /\ \/ brelse(c, b_flags[c]) /\ "BUSY" \in b_flags[c]
           \/ brelse(c, b_flags[c] \cup {"BUSY", "INVAL"}) /\ "DELWRI" \notin b_flags[c]
        /\ c \notin io
  <2>1. CASE BreallocInval(p)
    BY <2>1 DEF BreallocInval, InTheWay, Overlapping, IInv, UnderWay
  <2>2. CASE BreadaAheadHit(p) \/ Release(p)
    <3>1. bp[p] \in Bufs /\ bp[p] \notin io
      BY <2>2 DEF BreadaAheadHit, Release, IInv, TypeOK, LocType, Buf0,
         Control, UnderWay, At, BpLabel, Writing0
    <3>2. "BUSY" \in b_flags[bp[p]]
      BY <3>1 DEF IInv, OnlyOwner, Has
    <3> QED
      BY <2>2, <3>1, <3>2 DEF BreadaAheadHit, Release
  <2>3. CASE BwriteDone(p)
    <3>1. wb[p] \in Bufs /\ wb[p] \notin io
      BY <2>3 DEF BwriteDone, IInv, TypeOK, LocType, Buf0, Control, UnderWay,
         Writing0
    <3>2. "BUSY" \in b_flags[wb[p]]
      BY <2>3, <3>1 DEF BwriteDone, IInv, OnlyOwner, Has
    <3> QED
      BY <2>3, <3>1, <3>2 DEF BwriteDone
  <2> QED
    BY <2>1, <2>2, <2>3
<1>3. /\ \A b \in Bufs \ {c} : b_flags'[b] = b_flags[b] /\ b_vp'[b] = b_vp[b]
      /\ \A f \in Flag \ {"WANTED", "BUSY", "ASYNC", "AGE", "INVAL"} :
           f \in b_flags'[c] <=> f \in b_flags[c]
      /\ "INVAL" \in b_flags[c] => "INVAL" \in b_flags'[c]
      /\ "INVAL" \in b_flags'[c] =>
           \/ "INVAL" \in b_flags[c] /\ "BUSY" \in b_flags[c]
           \/ "DELWRI" \notin b_flags[c]
      /\ "BUSY" \notin b_flags'[c]
      /\ b_vp'[c] = IF "ERROR" \in b_flags[c] THEN NoVnode ELSE b_vp[c]
  <2> USE DEF brelse, IInv, TypeOK, BufType
  <2>1. CASE brelse(c, b_flags[c]) /\ "BUSY" \in b_flags[c]
    BY <2>1
  <2>2. CASE brelse(c, b_flags[c] \cup {"BUSY", "INVAL"}) /\ "DELWRI" \notin b_flags[c]
    BY <2>2
  <2> QED
    BY <1>2, <2>1, <2>2
<1>4. Keeps
  BY <1>1, <1>3 DEF Keeps, Flag
<1>5. ASSUME NEW b \in Bufs
      PROVE  PlacedAt(b)'
  BY <1>1, <1>2, <1>3 DEF Placed, PlacedAt, Flag
<1> QED
  BY <1>4, <1>5 DEF Placed

\* The steps that change no buffer.
LEMMA StillSteps ==
  ASSUME IInv, Placed, NEW p \in Procs,
         \/ \E o \in Ops, vp \in Vnodes, blk \in Block, ra \in DevBlks :
              Call(p, o, vp, blk, ra)
         \/ GetblkMiss(p) \/ GetnewbufWait(p) \/ BreallocShrink(p)
         \/ Biowait(p) \/ Breada(p) \/ BreadaAhead(p) \/ BreadaEnd(p)
         \/ BwriteWait(p) \/ StrategyNoVnode(p)
         \/ BflushCollect(p) \/ BflushDone(p) \/ BflushSteal(p)
         \/ BflushSkip(p) \/ BlkflushDone(p)
  PROVE  Keeps /\ Placed'
<1>1. UNCHANGED <<b_flags, idVars, storeVars, io>>
  BY DEF Call, GetblkMiss, GetnewbufWait, BreallocShrink, CallBwrite, Biowait,
     Breada, BreadaAhead, BreadaEnd, BwriteWait, StrategyNoVnode, Crash,
     BflushCollect, BflushDone, BflushSteal, BflushSkip, BlkflushDone
<1> QED
  BY <1>1 DEF Keeps, Placed, PlacedAt, IInv, TypeOK, BufType

\* The steps that start a transfer: only for a buffer with a vnode.
LEMMA AskSteps ==
  ASSUME IInv, Placed, NEW p \in Procs,
         Bread(p) \/ BreadaStart(p) \/ BreadaAheadStart(p) \/ Bwrite(p)
  PROVE  Keeps /\ Placed'
<1>1. UNCHANGED <<idVars, storeVars>>
  BY DEF Bread, BreadaStart, BreadaAheadStart, Bwrite
<1>2. CASE UNCHANGED <<b_flags, io>>
  BY <1>1, <1>2 DEF Keeps, Placed, PlacedAt, IInv, TypeOK, BufType
<1>3. CASE \E c \in Bufs, f \in SUBSET Flag :
             /\ b_vp[c] # NoVnode /\ io' = io \cup {c}
             /\ b_flags' = [b_flags EXCEPT ![c] = f]
             /\ \/ f \cap {"INVAL", "ERROR", "DELWRI", "BUSY", "DONE"}
                     = b_flags[c] \cap {"INVAL", "ERROR", "DELWRI", "BUSY", "DONE"}
                \/ /\ {"DELWRI", "DONE", "ERROR"} \cap f = {} /\ "BUSY" \in b_flags[c]
                   /\ "INVAL" \in f => "INVAL" \in b_flags[c]
  <2>1. PICK c \in Bufs, f \in SUBSET Flag :
             /\ b_vp[c] # NoVnode /\ io' = io \cup {c}
             /\ b_flags' = [b_flags EXCEPT ![c] = f]
             /\ \/ f \cap {"INVAL", "ERROR", "DELWRI", "BUSY", "DONE"}
                     = b_flags[c] \cap {"INVAL", "ERROR", "DELWRI", "BUSY", "DONE"}
                \/ /\ {"DELWRI", "DONE", "ERROR"} \cap f = {} /\ "BUSY" \in b_flags[c]
                   /\ "INVAL" \in f => "INVAL" \in b_flags[c]
    BY <1>3
  <2>2. \A b \in Bufs : b_flags'[b] = IF b = c THEN f ELSE b_flags[b]
    BY <2>1 DEF IInv, TypeOK, BufType
  <2>3. Keeps
    BY <1>1, <2>1, <2>2 DEF Keeps
  <2>4. ASSUME NEW b \in Bufs
        PROVE  PlacedAt(b)'
    BY <1>1, <2>1, <2>2 DEF Placed, PlacedAt
  <2> QED
    BY <2>3, <2>4 DEF Placed
<1>4. CASE Bread(p) \/ BreadaStart(p) \/ BreadaAheadStart(p)
  <2>1. bp[p] \in Bufs /\ b_flags[bp[p]] \in SUBSET Flag
    BY <1>4 DEF Bread, BreadaStart, BreadaAheadStart, IInv, TypeOK, LocType,
       Buf0, BufType, Control, At, BpLabel, Writing0
  <2>2. \/ UNCHANGED <<b_flags, io>>
        \/ Strategy(p, bp[p], b_flags[bp[p]] \cup {"READ"}, "biowait")
        \/ Strategy(p, bp[p], b_flags[bp[p]] \cup {"READ"}, "breada_ra")
        \/ Strategy(p, bp[p], b_flags[bp[p]] \cup {"READ", "ASYNC"}, "breada_end")
    BY <1>4 DEF Bread, BreadaStart, BreadaAheadStart
  <2> QED
    BY <1>2, <1>3, <2>1, <2>2 DEF Strategy, Flag
<1>5. CASE Bwrite(p)
  <2>1. wb[p] \in Bufs /\ b_flags[wb[p]] \in SUBSET Flag
    BY <1>5 DEF Bwrite, IInv, TypeOK, LocType, Buf0, BufType, Control, Writing0
  <2>2. "BUSY" \in b_flags[wb[p]]
    BY <1>5, <2>1 DEF Bwrite, IInv, OnlyOwner, Has
  <2> DEFINE f == b_flags[wb[p]] \ Cleared
  <2>3. /\ b_vp[wb[p]] # NoVnode /\ io' = io \cup {wb[p]}
        /\ b_flags' = [b_flags EXCEPT ![wb[p]] = f]
    BY <1>5 DEF Bwrite, Strategy
  <2>4. /\ f \in SUBSET Flag /\ {"DELWRI", "DONE", "ERROR"} \cap f = {}
        /\ "INVAL" \in f => "INVAL" \in b_flags[wb[p]]
    BY <2>1 DEF Cleared
  <2> HIDE DEF f
  <2> QED
    BY <1>3, <2>1, <2>2, <2>3, <2>4
<1> QED
  BY <1>4, <1>5

\* The steps that take a buffer off its list.
LEMMA TakeSteps ==
  ASSUME IInv, Placed, NEW p \in Procs, GetblkHit(p) \/ GetnewbufClean(p)
  PROVE  Keeps /\ Placed'
<1>1. CASE GetblkHit(p)
  <2>1. PICK c \in Bufs :
          /\ "INVAL" \notin b_flags[c]
          /\ b_flags' = [b_flags EXCEPT ![c] = (@ \cup {"BUSY"}) \
               (IF call[p].size > b_bcount[c] THEN {"DONE"} ELSE {})]
          /\ UNCHANGED <<idVars, storeVars, io>>
    BY <1>1 DEF GetblkHit, Matches
  <2>2. /\ \A b \in Bufs \ {c} : b_flags'[b] = b_flags[b]
        /\ "BUSY" \in b_flags'[c]
        /\ "DONE" \in b_flags'[c] => "DONE" \in b_flags[c]
        /\ \A f \in Flag \ {"DONE", "BUSY"} : f \in b_flags'[c] <=> f \in b_flags[c]
    BY <2>1 DEF IInv, TypeOK, BufType
  <2>3. Keeps
    BY <2>1, <2>2 DEF Keeps, Flag
  <2>4. ASSUME NEW b \in Bufs
        PROVE  PlacedAt(b)'
    BY <2>1, <2>2 DEF Placed, PlacedAt, Flag
  <2> QED
    BY <2>3, <2>4 DEF Placed
<1>2. CASE GetnewbufClean(p)
  <2>1. PICK c \in Bufs :
          /\ freeq[c] # "none"
          /\ UNCHANGED <<disk, io>>
          /\ \A b \in Bufs \ {c} :
               UNCHANGED <<b_flags[b], b_vp[b], b_blkno[b], b_bcount[b], b_data[b]>>
          /\ \/ b_flags'[c] = {"BUSY", "INVAL"} /\ b_vp'[c] = NoVnode
             \/ b_flags'[c] = {"BUSY"}
    <3>1. PICK c \in Candidates :
            /\ b_bcount' = [b_bcount EXCEPT ![c] = 0]
            /\ b_data' = [b_data EXCEPT ![c] = [d \in DevBlks |-> Junk]]
            /\ \/ /\ b_flags' = [b_flags EXCEPT ![c] = {"BUSY", "INVAL"}]
                  /\ b_vp' = [b_vp EXCEPT ![c] = NoVnode]
                  /\ UNCHANGED b_blkno
               \/ /\ b_flags' = [b_flags EXCEPT ![c] = {"BUSY"}]
                  /\ b_vp' = [b_vp EXCEPT ![c] = call[p].vp]
                  /\ b_blkno' = [b_blkno EXCEPT ![c] = Target(p)]
      BY <1>2 DEF GetnewbufClean
    <3>2. UNCHANGED <<disk, io>>
      BY <1>2 DEF GetnewbufClean
    <3>3. c \in Bufs /\ freeq[c] # "none"
      BY DEF Candidates
    <3> QED
      BY <3>1, <3>2, <3>3 DEF IInv, TypeOK, BufType, StoreType
  <2>2. c \notin io
    BY <2>1 DEF IInv, Owned, UnderWay
  <2>3. Keeps
    BY <2>1 DEF Keeps
  <2>4. ASSUME NEW b \in Bufs
        PROVE  PlacedAt(b)'
    BY <2>1, <2>2 DEF Placed, PlacedAt
  <2> QED
    BY <2>3, <2>4 DEF Placed
<1> QED
  BY <1>1, <1>2

\* binvalfree takes the vnode of the clean free buffers it invalidates.
LEMMA DropSteps ==
  ASSUME IInv, Placed, NEW p \in Procs, BinvalfreeWrite(p) \/ BinvalfreeDone(p)
  PROVE  Keeps /\ Placed'
<1>1. PICK S \in SUBSET Bufs :
        /\ UNCHANGED <<b_blkno, b_bcount, storeVars, io>>
        /\ \A b \in S : freeq[b] # "none" /\ "DELWRI" \notin b_flags[b]
        /\ \A b \in Bufs : b_vp'[b] = IF b \in S THEN NoVnode ELSE b_vp[b]
        /\ \A b \in S : b_flags'[b] = b_flags[b] \cup {"INVAL"}
        /\ \A b \in Bufs \ S :
             \/ b_flags'[b] = b_flags[b]
             \/ /\ b_flags'[b] = b_flags[b] \cup {"BUSY", "ASYNC"}
                /\ "DELWRI" \in b_flags[b]
  <2>1. CASE BinvalfreeWrite(p)
    <3>1. PICK c \in FreeOf(call[p].vp),
               S \in SUBSET {d \in FreeOf(call[p].vp) : "DELWRI" \notin b_flags[d]} :
            /\ "DELWRI" \in b_flags[c] /\ Drop(S)
            /\ b_flags' = [Marked(S, {"INVAL"}) EXCEPT ![c] =
                             @ \cup {"BUSY", "ASYNC"}]
      BY <2>1 DEF BinvalfreeWrite
    <3>2. c \notin S /\ S \in SUBSET Bufs /\ UNCHANGED <<storeVars, io>>
      BY <2>1, <3>1 DEF FreeOf, BinvalfreeWrite, CallBwrite
    <3>3. \A b \in Bufs : b_flags'[b] =
            IF b = c THEN b_flags[b] \cup {"BUSY", "ASYNC"}
            ELSE b_flags[b] \cup IF b \in S THEN {"INVAL"} ELSE {}
      BY <3>1, <3>2 DEF Marked
    <3>4. \A b \in Bufs \ S :
            \/ b_flags'[b] = b_flags[b]
            \/ b = c /\ b_flags'[b] = b_flags[b] \cup {"BUSY", "ASYNC"}
      BY <3>2, <3>3
    <3>5. \A b \in S : b # c /\ b_flags'[b] = b_flags[b] \cup {"INVAL"}
      BY <3>2, <3>3
    <3>6. \A b \in S : freeq[b] # "none" /\ "DELWRI" \notin b_flags[b]
      BY DEF FreeOf
    <3>7. /\ UNCHANGED <<b_blkno, b_bcount>>
          /\ \A b \in Bufs : b_vp'[b] = IF b \in S THEN NoVnode ELSE b_vp[b]
      BY <3>1 DEF Drop
    <3> QED
      BY <3>1, <3>2, <3>4, <3>5, <3>6, <3>7
  <2>2. CASE BinvalfreeDone(p)
    <3>1. /\ Drop(FreeOf(call[p].vp)) /\ UNCHANGED <<storeVars, io>>
          /\ b_flags' = Marked(FreeOf(call[p].vp), {"INVAL"})
          /\ \A b \in FreeOf(call[p].vp) : "DELWRI" \notin b_flags[b]
      BY <2>2 DEF BinvalfreeDone
    <3>2. \A b \in Bufs \ FreeOf(call[p].vp) : b_flags'[b] = b_flags[b]
      BY <3>1 DEF Marked
    <3> QED
      BY <3>1, <3>2 DEF FreeOf, Drop, Marked
  <2> QED
    BY <2>1, <2>2
<1>2. \A b \in S : "BUSY" \notin b_flags[b] /\ b \notin io
  BY <1>1 DEF IInv, Owned, UnderWay
<1>3. Keeps
  BY <1>1 DEF Keeps
<1>4. ASSUME NEW b \in Bufs
      PROVE  PlacedAt(b)'
  BY <1>1, <1>2 DEF Placed, PlacedAt
<1> QED
  BY <1>3, <1>4 DEF Placed
-----------------------------------------------------------------------------
\* Where the steps lead.  Only getblk and getnewbuf enter brealloc, with a
\* buffer that is not B_DONE if it has to grow.
LEMMA LookupStays ==
  ASSUME IInv, NEW p \in Procs, Lookup(p), ~ BreallocDone(p)
  PROVE  Stays(p)
<1> USE DEF IInv, TypeOK, SchedType, LocType, Stays, At, Writing0
<1>1. CASE GetblkBusy(p) \/ BreallocBusy(p)
  BY <1>1 DEF GetblkBusy, BreallocBusy, WaitFor, Sleep, Yield
<1>2. CASE GetblkMiss(p) \/ GetnewbufWait(p)
  BY <1>2 DEF GetblkMiss, GetnewbufWait, Sleep, Yield, Goto
<1>3. CASE GetnewbufDirty(p) \/ BreallocFlush(p)
  BY <1>3 DEF GetnewbufDirty, BreallocFlush, CallBwrite, Goto
<1>4. CASE BreallocShrink(p)
  BY <1>4 DEF BreallocShrink, CallBwrite, Goto
<1>5. CASE BreallocInval(p)
  BY <1>5 DEF BreallocInval, Goto
<1>6. CASE GetblkHit(p)
  BY <1>6 DEF GetblkHit, Matches, Goto, BufType
<1>7. CASE GetnewbufClean(p)
  <2>1. PICK c \in Bufs :
          /\ bp' = [bp EXCEPT ![p] = c]
          /\ \/ b_flags' = [b_flags EXCEPT ![c] = {"BUSY", "INVAL"}]
             \/ b_flags' = [b_flags EXCEPT ![c] = {"BUSY"}]
    BY <1>7 DEF GetnewbufClean, Candidates
  <2>2. /\ pc[p] = "getnewbuf" /\ pc' = [pc EXCEPT ![p] = "brealloc"]
        /\ UNCHANGED <<wret, wb, call>>
    BY <1>7 DEF GetnewbufClean, Goto
  <2> QED
    BY <2>1, <2>2 DEF BufType
<1> QED
  BY <1>1, <1>2, <1>3, <1>4, <1>5, <1>6, <1>7, Zenon DEF Lookup

LEMMA ReadingStays ==
  ASSUME IInv, NEW p \in Procs, Reading(p)
  PROVE  Stays(p)
<1> USE DEF IInv, TypeOK, SchedType, LocType, Stays, At, Writing0
<1>1. CASE Bread(p) \/ BreadaStart(p) \/ BreadaAheadStart(p)
  BY <1>1 DEF Bread, BreadaStart, BreadaAheadStart, Strategy, Goto, Yield
<1>2. CASE Biowait(p)
  BY <1>2 DEF Biowait, Sleep, Yield
<1>3. CASE Breada(p) \/ BreadaAhead(p) \/ BreadaEnd(p)
  BY <1>3 DEF Breada, BreadaAhead, BreadaEnd, Goto
<1>4. CASE BreadaAheadHit(p)
  BY <1>4 DEF BreadaAheadHit, Goto
<1> QED
  BY <1>1, <1>2, <1>3, <1>4, Zenon DEF Reading, BreadaSecond

LEMMA WritingStays ==
  ASSUME IInv, NEW p \in Procs,
         \/ Release(p) \/ Writing(p)
         \/ \E async \in BOOLEAN : WriteOut(p, async)
  PROVE  Stays(p)
<1> USE DEF IInv, TypeOK, SchedType, LocType, Stays, At, Writing0
<1>1. CASE Release(p)
  BY <1>1 DEF Release, Return, Yield
<1>2. CASE \E async \in BOOLEAN : WriteOut(p, async)
  BY <1>2 DEF WriteOut, CallBwrite, Goto
<1>3. CASE Bwrite(p)
  <2>1. wb[p] \in Bufs
    BY <1>3 DEF Bwrite, Control, Buf0
  <2> QED
    BY <1>3, <2>1 DEF Bwrite, Strategy, Cleared, Goto, Yield, BufType
<1>4. CASE BwriteAsync(p) \/ BwriteDone(p)
  <2>1. wret[p] # "binval"
    BY DEF Control
  <2> QED
    BY <1>4, <2>1 DEF BwriteAsync, BwriteDone, BwriteReturn, Return, Yield,
       Goto
<1>5. CASE BwriteWait(p)
  BY <1>5 DEF BwriteWait, Sleep, Yield
<1>6. CASE StrategyNoVnode(p)
  BY <1>6 DEF StrategyNoVnode, Crash
<1> QED
  BY <1>1, <1>2, <1>3, <1>4, <1>5, <1>6, Zenon DEF Writing

LEMMA FlushingStays ==
  ASSUME IInv, NoBinval, NEW p \in Procs, Flushing(p)
  PROVE  Stays(p)
<1> USE DEF IInv, TypeOK, SchedType, LocType, Stays, At, Writing0
<1>1. CASE BflushCollect(p) \/ BflushSkip(p)
  BY <1>1 DEF BflushCollect, BflushSkip, Goto
<1>2. CASE BflushDone(p) \/ BlkflushDone(p) \/ BinvalfreeDone(p)
  BY <1>2 DEF BflushDone, BlkflushDone, BinvalfreeDone, Return, Yield
<1>3. CASE BflushWrite(p) \/ BlkflushWrite(p) \/ BinvalfreeWrite(p)
  BY <1>3 DEF BflushWrite, BlkflushWrite, BinvalfreeWrite, CallBwrite, Goto
<1>4. CASE BflushSteal(p)
  BY <1>4 DEF BflushSteal, Crash
<1>5. CASE BlkflushBusy(p)
  BY <1>5 DEF BlkflushBusy, WaitFor, Sleep, Yield
<1>6. ~ Binval(p)
  BY DEF NoBinval, Binval
<1> QED
  BY <1>1, <1>2, <1>3, <1>4, <1>5, <1>6, Zenon DEF Flushing

LEMMA CallStays ==
  ASSUME IInv, "binval" \notin Ops, NEW p \in Procs, NEW o \in Ops,
         NEW vp \in Vnodes, NEW blk \in Block, NEW ra \in DevBlks,
         Call(p, o, vp, blk, ra)
  PROVE  Stays(p)
<1>1. pc'[p] \in {"getblk", "getnewbuf", "bflush", "breada", "blkflush",
                  "binvalfree"}
  <2>1. o \in AllOps \ {"binval"}
    OBVIOUS
  <2> QED
    BY <2>1 DEF Call, Goto, AllOps, IInv, TypeOK, SchedType
<1>2. \A q \in Procs \ {p} : UNCHANGED <<pc[q], wret[q], bp[q], wb[q], call[q]>>
  BY DEF Call, Goto, IInv, TypeOK, SchedType, LocType
<1> QED
  BY <1>1, <1>2 DEF Call, Stays, At, Writing0
-----------------------------------------------------------------------------
\* The steps that change what a buffer has.

\* brealloc leaves B_DONE only on a buffer that keeps its size or shrinks.
LEMMA BreallocDoneStore ==
  ASSUME StoreInv, NEW p \in Procs, BreallocDone(p)
  PROVE  NoBinval' /\ Coherent' /\ Placed' /\ Growing'
<1>1. PICK g \in Bufs, n \in Sizes \cup {0} :
        /\ bp[p] = g /\ n = call[p].size
        /\ \A b \in Bufs : b_bcount'[b] = IF b = g THEN n ELSE b_bcount[b]
        /\ UNCHANGED <<b_flags, b_vp, b_blkno, storeVars, io, wret, bp, wb, call>>
        /\ pc' = [pc EXCEPT ![p] = gret[p]]
  <2>1. bp[p] \in Bufs /\ call[p].size \in Sizes \cup {0}
    BY DEF BreallocDone, StoreInv, IInv, TypeOK, LocType, CallRecord, Buf0,
       Control, At, BpLabel, Writing0
  <2>2. /\ b_bcount' = [b_bcount EXCEPT ![bp[p]] = call[p].size]
        /\ UNCHANGED <<b_flags, b_vp, b_blkno, storeVars, io, wret, bp, wb, call>>
        /\ pc' = [pc EXCEPT ![p] = gret[p]]
    BY DEF BreallocDone, Goto
  <2> QED
    BY <2>1, <2>2 DEF StoreInv, IInv, TypeOK, BufType
<1>2. /\ pc[p] = "brealloc" /\ At(p) = "brealloc"
      /\ gret[p] \in {"bread", "hold", "breada1", "breada2"}
  BY DEF BreallocDone, StoreInv, IInv, Control, At, Writing0
<1>3. \A q \in Procs : pc'[q] = IF q = p THEN gret[p] ELSE pc[q]
  BY <1>1 DEF StoreInv, IInv, TypeOK, SchedType
<1>4. NoBinval'
  BY <1>2, <1>3 DEF StoreInv, NoBinval
<1>5. Placed'
  BY <1>1 DEF StoreInv, Placed, PlacedAt
<1>6. Growing'
  <2>1. ASSUME NEW q \in Procs, q # p, At(q) = "brealloc"
        PROVE  bp[q] \in Bufs /\ bp[q] # g
    <3>1. bp[q] \in Bufs
      BY <2>1 DEF StoreInv, IInv, TypeOK, LocType, Buf0, Control, BpLabel
    <3> QED
      BY <1>1, <2>1, <3>1 DEF StoreInv, IInv, OnlyOwner, Has
  <2>2. \A q \in Procs : At(q)' = "brealloc" => q # p /\ At(q) = "brealloc"
    BY <1>1, <1>2, <1>3 DEF At, Writing0
  <2> QED
    BY <1>1, <2>1, <2>2 DEF StoreInv, Growing
<1>7. ASSUME NEW b \in Bufs, Clean(b)'
      PROVE  Agrees(b)'
  <2>1. Clean(b)
    BY <1>1, <1>2, <1>3, <1>7 DEF Clean, Changed
  <2>2. b_bcount[b] \in Nat /\ n \in Nat
    BY SizeNat DEF StoreInv
  <2>3. b = g => n <= b_bcount[b]
    BY <1>1, <1>2, <2>1, <2>2 DEF StoreInv, Growing, Clean
  <2>4. \A d \in Extent(b)' : d \in Extent(b)
    <3>1. b_blkno[b] \in Nat /\ b_bcount'[b] \in Nat /\ b_bcount'[b] <= b_bcount[b]
      BY <1>1, <2>2, <2>3, SizeNat DEF StoreInv
    <3> QED
      BY <1>1, <2>2, <3>1 DEF Extent, DevBlks
  <2> QED
    BY <1>1, <2>1, <2>4 DEF StoreInv, Coherent, Agrees
<1> QED
  BY <1>4, <1>5, <1>6, <1>7 DEF Coherent

\* What the caller stores is not clean yet.
LEMMA ModifyStore ==
  ASSUME StoreInv, NEW p \in Procs, NEW v \in Vals, Modify(p, v)
  PROVE  NoBinval' /\ Coherent' /\ Placed' /\ Growing'
<1>1. /\ pc[p] = "hold" /\ pc' = [pc EXCEPT ![p] = "dirty"]
      /\ UNCHANGED <<b_flags, idVars, disk, io, locVars>>
      /\ \A b \in Bufs : b # bp[p] => b_data'[b] = b_data[b]
  BY DEF Modify, Yield, StoreInv, IInv, TypeOK, StoreType
<1>2. \A q \in Procs : pc'[q] = IF q = p THEN "dirty" ELSE pc[q]
  BY <1>1 DEF StoreInv, IInv, TypeOK, SchedType
<1>3. NoBinval' /\ Placed' /\ Growing'
  BY <1>1, <1>2 DEF StoreInv, NoBinval, Placed, PlacedAt, Growing, At, Writing0
<1>4. ASSUME NEW b \in Bufs, Clean(b)'
      PROVE  Agrees(b)'
  <2>1. b # bp[p] /\ Clean(b)
    BY <1>1, <1>2, <1>4 DEF Clean, Changed
  <2> QED
    BY <1>1, <2>1 DEF StoreInv, Coherent, Agrees, Extent
<1> QED
  BY <1>3, <1>4 DEF Coherent

\* bdwrite makes the buffer B_DONE and B_DELWRI at once.
LEMMA BdwriteStore ==
  ASSUME StoreInv, NEW p \in Procs, Bdwrite(p)
  PROVE  NoBinval' /\ Coherent' /\ Placed' /\ Growing'
<1>1. PICK c \in Bufs :
        /\ bp[p] = c /\ pc[p] = "dirty" /\ "BUSY" \in b_flags[c] /\ c \notin io
        /\ brelse(c, b_flags[c] \cup {"DELWRI", "DONE"})
  <2>1. bp[p] \in Bufs /\ pc[p] = "dirty" /\ bp[p] \notin io
    BY DEF Bdwrite, StoreInv, IInv, TypeOK, LocType, Buf0, Control, UnderWay,
       At, BpLabel, Writing0
  <2>2. "BUSY" \in b_flags[bp[p]]
    BY <2>1 DEF StoreInv, IInv, OnlyOwner, Has
  <2> QED
    BY <2>1, <2>2 DEF Bdwrite
<1>2. /\ UNCHANGED <<b_blkno, b_bcount, storeVars, io, wret, wb>>
      /\ \A q \in Procs : pc'[q] = IF q = p THEN "user" ELSE pc[q]
      /\ \A q \in Procs \ {p} : UNCHANGED <<bp[q], call[q]>>
  BY <1>1 DEF Bdwrite, Return, Yield, brelse, StoreInv, IInv, TypeOK, SchedType,
     LocType
<1>3. /\ \A b \in Bufs \ {c} : UNCHANGED <<b_flags[b], b_vp[b]>>
      /\ "DELWRI" \in b_flags'[c] /\ "BUSY" \notin b_flags'[c]
      /\ \A f \in {"INVAL", "ERROR"} : f \in b_flags'[c] <=> f \in b_flags[c]
      /\ b_vp'[c] = IF "ERROR" \in b_flags[c] THEN NoVnode ELSE b_vp[c]
  BY <1>1 DEF brelse, StoreInv, IInv, TypeOK, BufType
<1>4. NoBinval'
  BY <1>2 DEF StoreInv, NoBinval
<1>5. ASSUME NEW b \in Bufs
      PROVE  PlacedAt(b)'
  BY <1>1, <1>2, <1>3 DEF StoreInv, Placed, PlacedAt
<1>6. Growing'
  <2>1. ASSUME NEW q \in Procs, q # p, At(q) = "brealloc"
        PROVE  bp[q] \in Bufs /\ bp[q] # c
    <3>1. bp[q] \in Bufs
      BY <2>1 DEF StoreInv, IInv, TypeOK, LocType, Buf0, Control, BpLabel
    <3> QED
      BY <1>1, <2>1, <3>1 DEF StoreInv, IInv, OnlyOwner, Has
  <2>2. \A q \in Procs : At(q)' = "brealloc" => q # p /\ At(q) = "brealloc"
    BY <1>2 DEF At, Writing0
  <2> QED
    BY <1>2, <1>3, <2>1, <2>2 DEF StoreInv, Growing
<1>7. ASSUME NEW b \in Bufs, Clean(b)'
      PROVE  Agrees(b)'
  <2>1. b # c
    BY <1>3, <1>7 DEF Clean
  <2>2. ~ Changed(b)
    BY <1>1, <1>2, <1>7, <2>1 DEF Clean, Changed
  <2> QED
    BY <1>2, <1>3, <1>7, <2>1, <2>2 DEF StoreInv, Coherent, Clean, Agrees, Extent
<1> QED
  BY <1>4, <1>5, <1>6, <1>7 DEF Coherent, Placed

\* What biodone does to the buffer whose transfer ends, and to the device:
\* after a transfer that succeeds the two agree, and no other block is
\* touched.
LEMMA BiodoneEffect ==
  ASSUME StoreInv, NEW c \in Bufs, NEW ok \in BOOLEAN, Biodone(c, ok)
  PROVE  /\ \A b \in Bufs \ {c} :
              UNCHANGED <<b_flags[b], b_vp[b], b_data[b]>>
         /\ UNCHANGED <<b_blkno, b_bcount, pc, locVars>>
         /\ io' = io \ {c}
         /\ \A f \in {"INVAL", "DELWRI"} : f \in b_flags'[c] <=> f \in b_flags[c]
         /\ "ERROR" \in b_flags'[c] <=> "ERROR" \in b_flags[c] \/ ~ ok
         /\ "ERROR" \in b_flags'[c] => b_vp'[c] = NoVnode \/ "BUSY" \in b_flags'[c]
         /\ ok => Agrees(c)' \/ b_vp'[c] = NoVnode
         /\ \A w \in Vnodes, d \in DevBlks :
              disk'[w][d] = disk[w][d] \/ (w = b_vp[c] /\ d \in Extent(c))
<1>1. /\ c \in io /\ "BUSY" \in b_flags[c]
      /\ b_dev[c] = b_vp[c] /\ b_vp[c] \in Vnodes
  BY DEF Biodone, StoreInv, IInv, UnderWay, Placed, PlacedAt, TypeOK, BufType
<1>2. UNCHANGED <<b_blkno, b_bcount, pc, locVars>> /\ io' = io \ {c}
  BY DEF Biodone, brelse
<1> DEFINE g == b_flags[c] \cup {"DONE"} \cup (IF ok THEN {} ELSE {"ERROR"})
<1>3. \/ brelse(c, g)
      \/ b_flags' = [b_flags EXCEPT ![c] = g \ {"WANTED"}] /\ UNCHANGED b_vp
  BY DEF Biodone
<1>4. /\ \A b \in Bufs \ {c} : UNCHANGED <<b_flags[b], b_vp[b]>>
      /\ \A f \in {"INVAL", "DELWRI"} : f \in b_flags'[c] <=> f \in b_flags[c]
      /\ "ERROR" \in b_flags'[c] <=> "ERROR" \in b_flags[c] \/ ~ ok
      /\ "ERROR" \in b_flags'[c] => b_vp'[c] = NoVnode \/ "BUSY" \in b_flags'[c]
      /\ b_vp'[c] \in {b_vp[c], NoVnode}
  <2>1. CASE brelse(c, g)
    BY <2>1 DEF brelse, StoreInv, IInv, TypeOK, BufType
  <2>2. CASE b_flags' = [b_flags EXCEPT ![c] = g \ {"WANTED"}] /\ UNCHANGED b_vp
    BY <1>1, <2>2 DEF StoreInv, IInv, TypeOK, BufType
  <2> QED
    BY <1>3, <2>1, <2>2
<1>5. Extent(c)' = Extent(c)
  BY <1>2 DEF Extent
<1>6. CASE ~ ok
  <2>1. UNCHANGED storeVars
    BY <1>6 DEF Biodone
  <2> QED
    BY <1>2, <1>4, <1>6, <2>1
<1>7. CASE ok
  <2>0. /\ \A v, S, old, d : d \in DevBlks =>
             Stored(old, S, v)[d] = IF d \in S THEN v[d] ELSE old[d]
        /\ Extent(c) \subseteq DevBlks
    BY DEF Stored, Extent
  <2>1. CASE "READ" \in b_flags[c]
    <3>1. /\ b_data' = [b_data EXCEPT ![c] =
                          Stored(b_data[c], Extent(c), disk[b_vp[c]])]
          /\ UNCHANGED disk
      BY <1>1, <1>7, <2>1 DEF Biodone, Transfer
    <3>2. /\ \A b \in Bufs \ {c} : UNCHANGED b_data[b]
          /\ b_data'[c] = Stored(b_data[c], Extent(c), disk[b_vp[c]])
      BY <3>1 DEF StoreInv, IInv, TypeOK, StoreType
    <3>3. \A d \in Extent(c) : b_data'[c][d] = disk'[b_vp[c]][d]
      BY <2>0, <3>1, <3>2
    <3> QED
      BY <1>2, <1>4, <1>5, <1>7, <3>1, <3>2, <3>3 DEF Agrees
  <2>2. CASE "READ" \notin b_flags[c]
    <3>1. /\ disk' = [disk EXCEPT ![b_vp[c]] =
                        Stored(disk[b_vp[c]], Extent(c), b_data[c])]
          /\ UNCHANGED b_data
      BY <1>1, <1>7, <2>2 DEF Biodone, Transfer
    <3>2. \A w \in Vnodes : disk'[w] =
            IF w = b_vp[c] THEN Stored(disk[w], Extent(c), b_data[c]) ELSE disk[w]
      BY <3>1 DEF StoreInv, IInv, TypeOK, StoreType
    <3>3. \A d \in Extent(c) : b_data[c][d] = disk'[b_vp[c]][d]
      BY <1>1, <2>0, <3>2
    <3>4. \A w \in Vnodes, d \in DevBlks :
            disk'[w][d] = disk[w][d] \/ (w = b_vp[c] /\ d \in Extent(c))
      BY <2>0, <3>2
    <3> QED
      BY <1>2, <1>4, <1>5, <1>7, <3>1, <3>3, <3>4 DEF Agrees
  <2> QED
    BY <2>1, <2>2
<1> QED
  BY <1>6, <1>7

\* A transfer touches no block of another buffer, as no two map the same one.
LEMMA BiodoneStore ==
  ASSUME StoreInv, NEW c \in Bufs, NEW ok \in BOOLEAN, Biodone(c, ok)
  PROVE  NoBinval' /\ Coherent' /\ Placed' /\ Growing'
<1>1. /\ \A b \in Bufs \ {c} : UNCHANGED <<b_flags[b], b_vp[b], b_data[b]>>
      /\ UNCHANGED <<b_blkno, b_bcount, pc, locVars>>
      /\ io' = io \ {c}
      /\ \A f \in {"INVAL", "DELWRI"} : f \in b_flags'[c] <=> f \in b_flags[c]
      /\ "ERROR" \in b_flags'[c] <=> "ERROR" \in b_flags[c] \/ ~ ok
      /\ "ERROR" \in b_flags'[c] => b_vp'[c] = NoVnode \/ "BUSY" \in b_flags'[c]
      /\ ok => Agrees(c)' \/ b_vp'[c] = NoVnode
      /\ \A w \in Vnodes, d \in DevBlks :
           disk'[w][d] = disk[w][d] \/ (w = b_vp[c] /\ d \in Extent(c))
  BY BiodoneEffect
<1>2. c \in io /\ b_vp[c] # NoVnode /\ "INVAL" \notin b_flags[c]
  BY DEF Biodone, StoreInv, IInv, UnderWay, Placed, PlacedAt
<1>3. NoBinval'
  BY <1>1 DEF StoreInv, NoBinval
<1>4. ASSUME NEW b \in Bufs
      PROVE  PlacedAt(b)'
  BY <1>1, <1>2 DEF StoreInv, Placed, PlacedAt
<1>5. Growing'
  <2>1. ASSUME NEW q \in Procs, At(q) = "brealloc"
        PROVE  bp[q] \in Bufs /\ bp[q] # c
    BY <1>2, <2>1 DEF StoreInv, IInv, TypeOK, LocType, Buf0, Control, BpLabel,
       UnderWay
  <2> QED
    BY <1>1, <2>1 DEF StoreInv, Growing, At
<1>6. ASSUME NEW b \in Bufs, Clean(b)'
      PROVE  Agrees(b)'
  <2>1. CASE b = c
    BY <1>1, <1>6, <2>1 DEF Clean
  <2>2. CASE b # c
    <3>1. Clean(b) /\ b_vp[b] \in Vnodes /\ Extent(b)' = Extent(b)
      BY <1>1, <1>6, <2>2 DEF Clean, Changed, Extent, StoreInv, IInv, TypeOK,
         BufType
    <3>2. ASSUME NEW d \in Extent(b)
          PROVE  ~ (b_vp[b] = b_vp[c] /\ d \in Extent(c))
      <4>1. d \in Nat /\ Extent(b) \subseteq DevBlks
        BY DEF Extent, DevBlks
      <4>2. \A e \in {b, c} : b_blkno[e] \in Nat /\ b_bcount[e] \in Nat
        BY SizeNat DEF StoreInv
      <4>3. SUFFICES ASSUME b_vp[b] = b_vp[c], d \in Extent(c) PROVE FALSE
        OBVIOUS
      <4>4. /\ b_blkno[b] <= d /\ d < b_blkno[b] + b_bcount[b]
            /\ b_blkno[c] <= d /\ d < b_blkno[c] + b_bcount[c]
        BY <4>3 DEF Extent
      <4>5. /\ b_bcount[b] # 0 /\ b_bcount[c] # 0
            /\ b_blkno[b] < b_blkno[c] + b_bcount[c]
            /\ b_blkno[c] < b_blkno[b] + b_bcount[b]
        BY <4>1, <4>2, <4>4
      <4>6. b \in Overlapping(b_vp[c], b_blkno[c], b_bcount[c])
        BY <3>1, <4>3, <4>5 DEF Overlapping, Clean
      <4> QED
        BY <1>2, <2>2, <4>5, <4>6 DEF StoreInv, UniqueMapping
    <3>3. \A d \in Extent(b) : d \in DevBlks
      BY DEF Extent
    <3> QED
      BY <1>1, <2>2, <3>1, <3>2, <3>3 DEF StoreInv, Coherent, Agrees
  <2> QED
    BY <2>1, <2>2
<1> QED
  BY <1>3, <1>4, <1>5, <1>6 DEF Coherent, Placed
-----------------------------------------------------------------------------
\* No buffer is clean after binit ...
LEMMA InitStore == Init => StoreInv
<1> SUFFICES ASSUME Init PROVE StoreInv
  OBVIOUS
<1>1. IInv
  BY InitI
<1>2. UniqueMapping /\ NoBinval /\ Coherent /\ Placed /\ Growing
  BY DEF Init, UniqueMapping, NoBinval, Coherent, Clean, Placed, PlacedAt,
     Growing, At, Writing0
<1> QED
  BY <1>1, <1>2 DEF StoreInv

\* ... and every step keeps the clean buffers true, if nobody calls binval.
LEMMA NextStore ==
  ASSUME StoreInv, "binval" \notin Ops, [Next]_vars
  PROVE  NoBinval' /\ Coherent' /\ Placed' /\ Growing'
<1> USE DEF StoreInv
<1>1. ASSUME NEW p \in Procs, Stays(p), Keeps /\ Placed'
      PROVE  NoBinval' /\ Coherent' /\ Placed' /\ Growing'
  BY <1>1, KeepsStep
<1>2. ASSUME NEW p \in Procs, NEW o \in Ops, NEW vp \in Vnodes,
             NEW blk \in Block, NEW ra \in DevBlks, Call(p, o, vp, blk, ra)
      PROVE  NoBinval' /\ Coherent' /\ Placed' /\ Growing'
  <2>1. Stays(p)
    BY <1>2, CallStays
  <2>2. Keeps /\ Placed'
    BY <1>2, StillSteps
  <2> QED
    BY <1>1, <2>1, <2>2
<1>3. ASSUME NEW p \in Procs, Step(p)
      PROVE  NoBinval' /\ Coherent' /\ Placed' /\ Growing'
  <2>1. CASE Lookup(p) /\ ~ BreallocDone(p)
    <3>1. Stays(p)
      BY <2>1, LookupStays
    <3>2. Keeps /\ Placed'
      BY <2>1, FlagSteps, BrelseSteps, StillSteps, TakeSteps DEF Lookup
    <3> QED
      BY <1>1, <3>1, <3>2
  <2>2. CASE Reading(p)
    <3>1. Stays(p)
      BY <2>2, ReadingStays
    <3>2. Keeps /\ Placed'
      BY <2>2, BrelseSteps, StillSteps, AskSteps DEF Reading, BreadaSecond
    <3> QED
      BY <1>1, <3>1, <3>2
  <2>3. CASE \/ Release(p) \/ Writing(p)
             \/ \E async \in BOOLEAN : WriteOut(p, async)
    <3>1. Stays(p)
      BY <2>3, WritingStays
    <3>2. Keeps /\ Placed'
      BY <2>3, FlagSteps, BrelseSteps, StillSteps, AskSteps DEF Writing
    <3> QED
      BY <1>1, <3>1, <3>2
  <2>4. CASE Flushing(p)
    <3>1. Stays(p)
      BY <2>4, FlushingStays
    <3>2. ~ Binval(p)
      BY DEF NoBinval, Binval
    <3>3. Keeps /\ Placed'
      BY <2>4, <3>2, FlagSteps, StillSteps, DropSteps DEF Flushing
    <3> QED
      BY <1>1, <3>1, <3>3
  <2>5. CASE BreallocDone(p)
    BY <2>5, BreallocDoneStore
  <2>6. CASE Bdwrite(p)
    BY <2>6, BdwriteStore
  <2>7. CASE \E v \in Vals : Modify(p, v)
    BY <2>7, ModifyStore
  <2> QED
    BY <1>3, <2>1, <2>2, <2>3, <2>4, <2>5, <2>6, <2>7 DEF Step, Using
<1>4. ASSUME NEW b \in Bufs, NEW ok \in BOOLEAN, Biodone(b, ok)
      PROVE  NoBinval' /\ Coherent' /\ Placed' /\ Growing'
  BY <1>4, BiodoneStore
<1>5. CASE UNCHANGED vars
  BY <1>5 DEF vars, NoBinval, Coherent, Clean, Changed, Agrees, Extent, Placed,
     PlacedAt, Growing, At
<1> QED
  BY <1>2, <1>3, <1>4, <1>5 DEF Next

\* The buffers of a system that does not call binval say the truth about the
\* device: a buffer that is B_DONE and neither invalid, failed, delayed nor
\* being changed has what its blocks have, whatever is read ahead, cut, grown,
\* written behind or failing around it.
THEOREM StoreInvariant ==
  ASSUME "binval" \notin Ops PROVE Spec => []StoreInv
<1>1. Init => StoreInv
  BY InitStore
<1>2. ASSUME StoreInv, IInv', UniqueMapping', [Next]_vars
      PROVE  StoreInv'
  BY <1>2, NextStore DEF StoreInv
<1> QED
  BY <1>1, <1>2, Invariant, OneMapping, PTL DEF Spec

\* Where blkflush finds nothing left to wait for, what the cache stores in the
\* block is what the device has.
LEMMA FlushedStep ==
  ASSUME StoreInv, NEW p \in Procs, BlkflushDone(p), NEW d \in DevBlks,
         call[p].blkno <= d, d < call[p].blkno + call[p].size
  PROVE  disk[call[p].vp][d] = Stores(call[p].vp, d)
<1> DEFINE vp == call[p].vp
           Found(b) == b_vp[b] = vp /\ d \in Extent(b) /\ Current(b)
<1>1. vp \in Vnodes /\ ToFlush(p) = {}
  BY DEF BlkflushDone, StoreInv, IInv, Control, At, Writing0
<1>2. ASSUME NEW b \in Bufs, Found(b)
      PROVE  b_data[b][d] = disk[vp][d]
  <2>1. b \in Overlapping(vp, call[p].blkno, call[p].size)
    <3>1. /\ b_blkno[b] <= d /\ d < b_blkno[b] + b_bcount[b]
          /\ b_vp[b] = vp /\ "INVAL" \notin b_flags[b]
      BY <1>2 DEF Extent, Current
    <3>2. /\ b_blkno[b] \in Nat /\ b_bcount[b] \in Nat /\ d \in Nat
          /\ call[p].blkno \in Nat /\ call[p].size \in Nat
      <4>1. \A n \in Sizes \cup {0} : n \in Nat
        OBVIOUS
      <4>2. call[p].blkno \in DevBlks /\ call[p].size \in Sizes \cup {0}
        BY DEF StoreInv, IInv, TypeOK, LocType, CallRecord
      <4>3. \A n \in DevBlks : n \in Nat
        BY DEF DevBlks
      <4>4. IInv
        BY DEF StoreInv
      <4> QED
        BY <4>1, <4>2, <4>3, <4>4, SizeNat, Zenon
    <3>3. /\ b_bcount[b] # 0 /\ b_blkno[b] < call[p].blkno + call[p].size
          /\ call[p].blkno < b_blkno[b] + b_bcount[b]
      BY <3>1, <3>2
    <3> QED
      BY <3>1, <3>3 DEF Overlapping
  <2>2. {"BUSY", "DELWRI"} \cap b_flags[b] = {}
    BY <1>1, <2>1 DEF ToFlush
  <2>3. b \notin io /\ ~ Changed(b)
    <3>1. b \notin io
      BY <2>2 DEF StoreInv, IInv, UnderWay
    <3>2. \A q \in Procs : ~ Has(q, b)
      BY <2>2 DEF StoreInv, IInv, OnlyOwner
    <3> QED
      BY <3>1, <3>2 DEF Changed, Has
  <2>4. Clean(b)
    BY <1>1, <1>2, <2>2, <2>3
       DEF Clean, Current, Changed, StoreInv, Placed, PlacedAt
  <2> QED
    BY <1>2, <2>4 DEF StoreInv, Coherent, Agrees
<1>3. CASE \E b \in Bufs : Found(b)
  <2>1. Found(CHOOSE b \in Bufs : Found(b)) /\ (CHOOSE b \in Bufs : Found(b)) \in Bufs
    BY <1>3
  <2>2. Stores(vp, d) = b_data[CHOOSE b \in Bufs : Found(b)][d]
    BY <1>3 DEF Stores
  <2> QED
    BY <1>2, <2>1, <2>2
<1>4. CASE ~ \E b \in Bufs : Found(b)
  BY <1>4 DEF Stores
<1> QED
  BY <1>3, <1>4

\* Flushed means on the device: in a system that does not call binval, when
\* blkflush returns, the device has what the cache stores in the block,
\* whoever had a buffer of a part of it while blkflush slept.
THEOREM FlushReachesDevice ==
  ASSUME "binval" \notin Ops PROVE Spec => FlushDurable
<1>1. ASSUME StoreInv, NEW p \in Procs, BlkflushDone(p), NEW d \in DevBlks,
             call[p].blkno <= d, d < call[p].blkno + call[p].size
      PROVE  disk[call[p].vp][d] = Stores(call[p].vp, d)
  BY <1>1, FlushedStep
<1>2. StoreInv =>
        \A p \in Procs : BlkflushDone(p) =>
          \A d \in DevBlks : call[p].blkno <= d /\ d < call[p].blkno + call[p].size
            => disk[call[p].vp][d] = Stores(call[p].vp, d)
  BY <1>1
<1> QED
  BY <1>2, StoreInvariant, PTL DEF FlushDurable
-----------------------------------------------------------------------------
(***************************************************************************)
(* The cache is a memory: with one block size, transfers that succeed and  *)
(* no binval, it implements BlockStore.  A step of a process is Calm: each *)
(* buffer stands for its blocks as before (Stands), or is given up with    *)
(* nothing the device has not (Gone); so what the cache and the devices    *)
(* store stays (StoreKept), and only the view of the process may change.   *)
(* biodone and the caller's stores are the two steps that are not Calm.    *)
(***************************************************************************)

\* One block size, transfers that succeed, nobody calls binval.
Plain == /\ "binval" \notin Ops /\ IOErrors = FALSE
         /\ \A s, t \in Sizes : s = t

\* No transfer failed; a delayed write is complete, and writes something.
NoErrors == \A b \in Bufs : "ERROR" \notin b_flags[b]
Delayed  == \A b \in Bufs : "DELWRI" \in b_flags[b] =>
                              "DONE" \in b_flags[b] /\ b_bcount[b] # 0

\* A process in the cache asks for a block of some size, and after brealloc
\* its buffers have one; what getblk hands back without a read is for a caller
\* of getblk, or has no vnode (geteblk).
PlacingAt(p) ==
  /\ At(p) # "user" => call[p].size \in Sizes
  /\ At(p) \in BpLabel \ {"brealloc"} => b_bcount[bp[p]] # 0
  /\ first[p] # NoBuf => b_bcount[first[p]] # 0
  /\ gret[p] = "hold" =>
       /\ At(p) = "getblk" => call[p].op = "getblk"
       /\ At(p) = "getnewbuf" => call[p].op \in {"getblk", "geteblk"}
       /\ At(p) = "brealloc" => call[p].op = "getblk" \/ b_vp[bp[p]] = NoVnode

Placing == \A p \in Procs : PlacingAt(p)

MemInv == StoreInv /\ NoErrors /\ Delayed /\ Placing

\* What the step of a process does to a buffer: it stands for its blocks as
\* before, or stands for none afterwards and had nothing the device has not.
Stands(b) == /\ Current(b)' <=> Current(b)
             /\ UNCHANGED <<b_vp[b], b_blkno[b], b_bcount[b], b_data[b]>>

Gone(b) == /\ b_vp[b] # NoVnode /\ Current(b) => Clean(b)
           /\ ~ (b_vp'[b] # NoVnode /\ Current(b)')

OthersSit(p) ==
  \A q \in Procs \ {p} :
    UNCHANGED <<pc[q], wret[q], bp[q], first[q], wb[q], call[q], gret[q]>>

\* A step of p that leaves what the cache and the devices store.
Calm(p) ==
  /\ OthersSit(p) /\ UNCHANGED disk /\ PlacingAt(p)'
  /\ \A b \in Bufs :
       /\ Stands(b) \/ Gone(b)
       /\ "ERROR" \notin b_flags'[b]
       /\ "DELWRI" \in b_flags'[b] => "DONE" \in b_flags'[b] /\ b_bcount'[b] # 0
       /\ "BUSY" \in b_flags[b] /\ ~ Has(p, b) =>
            UNCHANGED <<b_vp[b], b_blkno[b], b_bcount[b], b_data[b]>>

SameStore == \A vp \in Vnodes, d \in DevBlks : Stores(vp, d)' = Stores(vp, d)

\* b stands for block d of vp.
Serves(b, vp, d) == b_vp[b] = vp /\ d \in Extent(b) /\ Current(b)

\* No two buffers hold the same block.
LEMMA OneHolder ==
  ASSUME IInv, UniqueMapping, NEW b \in Bufs, NEW c \in Bufs, NEW d,
         b_vp[b] # NoVnode, b_vp[c] = b_vp[b], d \in Extent(b), d \in Extent(c),
         "INVAL" \notin b_flags[b], "INVAL" \notin b_flags[c]
  PROVE  b = c
<1>1. /\ b_blkno[b] \in Nat /\ b_bcount[b] \in Nat
      /\ b_blkno[c] \in Nat /\ b_bcount[c] \in Nat
  BY SizeNat
<1>2. /\ d \in Nat
      /\ b_blkno[b] <= d /\ d < b_blkno[b] + b_bcount[b]
      /\ b_blkno[c] <= d /\ d < b_blkno[c] + b_bcount[c]
  BY DEF Extent, DevBlks
<1>3. /\ b_bcount[b] # 0 /\ b_bcount[c] # 0
      /\ b_blkno[c] < b_blkno[b] + b_bcount[b]
      /\ b_blkno[b] < b_blkno[c] + b_bcount[c]
  BY <1>1, <1>2
<1> QED
  BY <1>3 DEF UniqueMapping, Overlapping

\* The cache stores what the one buffer that serves a block has ...
LEMMA StoresServed ==
  IInv /\ UniqueMapping =>
    \A b \in Bufs, vp \in Vnodes, d \in DevBlks :
      Serves(b, vp, d) => Stores(vp, d) = b_data[b][d]
<1> SUFFICES ASSUME IInv, UniqueMapping, NEW b \in Bufs, NEW vp \in Vnodes,
                    NEW d \in DevBlks, Serves(b, vp, d)
             PROVE  Stores(vp, d) = b_data[b][d]
  OBVIOUS
<1> DEFINE found == CHOOSE c \in Bufs : Serves(c, vp, d)
<1>1. found \in Bufs /\ Serves(found, vp, d)
  OBVIOUS
<1>2. Stores(vp, d) = b_data[found][d]
  BY DEF Stores, Serves
<1>3. found = b
  BY <1>1, OneHolder DEF Serves, Current
<1> QED
  BY <1>2, <1>3

\* ... and what the device has, if none does.
LEMMA StoresUnserved ==
  \A vp \in Vnodes, d \in DevBlks :
    (\A b \in Bufs : ~ Serves(b, vp, d)) => Stores(vp, d) = disk[vp][d]
  BY DEF Stores, Serves

LEMMA StoresNext ==
  IInv' /\ UniqueMapping' =>
    /\ \A b \in Bufs, vp \in Vnodes, d \in DevBlks :
         Serves(b, vp, d)' => Stores(vp, d)' = b_data'[b][d]
    /\ \A vp \in Vnodes, d \in DevBlks :
         (\A b \in Bufs : ~ Serves(b, vp, d)') => Stores(vp, d)' = disk'[vp][d]
<1>1. (IInv /\ UniqueMapping =>
       \A b \in Bufs, vp \in Vnodes, d \in DevBlks :
         Serves(b, vp, d) => Stores(vp, d) = b_data[b][d])'
  BY StoresServed, PTL
<1>2. (\A vp \in Vnodes, d \in DevBlks :
         (\A b \in Bufs : ~ Serves(b, vp, d)) => Stores(vp, d) = disk[vp][d])'
  BY StoresUnserved, PTL
<1> QED
  BY <1>1, <1>2

\* A step in which every buffer stands for its blocks as before or is gone
\* stores nothing.
LEMMA StoreKept ==
  ASSUME StoreInv, IInv', UniqueMapping', UNCHANGED disk,
         \A b \in Bufs : Stands(b) \/ Gone(b)
  PROVE  SameStore
<1> SUFFICES ASSUME NEW vp \in Vnodes, NEW d \in DevBlks
             PROVE  Stores(vp, d)' = Stores(vp, d)
  BY DEF SameStore
<1>0. vp # NoVnode
  OBVIOUS
<1>1. \A b \in Bufs : Stands(b) => (Serves(b, vp, d)' <=> Serves(b, vp, d))
                                   /\ b_data'[b] = b_data[b]
  BY DEF Stands, Serves, Extent
<1>2. \A b \in Bufs : Gone(b) => ~ Serves(b, vp, d)'
  BY <1>0 DEF Gone, Serves
<1>3. CASE \E b \in Bufs : Serves(b, vp, d)
  <2>1. PICK b \in Bufs : Serves(b, vp, d)
    BY <1>3
  <2>2. Stores(vp, d) = b_data[b][d]
    BY <2>1, StoresServed DEF StoreInv
  <2>3. CASE Stands(b)
    BY <1>1, <2>1, <2>2, <2>3, StoresNext
  <2>4. CASE Gone(b)
    <3>1. b_data[b][d] = disk[vp][d]
      BY <1>0, <2>1, <2>4 DEF Gone, Serves, StoreInv, Coherent, Agrees
    <3>2. ASSUME NEW c \in Bufs
          PROVE  ~ Serves(c, vp, d)'
      <4>1. SUFFICES ASSUME Serves(c, vp, d)' PROVE FALSE
        OBVIOUS
      <4>2. Serves(c, vp, d) /\ c # b
        BY <1>1, <1>2, <2>4, <4>1
      <4> QED
        BY <1>0, <2>1, <4>2, OneHolder DEF Serves, Current, StoreInv
    <3> QED
      BY <2>2, <3>1, <3>2, StoresNext
  <2> QED
    BY <2>3, <2>4
<1>4. CASE \A b \in Bufs : ~ Serves(b, vp, d)
  <2>1. \A b \in Bufs : ~ Serves(b, vp, d)'
    BY <1>1, <1>2, <1>4
  <2> QED
    BY <1>4, <2>1, StoresUnserved, StoresNext
<1> QED
  BY <1>3, <1>4

\* What a process sees depends on its own buffer.
LEMMA ViewKept ==
  ASSUME NoErrors, NoErrors', NEW q \in Procs, UNCHANGED <<pc[q], bp[q], call[q]>>,
         pc[q] \in {"hold", "dirty"} =>
           /\ bp[q] \in Bufs
           /\ UNCHANGED <<b_vp[bp[q]], b_blkno[bp[q]], b_bcount[bp[q]], b_data[bp[q]]>>
  PROVE  View(q)' = View(q)
<1>1. CASE pc[q] \notin {"hold", "dirty"}
  BY <1>1 DEF View
<1>2. CASE pc[q] \in {"hold", "dirty"}
  BY <1>2 DEF View, Extent, NoErrors
<1> QED
  BY <1>1, <1>2

\* The buffer p holds is p's.
LEMMA OwnBuffer ==
  ASSUME IInv, NEW p \in Procs
  PROVE  /\ At(p) \in BpLabel => /\ bp[p] \in Bufs /\ "BUSY" \in b_flags[bp[p]]
                                 /\ \A q \in Procs : Has(q, bp[p]) => q = p
         /\ first[p] # NoBuf => /\ first[p] \in Bufs /\ "BUSY" \in b_flags[first[p]]
                                /\ \A q \in Procs : Has(q, first[p]) => q = p
  BY DEF IInv, TypeOK, LocType, Buf0, Control, OnlyOwner, Has

LEMMA CalmStep ==
  ASSUME MemInv, StoreInv', NEW p \in Procs, Calm(p)
  PROVE  MemInv' /\ SameStore /\ \A q \in Procs \ {p} : View(q)' = View(q)
<1> USE DEF MemInv
<1>1. SameStore
  BY StoreKept DEF Calm, StoreInv
<1>2. NoErrors' /\ Delayed'
  BY DEF Calm, NoErrors, Delayed
<1>3. ASSUME NEW q \in Procs, q # p
      PROVE  PlacingAt(q)' /\ View(q)' = View(q)
  <2>1. UNCHANGED <<pc[q], wret[q], bp[q], first[q], wb[q], call[q], gret[q]>>
    BY <1>3 DEF Calm, OthersSit
  <2>2. At(q)' = At(q)
    BY <2>1 DEF At
  <2>3. /\ At(q) \in BpLabel =>
             /\ bp[q] \in Bufs
             /\ UNCHANGED <<b_vp[bp[q]], b_blkno[bp[q]], b_bcount[bp[q]], b_data[bp[q]]>>
        /\ first[q] # NoBuf => UNCHANGED b_bcount[first[q]]
    <3>1. \A b \in Bufs : "BUSY" \in b_flags[b] /\ ~ Has(p, b) =>
            UNCHANGED <<b_vp[b], b_blkno[b], b_bcount[b], b_data[b]>>
      BY DEF Calm
    <3>2. IInv
      BY DEF StoreInv
    <3> QED
      BY <1>3, <2>1, <3>1, <3>2, OwnBuffer
  <2>4. PlacingAt(q)
    BY DEF Placing
  <2>5. PlacingAt(q)'
    BY <2>1, <2>2, <2>3, <2>4 DEF PlacingAt, BpLabel
  <2>6. pc[q] \in {"hold", "dirty"} => At(q) \in BpLabel
    BY DEF At, BpLabel, Writing0
  <2>7. View(q)' = View(q)
    BY <1>2, <2>1, <2>3, <2>6, ViewKept
  <2> QED
    BY <2>5, <2>7
<1>4. Placing'
  BY <1>3 DEF Placing, Calm
<1> QED
  BY <1>1, <1>2, <1>3, <1>4

\* There is one size: a buffer has it or none.
LEMMA SizeOne ==
  ASSUME MemInv, Plain, NEW p \in Procs, At(p) # "user", NEW b \in Bufs
  PROVE  /\ call[p].size \in Nat \ {0}
         /\ b_bcount[b] = 0 \/ b_bcount[b] = call[p].size
<1>1. call[p].size \in Sizes
  BY DEF MemInv, Placing, PlacingAt
<1>2. \A n \in Sizes : n \in Nat \ {0}
  OBVIOUS
<1>3. b_bcount[b] \in Sizes \cup {0}
  BY DEF MemInv, StoreInv, IInv, TypeOK, BufType
<1> QED
  BY <1>1, <1>2, <1>3 DEF Plain

\* The flags Current and Delayed read, and no others.
Told(b) == \A f \in {"INVAL", "DONE", "READ", "ERROR", "DELWRI"} :
             f \in b_flags'[b] <=> f \in b_flags[b]

\* A step that leaves these flags, and hands over a buffer only if it is done.
LEMMA LightCalm ==
  ASSUME MemInv, NEW p \in Procs, OthersSit(p), PlacingAt(p)',
         UNCHANGED <<b_blkno, b_bcount, storeVars, io>>,
         \A b \in Bufs : /\ Told(b) /\ b_vp'[b] = b_vp[b]
                         /\ (Changed(b)' <=> Changed(b)) \/ "DONE" \in b_flags[b]
  PROVE  Calm(p)
<1>1. ASSUME NEW b \in Bufs
      PROVE  Stands(b)
  <2>1. "DONE" \in b_flags[b] \/ (Changed(b)' <=> Changed(b))
    OBVIOUS
  <2>2. Current(b) <=> /\ "INVAL" \notin b_flags[b]
                       /\ \/ "DONE" \in b_flags[b] \/ Changed(b)
                          \/ b \in io /\ "READ" \notin b_flags[b]
    BY DEF Current, Changed
  <2>3. Current(b)' <=> /\ "INVAL" \notin b_flags'[b]
                        /\ \/ "DONE" \in b_flags'[b] \/ Changed(b)'
                           \/ b \in io' /\ "READ" \notin b_flags'[b]
    BY DEF Current, Changed
  <2> QED
    BY <2>1, <2>2, <2>3 DEF Stands, Told
<1>2. ASSUME NEW b \in Bufs
      PROVE  /\ "ERROR" \notin b_flags'[b]
             /\ "DELWRI" \in b_flags'[b] => "DONE" \in b_flags'[b] /\ b_bcount'[b] # 0
  BY DEF Told, MemInv, NoErrors, Delayed
<1> QED
  BY <1>1, <1>2 DEF Calm

\* The others keep what they have not yet handed over.
LEMMA ChangedKept ==
  ASSUME NEW p \in Procs, OthersSit(p),
         pc[p] \notin {"dirty", "bwrite"}, pc'[p] \notin {"dirty", "bwrite"}
  PROVE  \A b \in Bufs : Changed(b)' <=> Changed(b)
  BY DEF OthersSit, Changed

LEMMA ChangedAdds ==
  ASSUME NEW p \in Procs, OthersSit(p), NEW c \in Bufs,
         pc[p] \notin {"dirty", "bwrite"}, pc'[p] = "bwrite", wb'[p] = c,
         "DONE" \in b_flags[c]
  PROVE  \A b \in Bufs : (Changed(b)' <=> Changed(b)) \/ "DONE" \in b_flags[b]
  BY DEF OthersSit, Changed

\* The steps that change no buffer.
LEMMA StillCalm ==
  ASSUME MemInv, NEW p \in Procs,
         \/ GetblkMiss(p) \/ GetnewbufWait(p)
         \/ Biowait(p) \/ Breada(p) \/ BreadaAhead(p) \/ BreadaEnd(p)
         \/ BwriteWait(p)
         \/ BflushCollect(p) \/ BflushDone(p) \/ BflushSkip(p) \/ BlkflushDone(p)
  PROVE  Calm(p)
<1> USE DEF MemInv
<1>1. /\ UNCHANGED <<b_flags, idVars, storeVars, io>>
      /\ pc[p] \notin {"dirty", "bwrite"} /\ pc'[p] \notin {"dirty", "bwrite"}
      /\ OthersSit(p)
  BY DEF StoreInv, IInv, TypeOK, SchedType, LocType, OthersSit,
     GetblkMiss, GetnewbufWait, Biowait, Breada, BreadaAhead, BreadaEnd,
     BwriteWait, BflushCollect, BflushDone, BflushSkip, BlkflushDone, Sleep,
     Yield, Goto, Return
<1>2. PlacingAt(p)'
  <2>0. PlacingAt(p) /\ TypeOK
    BY DEF Placing, StoreInv, IInv
  <2> USE DEF TypeOK, SchedType, LocType, PlacingAt, At, BpLabel, Writing0
  <2>1. CASE GetblkMiss(p) \/ GetnewbufWait(p)
    BY <2>0, <2>1 DEF GetblkMiss, GetnewbufWait, Sleep, Yield, Goto
  <2>2. CASE Biowait(p) \/ BwriteWait(p)
    BY <2>0, <2>2 DEF Biowait, BwriteWait, Sleep, Yield
  <2>3. CASE Breada(p) \/ BreadaAhead(p) \/ BreadaEnd(p)
    BY <2>0, <2>3 DEF Breada, BreadaAhead, BreadaEnd, Goto
  <2>4. CASE BflushCollect(p) \/ BflushSkip(p)
    BY <2>0, <2>4 DEF BflushCollect, BflushSkip, Goto
  <2>5. CASE BflushDone(p) \/ BlkflushDone(p)
    BY <2>0, <2>5 DEF BflushDone, BlkflushDone, Return, Yield
  <2> QED
    BY <2>1, <2>2, <2>3, <2>4, <2>5
<1>3. \A b \in Bufs : Told(b) /\ (Changed(b)' <=> Changed(b))
  BY <1>1, ChangedKept DEF Told
<1> QED
  BY <1>1, <1>2, <1>3, LightCalm

LEMMA CallCalm ==
  ASSUME MemInv, NEW p \in Procs, NEW o \in Ops, NEW vp \in Vnodes,
         NEW blk \in Block, NEW ra \in DevBlks, Call(p, o, vp, blk, ra)
  PROVE  Calm(p)
<1> USE DEF MemInv
<1>0. TypeOK /\ PlacingAt(p) /\ Control
  BY DEF Placing, StoreInv, IInv
<1>1. /\ UNCHANGED <<b_flags, idVars, storeVars, io, first>>
      /\ call'[p] = [op |-> o, vp |-> vp, blkno |-> blk[1], size |-> blk[2], ra |-> ra]
      /\ gret'[p] = IF o = "bread" THEN "bread" ELSE "hold"
      /\ pc[p] = "user" /\ OthersSit(p)
  BY <1>0 DEF TypeOK, SchedType, LocType, OthersSit, Call, Goto
<1>2. /\ o \in {"bread", "getblk"} => pc'[p] = "getblk"
      /\ o = "geteblk" => pc'[p] = "getnewbuf"
      /\ o \notin {"bread", "getblk", "geteblk"}
           => pc'[p] \in {"bflush", "breada", "blkflush", "binvalfree", "binval"}
  <2>1. o \in AllOps
    OBVIOUS
  <2> QED
    BY <1>0, <2>1 DEF TypeOK, SchedType, Call, Goto, AllOps
<1>3. pc'[p] \notin Writing0 \cup BpLabel
  BY <1>2 DEF Writing0, BpLabel
<1>4. PlacingAt(p)'
  <2>1. call'[p].size \in Sizes /\ call'[p].op = o
    BY <1>1 DEF Block
  <2>2. At(p)' = pc'[p]
    BY <1>3 DEF At
  <2>3. first'[p] = NoBuf
    BY <1>0, <1>1 DEF Control, At, Writing0, FirstLabel
  <2> QED
    BY <1>1, <1>2, <1>3, <2>1, <2>2, <2>3 DEF PlacingAt, BpLabel
<1>5. \A b \in Bufs : Told(b) /\ (Changed(b)' <=> Changed(b))
  BY <1>1, <1>3, ChangedKept DEF Told, Writing0, BpLabel
<1> QED
  BY <1>1, <1>4, <1>5, LightCalm

\* The steps that only set or clear other flags: sleeping on a busy buffer, ...
LEMMA WaitForCalm ==
  ASSUME MemInv, NEW p \in Procs,
         GetblkBusy(p) \/ BreallocBusy(p) \/ BlkflushBusy(p)
  PROVE  Calm(p)
<1> USE DEF MemInv
<1>0. TypeOK /\ PlacingAt(p)
  BY DEF Placing, StoreInv, IInv
<1>1. PICK c \in Bufs : WaitFor(p, c)
  BY DEF GetblkBusy, BreallocBusy, BlkflushBusy, Matches, InTheWay, ToFlush,
     Overlapping
<1>2. /\ UNCHANGED <<idVars, storeVars, io, pc, locVars>>
      /\ b_flags' = [b_flags EXCEPT ![c] = @ \cup {"WANTED"}]
  BY <1>0, <1>1 DEF WaitFor, Sleep, Yield, TypeOK, SchedType
<1>3. PlacingAt(p)' /\ OthersSit(p)
  BY <1>0, <1>2 DEF PlacingAt, At, OthersSit
<1>4. \A b \in Bufs : Told(b) /\ (Changed(b)' <=> Changed(b))
  BY <1>0, <1>2 DEF Told, Changed, TypeOK, BufType
<1> QED
  BY <1>2, <1>3, <1>4, LightCalm

\* ... calling bwrite for a dirty buffer, which is B_DONE, ...
LEMMA CallBwriteCalm ==
  ASSUME MemInv, NEW p \in Procs,
         \/ GetnewbufDirty(p) \/ BreallocFlush(p) \/ BflushWrite(p)
         \/ BlkflushWrite(p)
  PROVE  Calm(p)
<1> USE DEF MemInv
<1>0. TypeOK /\ PlacingAt(p)
  BY DEF Placing, StoreInv, IInv
<1>1. PICK c \in Bufs, r \in Label, more \in SUBSET {"ASYNC"} :
        /\ "DELWRI" \in b_flags[c] /\ notavail(c, more) /\ CallBwrite(p, c, r)
        /\ r = pc[p] /\ pc[p] \notin Writing0 \cup {"dirty"}
  <2> USE DEF Writing0, Label
  <2>1. CASE GetnewbufDirty(p)
    BY <2>1 DEF GetnewbufDirty, Candidates
  <2>2. CASE BreallocFlush(p)
    BY <2>2 DEF BreallocFlush, InTheWay, Overlapping
  <2>3. CASE BflushWrite(p)
    BY <1>0, <2>3 DEF BflushWrite, StillDirty, TypeOK, LocType
  <2>4. CASE BlkflushWrite(p)
    BY <2>4 DEF BlkflushWrite, ToFlush, Overlapping
  <2> QED
    BY <2>1, <2>2, <2>3, <2>4
<1>2. UNCHANGED <<idVars, storeVars, io, call, gret, bp, first>>
  BY DEF GetnewbufDirty, BreallocFlush, BflushWrite, BlkflushWrite, CallBwrite
<1>3. /\ pc'[p] = "bwrite" /\ wb'[p] = c /\ wret'[p] = pc[p] /\ OthersSit(p)
  BY <1>0, <1>1, <1>2 DEF CallBwrite, Goto, OthersSit, TypeOK, SchedType, LocType
<1>4. PlacingAt(p)'
  <2>1. At(p)' = At(p)
    BY <1>1, <1>3 DEF At, Writing0
  <2> QED
    BY <1>0, <1>2, <2>1 DEF PlacingAt
<1>5. \A b \in Bufs : Told(b)
  BY <1>0, <1>1 DEF Told, notavail, TypeOK, BufType
<1>6. \A b \in Bufs : (Changed(b)' <=> Changed(b)) \/ "DONE" \in b_flags[b]
  BY <1>1, <1>3, ChangedAdds DEF Delayed, Writing0
<1> QED
  BY <1>2, <1>3, <1>4, <1>5, <1>6, LightCalm

\* ... and the last steps of bwrite but the release.
LEMMA BwriteAsyncCalm ==
  ASSUME MemInv, NEW p \in Procs,
         BwriteAsync(p) \/ \E async \in BOOLEAN : WriteOut(p, async)
  PROVE  Calm(p)
<1> USE DEF MemInv
<1>0. TypeOK /\ PlacingAt(p) /\ Control
  BY DEF Placing, StoreInv, IInv
<1>1. CASE BwriteAsync(p)
  <2>1. /\ UNCHANGED <<idVars, storeVars, io, bp, first>> /\ OthersSit(p)
        /\ pc[p] = "bwstrat" /\ wret[p] # "bwrite" /\ wret[p] # "dirty"
        /\ wret'[p] = "user"
        /\ IF wret[p] = "user" THEN pc'[p] = "user" /\ gret'[p] = "hold"
           ELSE pc'[p] = wret[p] /\ UNCHANGED <<call, gret>>
    BY <1>0, <1>1 DEF BwriteAsync, BwriteReturn, Return, Yield, Goto, OthersSit,
       TypeOK, SchedType, LocType, Control
  <2>2. \A b \in Bufs : Told(b)
    BY <1>0, <1>1 DEF BwriteAsync, Told, TypeOK, BufType
  <2>3. At(p)' = At(p)
    BY <1>0, <2>1 DEF At, Writing0, Control
  <2>4. PlacingAt(p)'
    BY <1>0, <2>1, <2>3 DEF PlacingAt, BpLabel, At, Writing0
  <2>5. \A b \in Bufs : Changed(b)' <=> Changed(b)
    BY <2>1, ChangedKept
  <2> QED
    BY <2>1, <2>2, <2>4, <2>5, LightCalm
<1>2. CASE \E async \in BOOLEAN : WriteOut(p, async)
  <2>1. /\ UNCHANGED <<idVars, storeVars, io, call, first, gret>> /\ OthersSit(p)
        /\ pc[p] = "dirty" /\ pc'[p] = "bwrite" /\ wb'[p] = bp[p]
        /\ wret'[p] = "user" /\ bp'[p] = NoBuf
    BY <1>0, <1>2 DEF WriteOut, CallBwrite, Goto, OthersSit, TypeOK, SchedType,
       LocType
  <2>2. \A b \in Bufs : Told(b)
    BY <1>0, <1>2 DEF WriteOut, Told, TypeOK, BufType
  <2>3. PlacingAt(p)'
    BY <1>0, <2>1 DEF PlacingAt, At, Writing0, BpLabel
  <2>4. \A b \in Bufs : Changed(b)' <=> Changed(b)
    BY <2>1 DEF OthersSit, Changed
  <2> QED
    BY <2>1, <2>2, <2>3, <2>4, LightCalm
<1> QED
  BY <1>1, <1>2

\* A system that goes no further keeps everything.
LEMMA StuckCalm ==
  ASSUME MemInv, NEW p \in Procs,
         StrategyNoVnode(p) \/ BflushSteal(p)
  PROVE  Calm(p)
<1>1. UNCHANGED <<bufVars, pc, locVars>>
  BY DEF StrategyNoVnode, BflushSteal, Crash
<1>2. OthersSit(p) /\ PlacingAt(p)'
  BY <1>1 DEF OthersSit, MemInv, Placing, PlacingAt, At
<1>3. \A b \in Bufs : Told(b) /\ (Changed(b)' <=> Changed(b))
  BY <1>1 DEF Told, Changed
<1> QED
  BY <1>1, <1>2, <1>3, LightCalm

\* With one size nothing is cut.
LEMMA NothingCut ==
  ASSUME MemInv, Plain, NEW p \in Procs
  PROVE  ~ BreallocShrink(p)
<1> SUFFICES ASSUME BreallocShrink(p) PROVE FALSE
  OBVIOUS
<1>1. At(p) = "brealloc" /\ CutsDirty(p)
  BY DEF BreallocShrink, At, Writing0
<1>2. bp[p] \in Bufs
  BY <1>1 DEF MemInv, StoreInv, IInv, TypeOK, LocType, Buf0, Control, BpLabel
<1>3. b_bcount[bp[p]] # 0
  BY <1>1, <1>2 DEF CutsDirty, MemInv, Delayed
<1>4. call[p].size \in Nat /\ b_bcount[bp[p]] = call[p].size
  BY <1>1, <1>2, <1>3, SizeOne
<1> QED
  BY <1>1, <1>4 DEF CutsDirty

\* A buffer released without an error is what it was.
LEMMA ReleaseCalm ==
  ASSUME MemInv, NEW p \in Procs,
         Release(p) \/ BwriteDone(p) \/ BreadaAheadHit(p)
  PROVE  Calm(p)
<1> USE DEF MemInv
<1>0. TypeOK /\ PlacingAt(p) /\ Control
  BY DEF Placing, StoreInv, IInv
<1>1. PICK c \in Bufs : brelse(c, b_flags[c])
  <2>1. Release(p) \/ BreadaAheadHit(p) => bp[p] \in Bufs
    BY <1>0 DEF Release, BreadaAheadHit, TypeOK, LocType, Buf0, Control, At,
       BpLabel, Writing0
  <2>2. BwriteDone(p) => wb[p] \in Bufs
    BY <1>0 DEF BwriteDone, TypeOK, LocType, Buf0, Control, Writing0
  <2> QED
    BY <2>1, <2>2 DEF Release, BreadaAheadHit, BwriteDone
<1>2. UNCHANGED <<b_blkno, b_bcount, storeVars, io>>
  BY DEF Release, BreadaAheadHit, BwriteDone, BwriteReturn, brelse
<1>3. \A b \in Bufs : Told(b) /\ b_vp'[b] = b_vp[b]
  BY <1>0, <1>1 DEF brelse, Told, TypeOK, BufType, NoErrors
<1>4. CASE Release(p) \/ BreadaAheadHit(p)
  <2>1. /\ OthersSit(p) /\ pc'[p] \in {"user", "breada_end"} /\ UNCHANGED first
        /\ pc[p] \in {"hold", "breada2"}
        /\ pc'[p] = "breada_end" => UNCHANGED <<call, gret>>
    BY <1>0, <1>4 DEF Release, BreadaAheadHit, Return, Yield, Goto, OthersSit,
       TypeOK, SchedType, LocType
  <2>2. PlacingAt(p)'
    <3>1. At(p)' = pc'[p] /\ At(p) = pc[p]
      BY <2>1 DEF At, Writing0
    <3> QED
      BY <1>0, <1>2, <2>1, <3>1 DEF PlacingAt, BpLabel
  <2>3. \A b \in Bufs : Changed(b)' <=> Changed(b)
    BY <2>1, ChangedKept
  <2> QED
    BY <1>2, <1>3, <2>1, <2>2, <2>3, LightCalm
<1>5. CASE BwriteDone(p)
  <2>1. /\ UNCHANGED <<b_blkno, b_bcount, bp, first>> /\ OthersSit(p)
        /\ pc[p] \in {"bwstrat", "bwait"} /\ wret[p] # "bwrite" /\ wret[p] # "dirty"
        /\ wret'[p] = "user"
        /\ IF wret[p] = "user" THEN pc'[p] = "user" /\ gret'[p] = "hold"
           ELSE pc'[p] = wret[p] /\ UNCHANGED <<call, gret>>
    BY <1>0, <1>2, <1>5 DEF BwriteDone, BwriteReturn, Return, Yield, Goto,
       OthersSit, TypeOK, SchedType, LocType, Control
  <2>3. At(p)' = At(p)
    BY <1>0, <2>1 DEF At, Writing0, Control
  <2>4. PlacingAt(p)'
    <3>1. At(p) # "user" => UNCHANGED <<call, gret>>
      BY <2>1 DEF At, Writing0
    <3>2. At(p)' = "brealloc" => UNCHANGED b_vp[bp[p]]
      <4>1. At(p)' = "brealloc" => bp[p] \in Bufs
        BY <1>0, <2>3 DEF TypeOK, LocType, Buf0, Control, BpLabel
      <4> QED
        BY <1>3, <2>1, <4>1
    <3> QED
      BY <1>0, <2>1, <2>3, <3>1, <3>2 DEF PlacingAt, BpLabel
  <2>5. \A b \in Bufs : Changed(b)' <=> Changed(b)
    BY <2>1, ChangedKept
  <2> QED
    BY <1>2, <1>3, <2>1, <2>4, <2>5, LightCalm
<1> QED
  BY <1>4, <1>5

\* A free buffer is not under way, and nobody has changed it.
LEMMA IdleBuffer ==
  ASSUME MemInv, NEW b \in Bufs, "BUSY" \notin b_flags[b]
  PROVE  /\ b \notin io /\ ~ Changed(b)
         /\ "DELWRI" \notin b_flags[b] /\ b_vp[b] # NoVnode /\ Current(b) => Clean(b)
<1>1. b \notin io
  BY DEF MemInv, StoreInv, IInv, UnderWay
<1>2. ~ Changed(b)
  <2>1. \A q \in Procs : ~ Has(q, b)
    BY DEF MemInv, StoreInv, IInv, OnlyOwner
  <2> QED
    BY <2>1 DEF Changed, Has
<1> QED
  BY <1>1, <1>2 DEF Clean, Current, Changed, MemInv, NoErrors

\* A step that touches one buffer.
LEMMA OneCalm ==
  ASSUME MemInv, NEW p \in Procs, OthersSit(p), PlacingAt(p)', UNCHANGED disk,
         NEW c \in Bufs,
         \A b \in Bufs \ {c} :
           /\ UNCHANGED <<b_flags[b], b_vp[b], b_blkno[b], b_bcount[b], b_data[b]>>
           /\ (b \in io' <=> b \in io) /\ (Changed(b)' <=> Changed(b)),
         Stands(c) \/ Gone(c),
         "ERROR" \notin b_flags'[c],
         "DELWRI" \in b_flags'[c] => "DONE" \in b_flags'[c] /\ b_bcount'[c] # 0,
         "BUSY" \in b_flags[c] => Has(p, c)
  PROVE  Calm(p)
<1>1. ASSUME NEW b \in Bufs, b # c
      PROVE  /\ Stands(b) /\ "ERROR" \notin b_flags'[b]
             /\ "DELWRI" \in b_flags'[b] => "DONE" \in b_flags'[b] /\ b_bcount'[b] # 0
             /\ UNCHANGED <<b_vp[b], b_blkno[b], b_bcount[b], b_data[b]>>
  <2>1. /\ UNCHANGED <<b_flags[b], b_vp[b], b_blkno[b], b_bcount[b], b_data[b]>>
        /\ (b \in io' <=> b \in io) /\ (Changed(b)' <=> Changed(b))
    BY <1>1
  <2>2. Current(b)' <=> Current(b)
    BY <2>1 DEF Current, Changed
  <2> QED
    BY <2>1, <2>2 DEF Stands, MemInv, NoErrors, Delayed
<1> QED
  BY <1>1 DEF Calm

LEMMA BreallocInvalCalm ==
  ASSUME MemInv, NEW p \in Procs, BreallocInval(p)
  PROVE  Calm(p)
<1> USE DEF MemInv
<1>0. TypeOK /\ PlacingAt(p) /\ Control
  BY DEF Placing, StoreInv, IInv
<1>1. PICK c \in Bufs : /\ c # bp[p] /\ {"BUSY", "DELWRI"} \cap b_flags[c] = {}
                        /\ brelse(c, b_flags[c] \cup {"BUSY", "INVAL"})
  BY DEF BreallocInval, InTheWay, Overlapping
<1>2. /\ UNCHANGED <<b_blkno, b_bcount, storeVars, io, locVars, pc>>
      /\ pc[p] = "brealloc"
  BY <1>0, <1>1 DEF BreallocInval, brelse, Goto, TypeOK, SchedType
<1>3. /\ \A b \in Bufs \ {c} : UNCHANGED <<b_flags[b], b_vp[b]>>
      /\ "INVAL" \in b_flags'[c] /\ "ERROR" \notin b_flags'[c]
      /\ "DELWRI" \notin b_flags'[c]
  BY <1>0, <1>1 DEF brelse, TypeOK, BufType, NoErrors
<1>4. OthersSit(p) /\ \A b \in Bufs : Changed(b)' <=> Changed(b)
  BY <1>2 DEF OthersSit, Changed
<1>5. PlacingAt(p)'
  <2>1. bp[p] \in Bufs
    BY <1>0, <1>2 DEF TypeOK, LocType, Buf0, Control, At, BpLabel, Writing0
  <2> QED
    BY <1>0, <1>1, <1>2, <1>3, <2>1 DEF PlacingAt, At
<1>6. Gone(c)
  BY <1>1, <1>3, IdleBuffer DEF Gone, Current
<1> QED
  BY <1>1, <1>2, <1>3, <1>4, <1>5, <1>6, OneCalm

\* bdwrite hands over what the process has stored.
LEMMA BdwriteCalm ==
  ASSUME MemInv, NEW p \in Procs, Bdwrite(p)
  PROVE  Calm(p)
<1> USE DEF MemInv
<1>0. TypeOK /\ PlacingAt(p) /\ Control /\ IInv
  BY DEF Placing, StoreInv, IInv
<1>1. PICK c \in Bufs :
        /\ bp[p] = c /\ pc[p] = "dirty" /\ b_bcount[c] # 0
        /\ \A q \in Procs : Has(q, c) => q = p
        /\ brelse(c, b_flags[c] \cup {"DELWRI", "DONE"})
  <2>1. pc[p] = "dirty" /\ At(p) \in BpLabel \ {"brealloc"}
    BY DEF Bdwrite, At, BpLabel, Writing0
  <2> QED
    BY <1>0, <2>1, OwnBuffer DEF Bdwrite, PlacingAt
<1>2. /\ UNCHANGED <<b_blkno, b_bcount, storeVars, io, first, wb>>
      /\ OthersSit(p) /\ pc'[p] = "user"
  BY <1>0, <1>1 DEF Bdwrite, brelse, Return, Yield, OthersSit, TypeOK,
     SchedType, LocType
<1>3. /\ \A b \in Bufs \ {c} : UNCHANGED <<b_flags[b], b_vp[b]>>
      /\ "DONE" \in b_flags'[c] /\ "ERROR" \notin b_flags'[c]
      /\ "INVAL" \in b_flags'[c] <=> "INVAL" \in b_flags[c]
      /\ b_vp'[c] = b_vp[c]
  BY <1>0, <1>1 DEF brelse, TypeOK, BufType, NoErrors
<1>4. PlacingAt(p)'
  BY <1>0, <1>1, <1>2 DEF PlacingAt, At, BpLabel, Writing0
<1>5. \A b \in Bufs \ {c} : Changed(b)' <=> Changed(b)
  BY <1>1, <1>2 DEF OthersSit, Changed
<1>6. Stands(c)
  <2>1. Current(c) <=> "INVAL" \notin b_flags[c]
    BY <1>1 DEF Current
  <2>2. Current(c)' <=> "INVAL" \notin b_flags'[c]
    BY <1>3 DEF Current
  <2> QED
    BY <1>2, <1>3, <2>1, <2>2 DEF Stands
<1>7. Has(p, c)
  BY <1>1 DEF Has
<1> QED
  BY <1>1, <1>2, <1>3, <1>4, <1>5, <1>6, <1>7, OneCalm

\* A buffer found and taken is what it was, unless it has no memory yet.
LEMMA GetblkHitCalm ==
  ASSUME MemInv, Plain, NEW p \in Procs, GetblkHit(p)
  PROVE  Calm(p)
<1> USE DEF MemInv
<1>0. TypeOK /\ PlacingAt(p) /\ Control
  BY DEF Placing, StoreInv, IInv
<1>1. PICK c \in Bufs :
        /\ "BUSY" \notin b_flags[c]
        /\ b_flags' = [b_flags EXCEPT ![c] = (@ \cup {"BUSY"}) \
             (IF call[p].size > b_bcount[c] THEN {"DONE"} ELSE {})]
        /\ bp' = [bp EXCEPT ![p] = c]
  BY DEF GetblkHit, Matches
<1>2. /\ UNCHANGED <<idVars, storeVars, io, first, gret, call>>
      /\ pc[p] = "getblk" /\ pc'[p] = "brealloc" /\ OthersSit(p)
  BY <1>0, <1>1 DEF GetblkHit, Goto, OthersSit, TypeOK, SchedType, LocType
<1>3. /\ \A b \in Bufs \ {c} : UNCHANGED b_flags[b]
      /\ \A f \in {"INVAL", "ERROR", "READ", "DELWRI"} :
           f \in b_flags'[c] <=> f \in b_flags[c]
      /\ "DONE" \in b_flags'[c] <=>
           "DONE" \in b_flags[c] /\ ~ (call[p].size > b_bcount[c])
  BY <1>0, <1>1 DEF TypeOK, BufType
<1>4. PlacingAt(p)'
  BY <1>0, <1>2 DEF PlacingAt, At, BpLabel, Writing0
<1>5. \A b \in Bufs : Changed(b)' <=> Changed(b)
  BY <1>2, ChangedKept
<1>6. c \notin io /\ ~ Changed(c) /\ ~ Changed(c)'
  BY <1>1, <1>5, IdleBuffer
<1>7. At(p) # "user"
  BY <1>2 DEF At, Writing0
<1>8. call[p].size > b_bcount[c] => b_bcount[c] = 0
  BY <1>7, SizeOne
<1>9. Stands(c) \/ Gone(c)
  <2>1. CASE call[p].size > b_bcount[c]
    <3>1. "DELWRI" \notin b_flags[c]
      BY <1>8, <2>1 DEF Delayed
    <3>2. ~ Current(c)'
      BY <1>2, <1>3, <1>6, <2>1 DEF Current, Changed
    <3> QED
      BY <1>1, <3>1, <3>2, IdleBuffer DEF Gone
  <2>2. CASE ~ (call[p].size > b_bcount[c])
    BY <1>2, <1>3, <1>6, <2>2 DEF Stands, Current, Changed
  <2> QED
    BY <2>1, <2>2
<1>10. /\ "ERROR" \notin b_flags'[c]
       /\ "DELWRI" \in b_flags'[c] => "DONE" \in b_flags'[c] /\ b_bcount'[c] # 0
  BY <1>2, <1>3, <1>8 DEF NoErrors, Delayed
<1> QED
  BY <1>1, <1>2, <1>3, <1>4, <1>5, <1>9, <1>10, OneCalm

\* The buffer getnewbuf gives away is clean.
LEMMA GetnewbufCleanCalm ==
  ASSUME MemInv, NEW p \in Procs, GetnewbufClean(p)
  PROVE  Calm(p)
<1> USE DEF MemInv
<1>0. TypeOK /\ PlacingAt(p) /\ Control
  BY DEF Placing, StoreInv, IInv
<1>1. PICK c \in Bufs :
        /\ freeq[c] # "none" /\ "DELWRI" \notin b_flags[c]
        /\ b_bcount' = [b_bcount EXCEPT ![c] = 0]
        /\ b_data' = [b_data EXCEPT ![c] = [d \in DevBlks |-> Junk]]
        /\ \/ /\ b_flags' = [b_flags EXCEPT ![c] = {"BUSY", "INVAL"}]
              /\ b_vp' = [b_vp EXCEPT ![c] = NoVnode]
              /\ UNCHANGED b_blkno
           \/ /\ call[p].op # "geteblk"
              /\ b_flags' = [b_flags EXCEPT ![c] = {"BUSY"}]
              /\ b_vp' = [b_vp EXCEPT ![c] = call[p].vp]
              /\ b_blkno' = [b_blkno EXCEPT ![c] = Target(p)]
        /\ bp' = [bp EXCEPT ![p] = c]
  BY DEF GetnewbufClean, Candidates
<1>2. /\ UNCHANGED <<disk, io, first, gret, call>>
      /\ pc[p] = "getnewbuf" /\ pc'[p] = "brealloc" /\ OthersSit(p)
      /\ bp'[p] = c
  BY <1>0, <1>1 DEF GetnewbufClean, Goto, OthersSit, TypeOK, SchedType, LocType
<1>3. /\ \A b \in Bufs \ {c} :
           UNCHANGED <<b_flags[b], b_vp[b], b_blkno[b], b_bcount[b], b_data[b]>>
      /\ {"DONE", "ERROR", "DELWRI"} \cap b_flags'[c] = {}
      /\ call[p].op = "geteblk" => b_vp'[c] = NoVnode
  <2>1. \A b \in Bufs \ {c} : UNCHANGED <<b_bcount[b], b_data[b]>>
    BY <1>0, <1>1 DEF TypeOK, BufType, StoreType
  <2>2. \A b \in Bufs \ {c} : UNCHANGED <<b_flags[b], b_vp[b], b_blkno[b]>>
    BY <1>0, <1>1 DEF TypeOK, BufType
  <2>3. /\ b_flags'[c] \in {{"BUSY", "INVAL"}, {"BUSY"}}
        /\ call[p].op = "geteblk" => b_vp'[c] = NoVnode
    BY <1>0, <1>1 DEF TypeOK, BufType
  <2> QED
    BY <2>1, <2>2, <2>3
<1>4. "BUSY" \notin b_flags[c]
  BY <1>1 DEF StoreInv, IInv, Owned
<1>5. \A b \in Bufs : Changed(b)' <=> Changed(b)
  BY <1>2, ChangedKept
<1>6. PlacingAt(p)'
  <2>1. first[p] # NoBuf => first[p] \in Bufs /\ "BUSY" \in b_flags[first[p]]
    BY OwnBuffer DEF StoreInv
  <2>2. first'[p] # NoBuf => b_bcount'[first'[p]] # 0
    BY <1>0, <1>2, <1>3, <1>4, <2>1 DEF PlacingAt
  <2>3. At(p) = "getnewbuf" /\ At(p)' = "brealloc"
    BY <1>2 DEF At, Writing0
  <2> QED
    BY <1>0, <1>2, <1>3, <2>2, <2>3 DEF PlacingAt
<1>7. Gone(c)
  <2>1. c \notin io /\ ~ Changed(c)'
    BY <1>4, <1>5, IdleBuffer
  <2>2. ~ Current(c)'
    BY <1>2, <1>3, <2>1 DEF Current, Changed
  <2> QED
    BY <1>1, <1>4, <2>2, IdleBuffer DEF Gone
<1> QED
  BY <1>2, <1>3, <1>4, <1>5, <1>6, <1>7, OneCalm

\* A buffer grows from nothing.
LEMMA BreallocDoneCalm ==
  ASSUME MemInv, Plain, NEW p \in Procs, BreallocDone(p)
  PROVE  Calm(p)
<1> USE DEF MemInv
<1>0. TypeOK /\ PlacingAt(p) /\ Control /\ IInv
  BY DEF Placing, StoreInv, IInv
<1>1. /\ pc[p] = "brealloc" /\ pc'[p] = gret[p]
      /\ b_bcount' = [b_bcount EXCEPT ![bp[p]] = call[p].size]
      /\ UNCHANGED <<b_flags, b_vp, b_blkno, storeVars, io, locVars>>
      /\ OthersSit(p)
  BY <1>0 DEF BreallocDone, Goto, OthersSit, TypeOK, SchedType
<1>2. At(p) = "brealloc"
  BY <1>1 DEF At, Writing0
<1>3. /\ bp[p] \in Bufs /\ "BUSY" \in b_flags[bp[p]] /\ bp[p] \notin io
      /\ \A q \in Procs : Has(q, bp[p]) => q = p
  BY <1>0, <1>2, OwnBuffer DEF BpLabel, IInv, UnderWay
<1> DEFINE c == bp[p]
<1>4. /\ \A b \in Bufs \ {c} : b_bcount'[b] = b_bcount[b]
      /\ b_bcount'[c] = call[p].size
  BY <1>0, <1>1, <1>3 DEF TypeOK, BufType
<1>5. /\ call[p].size \in Nat \ {0}
      /\ b_bcount[c] = 0 \/ b_bcount[c] = call[p].size
  BY <1>2, <1>3, SizeOne
<1>6. gret[p] \in {"bread", "hold", "breada1", "breada2"}
  BY <1>0 DEF Control
<1>7. \A b \in Bufs : Changed(b)' <=> Changed(b)
  BY <1>1, <1>6, ChangedKept
<1>8. PlacingAt(p)'
  <2>1. At(p)' = gret[p]
    BY <1>1, <1>6 DEF At, Writing0
  <2>2. first[p] # NoBuf => first[p] \in Bufs /\ b_bcount[first[p]] # 0
    BY <1>0, OwnBuffer DEF PlacingAt
  <2>3. first[p] # NoBuf => b_bcount'[first[p]] # 0
    BY <1>4, <1>5, <2>2
  <2>4. b_bcount'[bp[p]] # 0 /\ UNCHANGED <<first, bp, gret, call>>
    BY <1>1, <1>4, <1>5
  <2> QED
    BY <1>0, <1>2, <1>6, <2>1, <2>3, <2>4 DEF PlacingAt
<1>9. ~ Changed(c)
  BY <1>1, <1>3 DEF Changed, Has
<1>10. Stands(c) \/ Gone(c)
  <2>1. CASE b_bcount[c] = 0
    <3>1. "DONE" \notin b_flags[c]
      BY <1>2, <1>5, <2>1 DEF StoreInv, Growing
    <3>2. ~ Current(c) /\ ~ Current(c)'
      BY <1>1, <1>3, <1>7, <1>9, <3>1 DEF Current, Changed
    <3> QED
      BY <3>2 DEF Gone
  <2>2. CASE b_bcount[c] = call[p].size
    BY <1>1, <1>3, <1>4, <1>7, <2>2 DEF Stands, Current, Changed
  <2> QED
    BY <1>5, <2>1, <2>2
<1>11. /\ "ERROR" \notin b_flags'[c]
       /\ "DELWRI" \in b_flags'[c] => "DONE" \in b_flags'[c] /\ b_bcount'[c] # 0
  BY <1>1, <1>3, <1>4, <1>5 DEF NoErrors, Delayed
<1>12. Has(p, c)
  BY DEF Has
<1> QED
  BY <1>1, <1>3, <1>4, <1>7, <1>8, <1>10, <1>11, <1>12, OneCalm

\* A read that is started is for a buffer that had nothing yet.
LEMMA ReadCalm ==
  ASSUME MemInv, NEW p \in Procs, Bread(p) \/ BreadaStart(p) \/ BreadaSecond(p)
  PROVE  Calm(p)
<1> USE DEF MemInv
<1>0. TypeOK /\ PlacingAt(p) /\ Control /\ IInv
  BY DEF Placing, StoreInv, IInv
<1>1. CASE BreadaAheadHit(p)
  BY <1>1, ReleaseCalm
<1>2. CASE ~ BreadaAheadHit(p)
  <2>1. /\ pc[p] \in {"bread", "breada1", "breada2"} /\ pc'[p] # pc[p]
        /\ pc'[p] \in {"hold", "biowait", "breada_ra", "breada_end"}
        /\ UNCHANGED <<idVars, storeVars, call, gret>> /\ OthersSit(p)
        /\ pc[p] = "bread" => UNCHANGED <<bp, first>>
        /\ pc[p] # "bread" => pc'[p] \in {"breada_ra", "breada_end"}
        /\ first'[p] \in {first[p], bp[p]}
    <3>1. CASE Bread(p)
      BY <1>0, <3>1 DEF Bread, Strategy, Yield, Goto, OthersSit, TypeOK, SchedType
    <3>2. CASE BreadaStart(p)
      BY <1>0, <3>2 DEF BreadaStart, Strategy, Yield, Goto, OthersSit, TypeOK,
         SchedType, LocType
    <3>3. CASE BreadaAheadStart(p)
      BY <1>0, <3>3 DEF BreadaAheadStart, Strategy, Yield, Goto, OthersSit,
         TypeOK, SchedType, LocType
    <3> QED
      BY <1>2, <3>1, <3>2, <3>3 DEF BreadaSecond
  <2>2. At(p) = pc[p] /\ At(p)' = pc'[p]
    BY <2>1 DEF At, Writing0
  <2>3. PICK c \in Bufs :
        /\ c = bp[p] /\ "BUSY" \in b_flags[c] /\ c \notin io /\ b_bcount[c] # 0
        /\ \A q \in Procs : Has(q, c) => q = p
    BY <1>0, <2>1, <2>2, OwnBuffer DEF BpLabel, IInv, UnderWay, PlacingAt
  <2>4. \/ UNCHANGED <<b_flags, io>>
        \/ /\ "DONE" \notin b_flags[c] /\ io' = io \cup {c}
           /\ \E f \in {{"READ"}, {"READ", "ASYNC"}} :
                b_flags' = [b_flags EXCEPT ![c] = @ \cup f]
    BY <1>2, <2>3 DEF Bread, BreadaStart, BreadaSecond, BreadaAheadStart, Strategy
  <2>5. \A b \in Bufs : Changed(b)' <=> Changed(b)
    BY <2>1, ChangedKept
  <2>6. PlacingAt(p)'
    BY <1>0, <2>1, <2>2, <2>3 DEF PlacingAt, BpLabel
  <2>7. CASE UNCHANGED <<b_flags, io>>
    BY <2>1, <2>5, <2>6, <2>7, LightCalm DEF Told
  <2>8. CASE /\ "DONE" \notin b_flags[c] /\ io' = io \cup {c}
             /\ \E f \in {{"READ"}, {"READ", "ASYNC"}} :
                  b_flags' = [b_flags EXCEPT ![c] = @ \cup f]
    <3>1. /\ \A b \in Bufs \ {c} : UNCHANGED b_flags[b]
          /\ {"DONE", "ERROR", "DELWRI"} \cap b_flags'[c] = {}
          /\ "READ" \in b_flags'[c]
      BY <1>0, <2>3, <2>8 DEF TypeOK, BufType, NoErrors, Delayed
    <3>2. ~ Changed(c)
      BY <2>1, <2>3 DEF Changed, Has
    <3>3. ~ Current(c) /\ ~ Current(c)'
      BY <2>3, <2>5, <2>8, <3>1, <3>2 DEF Current, Changed
    <3>4. Gone(c) /\ Has(p, c)
      BY <2>3, <3>3 DEF Gone, Has
    <3> QED
      BY <2>1, <2>3, <2>5, <2>6, <2>8, <3>1, <3>4, OneCalm
  <2> QED
    BY <2>4, <2>7, <2>8
<1> QED
  BY <1>1, <1>2

\* A write that is started is of a buffer that has been changed.
LEMMA BwriteCalm ==
  ASSUME MemInv, NEW p \in Procs, Bwrite(p)
  PROVE  Calm(p)
<1> USE DEF MemInv
<1>0. TypeOK /\ PlacingAt(p) /\ Control /\ IInv
  BY DEF Placing, StoreInv, IInv
<1> DEFINE c == wb[p]
<1>1. /\ UNCHANGED <<idVars, storeVars, call, gret, bp, first, wb, wret>>
      /\ pc[p] = "bwrite" /\ pc'[p] = "bwstrat" /\ OthersSit(p)
      /\ io' = io \cup {c}
      /\ b_flags' = [b_flags EXCEPT ![c] = @ \ Cleared]
  BY <1>0 DEF Bwrite, Strategy, Yield, Goto, OthersSit, TypeOK, SchedType
<1>2. c \in Bufs
  BY <1>0, <1>1 DEF TypeOK, LocType, Buf0, Control, Writing0
<1>3. Has(p, c)
  BY <1>1 DEF Has
<1>4. \A q \in Procs : Has(q, c) => q = p
  BY <1>0, <1>2, <1>3 DEF IInv, OnlyOwner
<1>5. /\ \A b \in Bufs \ {c} : UNCHANGED b_flags[b]
      /\ {"READ", "ERROR", "DELWRI"} \cap b_flags'[c] = {}
      /\ "INVAL" \in b_flags'[c] <=> "INVAL" \in b_flags[c]
  BY <1>0, <1>1, <1>2 DEF TypeOK, BufType, Cleared
<1>6. PlacingAt(p)'
  BY <1>0, <1>1 DEF PlacingAt, At, Writing0
<1>7. \A b \in Bufs \ {c} : Changed(b)' <=> Changed(b)
  BY <1>1 DEF OthersSit, Changed
<1>8. Stands(c)
  <2>1. Current(c) <=> "INVAL" \notin b_flags[c]
    BY <1>1 DEF Current
  <2>2. Current(c)' <=> "INVAL" \notin b_flags'[c]
    BY <1>1, <1>5 DEF Current
  <2> QED
    BY <1>1, <1>5, <2>1, <2>2 DEF Stands
<1> QED
  BY <1>1, <1>2, <1>3, <1>5, <1>6, <1>7, <1>8, OneCalm

\* The buffers binvalfree invalidates are clean.
LEMMA BinvalfreeCalm ==
  ASSUME MemInv, NEW p \in Procs, BinvalfreeWrite(p) \/ BinvalfreeDone(p)
  PROVE  Calm(p)
<1> USE DEF MemInv
<1>0. TypeOK /\ PlacingAt(p) /\ Control /\ IInv
  BY DEF Placing, StoreInv, IInv
<1>1. PICK S \in SUBSET {b \in Bufs : freeq[b] # "none" /\ "DELWRI" \notin b_flags[b]} :
        /\ b_vp' = [b \in Bufs |-> IF b \in S THEN NoVnode ELSE b_vp[b]]
        /\ \/ /\ b_flags' = Marked(S, {"INVAL"}) /\ Return(p) /\ UNCHANGED wrVars
           \/ /\ \E c \in Bufs :
                   /\ "DELWRI" \in b_flags[c]
                   /\ b_flags' = [Marked(S, {"INVAL"}) EXCEPT ![c] =
                                    @ \cup {"BUSY", "ASYNC"}]
                   /\ CallBwrite(p, c, "binvalfree")
              /\ UNCHANGED <<call, gret>>
  <2>1. CASE BinvalfreeDone(p)
    BY <2>1 DEF BinvalfreeDone, Drop, FreeOf
  <2>2. CASE BinvalfreeWrite(p)
    BY <2>2 DEF BinvalfreeWrite, Drop, FreeOf
  <2> QED
    BY <2>1, <2>2
<1>2. /\ UNCHANGED <<b_blkno, b_bcount, storeVars, io, bp, first>>
      /\ pc[p] = "binvalfree"
  BY DEF BinvalfreeWrite, BinvalfreeDone, Drop, CallBwrite
<1>3. OthersSit(p) /\ PlacingAt(p)'
  <2> USE DEF OthersSit, TypeOK, SchedType, LocType, PlacingAt, At, BpLabel,
              Writing0
  <2>1. CASE Return(p) /\ UNCHANGED wrVars
    BY <1>0, <1>2, <2>1 DEF Return, Yield
  <2>2. CASE (\E c \in Bufs : CallBwrite(p, c, "binvalfree")) /\ UNCHANGED <<call, gret>>
    BY <1>0, <1>2, <2>2 DEF CallBwrite, Goto
  <2> QED
    BY <1>1, <2>1, <2>2
<1>4. \A b \in Bufs :
        /\ b \in S => "INVAL" \in b_flags'[b] /\ "BUSY" \notin b_flags[b]
                      /\ "DELWRI" \notin b_flags[b]
        /\ b \notin S => b_vp'[b] = b_vp[b] /\ Told(b)
        /\ \A f \in {"DONE", "ERROR", "DELWRI"} : f \in b_flags'[b] <=> f \in b_flags[b]
  <2>1. \A b \in Bufs :
          /\ b \in S => "INVAL" \in b_flags'[b]
          /\ b \notin S => "INVAL" \in b_flags'[b] <=> "INVAL" \in b_flags[b]
          /\ \A f \in {"DONE", "ERROR", "DELWRI", "READ"} :
               f \in b_flags'[b] <=> f \in b_flags[b]
    <3>1. CASE b_flags' = Marked(S, {"INVAL"})
      BY <3>1 DEF Marked
    <3>2. CASE \E c \in Bufs : b_flags' = [Marked(S, {"INVAL"}) EXCEPT ![c] =
                                             @ \cup {"BUSY", "ASYNC"}]
      BY <3>2 DEF Marked
    <3> QED
      BY <1>1, <3>1, <3>2
  <2>2. \A b \in S : "BUSY" \notin b_flags[b] /\ "DELWRI" \notin b_flags[b]
    BY <1>0 DEF IInv, Owned
  <2>3. \A b \in Bufs \ S : b_vp'[b] = b_vp[b]
    BY <1>1
  <2> QED
    BY <2>1, <2>2, <2>3 DEF Told
<1>5. \A b \in Bufs : (Changed(b)' <=> Changed(b)) \/ "DONE" \in b_flags[b]
  <2>1. CASE Return(p)
    <3>1. pc'[p] = "user"
      BY <1>0, <2>1 DEF Return, Yield, TypeOK, SchedType
    <3> QED
      BY <1>2, <1>3, <3>1, ChangedKept
  <2>2. CASE \E c \in Bufs : "DELWRI" \in b_flags[c] /\ CallBwrite(p, c, "binvalfree")
    <3>1. PICK c \in Bufs : "DELWRI" \in b_flags[c] /\ CallBwrite(p, c, "binvalfree")
      BY <2>2
    <3>2. pc'[p] = "bwrite" /\ wb'[p] = c /\ "DONE" \in b_flags[c]
      BY <1>0, <3>1 DEF CallBwrite, Goto, TypeOK, SchedType, LocType, Delayed
    <3> QED
      BY <1>2, <1>3, <3>2, ChangedAdds
  <2> QED
    BY <1>1, <2>1, <2>2
<1>6. ASSUME NEW b \in Bufs
      PROVE  Stands(b) \/ Gone(b)
  <2>1. CASE b \in S
    BY <1>4, <2>1, IdleBuffer DEF Gone, Current
  <2>2. CASE b \notin S
    <3>1. Current(b)' <=> Current(b)
      BY <1>2, <1>4, <1>5, <2>2 DEF Current, Changed, Told
    <3> QED
      BY <1>2, <1>4, <2>2, <3>1 DEF Stands
  <2> QED
    BY <2>1, <2>2
<1>7. ASSUME NEW b \in Bufs
      PROVE  /\ "ERROR" \notin b_flags'[b]
             /\ "DELWRI" \in b_flags'[b] => "DONE" \in b_flags'[b] /\ b_bcount'[b] # 0
             /\ "BUSY" \in b_flags[b] =>
                  UNCHANGED <<b_vp[b], b_blkno[b], b_bcount[b], b_data[b]>>
  BY <1>2, <1>4 DEF NoErrors, Delayed
<1> QED
  BY <1>2, <1>3, <1>6, <1>7 DEF Calm
-----------------------------------------------------------------------------
\* What a process sees of the memory, and that it is something.
SeesAt(p) ==
  IF pc[p] \in {"hold", "dirty"} /\ b_vp[bp[p]] # NoVnode
  THEN /\ View(p) = [op |-> IF call[p].op = "getblk" THEN "take" ELSE "read",
                     vp |-> b_vp[bp[p]],
                     data |-> [d \in Extent(bp[p]) |-> b_data[bp[p]][d]]]
       /\ View(p) # NoView
       /\ bp[p] \in Bufs /\ b_vp[bp[p]] \in Vnodes
       /\ Extent(bp[p]) \subseteq DevBlks
       /\ \A d \in Extent(bp[p]) : b_data[bp[p]][d] \in Vals \cup {Junk}
  ELSE View(p) = NoView

LEMMA Sees == IInv /\ NoErrors => \A p \in Procs : SeesAt(p)
<1> SUFFICES ASSUME IInv, NoErrors, NEW p \in Procs PROVE SeesAt(p)
  OBVIOUS
<1>1. CASE ~ (pc[p] \in {"hold", "dirty"} /\ b_vp[bp[p]] # NoVnode)
  BY <1>1 DEF SeesAt, View
<1>2. CASE pc[p] \in {"hold", "dirty"} /\ b_vp[bp[p]] # NoVnode
  <2>1. bp[p] \in Bufs
    BY <1>2 DEF IInv, TypeOK, LocType, Buf0, Control, At, BpLabel, Writing0
  <2>2. b_vp[bp[p]] \in Vnodes /\ "ERROR" \notin b_flags[bp[p]]
    BY <1>2, <2>1 DEF IInv, TypeOK, BufType, NoErrors
  <2>3. /\ Extent(bp[p]) \subseteq DevBlks
        /\ \A d \in DevBlks : b_data[bp[p]][d] \in Vals \cup {Junk}
    BY <2>1 DEF Extent, IInv, TypeOK, StoreType
  <2>4. View(p) = [op |-> IF call[p].op = "getblk" THEN "take" ELSE "read",
                   vp |-> b_vp[bp[p]],
                   data |-> [d \in Extent(bp[p]) |-> b_data[bp[p]][d]]]
    BY <1>2, <2>2 DEF View
  <2>5. [d \in Extent(bp[p]) |-> b_data[bp[p]][d]]
          \in [Extent(bp[p]) -> Vals \cup {Junk}]
    BY <2>3
  <2>6. \A o \in {"take", "read"} :
          [op |-> o, vp |-> b_vp[bp[p]],
           data |-> [d \in Extent(bp[p]) |-> b_data[bp[p]][d]]] # NoView
    BY <2>2, <2>3, <2>5, ViewAssumption
  <2>7. View(p) # NoView
    BY <2>4, <2>6
  <2> QED
    BY <1>2, <2>1, <2>2, <2>3, <2>4, <2>7 DEF SeesAt
<1> QED
  BY <1>1, <1>2

LEMMA SeesNext == (IInv /\ NoErrors => \A p \in Procs : SeesAt(p))'
  BY Sees, PTL

\* Two processes see different blocks.
LEMMA Alone ==
  MemInv =>
    \A p, q \in Procs :
      p # q /\ View(p) # NoView /\ View(q) # NoView /\ View(q).vp = View(p).vp
        => DOMAIN View(p).data \cap DOMAIN View(q).data = {}
<1> SUFFICES ASSUME MemInv, NEW p \in Procs, NEW q \in Procs, p # q,
                    View(p) # NoView, View(q) # NoView, View(q).vp = View(p).vp,
                    NEW d \in DOMAIN View(p).data, d \in DOMAIN View(q).data
             PROVE  FALSE
  OBVIOUS
<1> USE DEF MemInv
<1>0. StoreInv /\ IInv
  BY DEF StoreInv
<1>1. \A r \in {p, q} :
        /\ pc[r] \in {"hold", "dirty"} /\ b_vp[bp[r]] # NoVnode
        /\ View(r).vp = b_vp[bp[r]] /\ DOMAIN View(r).data = Extent(bp[r])
        /\ bp[r] \in Bufs
  BY <1>0, Sees DEF SeesAt
<1>2. \A r \in {p, q} : /\ "INVAL" \notin b_flags[bp[r]]
                        /\ \A t \in Procs : Has(t, bp[r]) => t = r
  BY <1>0, <1>1, OwnBuffer DEF At, BpLabel, Writing0, StoreInv, Placed, PlacedAt
<1>3. bp[p] # bp[q]
  BY <1>2 DEF Has
<1> QED
  BY <1>0, <1>1, <1>2, <1>3, OneHolder DEF StoreInv

LEMMA AloneNext ==
  (MemInv =>
    \A p, q \in Procs :
      p # q /\ View(p) # NoView /\ View(q) # NoView /\ View(q).vp = View(p).vp
        => DOMAIN View(p).data \cap DOMAIN View(q).data = {})'
  BY Alone, PTL

\* A buffer in use is busy.
LEMMA BusyNext ==
  (IInv => \A p \in Procs : pc[p] \in {"hold", "dirty"} => "BUSY" \in b_flags[bp[p]])'
<1>1. IInv => \A p \in Procs : pc[p] \in {"hold", "dirty"} => "BUSY" \in b_flags[bp[p]]
  BY OwnBuffer DEF At, BpLabel, Writing0
<1> QED
  BY <1>1, PTL

\* The memory of BlockStore, and the steps it may take.
Contents == [vp \in Vnodes |-> [d \in DevBlks |-> Stores(vp, d)]]
Views    == [p \in Procs |-> View(p)]

MemoryStep == Memory!Next \/ UNCHANGED <<Contents, Views>>

LEMMA SameContents ==
  ASSUME SameStore PROVE Contents' = Contents
  BY DEF SameStore, Contents

LEMMA SameViews ==
  ASSUME NEW p \in Procs, \A q \in Procs \ {p} : View(q)' = View(q)
  PROVE  Views' = [Views EXCEPT ![p] = View(p)']
  BY DEF Views

LEMMA GiveBackStep ==
  ASSUME NEW p \in Procs, SameStore, \A q \in Procs \ {p} : View(q)' = View(q),
         View(p)' = NoView
  PROVE  MemoryStep
<1>1. Contents' = Contents /\ Views' = [Views EXCEPT ![p] = NoView]
  BY SameContents, SameViews
<1>2. CASE View(p) = NoView
  <2>1. Views' = Views
    BY <1>1, <1>2 DEF Views
  <2> QED
    BY <1>1, <2>1 DEF MemoryStep
<1>3. CASE View(p) # NoView
  <2>1. Views[p] # NoView
    BY <1>3 DEF Views
  <2>2. Memory!GiveBack(p)
    BY <1>1, <2>1 DEF Memory!GiveBack, Contents, Views
  <2> QED
    BY <2>2 DEF MemoryStep, Memory!Next
<1> QED
  BY <1>2, <1>3

\* A process that is given a buffer reads or takes its blocks.
LEMMA GivenStep ==
  ASSUME NEW p \in Procs, SameStore, \A q \in Procs \ {p} : View(q)' = View(q),
         MemInv', View(p) = NoView, pc'[p] = "hold",
         \/ call'[p].op = "getblk" \/ b_vp'[bp'[p]] = NoVnode
         \/ "DONE" \in b_flags'[bp'[p]]
  PROVE  MemoryStep
<1>0. IInv' /\ UniqueMapping' /\ Placed' /\ NoErrors' /\ PlacingAt(p)'
  BY DEF MemInv, StoreInv, Placing
<1>1. CASE b_vp'[bp'[p]] = NoVnode
  BY <1>1, GiveBackStep DEF View
<1>2. CASE b_vp'[bp'[p]] # NoVnode
  <2>1. PICK c \in Bufs, vp \in Vnodes, S \in SUBSET DevBlks :
          /\ c = bp'[p] /\ vp = b_vp'[c] /\ S = Extent(c)'
          /\ View(p)' = [op |-> IF call'[p].op = "getblk" THEN "take" ELSE "read",
                         vp |-> vp, data |-> [d \in S |-> b_data'[c][d]]]
          /\ View(p)' # NoView
          /\ \A d \in S : b_data'[c][d] \in Vals \cup {Junk}
    BY <1>0, <1>2, SeesNext DEF SeesAt, Extent
  <2>2. S # {}
    <3>1. b_bcount'[c] # 0
      BY <1>0, <2>1 DEF PlacingAt, At, BpLabel, Writing0
    <3>2. b_blkno'[c] \in DevBlks /\ b_bcount'[c] \in Sizes \cup {0}
      BY <1>0 DEF IInv, TypeOK, BufType
    <3>3. b_blkno'[c] \in S
      <4>1. \A n \in DevBlks : n \in Nat
        BY DEF DevBlks
      <4>2. \A n \in Sizes : n \in Nat
        OBVIOUS
      <4>3. b_blkno'[c] \in Nat /\ b_bcount'[c] \in Nat \ {0}
        BY <3>1, <3>2, <4>1, <4>2
      <4>4. b_blkno'[c] <= b_blkno'[c] /\ b_blkno'[c] < b_blkno'[c] + b_bcount'[c]
        BY <4>3
      <4>5. S = {d \in DevBlks : b_blkno'[c] <= d /\ d < b_blkno'[c] + b_bcount'[c]}
        BY <2>1 DEF Extent
      <4> QED
        BY <3>2, <4>4, <4>5
    <3> QED
      BY <3>3
  <2>3. ASSUME NEW q \in Procs \ {p}, View(q) # NoView, View(q).vp = vp
        PROVE  S \cap DOMAIN View(q).data = {}
    <3>1. View(q)' # NoView /\ View(q)'.vp = vp
      BY <2>3
    <3>2. View(p)'.vp = vp /\ DOMAIN View(p)'.data = S
      BY <2>1
    <3>3. DOMAIN View(p)'.data \cap DOMAIN View(q)'.data = {}
      BY <2>1, <3>1, <3>2, AloneNext
    <3> QED
      BY <3>2, <3>3
  <2>4. Contents' = Contents /\ Views' = [Views EXCEPT ![p] = View(p)']
    BY SameContents, SameViews
  <2>5. Views[p] = NoView /\ Views'[p] # NoView
    BY <2>1 DEF Views
  <2>6. Memory!Free(p, vp, S)
    BY <2>3 DEF Memory!Free
  <2>7. CASE call'[p].op = "getblk"
    <3>1. [d \in S |-> b_data'[c][d]] \in [S -> Vals \cup {Junk}]
      BY <2>1
    <3>2. Memory!Take(p, vp, S)
      BY <2>1, <2>4, <2>5, <2>6, <2>7, <3>1
         DEF Memory!Take, Memory!Give, Contents, Views
    <3> QED
      BY <2>2, <2>5, <3>2 DEF MemoryStep, Memory!Next, Memory!Blks, DevBlks, Views
  <2>8. CASE call'[p].op # "getblk"
    <3>1. \A d \in S : Stores(vp, d)' = b_data'[c][d]
      <4>1. "DONE" \in b_flags'[c]
        BY <1>2, <2>1, <2>8
      <4>2. "INVAL" \notin b_flags'[c]
        BY <1>0, <1>2, <2>1, BusyNext DEF Placed, PlacedAt
      <4>3. Current(c)'
        BY <4>1, <4>2 DEF Current
      <4>4. \A d \in S : Serves(c, vp, d)'
        BY <2>1, <4>3 DEF Serves
      <4> QED
        BY <1>0, <4>4, StoresNext
    <3>2. [d \in S |-> b_data'[c][d]] = [d \in S |-> Contents[vp][d]]
      <4>1. \A d \in S : Contents[vp][d] = Stores(vp, d)'
        BY DEF Contents, SameStore
      <4> QED
        BY <3>1, <4>1
    <3>3. Memory!Read(p, vp, S)
      BY <2>1, <2>4, <2>5, <2>6, <2>8, <3>2
         DEF Memory!Read, Memory!Give, Contents, Views
    <3> QED
      BY <2>2, <2>5, <3>3 DEF MemoryStep, Memory!Next, Memory!Blks, DevBlks, Views
  <2> QED
    BY <2>7, <2>8
<1> QED
  BY <1>1, <1>2

\* A calm step is one of the memory if p gets its buffer as it should.
LEMMA CalmMemory ==
  ASSUME MemInv, StoreInv', NEW p \in Procs, Calm(p),
         \/ pc'[p] \notin {"hold", "dirty"}
         \/ /\ pc[p] \notin {"hold", "dirty"} /\ pc'[p] = "hold"
            /\ \/ call'[p].op = "getblk" \/ b_vp'[bp'[p]] = NoVnode
               \/ "DONE" \in b_flags'[bp'[p]]
  PROVE  MemInv' /\ MemoryStep
<1>1. MemInv' /\ SameStore /\ \A q \in Procs \ {p} : View(q)' = View(q)
  BY CalmStep
<1>2. CASE pc'[p] \notin {"hold", "dirty"}
  <2>1. View(p)' = NoView
    BY <1>2 DEF View
  <2> QED
    BY <1>1, <2>1, GiveBackStep
<1>3. CASE /\ pc[p] \notin {"hold", "dirty"} /\ pc'[p] = "hold"
           /\ \/ call'[p].op = "getblk" \/ b_vp'[bp'[p]] = NoVnode
              \/ "DONE" \in b_flags'[bp'[p]]
  <2>1. View(p) = NoView
    BY <1>3 DEF View
  <2> QED
    BY <1>1, <1>3, <2>1, GivenStep
<1> QED
  BY <1>2, <1>3

\* The caller stores in the blocks it sees.
LEMMA ModifyMemory ==
  ASSUME MemInv, StoreInv', NEW p \in Procs, NEW v \in Vals, Modify(p, v)
  PROVE  MemInv' /\ MemoryStep
<1> USE DEF MemInv
<1>0. /\ TypeOK /\ PlacingAt(p) /\ Control /\ IInv /\ UniqueMapping
      /\ IInv' /\ UniqueMapping'
  BY DEF Placing, StoreInv, IInv
<1>1. PICK c \in Bufs :
        /\ bp[p] = c /\ pc[p] = "hold" /\ "BUSY" \in b_flags[c]
        /\ \A q \in Procs : Has(q, c) => q = p
        /\ b_data' = [b_data EXCEPT ![c] =
                        Stored(@, Extent(c), [d \in DevBlks |-> v])]
  <2>1. pc[p] = "hold" /\ At(p) \in BpLabel
    BY DEF Modify, At, BpLabel, Writing0
  <2> QED
    BY <1>0, <2>1, OwnBuffer DEF Modify
<1>2. /\ UNCHANGED <<b_flags, idVars, listVars, disk, io, locVars>>
      /\ pc' = [pc EXCEPT ![p] = "dirty"]
  BY DEF Modify, Yield
<1>3. /\ \A q \in Procs \ {p} : pc'[q] = pc[q]
      /\ pc'[p] = "dirty"
      /\ \A b \in Bufs \ {c} : b_data'[b] = b_data[b]
      /\ \A d \in DevBlks :
           b_data'[c][d] = IF d \in Extent(c) THEN v ELSE b_data[c][d]
  BY <1>0, <1>1, <1>2 DEF TypeOK, SchedType, StoreType, Stored
<1>4. \A b \in Bufs : Extent(b)' = Extent(b)
  BY <1>2 DEF Extent
<1>5. MemInv'
  <2>1. NoErrors' /\ Delayed'
    BY <1>2 DEF NoErrors, Delayed
  <2>2. ASSUME NEW q \in Procs
        PROVE  PlacingAt(q)'
    <3>1. PlacingAt(q)
      BY DEF Placing
    <3>2. CASE q = p
      BY <1>1, <1>2, <1>3, <3>1, <3>2 DEF PlacingAt, At, BpLabel, Writing0
    <3>3. CASE q # p
      <4>1. At(q)' = At(q)
        BY <1>2, <1>3, <3>3 DEF At
      <4> QED
        BY <1>2, <3>1, <4>1 DEF PlacingAt
    <3> QED
      BY <3>2, <3>3
  <2> QED
    BY <2>1, <2>2 DEF Placing
<1>6. ASSUME NEW q \in Procs \ {p}
      PROVE  View(q)' = View(q)
  <2>1. pc[q] \in {"hold", "dirty"} => bp[q] \in Bufs /\ bp[q] # c
    <3>1. At(q) \in BpLabel => bp[q] \in Bufs
      BY <1>0, OwnBuffer
    <3> QED
      BY <1>1, <3>1 DEF At, BpLabel, Writing0, Has
  <2> QED
    BY <1>2, <1>3, <1>5, <2>1, ViewKept
<1>7. CASE b_vp[c] = NoVnode
  <2>1. \A b \in Bufs \ {c} : Stands(b)
    <3>1. \A b \in Bufs \ {c} : Changed(b)' <=> Changed(b)
      BY <1>1, <1>2, <1>3 DEF Changed
    <3>2. \A b \in Bufs \ {c} : Current(b)' <=> Current(b)
      BY <1>2, <3>1 DEF Current, Changed
    <3> QED
      BY <1>2, <1>3, <3>2 DEF Stands
  <2>2. Gone(c)
    BY <1>2, <1>7 DEF Gone
  <2>3. SameStore
    BY <1>0, <1>2, <2>1, <2>2, StoreKept
  <2>4. View(p)' = NoView
    BY <1>1, <1>2, <1>7 DEF View
  <2> QED
    BY <1>5, <1>6, <2>3, <2>4, GiveBackStep
<1>8. CASE b_vp[c] # NoVnode
  <2>1. b_vp[c] \in Vnodes /\ "INVAL" \notin b_flags[c] /\ "ERROR" \notin b_flags[c]
    BY <1>0, <1>1, <1>8 DEF TypeOK, BufType, StoreInv, Placed, PlacedAt, NoErrors
  <2>2. Current(c)'
    BY <1>1, <1>2, <1>3, <2>1 DEF Current
  <2>3. \A b \in Bufs \ {c} : Current(b)' <=> Current(b)
    <3>1. \A b \in Bufs \ {c} : Changed(b)' <=> Changed(b)
      BY <1>1, <1>2, <1>3 DEF Changed
    <3> QED
      BY <1>2, <3>1 DEF Current, Changed
  <2>4. ASSUME NEW vp \in Vnodes, NEW d \in DevBlks
        PROVE  Stores(vp, d)' = IF vp = b_vp[c] /\ d \in Extent(c) THEN v
                                ELSE Stores(vp, d)
    <3>1. CASE vp = b_vp[c] /\ d \in Extent(c)
      <4>1. Serves(c, vp, d)'
        BY <1>2, <1>4, <2>2, <3>1 DEF Serves
      <4> QED
        BY <1>0, <1>3, <3>1, <4>1, StoresNext
    <3>2. CASE ~ (vp = b_vp[c] /\ d \in Extent(c))
      <4>1. \A b \in Bufs : Serves(b, vp, d)' <=> Serves(b, vp, d)
        BY <1>2, <1>4, <2>3, <3>2 DEF Serves
      <4>2. CASE \E b \in Bufs : Serves(b, vp, d)
        <5>1. PICK b \in Bufs : Serves(b, vp, d)
          BY <4>2
        <5>2. b # c
          BY <3>2, <5>1 DEF Serves
        <5>3. Stores(vp, d)' = b_data'[b][d] /\ Stores(vp, d) = b_data[b][d]
          BY <1>0, <4>1, <5>1, StoresNext, StoresServed
        <5> QED
          BY <1>3, <3>2, <5>2, <5>3
      <4>3. CASE \A b \in Bufs : ~ Serves(b, vp, d)
        <5>1. Stores(vp, d)' = disk'[vp][d] /\ Stores(vp, d) = disk[vp][d]
          BY <1>0, <4>1, <4>3, StoresNext, StoresUnserved
        <5> QED
          BY <1>2, <3>2, <5>1
      <4> QED
        BY <4>2, <4>3
    <3> QED
      BY <3>1, <3>2
  <2>5. /\ View(p) # NoView /\ View(p).vp = b_vp[c]
        /\ DOMAIN View(p).data = Extent(c)
        /\ View(p)' = [op |-> View(p).op, vp |-> View(p).vp,
                       data |-> [d \in Extent(c) |-> v]]
    <3>1. View(p) = [op |-> IF call[p].op = "getblk" THEN "take" ELSE "read",
                     vp |-> b_vp[c], data |-> [d \in Extent(c) |-> b_data[c][d]]]
          /\ View(p) # NoView /\ Extent(c) \subseteq DevBlks
      BY <1>0, <1>1, <1>8, Sees DEF SeesAt
    <3>2. View(p)' = [op |-> IF call[p].op = "getblk" THEN "take" ELSE "read",
                      vp |-> b_vp[c], data |-> [d \in Extent(c) |-> b_data'[c][d]]]
      BY <1>0, <1>1, <1>2, <1>3, <1>4, <1>8, <2>1 DEF View
    <3>3. [d \in Extent(c) |-> b_data'[c][d]] = [d \in Extent(c) |-> v]
      BY <1>3, <3>1
    <3> QED
      BY <3>1, <3>2, <3>3
  <2>6. Views' = [Views EXCEPT ![p] = View(p)']
    BY <1>6, SameViews
  <2>7. Contents' = [Contents EXCEPT ![b_vp[c]] =
                       [d \in DevBlks |-> IF d \in Extent(c) THEN v ELSE @[d]]]
    BY <2>1, <2>4 DEF Contents
  <2>8. Memory!Store(p, v)
    <3>1. Views[p] = View(p)
      BY DEF Views
    <3>2. Views' = [Views EXCEPT ![p] =
                      [op |-> Views[p].op, vp |-> Views[p].vp,
                       data |-> [d \in DOMAIN Views[p].data |-> v]]]
      BY <2>5, <2>6, <3>1
    <3>3. Contents' = [Contents EXCEPT ![Views[p].vp] =
                         [d \in Memory!Blks |->
                            IF d \in DOMAIN Views[p].data THEN v ELSE @[d]]]
      BY <2>5, <2>7, <3>1 DEF Memory!Blks, DevBlks
    <3>4. Views[p] # NoView
      BY <2>5, <3>1
    <3> QED
      BY <3>2, <3>3, <3>4, Zenon DEF Memory!Store, Memory!Give, Contents, Views
  <2> QED
    BY <1>5, <2>8 DEF MemoryStep, Memory!Next
<1> QED
  BY <1>7, <1>8

\* A transfer that succeeds moves what the cache and the devices store from one
\* to the other, and nobody is looking at its buffer.
LEMMA BiodoneMemory ==
  ASSUME MemInv, StoreInv', Plain, NEW c \in Bufs, NEW ok \in BOOLEAN, Biodone(c, ok)
  PROVE  MemInv' /\ MemoryStep
<1> USE DEF MemInv
<1>0. /\ TypeOK /\ IInv /\ UniqueMapping /\ IInv' /\ UniqueMapping'
      /\ Placed /\ UnderWay /\ Control
  BY DEF StoreInv, IInv
<1>1. /\ c \in io /\ "BUSY" \in b_flags[c] /\ "DONE" \notin b_flags[c]
      /\ b_dev[c] = b_vp[c] /\ b_vp[c] \in Vnodes
      /\ {"INVAL", "ERROR", "DELWRI"} \cap b_flags[c] = {}
  BY <1>0 DEF Biodone, UnderWay, Placed, PlacedAt, NoErrors, Delayed, TypeOK,
     BufType
<1>2. ok = TRUE /\ Transfer(c)
  BY DEF Biodone, Plain
<1>3. /\ UNCHANGED <<b_blkno, b_bcount, pc, locVars>> /\ io' = io \ {c}
  BY DEF Biodone, brelse
<1>4. /\ \A b \in Bufs \ {c} : UNCHANGED <<b_flags[b], b_vp[b]>>
      /\ b_vp'[c] = b_vp[c] /\ "DONE" \in b_flags'[c]
      /\ \A f \in {"INVAL", "ERROR", "READ", "DELWRI"} :
           f \in b_flags'[c] <=> f \in b_flags[c]
  <2>1. CASE brelse(c, b_flags[c] \cup {"DONE"} \cup {})
    BY <1>0, <1>1, <2>1 DEF brelse, TypeOK, BufType
  <2>2. CASE /\ b_flags' = [b_flags EXCEPT ![c] =
                              (b_flags[c] \cup {"DONE"} \cup {}) \ {"WANTED"}]
             /\ UNCHANGED b_vp
    BY <1>0, <1>1, <2>2 DEF TypeOK, BufType
  <2> QED
    BY <1>2, <2>1, <2>2 DEF Biodone
<1>5. /\ \A b \in Bufs : Extent(b)' = Extent(b)
      /\ \A b \in Bufs : Changed(b)' <=> Changed(b)
  BY <1>3 DEF Extent, Changed
<1>6. ~ Changed(c)
  BY <1>0, <1>1 DEF Changed, UnderWay, At, Writing0
<1>7. MemInv'
  <2>1. NoErrors' /\ Delayed'
    BY <1>1, <1>3, <1>4 DEF NoErrors, Delayed
  <2>2. ASSUME NEW q \in Procs
        PROVE  PlacingAt(q)'
    <3>1. PlacingAt(q) /\ At(q)' = At(q)
      BY <1>3 DEF Placing, At
    <3>2. At(q) = "brealloc" => UNCHANGED b_vp[bp[q]]
      <4>1. At(q) = "brealloc" => bp[q] \in Bufs
        BY <1>0, OwnBuffer DEF BpLabel
      <4> QED
        BY <1>3, <1>4, <4>1
    <3> QED
      BY <1>3, <3>1, <3>2 DEF PlacingAt
  <2> QED
    BY <2>1, <2>2 DEF Placing
<1>8. ASSUME NEW q \in Procs
      PROVE  View(q)' = View(q)
  <2>1. pc[q] \in {"hold", "dirty"} => bp[q] \in Bufs /\ bp[q] # c
    <3>1. At(q) \in BpLabel => bp[q] \in Bufs
      BY <1>0, OwnBuffer
    <3>2. bp[q] = c => At(q) = "biowait"
      BY <1>0, <1>1 DEF UnderWay
    <3> QED
      BY <3>1, <3>2 DEF At, BpLabel, Writing0
  <2>2. \A b \in Bufs \ {c} : b_data'[b] = b_data[b]
    BY <1>0, <1>2 DEF Transfer, TypeOK, StoreType
  <2> QED
    BY <1>3, <1>4, <1>7, <2>1, <2>2, ViewKept
<1>9. \A b \in Bufs \ {c} : Current(b)' <=> Current(b)
  BY <1>3, <1>4, <1>5 DEF Current, Changed
<1>10. /\ Current(c)'
       /\ Current(c) <=> "READ" \notin b_flags[c]
  BY <1>1, <1>4, <1>6 DEF Current, Changed
<1>11. ASSUME NEW vp \in Vnodes, NEW d \in DevBlks
       PROVE  Stores(vp, d)' = Stores(vp, d)
  <2>0. \A b \in Bufs \ {c} : Serves(b, vp, d)' <=> Serves(b, vp, d)
    BY <1>3, <1>4, <1>5, <1>9 DEF Serves
  <2>a. Serves(c, vp, d)' <=> b_vp[c] = vp /\ d \in Extent(c)
    BY <1>4, <1>5, <1>10 DEF Serves
  <2>1. CASE "READ" \in b_flags[c]
    <3>1. /\ UNCHANGED disk /\ \A b \in Bufs \ {c} : b_data'[b] = b_data[b]
          /\ d \in Extent(c) => b_data'[c][d] = disk[b_vp[c]][d]
      BY <1>0, <1>1, <1>2, <2>1 DEF Transfer, Stored, TypeOK, StoreType
    <3>2. ~ Serves(c, vp, d)
      BY <1>10, <2>1 DEF Serves
    <3>3. CASE Serves(c, vp, d)'
      <4>1. \A b \in Bufs : ~ Serves(b, vp, d)
        <5>1. ASSUME NEW b \in Bufs, Serves(b, vp, d) PROVE FALSE
          <6>1. /\ b # c /\ b_vp[b] = vp /\ b_vp[c] = vp
                /\ d \in Extent(b) /\ d \in Extent(c)
                /\ "INVAL" \notin b_flags[b]
            BY <2>a, <3>2, <3>3, <5>1 DEF Serves, Current
          <6> QED
            BY <1>0, <1>1, <6>1, OneHolder
        <5> QED
          BY <5>1
      <4>2. Stores(vp, d) = disk[vp][d] /\ Stores(vp, d)' = b_data'[c][d]
        BY <1>0, <3>3, <4>1, StoresUnserved, StoresNext
      <4> QED
        BY <2>a, <3>1, <3>3, <4>2
    <3>4. CASE ~ Serves(c, vp, d)' /\ \E b \in Bufs : Serves(b, vp, d)
      <4>1. PICK b \in Bufs : Serves(b, vp, d)
        BY <3>4
      <4>2. b # c /\ Serves(b, vp, d)'
        BY <2>0, <3>2, <4>1
      <4> QED
        BY <1>0, <3>1, <4>1, <4>2, StoresServed, StoresNext
    <3>5. CASE ~ Serves(c, vp, d)' /\ \A b \in Bufs : ~ Serves(b, vp, d)
      <4>1. \A b \in Bufs : ~ Serves(b, vp, d)'
        BY <2>0, <3>5
      <4> QED
        BY <1>0, <3>1, <3>5, <4>1, StoresUnserved, StoresNext
    <3> QED
      BY <3>3, <3>4, <3>5
  <2>2. CASE "READ" \notin b_flags[c]
    <3>1. UNCHANGED b_data
      BY <1>2, <2>2 DEF Transfer
    <3>2. ~ (b_vp[c] = vp /\ d \in Extent(c)) => disk'[vp][d] = disk[vp][d]
      BY <1>0, <1>1, <1>2, <2>2 DEF Transfer, Stored, TypeOK, StoreType
    <3>3. Serves(c, vp, d)' <=> Serves(c, vp, d)
      BY <1>10, <2>2, <2>a DEF Serves
    <3>4. CASE \E b \in Bufs : Serves(b, vp, d)
      <4>1. PICK b \in Bufs : Serves(b, vp, d)
        BY <3>4
      <4>2. Serves(b, vp, d)'
        BY <2>0, <3>3, <4>1
      <4> QED
        BY <1>0, <3>1, <4>1, <4>2, StoresServed, StoresNext
    <3>5. CASE \A b \in Bufs : ~ Serves(b, vp, d)
      <4>1. \A b \in Bufs : ~ Serves(b, vp, d)'
        BY <2>0, <3>3, <3>5
      <4>2. ~ (b_vp[c] = vp /\ d \in Extent(c))
        BY <2>a, <4>1
      <4> QED
        BY <1>0, <3>2, <3>5, <4>1, <4>2, StoresUnserved, StoresNext
    <3> QED
      BY <3>4, <3>5
  <2> QED
    BY <2>1, <2>2
<1>12. Contents' = Contents /\ Views' = Views
  BY <1>8, <1>11 DEF Contents, Views
<1> QED
  BY <1>7, <1>12 DEF MemoryStep

\* After binit the memory has what the devices have, and nobody has a part of it.
LEMMA InitMemory == Init => MemInv /\ Memory!Init
<1> SUFFICES ASSUME Init PROVE MemInv /\ Memory!Init
  OBVIOUS
<1>1. MemInv
  <2>1. StoreInv
    BY InitStore
  <2>2. NoErrors /\ Delayed
    BY DEF Init, NoErrors, Delayed
  <2>3. Placing
    BY DEF Init, Placing, PlacingAt, At, Writing0, BpLabel
  <2> QED
    BY <2>1, <2>2, <2>3 DEF MemInv
<1>2. \A p \in Procs : View(p) = NoView
  BY DEF Init, View
<1>3. \A vp \in Vnodes, d \in DevBlks : Stores(vp, d) \in Vals
  <2>1. \A b \in Bufs : ~ Current(b)
    BY DEF Init, Current
  <2>2. \A vp \in Vnodes, d \in DevBlks : Stores(vp, d) = disk[vp][d]
    BY <2>1 DEF Stores
  <2> QED
    BY <2>2 DEF Init
<1> QED
  BY <1>1, <1>2, <1>3 DEF Memory!Init, Memory!Blks, DevBlks

\* Every step of a plain system is one of the memory, or changes nothing of it.
LEMMA NextMemory ==
  ASSUME MemInv, StoreInv', Plain, [Next]_vars
  PROVE  MemInv' /\ MemoryStep
<1> USE DEF MemInv
<1>0. TypeOK /\ Placing /\ Control
  BY DEF StoreInv, IInv
<1>1. ASSUME NEW p \in Procs, Calm(p), pc'[p] \notin {"hold", "dirty"}
      PROVE  MemInv' /\ MemoryStep
  BY <1>1, CalmMemory
<1>2. ASSUME NEW p \in Procs, NEW o \in Ops, NEW vp \in Vnodes,
             NEW blk \in Block, NEW ra \in DevBlks, Call(p, o, vp, blk, ra)
      PROVE  MemInv' /\ MemoryStep
  <2>1. pc'[p] \notin {"hold", "dirty"}
    <3>1. o \in AllOps
      OBVIOUS
    <3> QED
      BY <1>0, <1>2, <3>1 DEF TypeOK, SchedType, Call, Goto, AllOps
  <2> QED
    BY <1>1, <1>2, <2>1, CallCalm
<1>3. ASSUME NEW p \in Procs, Lookup(p)
      PROVE  MemInv' /\ MemoryStep
  <2>1. CASE BreallocDone(p)
    <3>1. /\ pc[p] = "brealloc" /\ pc'[p] = gret[p] /\ UNCHANGED <<call, bp, b_vp>>
          /\ gret[p] \in {"bread", "hold", "breada1", "breada2"}
      BY <1>0, <2>1 DEF BreallocDone, Goto, TypeOK, SchedType, Control
    <3>2. gret[p] = "hold" => call[p].op = "getblk" \/ b_vp[bp[p]] = NoVnode
      BY <1>0, <3>1 DEF Placing, PlacingAt, At, Writing0
    <3> QED
      BY <2>1, <3>1, <3>2, BreallocDoneCalm, CalmMemory
  <2>2. CASE ~ BreallocDone(p)
    <3>1. ~ BreallocShrink(p)
      BY NothingCut
    <3>2. Calm(p)
      BY <1>3, <2>2, <3>1, StillCalm, WaitForCalm, CallBwriteCalm, GetblkHitCalm,
         GetnewbufCleanCalm, BreallocInvalCalm DEF Lookup
    <3>3. pc'[p] \notin {"hold", "dirty"}
      <4> USE DEF TypeOK, SchedType
      <4>1. CASE GetblkBusy(p) \/ GetblkMiss(p) \/ GetblkHit(p)
        BY <1>0, <4>1 DEF GetblkBusy, GetblkMiss, GetblkHit, WaitFor, Sleep,
           Yield, Goto
      <4>2. CASE GetnewbufWait(p) \/ GetnewbufDirty(p) \/ GetnewbufClean(p)
        BY <1>0, <4>2 DEF GetnewbufWait, GetnewbufDirty, GetnewbufClean, Sleep,
           Yield, Goto, CallBwrite
      <4>3. CASE BreallocBusy(p) \/ BreallocFlush(p) \/ BreallocInval(p)
        BY <1>0, <4>3 DEF BreallocBusy, BreallocFlush, BreallocInval, WaitFor,
           Sleep, Yield, Goto, CallBwrite
      <4> QED
        BY <1>3, <2>2, <3>1, <4>1, <4>2, <4>3 DEF Lookup
    <3> QED
      BY <1>1, <3>2, <3>3
  <2> QED
    BY <2>1, <2>2
<1>4. ASSUME NEW p \in Procs, Reading(p)
      PROVE  MemInv' /\ MemoryStep
  <2>1. Calm(p)
    BY <1>4, ReadCalm, StillCalm DEF Reading
  <2>2. \/ pc'[p] \notin {"hold", "dirty"}
        \/ /\ pc[p] \in {"bread", "biowait"} /\ pc'[p] = "hold"
           /\ "DONE" \in b_flags'[bp'[p]]
    <3> USE DEF TypeOK, SchedType
    <3>1. CASE Bread(p) \/ Biowait(p)
      BY <1>0, <3>1 DEF Bread, Biowait, Strategy, Sleep, Yield, Goto
    <3>2. CASE Breada(p) \/ BreadaStart(p) \/ BreadaAhead(p)
      BY <1>0, <3>2 DEF Breada, BreadaStart, BreadaAhead, Strategy, Yield, Goto
    <3>3. CASE BreadaSecond(p) \/ BreadaEnd(p)
      BY <1>0, <3>3 DEF BreadaSecond, BreadaAheadHit, BreadaAheadStart, BreadaEnd,
         Strategy, Yield, Goto
    <3> QED
      BY <1>4, <3>1, <3>2, <3>3 DEF Reading
  <2> QED
    BY <2>1, <2>2, CalmMemory
<1>5. ASSUME NEW p \in Procs, Using(p)
      PROVE  MemInv' /\ MemoryStep
  <2>1. CASE Release(p) \/ Bdwrite(p)
    <3>1. pc'[p] = "user"
      BY <1>0, <2>1 DEF Release, Bdwrite, Return, Yield, TypeOK, SchedType
    <3> QED
      BY <1>1, <2>1, <3>1, ReleaseCalm, BdwriteCalm
  <2>2. CASE \E async \in BOOLEAN : WriteOut(p, async)
    <3>1. pc'[p] = "bwrite"
      BY <1>0, <2>2 DEF WriteOut, CallBwrite, Goto, TypeOK, SchedType
    <3> QED
      BY <1>1, <2>2, <3>1, BwriteAsyncCalm
  <2>3. CASE \E v \in Vals : Modify(p, v)
    BY <2>3, ModifyMemory
  <2> QED
    BY <1>5, <2>1, <2>2, <2>3 DEF Using
<1>6. ASSUME NEW p \in Procs, Writing(p)
      PROVE  MemInv' /\ MemoryStep
  <2>1. Calm(p)
    BY <1>6, BwriteCalm, BwriteAsyncCalm, StillCalm, ReleaseCalm, StuckCalm
       DEF Writing
  <2>2. pc'[p] \notin {"hold", "dirty"}
    <3> USE DEF TypeOK, SchedType
    <3>1. CASE Bwrite(p) \/ BwriteWait(p)
      BY <1>0, <3>1 DEF Bwrite, BwriteWait, Strategy, Sleep, Yield, Goto
    <3>2. CASE BwriteAsync(p) \/ BwriteDone(p)
      BY <1>0, <3>2 DEF BwriteAsync, BwriteDone, BwriteReturn, Return, Yield,
         Goto, Control
    <3>3. CASE StrategyNoVnode(p)
      BY <3>3 DEF StrategyNoVnode, Crash
    <3> QED
      BY <1>6, <3>1, <3>2, <3>3 DEF Writing
  <2> QED
    BY <1>1, <2>1, <2>2
<1>7. ASSUME NEW p \in Procs, Flushing(p)
      PROVE  MemInv' /\ MemoryStep
  <2>1. ~ Binval(p)
    BY DEF StoreInv, NoBinval, Binval
  <2>2. Calm(p)
    BY <1>7, <2>1, StillCalm, CallBwriteCalm, StuckCalm, WaitForCalm,
       BinvalfreeCalm DEF Flushing
  <2>3. pc'[p] \notin {"hold", "dirty"}
    <3> USE DEF TypeOK, SchedType
    <3>1. CASE BflushCollect(p) \/ BflushDone(p) \/ BflushSkip(p)
      BY <1>0, <3>1 DEF BflushCollect, BflushDone, BflushSkip, Return, Yield, Goto
    <3>2. CASE BflushWrite(p) \/ BlkflushWrite(p) \/ BinvalfreeWrite(p)
      BY <1>0, <3>2 DEF BflushWrite, BlkflushWrite, BinvalfreeWrite, CallBwrite, Goto
    <3>3. CASE BlkflushDone(p) \/ BinvalfreeDone(p)
      BY <1>0, <3>3 DEF BlkflushDone, BinvalfreeDone, Return, Yield
    <3>4. CASE BflushSteal(p) \/ BlkflushBusy(p)
      BY <1>0, <3>4 DEF BflushSteal, Crash, BlkflushBusy, WaitFor, Sleep, Yield
    <3> QED
      BY <1>7, <2>1, <3>1, <3>2, <3>3, <3>4 DEF Flushing
  <2> QED
    BY <1>1, <2>2, <2>3
<1>8. ASSUME NEW b \in Bufs, NEW ok \in BOOLEAN, Biodone(b, ok)
      PROVE  MemInv' /\ MemoryStep
  BY <1>8, BiodoneMemory
<1>9. CASE UNCHANGED vars
  <2>1. Contents' = Contents /\ Views' = Views
    BY <1>9 DEF vars, Contents, Views, Stores, View, Extent, Current
  <2>2. MemInv'
    BY <1>9 DEF vars, NoErrors, Delayed, Placing, PlacingAt, At
  <2> QED
    BY <2>1, <2>2 DEF MemoryStep
<1> QED
  BY <1>2, <1>3, <1>4, <1>5, <1>6, <1>7, <1>8, <1>9 DEF Next, Step

\* The cache is one memory, read and written directly: with one block size,
\* transfers that succeed and no binval, every behaviour of the cache is one of
\* BlockStore, whatever is cached, delayed, read ahead, written behind, flushed
\* and invalidated.
THEOREM CacheIsMemory ==
  ASSUME Plain PROVE Spec => ImplementsBlockStore
<1>1. Init => MemInv /\ Memory!Init
  BY InitMemory
<1>2. ASSUME MemInv, StoreInv', [Next]_vars
      PROVE  MemInv' /\ MemoryStep
  BY <1>2, NextMemory
<1>3. MemoryStep <=>
        [Memory!Next]_<<[vp \in Vnodes |-> [d \in DevBlks |-> Stores(vp, d)]],
                        [p \in Procs |-> View(p)]>>
  BY DEF MemoryStep, Contents, Views
<1>4. "binval" \notin Ops
  BY DEF Plain
<1>5. Spec => []StoreInv
  BY <1>4, StoreInvariant
<1> QED
  BY <1>1, <1>2, <1>3, <1>5, PTL DEF Spec, ImplementsBlockStore, Memory!Spec
-----------------------------------------------------------------------------
(***************************************************************************)
(* No panic.  The vnode of a buffer is what a strategy routine is called   *)
(* through, and bflush takes buffers it noted before off their lists.      *)
(***************************************************************************)

\* All buffers have the same size.
OneSize == \A s, t \in Sizes : s = t

\* A delayed write is owed to a vnode, complete, and not a failed transfer.
OwingAt(b) ==
  "DELWRI" \in b_flags[b] =>
    /\ b_vp[b] # NoVnode /\ "ERROR" \notin b_flags[b]
    /\ OneSize => "DONE" \in b_flags[b] /\ b_bcount[b] # 0

\* The buffers p has are those of a vnode, except the one of geteblk.
NamedAt(p) ==
  /\ pc[p] = "bwrite" => b_vp[wb[p]] # NoVnode
  /\ pc[p] = "dirty" => "ERROR" \notin b_flags[bp[p]]
  /\ first[p] # NoBuf => b_vp[first[p]] # NoVnode /\ b_bcount[first[p]] # 0
  /\ At(p) \in BpLabel =>
       \/ b_vp[bp[p]] # NoVnode
       \/ call[p].op = "geteblk" /\ At(p) \in {"brealloc", "hold"}
  /\ At(p) \in BpLabel \ {"brealloc"} => b_bcount[bp[p]] # 0
  /\ At(p) # "user" => call[p].size \in Sizes
  /\ call[p].op = "geteblk" =>
       /\ gret[p] = "hold" /\ At(p) \in {"getnewbuf", "brealloc", "hold"}
       /\ At(p) = "brealloc" => b_vp[bp[p]] = NoVnode

\* A process writing a group keeps the processor, so that nobody takes the
\* members it has not come to off their lists.
GroupedAt(p) ==
  At(p) = "bflush_w" =>
    /\ cpu = p /\ \A b \in group[p] : freeq[b] # "none"
    /\ pc[p] = "bwrite" => "ASYNC" \in b_flags[wb[p]]
    /\ pc[p] \in {"bwstrat", "bwait"} => "ASYNC" \in wflag[p]

\* The transfers of the system do not fail, or have one size: a buffer that
\* grows is not read over.
Steady == "binval" \notin Ops /\ (OneSize \/ IOErrors = FALSE)

Owing   == \A b \in Bufs : OwingAt(b)
Named   == \A p \in Procs : NamedAt(p)
Grouped == \A p \in Procs : GroupedAt(p)
FaultInv == StoreInv /\ (IOErrors \/ NoErrors) /\ Owing /\ Named

\* What a step of p does to the buffers, to the others and to p.
Tame(p) ==
  /\ OthersSit(p) /\ NamedAt(p)'
  /\ \A b \in Bufs :
       /\ OwingAt(b)'
       /\ "ERROR" \in b_flags'[b] => "ERROR" \in b_flags[b]
       /\ "BUSY" \in b_flags[b] /\ ~ Has(p, b) =>
            UNCHANGED <<b_vp[b], b_bcount[b]>>

\* The buffers of the others are left alone.
LEMMA TameStep ==
  ASSUME FaultInv, NEW p \in Procs, Tame(p)
  PROVE  (IOErrors \/ NoErrors)' /\ Owing' /\ Named'
<1>1. (IOErrors \/ NoErrors)' /\ Owing'
  BY DEF FaultInv, NoErrors, Owing, Tame
<1>2. ASSUME NEW q \in Procs
      PROVE  NamedAt(q)'
  <2>1. CASE q = p
    BY <2>1 DEF Tame
  <2>2. CASE q # p
    <3>1. UNCHANGED <<pc[q], wret[q], bp[q], first[q], wb[q], call[q], gret[q]>>
      BY <2>2 DEF Tame, OthersSit
    <3>2. ASSUME NEW b \in Bufs, Has(q, b)
          PROVE  /\ UNCHANGED <<b_vp[b], b_bcount[b]>>
                 /\ "ERROR" \in b_flags'[b] => "ERROR" \in b_flags[b]
      BY <2>2, <3>2 DEF FaultInv, StoreInv, IInv, OnlyOwner, Tame
    <3>3. /\ pc[q] = "bwrite" => wb[q] \in Bufs /\ Has(q, wb[q])
          /\ pc[q] = "dirty" => bp[q] \in Bufs /\ Has(q, bp[q])
          /\ first[q] # NoBuf => first[q] \in Bufs /\ Has(q, first[q])
          /\ At(q) \in BpLabel => bp[q] \in Bufs /\ Has(q, bp[q])
      BY DEF FaultInv, StoreInv, IInv, TypeOK, LocType, Buf0, Control, Has, At,
         Writing0, BpLabel
    <3>4. NamedAt(q)
      BY DEF FaultInv, Named
    <3> QED
      BY <3>1, <3>2, <3>3, <3>4 DEF NamedAt, At, BpLabel
  <2> QED
    BY <2>1, <2>2
<1> QED
  BY <1>1, <1>2 DEF Named

\* The steps that leave vnodes, sizes and what a buffer owes.
LEMMA LightTame ==
  ASSUME FaultInv, NEW p \in Procs, UNCHANGED <<b_vp, b_bcount>>,
         \A b \in Bufs, f \in {"DELWRI", "DONE", "ERROR"} :
           f \in b_flags'[b] <=> f \in b_flags[b],
         OthersSit(p), NamedAt(p)'
  PROVE  Tame(p)
BY DEF FaultInv, Owing, OwingAt, Tame

\* What p has, by where it is.
LEMMA NamedBuffers ==
  ASSUME FaultInv, NEW p \in Procs
  PROVE  /\ TypeOK /\ NamedAt(p)
         /\ wb[p] # NoBuf <=> pc[p] \in Writing0
         /\ bp[p] # NoBuf <=> At(p) \in BpLabel
         /\ first[p] # NoBuf => At(p) \in {"breada_ra", "breada_end"} \cup FirstLabel
         /\ wret[p] \notin {"bread", "biowait", "hold", "dirty", "breada1", "breada2"}
         /\ gret[p] \in {"bread", "hold", "breada1", "breada2"}
         /\ {bp[p], first[p], wb[p]} \subseteq Bufs \cup {NoBuf}
BY DEF FaultInv, Named, StoreInv, IInv, Control, TypeOK, LocType, Buf0

\* A call begins.
LEMMA CallTame ==
  ASSUME FaultInv, NEW p \in Procs, NEW o \in Ops, NEW vp \in Vnodes,
         NEW blk \in Block, NEW ra \in DevBlks, Call(p, o, vp, blk, ra)
  PROVE  Tame(p)
<1>0. TypeOK /\ first[p] = NoBuf /\ pc[p] = "user"
  BY NamedBuffers DEF Call, At, Writing0, FirstLabel
<1>1. /\ UNCHANGED <<b_flags, b_vp, b_bcount, first>>
      /\ call'[p].op = o /\ call'[p].size \in Sizes
      /\ gret'[p] = IF o = "bread" THEN "bread" ELSE "hold"
      /\ OthersSit(p)
  BY <1>0 DEF TypeOK, SchedType, LocType, OthersSit, Call, Goto, Block
<1>2. /\ o = "geteblk" => pc'[p] = "getnewbuf"
      /\ pc'[p] \in {"getblk", "getnewbuf", "bflush", "breada", "blkflush",
                     "binvalfree", "binval"}
  <2>1. o \in AllOps
    OBVIOUS
  <2> QED
    BY <1>0, <2>1 DEF TypeOK, SchedType, Call, Goto, AllOps
<1>3. NamedAt(p)'
  BY <1>0, <1>1, <1>2 DEF NamedAt, At, Writing0, BpLabel
<1> QED
  BY <1>1, <1>3, LightTame

\* getblk, getnewbuf and brealloc, where they wait or start a write.
LEMMA LookupTame ==
  ASSUME FaultInv, NEW p \in Procs,
         \/ GetblkBusy(p) \/ BreallocBusy(p) \/ BlkflushBusy(p)
         \/ GetblkMiss(p) \/ GetnewbufWait(p)
         \/ GetnewbufDirty(p) \/ BreallocShrink(p) \/ BreallocFlush(p)
         \/ BlkflushWrite(p) \/ BflushWrite(p)
  PROVE  Tame(p)
<1>0. TypeOK /\ NamedAt(p) /\ Owing /\ (wb[p] # NoBuf <=> pc[p] \in Writing0)
  BY NamedBuffers DEF FaultInv
<1>1. CASE GetblkBusy(p) \/ BreallocBusy(p) \/ BlkflushBusy(p)
  <2>1. PICK c \in Bufs : WaitFor(p, c)
    BY <1>1 DEF GetblkBusy, BreallocBusy, BlkflushBusy, Matches, InTheWay,
       ToFlush, Overlapping
  <2>2. /\ UNCHANGED <<b_vp, b_bcount, pc, locVars>>
        /\ b_flags' = [b_flags EXCEPT ![c] = @ \cup {"WANTED"}]
    BY <1>0, <2>1 DEF WaitFor, Sleep, Yield, TypeOK, SchedType
  <2>3. \A b \in Bufs, f \in {"DELWRI", "DONE", "ERROR"} :
          f \in b_flags'[b] <=> f \in b_flags[b]
    BY <1>0, <2>2 DEF TypeOK, BufType
  <2>4. OthersSit(p)
    BY <2>2 DEF OthersSit
  <2>5. NamedAt(p)'
    <3>1. pc[p] \in {"getblk", "brealloc", "blkflush"}
      BY <1>1 DEF GetblkBusy, BreallocBusy, BlkflushBusy
    <3> QED
      BY <1>0, <2>2, <3>1 DEF NamedAt, At
  <2> QED
    BY <2>2, <2>3, <2>4, <2>5, LightTame
<1>2. CASE GetblkMiss(p) \/ GetnewbufWait(p)
  <2>1. /\ UNCHANGED <<b_flags, b_vp, b_bcount, locVars>>
        /\ pc[p] \in {"getblk", "getnewbuf"} /\ pc'[p] = "getnewbuf"
        /\ \A q \in Procs \ {p} : pc'[q] = pc[q]
    BY <1>0, <1>2 DEF GetblkMiss, GetnewbufWait, Sleep, Yield, Goto, TypeOK,
       SchedType
  <2>2. NamedAt(p)'
    BY <1>0, <2>1 DEF NamedAt, At, BpLabel, Writing0
  <2>3. OthersSit(p)
    BY <2>1 DEF OthersSit
  <2> QED
    BY <2>1, <2>2, <2>3, LightTame
<1>3. CASE \/ GetnewbufDirty(p) \/ BreallocShrink(p) \/ BreallocFlush(p)
           \/ BlkflushWrite(p) \/ BflushWrite(p)
  <2>1. PICK c \in Bufs, more \in {{}, {"BUSY"}, {"BUSY", "ASYNC"}},
             ret \in {"getnewbuf", "getblk", "brealloc", "blkflush", "bflush_w"} :
          /\ b_flags' = [b_flags EXCEPT ![c] = @ \cup more]
          /\ CallBwrite(p, c, ret) /\ "DELWRI" \in b_flags[c]
          /\ UNCHANGED <<b_vp, b_bcount, call, gret, first>>
          /\ \/ ret = "getblk" /\ pc[p] = "brealloc" /\ c = bp[p]
                /\ bp' = [bp EXCEPT ![p] = NoBuf]
             \/ ret = pc[p] /\ UNCHANGED bp
    <3>1. CASE GetnewbufDirty(p)
      <4>1. PICK c \in Candidates : /\ "DELWRI" \in b_flags[c]
                                    /\ notavail(c, {"ASYNC"})
                                    /\ CallBwrite(p, c, "getnewbuf")
        BY <3>1 DEF GetnewbufDirty
      <4> QED
        <5>1. /\ c \in Bufs /\ pc[p] = "getnewbuf"
              /\ UNCHANGED <<b_vp, b_bcount, call, gret, first, bp>>
          BY <3>1 DEF GetnewbufDirty, Candidates
        <5>2. b_flags' = [b_flags EXCEPT ![c] = @ \cup {"BUSY", "ASYNC"}]
          BY <1>0, <4>1, <5>1 DEF notavail, TypeOK, BufType
        <5> QED
          BY <4>1, <5>1, <5>2
    <3>2. CASE BreallocShrink(p)
      <4>1. pc[p] = "brealloc" /\ bp[p] \in Bufs
        BY <3>2, NamedBuffers DEF BreallocShrink, At, Writing0, BpLabel
      <4> QED
        BY <1>0, <3>2, <4>1 DEF BreallocShrink, CutsDirty, TypeOK, BufType
    <3>3. CASE BreallocFlush(p)
      <4>1. PICK c \in InTheWay(p) : /\ "DELWRI" \in b_flags[c]
                                     /\ notavail(c, {})
                                     /\ CallBwrite(p, c, "brealloc")
        BY <3>3 DEF BreallocFlush
      <4>2. /\ c \in Bufs /\ pc[p] = "brealloc"
            /\ UNCHANGED <<b_vp, b_bcount, call, gret, first, bp>>
        BY <3>3 DEF BreallocFlush, InTheWay, Overlapping
      <4>3. b_flags' = [b_flags EXCEPT ![c] = @ \cup {"BUSY"}]
        BY <1>0, <4>1, <4>2 DEF notavail, TypeOK, BufType
      <4> QED
        BY <4>1, <4>2, <4>3
    <3>4. CASE BlkflushWrite(p)
      <4>1. PICK c \in ToFlush(p) : /\ "BUSY" \notin b_flags[c]
                                    /\ notavail(c, {})
                                    /\ CallBwrite(p, c, "blkflush")
        BY <3>4 DEF BlkflushWrite
      <4>2. /\ c \in Bufs /\ pc[p] = "blkflush" /\ "DELWRI" \in b_flags[c]
            /\ UNCHANGED <<b_vp, b_bcount, call, gret, first, bp>>
        BY <3>4, <4>1 DEF BlkflushWrite, ToFlush, Overlapping
      <4>3. b_flags' = [b_flags EXCEPT ![c] = @ \cup {"BUSY"}]
        BY <1>0, <4>1, <4>2 DEF notavail, TypeOK, BufType
      <4> QED
        BY <4>1, <4>2, <4>3
    <3>5. CASE BflushWrite(p)
      <4>1. PICK c \in group[p] : /\ "DELWRI" \in b_flags[c]
                                  /\ notavail(c, {"ASYNC"})
                                  /\ CallBwrite(p, c, "bflush_w")
        BY <3>5 DEF BflushWrite, StillDirty
      <4> QED
        <5>1. /\ c \in Bufs /\ pc[p] = "bflush_w"
              /\ UNCHANGED <<b_vp, b_bcount, call, gret, first, bp>>
          BY <1>0, <3>5 DEF BflushWrite, TypeOK, LocType
        <5>2. b_flags' = [b_flags EXCEPT ![c] = @ \cup {"BUSY", "ASYNC"}]
          BY <1>0, <4>1, <5>1 DEF notavail, TypeOK, BufType
        <5> QED
          BY <4>1, <5>1, <5>2
    <3> QED
      BY <1>3, <3>1, <3>2, <3>3, <3>4, <3>5
  <2>2. /\ pc' = [pc EXCEPT ![p] = "bwrite"] /\ wb' = [wb EXCEPT ![p] = c]
        /\ wret' = [wret EXCEPT ![p] = ret]
    BY <2>1 DEF CallBwrite, Goto
  <2>3. \A b \in Bufs, f \in {"DELWRI", "DONE", "ERROR"} :
          f \in b_flags'[b] <=> f \in b_flags[b]
    BY <1>0, <2>1 DEF TypeOK, BufType
  <2>4. OthersSit(p)
    BY <1>0, <2>1, <2>2 DEF OthersSit, TypeOK, LocType, SchedType
  <2>5. b_vp[c] # NoVnode
    BY <1>0, <2>1 DEF Owing, OwingAt
  <2>6. NamedAt(p)'
    <3>1. /\ pc'[p] = "bwrite" /\ wb'[p] = c /\ wret'[p] = ret
          /\ call'[p] = call[p] /\ gret'[p] = gret[p] /\ first'[p] = first[p]
      BY <1>0, <2>1, <2>2 DEF TypeOK, LocType, SchedType
    <3>2. pc[p] \notin Writing0 /\ pc[p] # "user"
      BY <2>1, <1>3 DEF Writing0, BreallocShrink, GetnewbufDirty, BreallocFlush,
         BlkflushWrite, BflushWrite
    <3>3. CASE ret = pc[p] /\ UNCHANGED bp
      BY <1>0, <2>1, <2>5, <3>1, <3>2, <3>3 DEF NamedAt, At, Writing0, BpLabel
    <3>4. CASE ret = "getblk" /\ pc[p] = "brealloc" /\ c = bp[p]
      BY <1>0, <2>1, <2>5, <3>1, <3>4 DEF NamedAt, At, Writing0, BpLabel
    <3> QED
      BY <2>1, <3>3, <3>4
  <2> QED
    BY <2>1, <2>3, <2>4, <2>6, LightTame
<1> QED
  BY <1>1, <1>2, <1>3

\* bread and breada, and waiting for a write.
LEMMA ReadTame ==
  ASSUME FaultInv, NEW p \in Procs,
         \/ Bread(p) \/ Biowait(p) \/ Breada(p) \/ BreadaStart(p) \/ BreadaAhead(p)
         \/ BreadaAheadStart(p) \/ BreadaEnd(p) \/ BwriteWait(p)
  PROVE  Tame(p)
<1>0. TypeOK /\ NamedAt(p)
  BY NamedBuffers
<1>1. UNCHANGED <<b_vp, b_bcount, call, wb, wret>>
  BY DEF Bread, Biowait, Breada, BreadaStart, BreadaAhead, BreadaAheadStart,
     BreadaEnd, BwriteWait
<1>2. \A b \in Bufs, f \in {"DELWRI", "DONE", "ERROR"} :
        f \in b_flags'[b] <=> f \in b_flags[b]
  <2>1. CASE UNCHANGED b_flags
    BY <2>1
  <2>2. CASE \E more \in {{"READ"}, {"READ", "ASYNC"}} :
               b_flags' = [b_flags EXCEPT ![bp[p]] = b_flags[bp[p]] \cup more]
    BY <1>0, <2>2 DEF TypeOK, BufType
  <2> QED
    BY <2>1, <2>2 DEF Bread, Biowait, Breada, BreadaStart, BreadaAhead,
       BreadaAheadStart, BreadaEnd, BwriteWait, Strategy
<1>3. OthersSit(p)
  BY <1>0, <1>1 DEF OthersSit, Bread, Biowait, Breada, BreadaStart, BreadaAhead,
     BreadaAheadStart, BreadaEnd, BwriteWait, Strategy, Sleep, Yield, Goto,
     TypeOK, SchedType, LocType
<1>4. NamedAt(p)'
  <2> USE <1>0, <1>1 DEF TypeOK, SchedType, LocType
  <2>0. \A b \in Bufs : "ERROR" \in b_flags'[b] <=> "ERROR" \in b_flags[b]
    BY <1>2
  <2>1. CASE Bread(p)
    <3>1. /\ pc[p] = "bread" /\ pc'[p] \in {"hold", "biowait"}
          /\ UNCHANGED <<gret, bp, first>>
      BY <2>1 DEF Bread, Strategy, Yield, Goto
    <3> QED
      BY <3>1 DEF NamedAt, At, Writing0, BpLabel
  <2>2. CASE Biowait(p)
    <3>1. /\ pc[p] = "biowait" /\ pc'[p] \in {"hold", "biowait"}
          /\ UNCHANGED <<gret, bp, first>>
      BY <2>2 DEF Biowait, Sleep, Yield
    <3> QED
      BY <3>1 DEF NamedAt, At, Writing0, BpLabel
  <2>3. CASE Breada(p) \/ BreadaAhead(p)
    <3>1. /\ pc[p] \in {"breada", "breada_ra"}
          /\ pc'[p] \in {"getblk", "breada_ra", "breada_end"}
          /\ UNCHANGED <<bp, first>>
      BY <2>3 DEF Breada, BreadaAhead, Goto
    <3> QED
      BY <3>1 DEF NamedAt, At, Writing0, BpLabel
  <2>4. CASE BreadaStart(p)
    <3>1. /\ pc[p] = "breada1" /\ pc'[p] = "breada_ra" /\ UNCHANGED gret
          /\ first'[p] = bp[p]
      BY <2>4 DEF BreadaStart, Strategy, Yield, Goto
    <3> QED
      BY <3>1 DEF NamedAt, At, Writing0, BpLabel
  <2>5. CASE BreadaAheadStart(p)
    <3>1. /\ pc[p] = "breada2" /\ pc'[p] = "breada_end" /\ UNCHANGED <<gret, first>>
      BY <2>5 DEF BreadaAheadStart, Strategy, Yield, Goto
    <3> QED
      BY <3>1 DEF NamedAt, At, Writing0, BpLabel
  <2>6. CASE BreadaEnd(p)
    <3>1. /\ pc[p] = "breada_end" /\ first'[p] = NoBuf /\ bp'[p] = first[p]
          /\ pc'[p] = IF first[p] = NoBuf THEN "getblk" ELSE "biowait"
      BY <2>6 DEF BreadaEnd, Goto
    <3> QED
      BY <3>1 DEF NamedAt, At, Writing0, BpLabel
  <2>7. CASE BwriteWait(p)
    <3>1. /\ pc[p] \in {"bwstrat", "bwait"} /\ pc'[p] = "bwait"
          /\ UNCHANGED <<gret, bp, first>>
      BY <2>7 DEF BwriteWait, Sleep, Yield
    <3> QED
      BY <3>1 DEF NamedAt, At, Writing0, BpLabel
  <2> QED
    BY <2>1, <2>2, <2>3, <2>4, <2>5, <2>6, <2>7
<1> QED
  BY <1>1, <1>2, <1>3, <1>4, LightTame

\* bflush, the ends of the flushing calls, and what stores in a buffer.
LEMMA IdleTame ==
  ASSUME FaultInv, NEW p \in Procs,
         \/ BflushCollect(p) \/ BflushDone(p) \/ BflushSkip(p) \/ BflushSteal(p)
         \/ BlkflushDone(p) \/ StrategyNoVnode(p)
         \/ \E v \in Vals : Modify(p, v)
         \/ \E async \in BOOLEAN : WriteOut(p, async)
  PROVE  Tame(p)
<1>0. TypeOK /\ NamedAt(p)
  BY NamedBuffers
<1>f. pc[p] \in {"bflush", "bflush_w", "blkflush"} => first[p] = NoBuf
  BY NamedBuffers DEF At, Writing0, FirstLabel
<1> USE <1>0 DEF TypeOK, SchedType, LocType
<1>1. CASE BflushCollect(p) \/ BflushSkip(p)
  <2>1. /\ pc[p] \in {"bflush", "bflush_w"} /\ pc'[p] \in {"bflush", "bflush_w"}
        /\ UNCHANGED <<bufVars, call, gret, holdVars, wrVars>>
        /\ \A q \in Procs \ {p} : pc'[q] = pc[q]
    BY <1>1 DEF BflushCollect, BflushSkip, Goto
  <2>2. NamedAt(p)' /\ OthersSit(p)
    BY <2>1 DEF NamedAt, At, Writing0, BpLabel, OthersSit
  <2> QED
    BY <2>1, <2>2, LightTame
<1>2. CASE BflushDone(p) \/ BlkflushDone(p)
  <2>1. /\ pc[p] \in {"bflush", "blkflush"} /\ pc'[p] = "user"
        /\ call'[p] = NoCall
        /\ UNCHANGED <<bufVars, holdVars, wrVars>>
        /\ \A q \in Procs \ {p} : UNCHANGED <<pc[q], call[q], gret[q]>>
    BY <1>2 DEF BflushDone, BlkflushDone, Return, Yield
  <2>2. NamedAt(p)' /\ OthersSit(p)
    BY <1>f, <2>1 DEF NamedAt, At, Writing0, BpLabel, OthersSit, NoCall
  <2> QED
    BY <2>1, <2>2, LightTame
<1>3. CASE BflushSteal(p) \/ StrategyNoVnode(p)
  <2>1. UNCHANGED <<bufVars, pc, locVars>>
    BY <1>3 DEF BflushSteal, StrategyNoVnode, Crash
  <2>2. NamedAt(p)' /\ OthersSit(p)
    BY <2>1 DEF NamedAt, At, OthersSit
  <2> QED
    BY <2>1, <2>2, LightTame
<1>4. CASE \E v \in Vals : Modify(p, v)
  <2>1. /\ pc[p] = "hold" /\ pc'[p] = "dirty"
        /\ UNCHANGED <<b_flags, b_vp, b_bcount, locVars>>
        /\ call[p].op # "geteblk" /\ "ERROR" \notin b_flags[bp[p]]
        /\ \A q \in Procs \ {p} : pc'[q] = pc[q]
    BY <1>4 DEF Modify, Yield
  <2>2. NamedAt(p)' /\ OthersSit(p)
    BY <2>1 DEF NamedAt, At, Writing0, BpLabel, OthersSit
  <2> QED
    BY <2>1, <2>2, LightTame
<1>5. CASE \E async \in BOOLEAN : WriteOut(p, async)
  <2>1. /\ pc[p] = "dirty" /\ pc'[p] = "bwrite" /\ wb'[p] = bp[p]
        /\ wret'[p] = "user"
        /\ UNCHANGED <<b_vp, b_bcount, call, gret, first>>
        /\ \A q \in Procs \ {p} : UNCHANGED <<pc[q], wb[q], wret[q], bp[q]>>
    BY <1>5 DEF WriteOut, CallBwrite, Goto
  <2>2. \A b \in Bufs, f \in {"DELWRI", "DONE", "ERROR"} :
          f \in b_flags'[b] <=> f \in b_flags[b]
    BY <1>5 DEF WriteOut, BufType
  <2>3. NamedAt(p)' /\ OthersSit(p)
    BY <2>1 DEF NamedAt, At, Writing0, BpLabel, OthersSit
  <2> QED
    BY <2>1, <2>2, <2>3, LightTame
<1> QED
  BY <1>1, <1>2, <1>3, <1>4, <1>5

\* brelse takes the vnode of a failed transfer, which owes nothing.
LEMMA BrelseTame ==
  ASSUME FaultInv, NEW p \in Procs, NEW c \in Bufs, NEW f \in SUBSET Flag,
         brelse(c, f), b_bcount'[c] = b_bcount[c],
         "ERROR" \in f => "ERROR" \in b_flags[c],
         "BUSY" \in b_flags[c] => Has(p, c),
         \/ {"DELWRI", "DONE"} \cap f = {"DELWRI", "DONE"} \cap b_flags[c]
         \/ /\ b_vp[c] # NoVnode /\ "ERROR" \notin f /\ b_bcount[c] # 0
            /\ "DONE" \in f,
         OthersSit(p), NamedAt(p)'
  PROVE  Tame(p)
<1>1. /\ \A b \in Bufs \ {c} : UNCHANGED <<b_flags[b], b_vp[b], b_bcount[b]>>
      /\ b_flags'[c] = f \ {"WANTED", "BUSY", "ASYNC", "AGE"}
      /\ b_vp'[c] = IF "ERROR" \in f THEN NoVnode ELSE b_vp[c]
  BY NamedBuffers DEF brelse, TypeOK, BufType
<1>2. \A b \in Bufs : OwingAt(b)
  BY DEF FaultInv, Owing
<1>3. \A b \in Bufs : OwingAt(b)'
  BY <1>1, <1>2 DEF OwingAt
<1> QED
  BY <1>1, <1>3 DEF Tame

LEMMA ReleaseTame ==
  ASSUME FaultInv, NEW p \in Procs,
         \/ BreallocInval(p) \/ BreadaAheadHit(p) \/ Release(p) \/ Bdwrite(p)
         \/ BwriteDone(p)
  PROVE  Tame(p)
<1>0. /\ TypeOK /\ NamedAt(p) /\ {bp[p], first[p], wb[p]} \subseteq Bufs \cup {NoBuf}
      /\ bp[p] # NoBuf <=> At(p) \in BpLabel
      /\ wb[p] # NoBuf <=> pc[p] \in Writing0
      /\ first[p] # NoBuf => At(p) \in {"breada_ra", "breada_end"} \cup FirstLabel
      /\ wret[p] \notin {"bread", "biowait", "hold", "dirty", "breada1", "breada2"}
  BY NamedBuffers
<1>a. /\ bp[p] = first[p] => bp[p] = NoBuf
      /\ wb[p] \in {bp[p], first[p]} /\ Has(p, wb[p]) => wb[p] = NoBuf
      /\ \A b \in Bufs : Has(p, b) => "BUSY" \in b_flags[b]
  BY DEF FaultInv, StoreInv, IInv, OnlyOwner
<1> USE <1>0 DEF TypeOK, SchedType, LocType
<1>1. CASE BreallocInval(p)
  <2>1. PICK c \in InTheWay(p) :
          /\ {"BUSY", "DELWRI"} \cap b_flags[c] = {}
          /\ brelse(c, b_flags[c] \cup {"BUSY", "INVAL"})
    BY <1>1 DEF BreallocInval
  <2>2. /\ pc[p] = "brealloc" /\ UNCHANGED <<pc, locVars>> /\ c \in Bufs
        /\ c # bp[p] /\ c # first[p] /\ c # wb[p]
    BY <1>1, <1>a, <2>1 DEF BreallocInval, Goto, InTheWay, Overlapping, Has,
       Writing0
  <2>3. /\ \A b \in Bufs \ {c} : UNCHANGED <<b_flags[b], b_vp[b], b_bcount[b]>>
        /\ b_bcount' = b_bcount
    BY <2>1, <2>2 DEF brelse, BufType
  <2>4. NamedAt(p)' /\ OthersSit(p)
    BY <2>2, <2>3 DEF NamedAt, At, BpLabel, Writing0, OthersSit
  <2>5. b_flags[c] \cup {"BUSY", "INVAL"} \in SUBSET Flag
    BY <2>2 DEF BufType, Flag
  <2> QED
    BY <2>1, <2>2, <2>3, <2>4, <2>5, BrelseTame
<1>2. CASE BreadaAheadHit(p)
  <2>1. /\ pc[p] = "breada2" /\ pc'[p] = "breada_end"
        /\ brelse(bp[p], b_flags[bp[p]]) /\ UNCHANGED <<call, gret, first, wrVars>>
        /\ \A q \in Procs \ {p} : UNCHANGED <<pc[q], bp[q]>>
    BY <1>2 DEF BreadaAheadHit, Goto
  <2>2. bp[p] \in Bufs /\ Has(p, bp[p]) /\ first[p] # bp[p]
    BY <1>a, <2>1 DEF At, BpLabel, Writing0, Has
  <2>3. /\ \A b \in Bufs \ {bp[p]} : UNCHANGED <<b_flags[b], b_vp[b], b_bcount[b]>>
        /\ b_bcount' = b_bcount
    BY <2>1, <2>2 DEF brelse, BufType
  <2>4. NamedAt(p)' /\ OthersSit(p)
    BY <2>1, <2>2, <2>3 DEF NamedAt, At, BpLabel, Writing0, OthersSit
  <2> QED
    BY <2>1, <2>2, <2>3, <2>4, BrelseTame DEF BufType
<1>3. CASE Release(p) \/ Bdwrite(p)
  <2> DEFINE f == b_flags[bp[p]] \cup IF pc[p] = "hold" THEN {} ELSE {"DELWRI", "DONE"}
  <2>1. /\ pc[p] \in {"hold", "dirty"} /\ pc'[p] = "user" /\ call'[p] = NoCall
        /\ bp'[p] = NoBuf
        /\ brelse(bp[p], f) /\ UNCHANGED <<first, wrVars>>
        /\ \A q \in Procs \ {p} : UNCHANGED <<pc[q], call[q], gret[q], bp[q]>>
    <3>1. CASE Release(p)
      BY <3>1 DEF Release, Return, Yield
    <3>2. CASE Bdwrite(p)
      <4>1. b_flags[bp[p]] \cup {"DELWRI", "DONE"} = f
        BY <3>2 DEF Bdwrite
      <4> HIDE DEF f
      <4> QED
        BY <3>2, <4>1 DEF Bdwrite, Return, Yield
    <3> QED
      BY <1>3, <3>1, <3>2
  <2>2. bp[p] \in Bufs /\ Has(p, bp[p]) /\ first[p] = NoBuf
    BY <1>a, <2>1 DEF At, BpLabel, Writing0, Has, FirstLabel
  <2>3. NamedAt(p)' /\ OthersSit(p)
    BY <2>1, <2>2 DEF NamedAt, At, BpLabel, Writing0, OthersSit, NoCall
  <2>4. b_bcount' = b_bcount /\ f \in SUBSET Flag
    BY <2>1, <2>2 DEF brelse, BufType, Flag
  <2>5. \/ {"DELWRI", "DONE"} \cap f = {"DELWRI", "DONE"} \cap b_flags[bp[p]]
        \/ /\ b_vp[bp[p]] # NoVnode /\ "ERROR" \notin f
           /\ b_bcount[bp[p]] # 0 /\ "DONE" \in f
    BY <2>1 DEF NamedAt, At, BpLabel, Writing0
  <2>6. "ERROR" \in f => "ERROR" \in b_flags[bp[p]]
    OBVIOUS
  <2> HIDE DEF f
  <2> QED
    BY <2>1, <2>2, <2>3, <2>4, <2>5, <2>6, BrelseTame
<1>4. CASE BwriteDone(p)
  <2>1. /\ pc[p] \in {"bwstrat", "bwait"} /\ "ASYNC" \notin wflag[p]
        /\ brelse(wb[p], b_flags[wb[p]]) /\ UNCHANGED <<bp, first>>
        /\ pc'[p] = wret[p] /\ wb'[p] = NoBuf
        /\ \/ wret[p] = "user" /\ call'[p] = NoCall
           \/ wret[p] # "user" /\ call' = call /\ gret' = gret
        /\ \A q \in Procs \ {p} : UNCHANGED <<pc[q], call[q], gret[q], wb[q], wret[q]>>
    BY <1>4 DEF BwriteDone, BwriteReturn, Return, Yield, Goto
  <2>2. wb[p] \in Bufs /\ Has(p, wb[p])
    BY <2>1 DEF Writing0, Has
  <2>3. /\ \A b \in Bufs \ {wb[p]} : UNCHANGED <<b_flags[b], b_vp[b], b_bcount[b]>>
        /\ b_bcount' = b_bcount
    BY <2>1, <2>2 DEF brelse, BufType
  <2>4. wret[p] \notin Writing0 /\ At(p) = wret[p] /\ At(p)' = wret[p]
    BY <2>1 DEF At, Writing0, FaultInv, StoreInv, IInv, Control
  <2>5. NamedAt(p)' /\ OthersSit(p)
    <3>1. OthersSit(p)
      BY <2>1 DEF OthersSit
    <3>2. CASE wret[p] # "user"
      <4>1. /\ wret[p] \in BpLabel => bp[p] \in Bufs \ {wb[p]}
            /\ first[p] # NoBuf => first[p] \in Bufs \ {wb[p]}
        BY <1>a, <2>2, <2>4 DEF BpLabel
      <4>2. wret[p] \notin {"bwrite", "dirty"}
        BY <2>4 DEF Writing0
      <4> QED
        BY <2>1, <2>3, <2>4, <3>1, <3>2, <4>1, <4>2 DEF NamedAt, BpLabel
    <3>3. CASE wret[p] = "user"
      <4>1. first[p] = NoBuf /\ wret[p] \notin {"bwrite", "dirty", "getblk"} \cup BpLabel
        BY <2>4, <3>3 DEF FirstLabel, BpLabel
      <4> QED
        BY <2>1, <2>4, <3>1, <3>3, <4>1 DEF NamedAt, BpLabel, NoCall
    <3> QED
      BY <3>1, <3>2, <3>3
  <2> QED
    BY <2>1, <2>2, <2>3, <2>5, BrelseTame DEF BufType
<1> QED
  BY <1>1, <1>2, <1>3, <1>4

\* bwrite starts: the buffer owes nothing any more; and ends.
LEMMA BwriteTame ==
  ASSUME FaultInv, NEW p \in Procs, Bwrite(p) \/ BwriteAsync(p)
  PROVE  Tame(p)
<1>0. /\ TypeOK /\ NamedAt(p) /\ {bp[p], first[p], wb[p]} \subseteq Bufs \cup {NoBuf}
      /\ wb[p] # NoBuf <=> pc[p] \in Writing0
      /\ first[p] # NoBuf => At(p) \in {"breada_ra", "breada_end"} \cup FirstLabel
      /\ wret[p] \notin {"bread", "biowait", "hold", "dirty", "breada1", "breada2"}
      /\ Owing
  BY NamedBuffers DEF FaultInv
<1> USE <1>0 DEF TypeOK, SchedType, LocType
<1>1. CASE Bwrite(p)
  <2>1. /\ pc[p] = "bwrite" /\ pc'[p] = "bwstrat" /\ wb[p] \in Bufs
        /\ b_flags' = [b_flags EXCEPT ![wb[p]] = b_flags[wb[p]] \ Cleared]
        /\ UNCHANGED <<b_vp, b_bcount, call, gret, holdVars, wb, wret>>
        /\ \A q \in Procs \ {p} : pc'[q] = pc[q]
    BY <1>1 DEF Bwrite, Strategy, Yield, Goto, Writing0
  <2>2. \A b \in Bufs : b_flags'[b] = IF b = wb[p] THEN b_flags[b] \ Cleared ELSE b_flags[b]
    BY <2>1 DEF BufType
  <2>3. NamedAt(p)' /\ OthersSit(p)
    BY <2>1 DEF NamedAt, At, Writing0, BpLabel, OthersSit
  <2>4. \A b \in Bufs : OwingAt(b)'
    BY <2>1, <2>2 DEF Owing, OwingAt, Cleared
  <2> QED
    BY <2>1, <2>2, <2>3, <2>4 DEF Tame
<1>2. CASE BwriteAsync(p)
  <2>1. /\ pc[p] = "bwstrat" /\ UNCHANGED <<b_vp, b_bcount, bp, first>>
        /\ pc'[p] = wret[p] /\ wb'[p] = NoBuf
        /\ \/ wret[p] = "user" /\ call'[p] = NoCall
           \/ wret[p] # "user" /\ call' = call /\ gret' = gret
        /\ \A q \in Procs \ {p} : UNCHANGED <<pc[q], call[q], gret[q], wb[q], wret[q]>>
    BY <1>2 DEF BwriteAsync, BwriteReturn, Return, Yield, Goto
  <2>2. \A b \in Bufs, f \in {"DELWRI", "DONE", "ERROR"} :
          f \in b_flags'[b] <=> f \in b_flags[b]
    BY <1>2 DEF BwriteAsync, BufType
  <2>4. wret[p] \notin Writing0 /\ At(p) = wret[p] /\ At(p)' = wret[p]
    BY <2>1 DEF At, Writing0, FaultInv, StoreInv, IInv, Control
  <2>5. OthersSit(p)
    BY <2>1 DEF OthersSit
  <2>6. NamedAt(p)'
    <3>1. CASE wret[p] # "user"
      BY <2>1, <2>2, <2>4, <3>1 DEF NamedAt, Writing0, BpLabel
    <3>2. CASE wret[p] = "user"
      <4>1. first[p] = NoBuf
        BY <2>4, <3>2 DEF FirstLabel
      <4> QED
        BY <2>1, <2>4, <3>2, <4>1 DEF NamedAt, BpLabel, NoCall
    <3> QED
      BY <3>1, <3>2
  <2> QED
    BY <2>1, <2>2, <2>5, <2>6, LightTame
<1> QED
  BY <1>1, <1>2

\* getblk, getnewbuf and brealloc take a buffer.
LEMMA TakeTame ==
  ASSUME FaultInv, Steady, NEW p \in Procs,
         GetblkHit(p) \/ GetnewbufClean(p) \/ BreallocDone(p)
  PROVE  Tame(p)
<1>0. /\ TypeOK /\ NamedAt(p) /\ {bp[p], first[p], wb[p]} \subseteq Bufs \cup {NoBuf}
      /\ bp[p] # NoBuf <=> At(p) \in BpLabel
      /\ gret[p] \in {"bread", "hold", "breada1", "breada2"}
      /\ \A b \in Bufs : OwingAt(b)
  BY NamedBuffers DEF FaultInv, Owing
<1>a. \A b \in Bufs : Has(p, b) => "BUSY" \in b_flags[b]
  BY DEF FaultInv, StoreInv, IInv, OnlyOwner
<1>b. \A b \in Bufs : "BUSY" \in b_flags[b] <=> freeq[b] = "none"
  BY DEF FaultInv, StoreInv, IInv, Owned
<1>1. CASE GetblkHit(p)
  <2>1. PICK c \in Matches(call[p].vp, Target(p)) :
          /\ "BUSY" \notin b_flags[c]
          /\ b_flags' = [b_flags EXCEPT ![c] = (@ \cup {"BUSY"}) \
               (IF call[p].size > b_bcount[c] THEN {"DONE"} ELSE {})]
          /\ bp' = [bp EXCEPT ![p] = c]
    BY <1>1 DEF GetblkHit
  <2>2. /\ pc[p] = "getblk" /\ pc' = [pc EXCEPT ![p] = "brealloc"]
        /\ UNCHANGED <<idVars, call, gret, first, wrVars>>
        /\ call[p].vp \in Vnodes
    BY <1>1 DEF GetblkHit, Goto, FaultInv, StoreInv, IInv, Control, At, Writing0
  <2>3. c \in Bufs /\ b_vp[c] # NoVnode
    BY <2>2 DEF Matches
  <2>4. \A b \in Bufs : b_flags'[b] =
          IF b # c THEN b_flags[b]
          ELSE (b_flags[b] \cup {"BUSY"}) \
                 (IF call[p].size > b_bcount[c] THEN {"DONE"} ELSE {})
    BY <1>0, <2>1, <2>3 DEF TypeOK, BufType
  <2>5. OwingAt(c)'
    <3>1. call[p].size \in Sizes
      BY <1>0, <2>2 DEF NamedAt, At, Writing0
    <3>2. OneSize /\ b_bcount[c] # 0 => b_bcount[c] = call[p].size
      BY <1>0, <2>3, <3>1 DEF OneSize, TypeOK, BufType
    <3>3. call[p].size \in Nat /\ b_bcount[c] \in Nat
      BY <1>0, <2>3, <3>1, SizeNat DEF FaultInv, StoreInv
    <3>4. OneSize /\ "DELWRI" \in b_flags[c] => ~ (call[p].size > b_bcount[c])
      BY <1>0, <2>3, <3>2, <3>3 DEF OwingAt
    <3>5. /\ \A f \in {"DELWRI", "ERROR"} : f \in b_flags'[c] <=> f \in b_flags[c]
          /\ "DONE" \in b_flags[c] /\ ~ (call[p].size > b_bcount[c])
               => "DONE" \in b_flags'[c]
      BY <2>3, <2>4
    <3> QED
      BY <1>0, <2>2, <2>3, <3>4, <3>5 DEF OwingAt
  <2>6. \A b \in Bufs : OwingAt(b)'
    BY <1>0, <2>2, <2>4, <2>5 DEF OwingAt
  <2>7. OthersSit(p)
    BY <1>0, <2>1, <2>2 DEF OthersSit, TypeOK, SchedType, LocType
  <2>8. NamedAt(p)'
    <3>1. pc'[p] = "brealloc" /\ bp'[p] = c
      BY <1>0, <2>1, <2>2 DEF TypeOK, SchedType, LocType
    <3>2. call[p].op # "geteblk"
      BY <1>0, <2>2 DEF NamedAt, At, Writing0
    <3> QED
      BY <1>0, <2>2, <2>3, <3>1, <3>2 DEF NamedAt, At, Writing0, BpLabel
  <2>9. \A b \in Bufs : "ERROR" \in b_flags'[b] => "ERROR" \in b_flags[b]
    <3>1. \A f \in {"DELWRI", "ERROR"} : f \in b_flags'[c] <=> f \in b_flags[c]
      BY <2>3, <2>4
    <3> QED
      BY <2>4, <3>1
  <2>10. UNCHANGED <<b_vp, b_bcount>>
    BY <2>2
  <2> QED
    BY <2>6, <2>7, <2>8, <2>9, <2>10 DEF Tame
<1>2. CASE GetnewbufClean(p)
  <2>1. PICK c \in Candidates :
          /\ b_bcount' = [b_bcount EXCEPT ![c] = 0]
          /\ IF call[p].op = "geteblk"
             THEN /\ b_flags' = [b_flags EXCEPT ![c] = {"BUSY", "INVAL"}]
                  /\ b_vp' = [b_vp EXCEPT ![c] = NoVnode]
             ELSE /\ b_flags' = [b_flags EXCEPT ![c] = {"BUSY"}]
                  /\ b_vp' = [b_vp EXCEPT ![c] = call[p].vp]
          /\ bp' = [bp EXCEPT ![p] = c]
    BY <1>2 DEF GetnewbufClean
  <2>2. /\ pc[p] = "getnewbuf" /\ pc' = [pc EXCEPT ![p] = "brealloc"]
        /\ UNCHANGED <<call, gret, first, wrVars>>
        /\ call[p].vp \in Vnodes
    BY <1>2 DEF GetnewbufClean, Goto, FaultInv, StoreInv, IInv, Control, At,
       Writing0
  <2>3. c \in Bufs /\ "BUSY" \notin b_flags[c]
    BY <1>b DEF Candidates
  <2>4. /\ \A b \in Bufs \ {c} : UNCHANGED <<b_flags[b], b_vp[b], b_bcount[b]>>
        /\ {"DELWRI", "ERROR"} \cap b_flags'[c] = {}
        /\ b_vp'[c] = IF call[p].op = "geteblk" THEN NoVnode ELSE call[p].vp
    <3> USE <1>0, <2>1, <2>3 DEF TypeOK, BufType
    <3>1. CASE call[p].op = "geteblk"
      BY <3>1
    <3>2. CASE call[p].op # "geteblk"
      BY <3>2
    <3> QED
      BY <3>1, <3>2
  <2>5. \A b \in Bufs : OwingAt(b)'
    BY <1>0, <2>4 DEF OwingAt
  <2>6. OthersSit(p)
    BY <1>0, <2>1, <2>2 DEF OthersSit, TypeOK, SchedType, LocType
  <2>7. NamedAt(p)'
    <3>1. pc'[p] = "brealloc" /\ bp'[p] = c
      BY <1>0, <2>1, <2>2 DEF TypeOK, SchedType, LocType
    <3>2. first[p] # NoBuf => first[p] \in Bufs \ {c}
      BY <1>0, <1>a, <2>3 DEF Has
    <3> QED
      BY <1>0, <2>2, <2>4, <3>1, <3>2 DEF NamedAt, At, Writing0, BpLabel
  <2> QED
    BY <2>3, <2>4, <2>5, <2>6, <2>7 DEF Tame
<1>3. CASE BreallocDone(p)
  <2>1. /\ pc[p] = "brealloc" /\ pc' = [pc EXCEPT ![p] = gret[p]]
        /\ b_bcount' = [b_bcount EXCEPT ![bp[p]] = call[p].size]
        /\ UNCHANGED <<b_flags, b_vp, locVars>>
    BY <1>3 DEF BreallocDone, Goto
  <2>2. bp[p] \in Bufs /\ Has(p, bp[p]) /\ call[p].size \in Nat \ {0}
    <3>1. call[p].size \in Sizes
      BY <1>0, <2>1 DEF NamedAt, At, Writing0
    <3>2. \A n \in Sizes : n \in Nat \ {0}
      OBVIOUS
    <3> QED
      BY <1>0, <2>1, <3>1, <3>2 DEF At, Writing0, BpLabel, Has
  <2>3. \A b \in Bufs : b_bcount'[b] = IF b = bp[p] THEN call[p].size ELSE b_bcount[b]
    BY <1>0, <2>1, <2>2 DEF TypeOK, BufType
  <2>4. \A b \in Bufs : OwingAt(b)'
    BY <1>0, <2>1, <2>2, <2>3 DEF OwingAt
  <2>5. OthersSit(p)
    BY <1>0, <2>1 DEF OthersSit, TypeOK, SchedType
  <2>6. NamedAt(p)'
    <3>1. pc'[p] = gret[p] /\ gret[p] \notin Writing0
      BY <1>0, <2>1 DEF TypeOK, SchedType, Writing0
    <3>2. first[p] # NoBuf => first[p] \in Bufs \ {bp[p]}
      BY <1>0, <2>2 DEF FaultInv, StoreInv, IInv, OnlyOwner
    <3> QED
      BY <1>0, <2>1, <2>2, <2>3, <3>1, <3>2 DEF NamedAt, At, Writing0, BpLabel
  <2> QED
    BY <2>1, <2>2, <2>3, <2>4, <2>5, <2>6 DEF Tame
<1> QED
  BY <1>1, <1>2, <1>3

\* binvalfree takes the vnode of clean buffers on the free lists.
LEMMA DropTame ==
  ASSUME FaultInv, NEW p \in Procs, BinvalfreeWrite(p) \/ BinvalfreeDone(p)
  PROVE  Tame(p)
<1>0. TypeOK /\ NamedAt(p) /\ (wb[p] # NoBuf <=> pc[p] \in Writing0)
      /\ \A b \in Bufs : OwingAt(b)
  BY NamedBuffers DEF FaultInv, Owing
<1>f. pc[p] = "binvalfree" => first[p] = NoBuf
  BY NamedBuffers DEF At, Writing0, FirstLabel
<1>b. \A b \in Bufs : "BUSY" \in b_flags[b] <=> freeq[b] = "none"
  BY DEF FaultInv, StoreInv, IInv, Owned
<1>1. PICK S \in SUBSET Bufs :
        /\ \A b \in S : "BUSY" \notin b_flags[b] /\ "DELWRI" \notin b_flags[b]
        /\ \A b \in Bufs : b_vp'[b] = IF b \in S THEN NoVnode ELSE b_vp[b]
        /\ \A b \in Bufs, f \in {"DELWRI", "DONE", "ERROR"} :
             f \in b_flags'[b] <=> f \in b_flags[b]
        /\ UNCHANGED b_bcount
  <2>1. CASE BinvalfreeWrite(p)
    <3>1. PICK c \in FreeOf(call[p].vp),
               S \in SUBSET {d \in FreeOf(call[p].vp) : "DELWRI" \notin b_flags[d]} :
            /\ Drop(S)
            /\ b_flags' = [Marked(S, {"INVAL"}) EXCEPT ![c] =
                             @ \cup {"BUSY", "ASYNC"}]
      BY <2>1 DEF BinvalfreeWrite
    <3>2. \A b \in Bufs, f \in {"DELWRI", "DONE", "ERROR"} :
             f \in b_flags'[b] <=> f \in b_flags[b]
      BY <3>1 DEF Marked
    <3> QED
      BY <1>b, <3>1, <3>2 DEF FreeOf, Drop
  <2>2. CASE BinvalfreeDone(p)
    <3>1. /\ Drop(FreeOf(call[p].vp))
          /\ b_flags' = Marked(FreeOf(call[p].vp), {"INVAL"})
          /\ \A b \in FreeOf(call[p].vp) : "DELWRI" \notin b_flags[b]
      BY <2>2 DEF BinvalfreeDone
    <3>2. \A b \in Bufs, f \in {"DELWRI", "DONE", "ERROR"} :
             f \in b_flags'[b] <=> f \in b_flags[b]
      BY <3>1 DEF Marked
    <3> QED
      BY <1>b, <3>1, <3>2 DEF FreeOf, Drop
  <2> QED
    BY <2>1, <2>2
<1>2. NamedAt(p)' /\ OthersSit(p)
  <2>1. CASE BinvalfreeWrite(p)
    <3>1. PICK c \in Bufs : /\ "DELWRI" \in b_flags[c]
                            /\ CallBwrite(p, c, "binvalfree")
      BY <2>1 DEF BinvalfreeWrite, FreeOf
    <3>2. /\ pc[p] = "binvalfree" /\ pc'[p] = "bwrite" /\ wb'[p] = c
          /\ wret'[p] = "binvalfree"
          /\ UNCHANGED <<call, gret, holdVars>>
          /\ \A q \in Procs \ {p} : UNCHANGED <<pc[q], wb[q], wret[q]>>
      BY <1>0, <2>1, <3>1 DEF BinvalfreeWrite, CallBwrite, Goto, TypeOK,
         SchedType, LocType
    <3>3. b_vp'[c] # NoVnode
      BY <1>0, <1>1, <3>1 DEF OwingAt
    <3> QED
      BY <1>0, <1>f, <3>2, <3>3 DEF NamedAt, At, Writing0, BpLabel, OthersSit
  <2>2. CASE BinvalfreeDone(p)
    <3>1. /\ pc[p] = "binvalfree" /\ pc'[p] = "user" /\ call'[p] = NoCall
          /\ UNCHANGED <<holdVars, wrVars>>
          /\ \A q \in Procs \ {p} : UNCHANGED <<pc[q], call[q], gret[q]>>
      BY <1>0, <2>2 DEF BinvalfreeDone, Return, Yield, TypeOK, SchedType, LocType
    <3> QED
      BY <1>0, <1>f, <3>1 DEF NamedAt, At, Writing0, BpLabel, OthersSit, NoCall
  <2> QED
    BY <2>1, <2>2
<1>3. \A b \in Bufs : OwingAt(b)'
  BY <1>0, <1>1 DEF OwingAt
<1> QED
  BY <1>1, <1>2, <1>3 DEF Tame

\* A transfer that ends takes a vnode only from a buffer no process has; one
\* that fails is of a buffer that owes nothing.
LEMMA BiodoneNamed ==
  ASSUME FaultInv, Steady, NEW c \in Bufs, NEW ok \in BOOLEAN, Biodone(c, ok)
  PROVE  (IOErrors \/ NoErrors)' /\ Owing' /\ Named'
<1>1. /\ \A b \in Bufs \ {c} : UNCHANGED <<b_flags[b], b_vp[b]>>
      /\ UNCHANGED <<b_bcount, pc, locVars>>
      /\ "DELWRI" \in b_flags'[c] <=> "DELWRI" \in b_flags[c]
      /\ "ERROR" \in b_flags'[c] <=> "ERROR" \in b_flags[c] \/ ~ ok
  BY BiodoneEffect DEF FaultInv
<1>2. c \in io /\ "DONE" \notin b_flags[c] /\ "DONE" \in b_flags'[c]
  BY DEF Biodone, brelse, FaultInv, StoreInv, IInv, TypeOK, BufType
<1>3. ~ ok => IOErrors
  BY DEF Biodone
<1>4. Owing'
  <2>1. OwingAt(c)
    BY DEF FaultInv, Owing
  <2>2. "DELWRI" \in b_flags[c] => ~ OneSize
    BY <1>2, <2>1 DEF OwingAt
  <2>3. "DELWRI" \in b_flags[c] => "ERROR" \notin b_flags[c] /\ ok
    BY <1>3, <2>1, <2>2 DEF OwingAt, Steady
  <2>4. "ERROR" \notin b_flags'[c] => b_vp'[c] = b_vp[c]
    BY DEF Biodone, brelse, FaultInv, StoreInv, IInv, TypeOK, BufType
  <2>5. OwingAt(c)'
    BY <1>1, <2>1, <2>2, <2>3, <2>4 DEF OwingAt
  <2>6. ASSUME NEW b \in Bufs
        PROVE  OwingAt(b)'
    <3>1. OwingAt(b)
      BY DEF FaultInv, Owing
    <3> QED
      BY <1>1, <2>5, <3>1 DEF OwingAt
  <2> QED
    BY <2>6 DEF Owing
<1>5. (IOErrors \/ NoErrors)'
  BY <1>1, <1>3 DEF FaultInv, NoErrors
<1>6. ASSUME NEW q \in Procs
      PROVE  NamedAt(q)'
  <2>1. /\ pc[q] = "bwrite" => wb[q] \in Bufs /\ wb[q] # c
        /\ pc[q] = "dirty" => bp[q] \in Bufs /\ bp[q] # c
        /\ first[q] # NoBuf => first[q] \in Bufs /\ Has(q, first[q])
        /\ At(q) \in BpLabel => bp[q] \in Bufs /\ Has(q, bp[q])
    BY <1>2 DEF FaultInv, StoreInv, IInv, TypeOK, LocType, Buf0, Control, Has, At,
       Writing0, BpLabel, UnderWay
  <2>2. Has(q, c) => b_vp'[c] = b_vp[c]
    <3>1. Has(q, c) => "ASYNC" \notin b_flags[c]
      BY <1>2 DEF FaultInv, StoreInv, IInv, OnlyOwner, Driven
    <3> QED
      BY <3>1 DEF Biodone
  <2>3. NamedAt(q)
    BY DEF FaultInv, Named
  <2>4. /\ pc[q] = "bwrite" => b_vp'[wb[q]] = b_vp[wb[q]]
        /\ pc[q] = "dirty" => b_flags'[bp[q]] = b_flags[bp[q]]
        /\ first[q] # NoBuf => b_vp'[first[q]] = b_vp[first[q]]
        /\ At(q) \in BpLabel => b_vp'[bp[q]] = b_vp[bp[q]]
    BY <1>1, <2>1, <2>2
  <2> QED
    BY <1>1, <2>3, <2>4 DEF NamedAt, At, BpLabel
<1> QED
  BY <1>4, <1>5, <1>6 DEF Named

\* Every step of a process is tame.
LEMMA NextTame ==
  ASSUME FaultInv, Steady, NEW p \in Procs, Step(p)
  PROVE  Tame(p)
<1>1. CASE Lookup(p)
  BY <1>1, LookupTame, TakeTame, ReleaseTame DEF Lookup
<1>2. CASE Reading(p)
  BY <1>2, ReadTame, ReleaseTame DEF Reading, BreadaSecond
<1>3. CASE Using(p)
  BY <1>3, ReleaseTame, IdleTame DEF Using
<1>4. CASE Writing(p)
  BY <1>4, BwriteTame, ReadTame, ReleaseTame, IdleTame DEF Writing
<1>5. CASE Flushing(p)
  <2>1. ~ Binval(p)
    BY DEF FaultInv, StoreInv, NoBinval, Binval
  <2> QED
    BY <1>5, <2>1, IdleTame, LookupTame, DropTame DEF Flushing
<1> QED
  BY <1>1, <1>2, <1>3, <1>4, <1>5 DEF Step

\* Every step keeps the vnodes of the buffers in use.
LEMMA NextNamed ==
  ASSUME FaultInv, Steady, [Next]_vars
  PROVE  (IOErrors \/ NoErrors)' /\ Owing' /\ Named'
<1>1. ASSUME NEW p \in Procs, Tame(p)
      PROVE  (IOErrors \/ NoErrors)' /\ Owing' /\ Named'
  BY <1>1, TameStep
<1>2. ASSUME NEW p \in Procs, NEW o \in Ops, NEW vp \in Vnodes,
             NEW blk \in Block, NEW ra \in DevBlks, Call(p, o, vp, blk, ra)
      PROVE  (IOErrors \/ NoErrors)' /\ Owing' /\ Named'
  BY <1>1, <1>2, CallTame
<1>3. ASSUME NEW p \in Procs, Step(p)
      PROVE  Tame(p)
  BY <1>3, NextTame
<1>4. ASSUME NEW b \in Bufs, NEW ok \in BOOLEAN, Biodone(b, ok)
      PROVE  (IOErrors \/ NoErrors)' /\ Owing' /\ Named'
  BY <1>4, BiodoneNamed
<1>5. CASE UNCHANGED vars
  BY <1>5 DEF vars, FaultInv, NoErrors, Owing, OwingAt, Named, NamedAt, At
<1> QED
  BY <1>1, <1>2, <1>3, <1>4, <1>5 DEF Next

\* Nobody comes to write a group but bflush, by steps that keep the processor
\* when the strategy routine does not sleep.
LEMMA ElsewhereStep ==
  ASSUME FaultInv, NEW p \in Procs,
         \/ \E o \in Ops, vp \in Vnodes, blk \in Block, ra \in DevBlks :
              Call(p, o, vp, blk, ra)
         \/ Lookup(p) \/ Reading(p) \/ Using(p)
         \/ BflushDone(p) \/ BlkflushBusy(p) \/ BlkflushWrite(p)
         \/ BlkflushDone(p) \/ BinvalfreeWrite(p) \/ BinvalfreeDone(p)
  PROVE  At(p)' # "bflush_w"
<1>0. /\ pc \in [Procs -> Label] /\ wret \in [Procs -> Label]
      /\ gret[p] \in {"bread", "hold", "breada1", "breada2"}
  BY NamedBuffers DEF TypeOK, SchedType, LocType
<1> USE <1>0 DEF At, Writing0
<1>1. ASSUME NEW o \in Ops, NEW vp \in Vnodes, NEW blk \in Block,
             NEW ra \in DevBlks, Call(p, o, vp, blk, ra)
      PROVE  At(p)' # "bflush_w"
  <2>1. o \in AllOps
    OBVIOUS
  <2>2. pc'[p] \in {"getblk", "getnewbuf", "bflush", "breada", "blkflush",
                    "binvalfree", "binval"}
    BY <1>1, <2>1 DEF Call, Goto, AllOps
  <2> QED
    BY <2>2
<1>2. CASE Lookup(p)
  <2>1. CASE GetblkBusy(p) \/ BreallocBusy(p)
    BY <2>1 DEF GetblkBusy, BreallocBusy, WaitFor, Sleep, Yield
  <2>2. CASE GetblkHit(p) \/ GetblkMiss(p) \/ GetnewbufWait(p) \/ GetnewbufClean(p)
    BY <2>2 DEF GetblkHit, GetblkMiss, GetnewbufWait, GetnewbufClean, Sleep,
       Yield, Goto
  <2>3. CASE GetnewbufDirty(p) \/ BreallocShrink(p) \/ BreallocFlush(p)
    BY <2>3 DEF GetnewbufDirty, BreallocShrink, BreallocFlush, CallBwrite, Goto
  <2>4. CASE BreallocDone(p) \/ BreallocInval(p)
    BY <2>4 DEF BreallocDone, BreallocInval, Goto
  <2> QED
    BY <1>2, <2>1, <2>2, <2>3, <2>4 DEF Lookup
<1>3. CASE Reading(p)
  <2>1. CASE Bread(p) \/ Biowait(p) \/ BreadaStart(p)
    BY <2>1 DEF Bread, Biowait, BreadaStart, Strategy, Sleep, Yield, Goto
  <2>2. CASE Breada(p) \/ BreadaAhead(p) \/ BreadaEnd(p)
    BY <2>2 DEF Breada, BreadaAhead, BreadaEnd, Goto
  <2>3. CASE BreadaSecond(p)
    BY <2>3 DEF BreadaSecond, BreadaAheadHit, BreadaAheadStart, Strategy, Yield, Goto
  <2> QED
    BY <1>3, <2>1, <2>2, <2>3 DEF Reading
<1>4. CASE Using(p)
  <2>1. CASE Release(p) \/ Bdwrite(p)
    BY <2>1 DEF Release, Bdwrite, Return, Yield
  <2>2. CASE (\E v \in Vals : Modify(p, v)) \/ \E async \in BOOLEAN : WriteOut(p, async)
    BY <2>2 DEF Modify, WriteOut, CallBwrite, Yield, Goto
  <2> QED
    BY <1>4, <2>1, <2>2 DEF Using
<1>5. CASE BflushDone(p) \/ BlkflushDone(p) \/ BinvalfreeDone(p)
  BY <1>5 DEF BflushDone, BlkflushDone, BinvalfreeDone, Return, Yield
<1>6. CASE BlkflushBusy(p) \/ BlkflushWrite(p) \/ BinvalfreeWrite(p)
  BY <1>6 DEF BlkflushBusy, WaitFor, Sleep, Yield, BlkflushWrite,
     BinvalfreeWrite, CallBwrite, Goto
<1> QED
  BY <1>1, <1>2, <1>3, <1>4, <1>5, <1>6

LEMMA NextGrouped ==
  ASSUME FaultInv, Grouped, Steady, ~ Remote, [Next]_vars
  PROVE  Grouped'
<1>0. TypeOK
  BY DEF FaultInv, StoreInv, IInv
<1>1. ASSUME NEW p \in Procs, Runs(p), Tame(p), GroupedAt(p)'
      PROVE  Grouped'
  <2>1. ASSUME NEW q \in Procs \ {p}
        PROVE  At(q)' # "bflush_w"
    <3>1. At(q) # "bflush_w"
      BY <1>1, <2>1 DEF Grouped, GroupedAt, Runs
    <3> QED
      BY <1>1, <2>1, <3>1 DEF Tame, OthersSit, At
  <2> QED
    BY <1>1, <2>1 DEF Grouped, GroupedAt
<1>2. ASSUME NEW p \in Procs, NEW o \in Ops, NEW vp \in Vnodes,
             NEW blk \in Block, NEW ra \in DevBlks, Call(p, o, vp, blk, ra)
      PROVE  Grouped'
  <2>1. At(p)' # "bflush_w"
    BY <1>2, ElsewhereStep
  <2>2. Runs(p)
    BY <1>2 DEF Call
  <2> QED
    BY <1>1, <1>2, <2>1, <2>2, CallTame DEF GroupedAt
<1>3. ASSUME NEW p \in Procs, Step(p)
      PROVE  Grouped'
  <2>1. Runs(p)
    <3>1. CASE Lookup(p)
      BY <3>1 DEF Lookup, GetblkBusy, GetblkHit, GetblkMiss, GetnewbufWait,
         GetnewbufDirty, GetnewbufClean, BreallocDone, BreallocShrink,
         BreallocBusy, BreallocFlush, BreallocInval
    <3>2. CASE Reading(p)
      BY <3>2 DEF Reading, Bread, Biowait, Breada, BreadaStart, BreadaAhead,
         BreadaSecond, BreadaAheadHit, BreadaAheadStart, BreadaEnd
    <3>3. CASE Using(p) \/ Writing(p)
      BY <3>3 DEF Using, Release, Bdwrite, Modify, WriteOut, Writing, Bwrite,
         BwriteAsync, BwriteWait, BwriteDone, StrategyNoVnode
    <3>4. CASE Flushing(p)
      BY <3>4 DEF Flushing, BflushCollect, BflushDone, BflushWrite, BflushSteal,
         BflushSkip, BlkflushBusy, BlkflushWrite, BlkflushDone,
         BinvalfreeWrite, BinvalfreeDone, Binval
    <3> QED
      BY <1>3, <3>1, <3>2, <3>3, <3>4 DEF Step
  <2>2. Tame(p)
    BY <1>3, NextTame
  <2>3. GroupedAt(p)'
    <3>0. GroupedAt(p) /\ wret[p] \notin Writing0 /\ (wb[p] # NoBuf <=> pc[p] \in Writing0)
      BY DEF Grouped, FaultInv, StoreInv, IInv, Control, Writing0
    <3> USE <1>0, <3>0 DEF TypeOK, SchedType, LocType, BufType, Buf0
    <3>1. CASE BflushCollect(p)
      BY <3>1 DEF BflushCollect, DirtyFree, Grab, Goto, GroupedAt, At, Writing0
    <3>2. CASE BflushWrite(p)
      <4>1. PICK b \in group[p] : /\ notavail(b, {"ASYNC"})
                                  /\ CallBwrite(p, b, "bflush_w")
                                  /\ group' = [group EXCEPT ![p] = @ \ {b}]
        BY <3>2 DEF BflushWrite
      <4>2. pc[p] = "bflush_w" /\ \A c \in group[p] : freeq[c] # "none"
        BY <3>2 DEF BflushWrite, GroupedAt, At, Writing0
      <4>3. b \in Bufs /\ group[p] \subseteq Bufs
        OBVIOUS
      <4>4. /\ cpu' = p /\ pc'[p] = "bwrite" /\ wb'[p] = b
            /\ group'[p] = group[p] \ {b}
            /\ "ASYNC" \in b_flags'[b]
            /\ \A c \in Bufs \ {b} : freeq'[c] = freeq[c]
        BY <4>1, <4>3 DEF notavail, CallBwrite, Goto
      <4> QED
        BY <4>2, <4>3, <4>4 DEF GroupedAt
    <3>3. CASE BflushSkip(p)
      <4>1. /\ pc[p] = "bflush_w" /\ cpu' = p /\ pc'[p] \in {"bflush", "bflush_w"}
            /\ group'[p] \subseteq group[p] /\ UNCHANGED freeq
        BY <3>3 DEF BflushSkip, Goto
      <4> QED
        BY <4>1 DEF GroupedAt, At, Writing0
    <3>4. CASE BflushSteal(p) \/ StrategyNoVnode(p)
      BY <3>4 DEF BflushSteal, StrategyNoVnode, Crash, GroupedAt, At
    <3>5. CASE Bwrite(p)
      <4>1. /\ pc[p] = "bwrite" /\ pc'[p] = "bwstrat" /\ cpu' = p
            /\ wflag'[p] = b_flags[wb[p]] \cap {"ASYNC", "DELWRI"}
            /\ UNCHANGED <<freeq, group, wret, wb>>
        BY <3>5 DEF Bwrite, Strategy, Goto
      <4> QED
        BY <4>1 DEF GroupedAt, At, Writing0
    <3>6. CASE BwriteAsync(p)
      <4>1. /\ pc[p] = "bwstrat" /\ pc'[p] = wret[p]
            /\ wret[p] # "user" => cpu' = p
            /\ UNCHANGED <<freeq, group>>
        BY <3>6 DEF BwriteAsync, BwriteReturn, Return, Yield, Goto
      <4> QED
        BY <4>1 DEF GroupedAt, At, Writing0
    <3>7. CASE BwriteWait(p) \/ BwriteDone(p)
      <4>1. /\ pc[p] \in {"bwstrat", "bwait"} /\ "ASYNC" \notin wflag[p]
            /\ \/ pc'[p] = "bwait" /\ wret'[p] = wret[p]
               \/ pc'[p] = wret[p]
        BY <3>7 DEF BwriteWait, Sleep, Yield, BwriteDone, BwriteReturn, Return,
           Goto
      <4>2. At(p) # "bflush_w"
        BY <4>1 DEF GroupedAt
      <4> QED
        BY <4>1, <4>2 DEF GroupedAt, At, Writing0
    <3>8. CASE \/ Lookup(p) \/ Reading(p) \/ Using(p)
               \/ BflushDone(p) \/ BlkflushBusy(p) \/ BlkflushWrite(p)
               \/ BlkflushDone(p) \/ BinvalfreeWrite(p) \/ BinvalfreeDone(p)
      <4>1. At(p)' # "bflush_w"
        BY <3>8, ElsewhereStep
      <4> QED
        BY <4>1 DEF GroupedAt
    <3>9. ~ Binval(p)
      BY DEF FaultInv, StoreInv, NoBinval, Binval
    <3> QED
      BY <1>3, <3>1, <3>2, <3>3, <3>4, <3>5, <3>6, <3>7, <3>8, <3>9, Zenon
         DEF Step, Writing, Flushing
  <2> QED
    BY <1>1, <2>1, <2>2, <2>3
<1>4. ASSUME NEW c \in Bufs, NEW ok \in BOOLEAN, Biodone(c, ok)
      PROVE  Grouped'
  <2>1. /\ UNCHANGED <<cpu, pc, locVars>>
        /\ \A b \in Bufs : freeq[b] # "none" => freeq'[b] # "none"
        /\ \A b \in Bufs \ {c} : b_flags'[b] = b_flags[b]
    BY <1>0, <1>4 DEF Biodone, brelse, TypeOK, BufType
  <2>2. \A q \in Procs : pc[q] = "bwrite" => wb[q] \in Bufs \ {c}
    BY <1>4 DEF Biodone, FaultInv, StoreInv, IInv, UnderWay, Control, TypeOK,
       LocType, Buf0, Writing0
  <2>3. \A q \in Procs : group[q] \subseteq Bufs
    BY <1>0 DEF TypeOK, LocType
  <2> QED
    BY <2>1, <2>2, <2>3 DEF Grouped, GroupedAt, At
<1>5. CASE UNCHANGED vars
  BY <1>5 DEF vars, Grouped, GroupedAt, At
<1> QED
  BY <1>2, <1>3, <1>4, <1>5 DEF Next

\* With these invariants, neither panic is enabled.
LEMMA NextNoFault ==
  ASSUME FaultInv, Grouped, NoFault, [Next]_vars
  PROVE  NoFault'
<1>1. ASSUME NEW p \in Procs, StrategyNoVnode(p)
      PROVE  FALSE
  BY <1>1, NamedBuffers DEF StrategyNoVnode, NamedAt, At, Writing0, BpLabel
<1>2. ASSUME NEW p \in Procs, BflushSteal(p)
      PROVE  FALSE
  BY <1>2 DEF BflushSteal, Grouped, GroupedAt, At, Writing0
<1>3. ASSUME NEW p \in Procs, Step(p)
      PROVE  UNCHANGED fault
  <2>1. CASE Lookup(p)
    BY <2>1 DEF Lookup, GetblkBusy, GetblkHit, GetblkMiss, GetnewbufWait,
       GetnewbufDirty, GetnewbufClean, BreallocDone, BreallocShrink,
       BreallocBusy, BreallocFlush, BreallocInval, CallBwrite, WaitFor
  <2>2. CASE Reading(p)
    BY <2>2 DEF Reading, Bread, Biowait, Breada, BreadaStart, BreadaAhead,
       BreadaSecond, BreadaAheadHit, BreadaAheadStart, BreadaEnd
  <2>3. CASE Using(p) \/ Writing(p)
    BY <1>1, <2>3 DEF Using, Release, Bdwrite, Modify, WriteOut, Writing, Bwrite,
       BwriteAsync, BwriteWait, BwriteDone, BwriteReturn, CallBwrite
  <2>4. CASE Flushing(p)
    BY <1>2, <2>4 DEF Flushing, BflushCollect, BflushDone, BflushWrite,
       BflushSkip, BlkflushBusy, BlkflushWrite, BlkflushDone,
       BinvalfreeWrite, BinvalfreeDone, Binval, CallBwrite, WaitFor
  <2> QED
    BY <1>3, <2>1, <2>2, <2>3, <2>4 DEF Step
<1>4. ASSUME NEW p \in Procs, NEW o \in Ops, NEW vp \in Vnodes,
             NEW blk \in Block, NEW ra \in DevBlks, Call(p, o, vp, blk, ra)
      PROVE  UNCHANGED fault
  BY <1>4 DEF Call
<1>5. ASSUME NEW b \in Bufs, NEW ok \in BOOLEAN, Biodone(b, ok)
      PROVE  UNCHANGED fault
  BY <1>5 DEF Biodone
<1>6. CASE UNCHANGED vars
  BY <1>6 DEF vars, NoFault
<1> QED
  BY <1>3, <1>4, <1>5, <1>6 DEF Next, NoFault

LEMMA InitFault == Init => FaultInv /\ Grouped /\ NoFault
<1> SUFFICES ASSUME Init PROVE FaultInv /\ Grouped /\ NoFault
  OBVIOUS
<1>1. StoreInv
  BY InitStore
<1>2. NoErrors /\ Owing
  BY DEF Init, NoErrors, Owing, OwingAt
<1>3. Named
  BY DEF Init, Named, NamedAt, At, Writing0, BpLabel, NoCall
<1>4. Grouped /\ NoFault
  BY DEF Init, Grouped, GroupedAt, At, Writing0, NoFault
<1> QED
  BY <1>1, <1>2, <1>3, <1>4 DEF FaultInv

\* No panic: on local disks, in a system that does not call binval and in which
\* transfers do not fail or all buffers have one size, no strategy routine is
\* called through a null vnode, whatever failing transfers and binvalfree take
\* vnodes from, and bflush takes no buffer off a free list it has left since
\* the group was noted.
THEOREM NoPanic ==
  ASSUME ~ Remote, Steady PROVE Spec => []NoFault
<1>1. Init => FaultInv /\ Grouped /\ NoFault
  BY InitFault
<1>2. ASSUME FaultInv, Grouped, NoFault, StoreInv', [Next]_vars
      PROVE  (FaultInv /\ Grouped /\ NoFault)'
  BY <1>2, NextNamed, NextGrouped, NextNoFault DEF FaultInv
<1>3. "binval" \notin Ops
  BY DEF Steady
<1>4. Spec => []StoreInv
  BY <1>3, StoreInvariant
<1> QED
  BY <1>1, <1>2, <1>4, PTL DEF Spec
=============================================================================
