--------------------------- MODULE BufCacheProofs ---------------------------
(***************************************************************************)
(* Proofs about BufCache for every number of processes, buffers, vnodes    *)
(* and blocks: type correctness, exclusive use of the buffers, no double   *)
(* biodone, one mapping of each block, no lost wakeup.  The inductive      *)
(* invariant says, beside the type, which buffers a process has at each    *)
(* label (Control), and how B_BUSY, B_ASYNC and the transfers under way    *)
(* determine who has to release a buffer (Owned, OnlyOwner, UnderWay); for *)
(* the sleepers, that a transfer somebody is going to wait for has been    *)
(* started (Started), and what is true of a channel while somebody sleeps  *)
(* on it (Waiting).                                                        *)
(***************************************************************************)
EXTENDS BufCache, TLAPS

Writing0 == {"bwrite", "bwstrat", "bwait"}

\* Where p is, the call of bwrite it may be in left aside.
At(p) == IF pc[p] \in Writing0 THEN wret[p] ELSE pc[p]

\* Labels at which bp is a buffer, and at which first may be one.
BpLabel == {"brealloc", "bread", "biowait", "hold", "dirty", "breada1",
            "breada2"}
FirstLabel == {"getblk", "getnewbuf", "brealloc", "breada2"}

Control ==
  \A p \in Procs :
    /\ wb[p] # NoBuf <=> pc[p] \in Writing0
    /\ wret[p] \in {"user", "getblk", "getnewbuf", "brealloc", "bflush_w",
                    "blkflush", "binvalfree"}
    /\ pc[p] = "bwait" => "ASYNC" \notin wflag[p]
    /\ gret[p] \in {"bread", "hold", "breada1", "breada2"}
    /\ bp[p] # NoBuf <=> At(p) \in BpLabel
    /\ first[p] # NoBuf => \/ At(p) \in {"breada_ra", "breada_end"}
                           \/ At(p) \in FirstLabel /\ gret[p] = "breada2"
    /\ At(p) # "user" => call[p].vp \in Vnodes

\* p has to release b.
Has(p, b) ==
  \/ bp[p] = b
  \/ first[p] = b
  \/ wb[p] = b /\ ~ (pc[p] = "bwstrat" /\ "ASYNC" \in wflag[p])

\* The driver of b will release b.
Driven(b) == b \in io /\ "ASYNC" \in b_flags[b]

\* Every busy buffer has somebody to release it ...
Owned ==
  \A b \in Bufs : /\ "BUSY" \in b_flags[b] <=> freeq[b] = "none"
                  /\ "BUSY" \in b_flags[b] => Driven(b) \/ \E p \in Procs : Has(p, b)

\* ... and only one: the process that has it, in one role, or the driver.
OnlyOwner ==
  /\ \A p \in Procs, b \in Bufs : Has(p, b) =>
       "BUSY" \in b_flags[b] /\ ~ Driven(b) /\ \A q \in Procs : Has(q, b) => q = p
  /\ \A p \in Procs : /\ bp[p] = first[p] => bp[p] = NoBuf
                      /\ wb[p] \in {bp[p], first[p]} /\ Has(p, wb[p])
                           => wb[p] = NoBuf

\* A buffer whose transfer is under way is busy, not done and of a known
\* device; B_ASYNC is set from the start of a transfer to its end; a process
\* has such a buffer only where it waits for it.
UnderWay ==
  /\ \A b \in io : /\ "BUSY" \in b_flags[b] /\ "DONE" \notin b_flags[b]
                   /\ b_dev[b] \in Vnodes
  /\ \A b \in Bufs : b_vp[b] # NoVnode => b_dev[b] = b_vp[b]
  /\ \A b \in Bufs : "ASYNC" \in b_flags[b] =>
       b \in io \/ \E p \in Procs : pc[p] = "bwrite" /\ wb[p] = b
  /\ \A p \in Procs : /\ bp[p] \in io => At(p) = "biowait"
                      /\ pc[p] = "bwrite" => wb[p] \notin io

IInv == TypeOK /\ Control /\ Owned /\ OnlyOwner /\ UnderWay

USE ConstAssumption
USE DEF bufVars, idVars, listVars, storeVars, holdVars, wrVars, locVars
-----------------------------------------------------------------------------
\* The record of no call is a call record.
LEMMA NoCallType == NoCall \in CallRecord
  BY DEF NoCall, CallRecord, DevBlks

\* A step of p keeps Owned if p, or a driver, has every buffer that becomes
\* busy or that p or a driver had, and the others keep theirs.
LEMMA OwnedStep ==
  ASSUME Owned, NEW p \in Procs,
         \A c \in Bufs : "BUSY" \in b_flags'[c] <=> freeq'[c] = "none",
         \A c \in Bufs : "BUSY" \in b_flags'[c] =>
           \/ Has(p, c)' \/ Driven(c)'
           \/ "BUSY" \in b_flags[c] /\ ~ Driven(c) /\ ~ Has(p, c),
         \A q \in Procs, c \in Bufs : q # p /\ Has(q, c) => Has(q, c)'
  PROVE  Owned'
<1>1. ASSUME NEW c \in Bufs, "BUSY" \in b_flags'[c]
      PROVE  Driven(c)' \/ \E q \in Procs : Has(q, c)'
  <2>1. CASE Has(p, c)' \/ Driven(c)'
    BY <2>1
  <2>2. CASE "BUSY" \in b_flags[c] /\ ~ Driven(c) /\ ~ Has(p, c)
    <3>1. PICK q \in Procs : Has(q, c)
      BY <2>2, Zenon DEF Owned
    <3> QED
      BY <2>2, <3>1, Zenon
  <2> QED
    BY <1>1, <2>1, <2>2
<1> QED
  BY <1>1, Zenon DEF Owned

\* The inductive invariant holds after binit ...
LEMMA InitI == Init => IInv
<1> SUFFICES ASSUME Init PROVE IInv
  OBVIOUS
<1>0. 0 \in DevBlks
  BY DEF DevBlks
<1>1. BufType
  BY <1>0 DEF Init, BufType, Flag, Queue
<1>2. StoreType
  BY DEF Init, StoreType
<1>3. SchedType
  BY DEF Init, SchedType, Chans, Buf0, Label
<1>4. LocType
  BY NoCallType DEF Init, LocType, Buf0, Label
<1>5. Control
  BY DEF Init, Control, At, Writing0, BpLabel
<1>6. Owned /\ OnlyOwner /\ UnderWay
  BY DEF Init, Owned, OnlyOwner, UnderWay, Has, Driven
<1> QED BY <1>1, <1>2, <1>3, <1>4, <1>5, <1>6 DEF IInv, TypeOK

\* ... and implies what is to be shown of a state.
LEMMA SafeI == IInv => TypeOK /\ ExclusiveUse /\ NoDupBiodone
<1> SUFFICES ASSUME IInv PROVE TypeOK /\ ExclusiveUse /\ NoDupBiodone
  OBVIOUS
<1>1. \A p \in Procs, b \in Bufs : Has(p, b) <=> b \in Holds(p)
  BY DEF Has, Holds
<1>1a. \A p \in Procs : Holds(p) \subseteq Bufs
  BY DEF IInv, TypeOK, LocType, Holds, Buf0
<1>2. \A b \in Bufs : Driven(b) <=> b \in InFlight
  BY DEF Driven, InFlight
<1>2a. InFlight \subseteq Bufs
  BY DEF IInv, TypeOK, StoreType, InFlight
<1>3. ExclusiveUse
  <2>1. \A b \in Bufs : "BUSY" \in b_flags[b] <=> freeq[b] = "none"
    BY DEF IInv, Owned
  <2>2. \A b \in Bufs : "BUSY" \in b_flags[b] <=>
                          b \in InFlight \/ \E p \in Procs : b \in Holds(p)
    BY <1>1, <1>2 DEF IInv, Owned, OnlyOwner, UnderWay, Driven
  <2>3. \A p \in Procs : Holds(p) \cap InFlight = {}
    BY <1>1, <1>1a, <1>2 DEF IInv, OnlyOwner
  <2>4. \A p, q \in Procs : p # q => Holds(p) \cap Holds(q) = {}
    BY <1>1, <1>1a DEF IInv, OnlyOwner
  <2> QED
    BY <2>1, <2>2, <2>3, <2>4 DEF ExclusiveUse
<1>4. NoDupBiodone
  BY DEF IInv, UnderWay, NoDupBiodone
<1> QED BY <1>3, <1>4 DEF IInv

\* A process that calls the cache has no buffer yet.
LEMMA CallI ==
  ASSUME IInv, NEW p \in Procs, NEW o \in Ops, NEW vp \in Vnodes,
         NEW blk \in Block, NEW ra \in DevBlks, Call(p, o, vp, blk, ra)
  PROVE  IInv'
<1>0. o \in AllOps /\ blk[1] \in DevBlks /\ blk[2] \in Sizes
  BY DEF Block
<1>a. /\ call' = [call EXCEPT ![p] = [op |-> o, vp |-> vp, blkno |-> blk[1],
                                      size |-> blk[2], ra |-> ra]]
      /\ pc[p] = "user"
      /\ \E l \in Label \ (Writing0 \cup BpLabel \cup {"breada_ra", "breada_end"}) :
           pc' = [pc EXCEPT ![p] = l]
      /\ \E l \in {"bread", "hold"} : gret' = [gret EXCEPT ![p] = l]
      /\ cpu' = p
      /\ UNCHANGED <<bufVars, fault, wchan, rpc, holdVars, wrVars, group>>
  <2>1. o \in {"bread", "breada", "getblk", "geteblk", "bflush", "bflush0",
           "blkflush", "binvalfree", "binval"}
    BY <1>0 DEF AllOps
  <2> QED
  BY <2>1, <1>0 DEF Call, Goto, Label, Writing0, BpLabel
<1>1. BufType'
  BY <1>a DEF IInv, TypeOK, BufType
<1>2. StoreType'
  BY <1>a DEF IInv, TypeOK, StoreType
<1>3. SchedType'
  BY <1>a DEF IInv, TypeOK, SchedType
<1>4. LocType'
  BY <1>0, <1>a DEF IInv, TypeOK, LocType, CallRecord, Label
<1>5. Control'
  BY <1>0, <1>a DEF IInv, TypeOK, LocType, SchedType, Control, At, Writing0,
     BpLabel, FirstLabel
<1>b. \A q \in Procs, c \in Bufs : Has(q, c) <=> Has(q, c)'
  BY <1>a DEF IInv, TypeOK, LocType, SchedType, Has, Control, Writing0
<1>6. Owned'
  BY <1>a, <1>b DEF IInv, Owned, Driven
<1>7. OnlyOwner'
  BY <1>a DEF IInv, TypeOK, LocType, SchedType, OnlyOwner, Driven, Has,
     Writing0
<1>8. UnderWay'
  BY <1>a DEF IInv, TypeOK, LocType, SchedType, UnderWay, At, Writing0,
     Control, BpLabel
<1> QED BY <1>1, <1>2, <1>3, <1>4, <1>5, <1>6, <1>7, <1>8 DEF IInv, TypeOK

\* GetblkBusy(p): getblk sleeps on a busy buffer and marks it wanted.
LEMMA GetblkBusyI ==
  ASSUME IInv, NEW p \in Procs, GetblkBusy(p)
  PROVE  IInv'
<1>1. BufType'
  BY DEF IInv, TypeOK, GetblkBusy, WaitFor, Sleep, Yield, Matches, BufType,
     LocType, Queue, Flag
<1>2. StoreType'
  BY DEF IInv, TypeOK, GetblkBusy, WaitFor, Sleep, Yield, Matches, StoreType
<1>3. SchedType'
  BY DEF IInv, TypeOK, GetblkBusy, WaitFor, Sleep, Yield, Matches, SchedType,
     LocType, BufType, Label, Chans
<1>4. LocType'
  BY DEF IInv, TypeOK, GetblkBusy, WaitFor, Sleep, Yield, Matches, LocType,
     Label, Flag, Buf0
<1>5. Control'
  BY DEF IInv, TypeOK, BufType, StoreType, SchedType, LocType, GetblkBusy,
     WaitFor, Sleep, Yield, Matches, Control, At, Writing0, BpLabel,
     FirstLabel, Buf0
<1>6. Owned'
  BY DEF IInv, TypeOK, BufType, StoreType, SchedType, LocType, GetblkBusy,
     WaitFor, Sleep, Yield, Matches, Owned, OnlyOwner, UnderWay, Driven, Has,
     Control, At, Writing0, BpLabel, FirstLabel, Buf0
<1>7. OnlyOwner'
  BY DEF IInv, TypeOK, BufType, StoreType, SchedType, LocType, GetblkBusy,
     WaitFor, Sleep, Yield, Matches, Owned, OnlyOwner, UnderWay, Driven, Has,
     Control, At, Writing0, BpLabel, FirstLabel, Buf0
<1>8. UnderWay'
  BY DEF IInv, TypeOK, BufType, StoreType, SchedType, LocType, GetblkBusy,
     WaitFor, Sleep, Yield, Matches, Owned, OnlyOwner, UnderWay, Driven, Has,
     Control, At, Writing0, BpLabel, FirstLabel, Buf0
<1> QED BY <1>1, <1>2, <1>3, <1>4, <1>5, <1>6, <1>7, <1>8 DEF IInv, TypeOK

\* GetblkHit(p): getblk takes a cached buffer off its list for p.
LEMMA GetblkHitI ==
  ASSUME IInv, NEW p \in Procs, GetblkHit(p)
  PROVE  IInv'
<1>1. BufType'
  BY DEF IInv, TypeOK, GetblkHit, Goto, Matches, BufType, LocType, Queue, Flag
<1>2. StoreType'
  BY DEF IInv, TypeOK, GetblkHit, Goto, Matches, StoreType
<1>3. SchedType'
  BY DEF IInv, TypeOK, GetblkHit, Goto, Matches, SchedType, LocType, BufType,
     Label, Chans
<1>4. LocType'
  BY DEF IInv, TypeOK, GetblkHit, Goto, Matches, LocType, Label, Flag, Buf0
<1>5. Control'
  BY DEF IInv, TypeOK, BufType, StoreType, SchedType, LocType, GetblkHit, Goto,
     Matches, Control, At, Writing0, BpLabel, FirstLabel, Buf0
<1>6. Owned'
  <2>1. PICK b \in Bufs : /\ b_flags' = [b_flags EXCEPT ![b] = (@ \cup {"BUSY"}) \
                             (IF call[p].size > b_bcount[b] THEN {"DONE"} ELSE {})]
                          /\ freeq' = [freeq EXCEPT ![b] = "none"]
                          /\ bp' = [bp EXCEPT ![p] = b]
    BY DEF GetblkHit, Matches
  <2>2. /\ bp[p] = NoBuf /\ wb[p] = NoBuf /\ UNCHANGED <<io, first, wb, wflag>>
        /\ pc' = [pc EXCEPT ![p] = "brealloc"]
    BY DEF IInv, GetblkHit, Goto, Control, At, Writing0, BpLabel, FirstLabel
  <2>3. \A c \in Bufs : "BUSY" \in b_flags'[c] <=> freeq'[c] = "none"
    BY <2>1 DEF IInv, TypeOK, BufType, Owned
  <2>4. \A q \in Procs, c \in Bufs : Has(q, c) => Has(q, c)'
    BY <2>1, <2>2 DEF IInv, TypeOK, SchedType, LocType, Has
  <2>5. Has(p, b)'
    BY <2>1 DEF IInv, TypeOK, LocType, Has
  <2>6. ASSUME NEW c \in Bufs, c # b, "BUSY" \in b_flags'[c]
        PROVE  "BUSY" \in b_flags[c] /\ (Driven(c) => Driven(c)')
    BY <2>1, <2>2, <2>6 DEF IInv, TypeOK, BufType, Driven
  <2> QED
    BY <2>3, <2>4, <2>5, <2>6, OwnedStep DEF IInv
<1>7. OnlyOwner'
  BY DEF IInv, TypeOK, BufType, StoreType, SchedType, LocType, GetblkHit, Goto,
     Matches, Owned, OnlyOwner, UnderWay, Driven, Has, Control, At, Writing0,
     BpLabel, FirstLabel, Buf0
<1>8. UnderWay'
  BY DEF IInv, TypeOK, BufType, StoreType, SchedType, LocType, GetblkHit, Goto,
     Matches, Owned, OnlyOwner, UnderWay, Driven, Has, Control, At, Writing0,
     BpLabel, FirstLabel, Buf0
<1> QED BY <1>1, <1>2, <1>3, <1>4, <1>5, <1>6, <1>7, <1>8 DEF IInv, TypeOK

\* GetblkMiss(p): getblk turns to getnewbuf with nothing in hand.
LEMMA GetblkMissI ==
  ASSUME IInv, NEW p \in Procs, GetblkMiss(p)
  PROVE  IInv'
<1>1. BufType'
  BY DEF IInv, TypeOK, GetblkMiss, Goto, BufType, LocType, Queue, Flag
<1>2. StoreType'
  BY DEF IInv, TypeOK, GetblkMiss, Goto, StoreType
<1>3. SchedType'
  BY DEF IInv, TypeOK, GetblkMiss, Goto, SchedType, LocType, BufType, Label,
     Chans
<1>4. LocType'
  BY DEF IInv, TypeOK, GetblkMiss, Goto, LocType, Label, Flag, Buf0
<1>5. Control'
  BY DEF IInv, TypeOK, BufType, StoreType, SchedType, LocType, GetblkMiss,
     Goto, Control, At, Writing0, BpLabel, FirstLabel, Buf0
<1>6. Owned'
  BY DEF IInv, TypeOK, BufType, StoreType, SchedType, LocType, GetblkMiss,
     Goto, Owned, OnlyOwner, UnderWay, Driven, Has, Control, At, Writing0,
     BpLabel, FirstLabel, Buf0
<1>7. OnlyOwner'
  BY DEF IInv, TypeOK, BufType, StoreType, SchedType, LocType, GetblkMiss,
     Goto, Owned, OnlyOwner, UnderWay, Driven, Has, Control, At, Writing0,
     BpLabel, FirstLabel, Buf0
<1>8. UnderWay'
  BY DEF IInv, TypeOK, BufType, StoreType, SchedType, LocType, GetblkMiss,
     Goto, Owned, OnlyOwner, UnderWay, Driven, Has, Control, At, Writing0,
     BpLabel, FirstLabel, Buf0
<1> QED BY <1>1, <1>2, <1>3, <1>4, <1>5, <1>6, <1>7, <1>8 DEF IInv, TypeOK

\* GetnewbufWait(p): getnewbuf sleeps with no buffer.
LEMMA GetnewbufWaitI ==
  ASSUME IInv, NEW p \in Procs, GetnewbufWait(p)
  PROVE  IInv'
<1>1. BufType'
  BY DEF IInv, TypeOK, GetnewbufWait, Sleep, Yield, BufType, LocType, Queue,
     Flag
<1>2. StoreType'
  BY DEF IInv, TypeOK, GetnewbufWait, Sleep, Yield, StoreType
<1>3. SchedType'
  BY DEF IInv, TypeOK, GetnewbufWait, Sleep, Yield, SchedType, LocType,
     BufType, Label, Chans
<1>4. LocType'
  BY DEF IInv, TypeOK, GetnewbufWait, Sleep, Yield, LocType, Label, Flag, Buf0
<1>5. Control'
  BY DEF IInv, TypeOK, BufType, StoreType, SchedType, LocType, GetnewbufWait,
     Sleep, Yield, Control, At, Writing0, BpLabel, FirstLabel, Buf0
<1>6. Owned'
  BY DEF IInv, TypeOK, BufType, StoreType, SchedType, LocType, GetnewbufWait,
     Sleep, Yield, Owned, OnlyOwner, UnderWay, Driven, Has, Control, At,
     Writing0, BpLabel, FirstLabel, Buf0
<1>7. OnlyOwner'
  BY DEF IInv, TypeOK, BufType, StoreType, SchedType, LocType, GetnewbufWait,
     Sleep, Yield, Owned, OnlyOwner, UnderWay, Driven, Has, Control, At,
     Writing0, BpLabel, FirstLabel, Buf0
<1>8. UnderWay'
  BY DEF IInv, TypeOK, BufType, StoreType, SchedType, LocType, GetnewbufWait,
     Sleep, Yield, Owned, OnlyOwner, UnderWay, Driven, Has, Control, At,
     Writing0, BpLabel, FirstLabel, Buf0
<1> QED BY <1>1, <1>2, <1>3, <1>4, <1>5, <1>6, <1>7, <1>8 DEF IInv, TypeOK

\* GetnewbufDirty(p): getnewbuf hands a dirty free buffer to bwrite.
LEMMA GetnewbufDirtyI ==
  ASSUME IInv, NEW p \in Procs, GetnewbufDirty(p)
  PROVE  IInv'
<1>1. BufType'
  BY DEF IInv, TypeOK, GetnewbufDirty, notavail, CallBwrite, Goto, Candidates,
     BufType, LocType, Queue, Flag
<1>2. StoreType'
  BY DEF IInv, TypeOK, GetnewbufDirty, notavail, CallBwrite, Goto, Candidates,
     StoreType
<1>3. SchedType'
  BY DEF IInv, TypeOK, GetnewbufDirty, notavail, CallBwrite, Goto, Candidates,
     SchedType, LocType, BufType, Label, Chans
<1>4. LocType'
  BY DEF IInv, TypeOK, GetnewbufDirty, notavail, CallBwrite, Goto, Candidates,
     LocType, Label, Flag, Buf0
<1>5. Control'
  BY DEF IInv, TypeOK, BufType, StoreType, SchedType, LocType, GetnewbufDirty,
     notavail, CallBwrite, Goto, Candidates, Control, At, Writing0, BpLabel,
     FirstLabel, Buf0
<1>6. Owned'
  <2>1. \A c \in Bufs : "BUSY" \in b_flags'[c] <=> freeq'[c] = "none"
    BY DEF IInv, TypeOK, BufType, StoreType, SchedType, LocType,
       GetnewbufDirty, notavail, CallBwrite, Goto, Candidates, Owned
  <2>2. \A c \in Bufs : "BUSY" \in b_flags'[c] =>
          \/ Has(p, c)' \/ Driven(c)'
          \/ "BUSY" \in b_flags[c] /\ ~ Driven(c) /\ ~ Has(p, c)
    BY DEF IInv, TypeOK, BufType, StoreType, SchedType, LocType,
       GetnewbufDirty, notavail, CallBwrite, Goto, Candidates, Owned,
       OnlyOwner, UnderWay, Driven, Has, Control, At, Writing0, BpLabel,
       FirstLabel, Buf0
  <2>3. \A q \in Procs, c \in Bufs : q # p /\ Has(q, c) => Has(q, c)'
    BY DEF IInv, TypeOK, BufType, StoreType, SchedType, LocType,
       GetnewbufDirty, notavail, CallBwrite, Goto, Candidates, Owned,
       OnlyOwner, UnderWay, Driven, Has, Control, At, Writing0, BpLabel,
       FirstLabel, Buf0
  <2> QED
    BY <2>1, <2>2, <2>3, OwnedStep DEF IInv
<1>7. OnlyOwner'
  BY DEF IInv, TypeOK, BufType, StoreType, SchedType, LocType, GetnewbufDirty,
     notavail, CallBwrite, Goto, Candidates, Owned, OnlyOwner, UnderWay,
     Driven, Has, Control, At, Writing0, BpLabel, FirstLabel, Buf0
<1>8. UnderWay'
  BY DEF IInv, TypeOK, BufType, StoreType, SchedType, LocType, GetnewbufDirty,
     notavail, CallBwrite, Goto, Candidates, Owned, OnlyOwner, UnderWay,
     Driven, Has, Control, At, Writing0, BpLabel, FirstLabel, Buf0
<1> QED BY <1>1, <1>2, <1>3, <1>4, <1>5, <1>6, <1>7, <1>8 DEF IInv, TypeOK

\* GetnewbufClean(p): getnewbuf gives p a clean free buffer, on no list any more.
LEMMA GetnewbufCleanI ==
  ASSUME IInv, NEW p \in Procs, GetnewbufClean(p)
  PROVE  IInv'
<1>1. BufType'
  <2>1. call[p] \in CallRecord /\ call[p].vp \in Vnodes
    BY DEF IInv, TypeOK, LocType, SchedType, GetnewbufClean, Control, At,
       Writing0
  <2>2. Target(p) \in DevBlks
    BY <2>1 DEF Target, CallRecord
  <2> QED
    BY <2>1, <2>2 DEF IInv, TypeOK, BufType, GetnewbufClean, Goto, Candidates,
       Queue, Flag
<1>2. StoreType'
  BY DEF IInv, TypeOK, GetnewbufClean, Goto, Candidates, StoreType
<1>3. SchedType'
  BY DEF IInv, TypeOK, GetnewbufClean, Goto, Candidates, SchedType, LocType,
     BufType, Label, Chans
<1>4. LocType'
  BY DEF IInv, TypeOK, GetnewbufClean, Goto, Candidates, LocType, Label, Flag,
     Buf0
<1>5. Control'
  BY DEF IInv, TypeOK, BufType, StoreType, SchedType, LocType, GetnewbufClean,
     Goto, Candidates, Control, At, Writing0, BpLabel, FirstLabel, Buf0
<1>6. Owned'
  <2>1. PICK b \in Bufs : /\ \/ b_flags' = [b_flags EXCEPT ![b] = {"BUSY", "INVAL"}]
                             \/ b_flags' = [b_flags EXCEPT ![b] = {"BUSY"}]
                          /\ freeq' = [freeq EXCEPT ![b] = "none"]
                          /\ bp' = [bp EXCEPT ![p] = b]
    BY DEF GetnewbufClean, Candidates
  <2>2. /\ bp[p] = NoBuf /\ wb[p] = NoBuf /\ UNCHANGED <<io, first, wb, wflag>>
        /\ pc' = [pc EXCEPT ![p] = "brealloc"]
    BY DEF IInv, GetnewbufClean, Goto, Control, At, Writing0, BpLabel,
       FirstLabel
  <2>3. \A c \in Bufs : "BUSY" \in b_flags'[c] <=> freeq'[c] = "none"
    BY <2>1 DEF IInv, TypeOK, BufType, Owned
  <2>4. \A q \in Procs, c \in Bufs : Has(q, c) => Has(q, c)'
    BY <2>1, <2>2 DEF IInv, TypeOK, SchedType, LocType, Has
  <2>5. Has(p, b)'
    BY <2>1 DEF IInv, TypeOK, LocType, Has
  <2>6. ASSUME NEW c \in Bufs, c # b, "BUSY" \in b_flags'[c]
        PROVE  "BUSY" \in b_flags[c] /\ (Driven(c) => Driven(c)')
    BY <2>1, <2>2, <2>6 DEF IInv, TypeOK, BufType, Driven
  <2> QED
    BY <2>3, <2>4, <2>5, <2>6, OwnedStep DEF IInv
<1>7. OnlyOwner'
  BY DEF IInv, TypeOK, BufType, StoreType, SchedType, LocType, GetnewbufClean,
     Goto, Candidates, Owned, OnlyOwner, UnderWay, Driven, Has, Control, At,
     Writing0, BpLabel, FirstLabel, Buf0
<1>8. UnderWay'
  <2>1. \A b \in io' : /\ "BUSY" \in b_flags'[b] /\ "DONE" \notin b_flags'[b]
                      /\ b_dev'[b] \in Vnodes
    BY SMTT(30) DEF IInv, TypeOK, BufType, StoreType, SchedType, LocType,
       GetnewbufClean, Goto, Candidates, Owned, OnlyOwner, UnderWay, Driven,
       Has, Control, At, Writing0, BpLabel, FirstLabel, Buf0
  <2>2. \A b \in Bufs : b_vp'[b] # NoVnode => b_dev'[b] = b_vp'[b]
    BY DEF IInv, TypeOK, BufType, StoreType, SchedType, LocType,
       GetnewbufClean, Goto, Candidates, UnderWay
  <2>3. ASSUME NEW b \in Bufs, "ASYNC" \in b_flags'[b]
        PROVE  b \in io' \/ \E q \in Procs : pc'[q] = "bwrite" /\ wb'[q] = b
    <3>1. CASE b \in io'
      BY <3>1
    <3>2. CASE b \notin io'
      <4>0. PICK c \in Bufs : \/ b_flags' = [b_flags EXCEPT ![c] = {"BUSY", "INVAL"}]
                              \/ b_flags' = [b_flags EXCEPT ![c] = {"BUSY"}]
        BY DEF GetnewbufClean, Candidates
      <4>1. "ASYNC" \in b_flags[b] /\ b \notin io
        BY <2>3, <3>2, <4>0 DEF IInv, TypeOK, BufType, GetnewbufClean
      <4>2. PICK q \in Procs : pc[q] = "bwrite" /\ wb[q] = b
        BY <4>1, Zenon DEF IInv, UnderWay
      <4>3. q # p
        BY <4>2 DEF GetnewbufClean
      <4>4. pc'[q] = pc[q] /\ wb'[q] = wb[q]
        BY <4>3 DEF IInv, TypeOK, BufType, StoreType, SchedType, LocType,
           GetnewbufClean, Goto, Candidates
      <4> QED
        BY <4>2, <4>4
    <3> QED
      BY <3>1, <3>2
  <2>4. ASSUME NEW q \in Procs
        PROVE  /\ bp'[q] \in io' => At(q)' = "biowait"
               /\ pc'[q] = "bwrite" => wb'[q] \notin io'
    BY <2>4 DEF IInv, TypeOK, BufType, StoreType, SchedType, LocType,
       GetnewbufClean, Goto, Candidates, Owned, OnlyOwner, UnderWay, Driven,
       Has, Control, At, Writing0, BpLabel, FirstLabel, Buf0
  <2> QED
    BY <2>1, <2>2, <2>3, <2>4 DEF UnderWay
<1> QED BY <1>1, <1>2, <1>3, <1>4, <1>5, <1>6, <1>7, <1>8 DEF IInv, TypeOK

\* BreallocDone(p): brealloc changes only the size of the buffer p has.
LEMMA BreallocDoneI ==
  ASSUME IInv, NEW p \in Procs, BreallocDone(p)
  PROVE  IInv'
<1>1. BufType'
  BY DEF IInv, TypeOK, BreallocDone, Goto, BufType, LocType, CallRecord
<1>2. StoreType'
  BY DEF IInv, TypeOK, BreallocDone, Goto, StoreType
<1>3. SchedType'
  BY DEF IInv, TypeOK, BreallocDone, Goto, SchedType, LocType, BufType, Label,
     Chans
<1>4. LocType'
  BY DEF IInv, TypeOK, BreallocDone, Goto, LocType, Label, Flag, Buf0
<1>5. Control'
  BY DEF IInv, TypeOK, BufType, StoreType, SchedType, LocType, BreallocDone,
     Goto, Control, At, Writing0, BpLabel, FirstLabel, Buf0
<1>6. Owned'
  BY DEF IInv, TypeOK, BufType, StoreType, SchedType, LocType, BreallocDone,
     Goto, Owned, OnlyOwner, UnderWay, Driven, Has, Control, At, Writing0,
     BpLabel, FirstLabel, Buf0
<1>7. OnlyOwner'
  BY DEF IInv, TypeOK, BufType, StoreType, SchedType, LocType, BreallocDone,
     Goto, Owned, OnlyOwner, UnderWay, Driven, Has, Control, At, Writing0,
     BpLabel, FirstLabel, Buf0
<1>8. UnderWay'
  BY DEF IInv, TypeOK, BufType, StoreType, SchedType, LocType, BreallocDone,
     Goto, Owned, OnlyOwner, UnderWay, Driven, Has, Control, At, Writing0,
     BpLabel, FirstLabel, Buf0
<1> QED BY <1>1, <1>2, <1>3, <1>4, <1>5, <1>6, <1>7, <1>8 DEF IInv, TypeOK

\* BreallocShrink(p): brealloc hands the buffer of p to bwrite.
LEMMA BreallocShrinkI ==
  ASSUME IInv, NEW p \in Procs, BreallocShrink(p)
  PROVE  IInv'
<1>1. BufType'
  BY DEF IInv, TypeOK, BreallocShrink, CallBwrite, Goto, BufType, LocType,
     Queue, Flag
<1>2. StoreType'
  BY DEF IInv, TypeOK, BreallocShrink, CallBwrite, Goto, StoreType
<1>3. SchedType'
  BY DEF IInv, TypeOK, BreallocShrink, CallBwrite, Goto, SchedType, LocType,
     BufType, Label, Chans
<1>4. LocType'
  BY DEF IInv, TypeOK, BreallocShrink, CallBwrite, Goto, LocType, Label, Flag,
     Buf0
<1>5. Control'
  BY DEF IInv, TypeOK, BufType, StoreType, SchedType, LocType, BreallocShrink,
     CallBwrite, Goto, Control, At, Writing0, BpLabel, FirstLabel, Buf0
<1>6. Owned'
  <2>1. /\ bp[p] # NoBuf /\ wb[p] = NoBuf /\ UNCHANGED <<b_flags, freeq, io, first, wflag>>
        /\ bp' = [bp EXCEPT ![p] = NoBuf] /\ wb' = [wb EXCEPT ![p] = bp[p]]
        /\ pc' = [pc EXCEPT ![p] = "bwrite"]
    BY DEF IInv, BreallocShrink, CallBwrite, Goto, Control, At, Writing0,
       BpLabel, FirstLabel
  <2>2. \A q \in Procs, c \in Bufs : Has(q, c) => Has(q, c)'
    BY <2>1 DEF IInv, TypeOK, SchedType, LocType, Has
  <2> QED
    BY <2>1, <2>2 DEF IInv, Owned, Driven
<1>7. OnlyOwner'
  BY DEF IInv, TypeOK, BufType, StoreType, SchedType, LocType, BreallocShrink,
     CallBwrite, Goto, Owned, OnlyOwner, UnderWay, Driven, Has, Control, At,
     Writing0, BpLabel, FirstLabel, Buf0
<1>8. UnderWay'
  BY DEF IInv, TypeOK, BufType, StoreType, SchedType, LocType, BreallocShrink,
     CallBwrite, Goto, Owned, OnlyOwner, UnderWay, Driven, Has, Control, At,
     Writing0, BpLabel, FirstLabel, Buf0
<1> QED BY <1>1, <1>2, <1>3, <1>4, <1>5, <1>6, <1>7, <1>8 DEF IInv, TypeOK

\* BreallocBusy(p): brealloc sleeps on an overlapping buffer, holding its own.
LEMMA BreallocBusyI ==
  ASSUME IInv, NEW p \in Procs, BreallocBusy(p)
  PROVE  IInv'
<1>1. BufType'
  BY DEF IInv, TypeOK, BreallocBusy, WaitFor, Sleep, Yield, InTheWay,
     Overlapping, BufType, LocType, Queue, Flag
<1>2. StoreType'
  BY DEF IInv, TypeOK, BreallocBusy, WaitFor, Sleep, Yield, InTheWay,
     Overlapping, StoreType
<1>3. SchedType'
  BY DEF IInv, TypeOK, BreallocBusy, WaitFor, Sleep, Yield, InTheWay,
     Overlapping, SchedType, LocType, BufType, Label, Chans
<1>4. LocType'
  BY DEF IInv, TypeOK, BreallocBusy, WaitFor, Sleep, Yield, InTheWay,
     Overlapping, LocType, Label, Flag, Buf0
<1>5. Control'
  BY DEF IInv, TypeOK, BufType, StoreType, SchedType, LocType, BreallocBusy,
     WaitFor, Sleep, Yield, InTheWay, Overlapping, Control, At, Writing0,
     BpLabel, FirstLabel, Buf0
<1>6. Owned'
  BY DEF IInv, TypeOK, BufType, StoreType, SchedType, LocType, BreallocBusy,
     WaitFor, Sleep, Yield, InTheWay, Overlapping, Owned, OnlyOwner, UnderWay,
     Driven, Has, Control, At, Writing0, BpLabel, FirstLabel, Buf0
<1>7. OnlyOwner'
  BY DEF IInv, TypeOK, BufType, StoreType, SchedType, LocType, BreallocBusy,
     WaitFor, Sleep, Yield, InTheWay, Overlapping, Owned, OnlyOwner, UnderWay,
     Driven, Has, Control, At, Writing0, BpLabel, FirstLabel, Buf0
<1>8. UnderWay'
  BY DEF IInv, TypeOK, BufType, StoreType, SchedType, LocType, BreallocBusy,
     WaitFor, Sleep, Yield, InTheWay, Overlapping, Owned, OnlyOwner, UnderWay,
     Driven, Has, Control, At, Writing0, BpLabel, FirstLabel, Buf0
<1> QED BY <1>1, <1>2, <1>3, <1>4, <1>5, <1>6, <1>7, <1>8 DEF IInv, TypeOK

\* BreallocFlush(p): brealloc takes a dirty free buffer only to write it.
LEMMA BreallocFlushI ==
  ASSUME IInv, NEW p \in Procs, BreallocFlush(p)
  PROVE  IInv'
<1>1. BufType'
  BY DEF IInv, TypeOK, BreallocFlush, notavail, CallBwrite, Goto, InTheWay,
     Overlapping, BufType, LocType, Queue, Flag
<1>2. StoreType'
  BY DEF IInv, TypeOK, BreallocFlush, notavail, CallBwrite, Goto, InTheWay,
     Overlapping, StoreType
<1>3. SchedType'
  BY DEF IInv, TypeOK, BreallocFlush, notavail, CallBwrite, Goto, InTheWay,
     Overlapping, SchedType, LocType, BufType, Label, Chans
<1>4. LocType'
  BY DEF IInv, TypeOK, BreallocFlush, notavail, CallBwrite, Goto, InTheWay,
     Overlapping, LocType, Label, Flag, Buf0
<1>5. Control'
  BY DEF IInv, TypeOK, BufType, StoreType, SchedType, LocType, BreallocFlush,
     notavail, CallBwrite, Goto, InTheWay, Overlapping, Control, At, Writing0,
     BpLabel, FirstLabel, Buf0
<1>6. Owned'
  <2>1. \A c \in Bufs : "BUSY" \in b_flags'[c] <=> freeq'[c] = "none"
    BY DEF IInv, TypeOK, BufType, StoreType, SchedType, LocType, BreallocFlush,
       notavail, CallBwrite, Goto, InTheWay, Overlapping, Owned
  <2>2. \A c \in Bufs : "BUSY" \in b_flags'[c] =>
          \/ Has(p, c)' \/ Driven(c)'
          \/ "BUSY" \in b_flags[c] /\ ~ Driven(c) /\ ~ Has(p, c)
    BY DEF IInv, TypeOK, BufType, StoreType, SchedType, LocType, BreallocFlush,
       notavail, CallBwrite, Goto, InTheWay, Overlapping, Owned, OnlyOwner,
       UnderWay, Driven, Has, Control, At, Writing0, BpLabel, FirstLabel, Buf0
  <2>3. \A q \in Procs, c \in Bufs : q # p /\ Has(q, c) => Has(q, c)'
    BY DEF IInv, TypeOK, BufType, StoreType, SchedType, LocType, BreallocFlush,
       notavail, CallBwrite, Goto, InTheWay, Overlapping, Owned, OnlyOwner,
       UnderWay, Driven, Has, Control, At, Writing0, BpLabel, FirstLabel, Buf0
  <2> QED
    BY <2>1, <2>2, <2>3, OwnedStep DEF IInv
<1>7. OnlyOwner'
  BY DEF IInv, TypeOK, BufType, StoreType, SchedType, LocType, BreallocFlush,
     notavail, CallBwrite, Goto, InTheWay, Overlapping, Owned, OnlyOwner,
     UnderWay, Driven, Has, Control, At, Writing0, BpLabel, FirstLabel, Buf0
<1>8. UnderWay'
  BY DEF IInv, TypeOK, BufType, StoreType, SchedType, LocType, BreallocFlush,
     notavail, CallBwrite, Goto, InTheWay, Overlapping, Owned, OnlyOwner,
     UnderWay, Driven, Has, Control, At, Writing0, BpLabel, FirstLabel, Buf0
<1> QED BY <1>1, <1>2, <1>3, <1>4, <1>5, <1>6, <1>7, <1>8 DEF IInv, TypeOK

\* BreallocInval(p): brealloc puts an overlapping buffer back on a free list.
LEMMA BreallocInvalI ==
  ASSUME IInv, NEW p \in Procs, BreallocInval(p)
  PROVE  IInv'
<1>1. BufType'
  <2>1. PICK e \in Bufs : brelse(e, b_flags[e] \cup {"BUSY", "INVAL"})
    BY DEF BreallocInval, InTheWay, Overlapping
  <2> QED
    BY <2>1 DEF IInv, TypeOK, BufType, brelse, Queue, Flag
<1>2. StoreType'
  BY DEF IInv, TypeOK, BreallocInval, brelse, RelWake, Goto, InTheWay,
     Overlapping, StoreType
<1>3. SchedType'
  BY DEF IInv, TypeOK, BreallocInval, brelse, RelWake, Goto, InTheWay,
     Overlapping, SchedType, LocType, BufType, Label, Chans
<1>4. LocType'
  BY DEF IInv, TypeOK, BreallocInval, brelse, RelWake, Goto, InTheWay,
     Overlapping, LocType, Label, Flag, Buf0
<1>5. Control'
  BY DEF IInv, TypeOK, BufType, StoreType, SchedType, LocType, BreallocInval,
     brelse, RelWake, Goto, InTheWay, Overlapping, Control, At, Writing0,
     BpLabel, FirstLabel, Buf0
<1>6. Owned'
  BY DEF IInv, TypeOK, BufType, StoreType, SchedType, LocType, BreallocInval,
     brelse, RelWake, Goto, InTheWay, Overlapping, Owned, OnlyOwner, UnderWay,
     Driven, Has, Control, At, Writing0, BpLabel, FirstLabel, Buf0
<1>7. OnlyOwner'
  BY DEF IInv, TypeOK, BufType, StoreType, SchedType, LocType, BreallocInval,
     brelse, RelWake, Goto, InTheWay, Overlapping, Owned, OnlyOwner, UnderWay,
     Driven, Has, Control, At, Writing0, BpLabel, FirstLabel, Buf0
<1>8. UnderWay'
  BY DEF IInv, TypeOK, BufType, StoreType, SchedType, LocType, BreallocInval,
     brelse, RelWake, Goto, InTheWay, Overlapping, Owned, OnlyOwner, UnderWay,
     Driven, Has, Control, At, Writing0, BpLabel, FirstLabel, Buf0
<1> QED BY <1>1, <1>2, <1>3, <1>4, <1>5, <1>6, <1>7, <1>8 DEF IInv, TypeOK

\* Bread(p): bread starts the transfer of the buffer it has, which is not under I/O.
LEMMA BreadI ==
  ASSUME IInv, NEW p \in Procs, Bread(p)
  PROVE  IInv'
<1>1. BufType'
  BY DEF IInv, TypeOK, Bread, Strategy, Goto, Yield, BufType, LocType, Queue,
     Flag
<1>2. StoreType'
  BY DEF IInv, TypeOK, Bread, Strategy, Goto, Yield, StoreType, LocType,
     Control, At, Writing0, BpLabel, Buf0
<1>3. SchedType'
  BY DEF IInv, TypeOK, Bread, Strategy, Goto, Yield, SchedType, LocType,
     BufType, Label, Chans
<1>4. LocType'
  BY DEF IInv, TypeOK, Bread, Strategy, Goto, Yield, LocType, Label, Flag, Buf0
<1>5. Control'
  BY DEF IInv, TypeOK, BufType, StoreType, SchedType, LocType, Bread, Strategy,
     Goto, Yield, Control, At, Writing0, BpLabel, FirstLabel, Buf0
<1>6. Owned'
  BY DEF IInv, TypeOK, BufType, StoreType, SchedType, LocType, Bread, Strategy,
     Goto, Yield, Owned, OnlyOwner, UnderWay, Driven, Has, Control, At,
     Writing0, BpLabel, FirstLabel, Buf0
<1>7. OnlyOwner'
  BY DEF IInv, TypeOK, BufType, StoreType, SchedType, LocType, Bread, Strategy,
     Goto, Yield, Owned, OnlyOwner, UnderWay, Driven, Has, Control, At,
     Writing0, BpLabel, FirstLabel, Buf0
<1>8. UnderWay'
  <2>1. CASE "DONE" \in b_flags[bp[p]]
    <3>1. UNCHANGED <<b_flags, io, b_vp, b_dev, wb, wret>> /\ bp[p] \notin io
      BY <2>1 DEF IInv, Bread, Strategy, UnderWay, idVars, wrVars
    <3>2. ASSUME NEW q \in Procs PROVE At(q) = "biowait" /\ q # p => At(q)' = "biowait"
      BY <3>1 DEF IInv, TypeOK, BufType, SchedType, LocType, Bread, Strategy,
         Goto, Yield, At, Writing0
    <3> QED
      BY <2>1, <3>1, <3>2 DEF IInv, TypeOK, BufType, StoreType, SchedType,
         LocType, Bread, Strategy, Goto, Yield, Owned, OnlyOwner, UnderWay,
         Driven, Has, Control, At, Writing0, BpLabel, FirstLabel, Buf0
  <2>2. CASE "DONE" \notin b_flags[bp[p]]
    <3>a. b_vp[bp[p]] # NoVnode /\ pc[p] \notin {"bwrite", "biowait"} \cup Writing0
      BY <2>2 DEF Bread, Strategy, Writing0
    <3>b. bp[p] \in Bufs
      BY DEF IInv, TypeOK, LocType, Bread, Control, At, Writing0, BpLabel,
         FirstLabel, Buf0
    <3>0. b_vp[bp[p]] # NoVnode /\ bp[p] \in Bufs /\ b_dev[bp[p]] \in Vnodes
      BY <3>a, <3>b DEF IInv, TypeOK, BufType, UnderWay
    <3>c. "BUSY" \in b_flags[bp[p]] /\ bp[p] \notin io
      BY <3>a, <3>b DEF IInv, OnlyOwner, UnderWay, Has, At
    <3>d. \A q \in Procs : ~ (pc[q] = "bwrite" /\ wb[q] = bp[p])
      BY <3>a, <3>b DEF IInv, OnlyOwner, Has
    <3>00. "ASYNC" \notin b_flags[bp[p]] /\ "BUSY" \in b_flags[bp[p]] /\ bp[p] \notin io
      BY <3>b, <3>c, <3>d DEF IInv, UnderWay
    <3>1. /\ b_flags' = [b_flags EXCEPT ![bp[p]] = @ \cup {"READ"}] /\ io' = io \cup {bp[p]}
          /\ UNCHANGED <<b_vp, b_dev, wb, wret>> /\ pc' = [pc EXCEPT ![p] = "biowait"]
          /\ UNCHANGED bp
      BY <2>2 DEF Bread, Strategy, Goto, Yield, idVars, wrVars
    <3>2. \A b \in io' : /\ "BUSY" \in b_flags'[b] /\ "DONE" \notin b_flags'[b]
                        /\ b_dev'[b] \in Vnodes
      BY <2>2, <3>0, <3>00, <3>1 DEF IInv, TypeOK, BufType, StoreType, UnderWay
    <3>3. ASSUME NEW b \in Bufs, "ASYNC" \in b_flags'[b]
          PROVE  b \in io' \/ \E q \in Procs : pc'[q] = "bwrite" /\ wb'[q] = b
      BY <3>3, <3>1 DEF IInv, TypeOK, BufType, SchedType, LocType, UnderWay,
         Bread
    <3>4. ASSUME NEW q \in Procs
          PROVE  /\ bp'[q] \in io' => At(q)' = "biowait"
                 /\ pc'[q] = "bwrite" => wb'[q] \notin io'
      <4>1. CASE q = p
        BY <3>0, <3>1, <4>1 DEF IInv, TypeOK, SchedType, LocType, StoreType,
           At, Writing0
      <4>2. CASE q # p
        <5>1. bp[q] # bp[p] /\ (pc[q] = "bwrite" => wb[q] # bp[p])
          BY <3>0, <4>2 DEF IInv, OnlyOwner, Has
        <5> QED
          BY <5>1, <3>0, <3>1, <4>2 DEF IInv, TypeOK, SchedType, LocType,
             UnderWay, At, Writing0
      <4> QED BY <4>1, <4>2
    <3> QED
      BY <3>1, <3>2, <3>3, <3>4 DEF IInv, UnderWay
  <2> QED
    BY <2>1, <2>2
<1> QED BY <1>1, <1>2, <1>3, <1>4, <1>5, <1>6, <1>7, <1>8 DEF IInv, TypeOK

\* Biowait(p): biowait changes no buffer.
LEMMA BiowaitI ==
  ASSUME IInv, NEW p \in Procs, Biowait(p)
  PROVE  IInv'
<1>1. BufType'
  BY DEF IInv, TypeOK, Biowait, Sleep, Yield, BufType, LocType, Queue, Flag
<1>2. StoreType'
  BY DEF IInv, TypeOK, Biowait, Sleep, Yield, StoreType
<1>3. SchedType'
  BY DEF IInv, TypeOK, Biowait, Sleep, Yield, SchedType, LocType, BufType,
     Label, Chans, Control, At, Writing0, BpLabel, Buf0
<1>4. LocType'
  BY DEF IInv, TypeOK, Biowait, Sleep, Yield, LocType, Label, Flag, Buf0
<1>5. Control'
  BY DEF IInv, TypeOK, BufType, StoreType, SchedType, LocType, Biowait, Sleep,
     Yield, Control, At, Writing0, BpLabel, FirstLabel, Buf0
<1>6. Owned'
  BY DEF IInv, TypeOK, BufType, StoreType, SchedType, LocType, Biowait, Sleep,
     Yield, Owned, OnlyOwner, UnderWay, Driven, Has, Control, At, Writing0,
     BpLabel, FirstLabel, Buf0
<1>7. OnlyOwner'
  BY DEF IInv, TypeOK, BufType, StoreType, SchedType, LocType, Biowait, Sleep,
     Yield, Owned, OnlyOwner, UnderWay, Driven, Has, Control, At, Writing0,
     BpLabel, FirstLabel, Buf0
<1>8. UnderWay'
  BY DEF IInv, TypeOK, BufType, StoreType, SchedType, LocType, Biowait, Sleep,
     Yield, Owned, OnlyOwner, UnderWay, Driven, Has, Control, At, Writing0,
     BpLabel, FirstLabel, Buf0
<1> QED BY <1>1, <1>2, <1>3, <1>4, <1>5, <1>6, <1>7, <1>8 DEF IInv, TypeOK

\* Breada(p): breada looks up its first block.
LEMMA BreadaI ==
  ASSUME IInv, NEW p \in Procs, Breada(p)
  PROVE  IInv'
<1>1. BufType'
  BY DEF IInv, TypeOK, Breada, Goto, BufType, LocType, Queue, Flag
<1>2. StoreType'
  BY DEF IInv, TypeOK, Breada, Goto, StoreType
<1>3. SchedType'
  BY DEF IInv, TypeOK, Breada, Goto, SchedType, LocType, BufType, Label, Chans
<1>4. LocType'
  BY DEF IInv, TypeOK, Breada, Goto, LocType, Label, Flag, Buf0
<1>5. Control'
  BY DEF IInv, TypeOK, BufType, StoreType, SchedType, LocType, Breada, Goto,
     Control, At, Writing0, BpLabel, FirstLabel, Buf0
<1>6. Owned'
  BY DEF IInv, TypeOK, BufType, StoreType, SchedType, LocType, Breada, Goto,
     Owned, OnlyOwner, UnderWay, Driven, Has, Control, At, Writing0, BpLabel,
     FirstLabel, Buf0
<1>7. OnlyOwner'
  BY DEF IInv, TypeOK, BufType, StoreType, SchedType, LocType, Breada, Goto,
     Owned, OnlyOwner, UnderWay, Driven, Has, Control, At, Writing0, BpLabel,
     FirstLabel, Buf0
<1>8. UnderWay'
  BY DEF IInv, TypeOK, BufType, StoreType, SchedType, LocType, Breada, Goto,
     Owned, OnlyOwner, UnderWay, Driven, Has, Control, At, Writing0, BpLabel,
     FirstLabel, Buf0
<1> QED BY <1>1, <1>2, <1>3, <1>4, <1>5, <1>6, <1>7, <1>8 DEF IInv, TypeOK

\* BreadaStart(p): breada keeps its first buffer in bp while it is read.
LEMMA BreadaStartI ==
  ASSUME IInv, NEW p \in Procs, BreadaStart(p)
  PROVE  IInv'
<1>1. BufType'
  BY DEF IInv, TypeOK, BreadaStart, Strategy, Goto, Yield, BufType, LocType,
     Queue, Flag
<1>2. StoreType'
  BY DEF IInv, TypeOK, BreadaStart, Strategy, Goto, Yield, StoreType, LocType,
     Control, At, Writing0, BpLabel, Buf0
<1>3. SchedType'
  BY DEF IInv, TypeOK, BreadaStart, Strategy, Goto, Yield, SchedType, LocType,
     BufType, Label, Chans
<1>4. LocType'
  BY DEF IInv, TypeOK, BreadaStart, Strategy, Goto, Yield, LocType, Label,
     Flag, Buf0
<1>5. Control'
  BY DEF IInv, TypeOK, BufType, StoreType, SchedType, LocType, BreadaStart,
     Strategy, Goto, Yield, Control, At, Writing0, BpLabel, FirstLabel, Buf0
<1>6. Owned'
  <2>1. /\ bp[p] \in Bufs /\ first[p] = NoBuf /\ wb[p] = NoBuf
        /\ UNCHANGED <<freeq, wb, wflag>> /\ io \subseteq io'
        /\ bp' = [bp EXCEPT ![p] = NoBuf] /\ first' = [first EXCEPT ![p] = bp[p]]
        /\ pc' = [pc EXCEPT ![p] = "breada_ra"]
    BY DEF IInv, TypeOK, LocType, BreadaStart, Strategy, Goto, Yield, Control,
       At, Writing0, BpLabel, FirstLabel, Buf0
  <2>2. \A c \in Bufs : \A f \in {"BUSY", "ASYNC"} : f \in b_flags'[c] <=> f \in b_flags[c]
    BY DEF IInv, TypeOK, BufType, BreadaStart, Strategy
  <2>3. \A q \in Procs, c \in Bufs : Has(q, c) => Has(q, c)'
    BY <2>1 DEF IInv, TypeOK, SchedType, LocType, Has
  <2>4. \A c \in Bufs : Driven(c) => Driven(c)'
    BY <2>1, <2>2 DEF Driven
  <2> QED
    BY <2>1, <2>2, <2>3, <2>4 DEF IInv, Owned
<1>7. OnlyOwner'
  BY DEF IInv, TypeOK, BufType, StoreType, SchedType, LocType, BreadaStart,
     Strategy, Goto, Yield, Owned, OnlyOwner, UnderWay, Driven, Has, Control,
     At, Writing0, BpLabel, FirstLabel, Buf0
<1>8. UnderWay'
  <2>1. CASE "DONE" \in b_flags[bp[p]]
    <3>1. UNCHANGED <<b_flags, io, b_vp, b_dev, wb, wret>> /\ bp[p] \notin io
      BY <2>1 DEF IInv, BreadaStart, Strategy, UnderWay, idVars, wrVars
    <3>2. ASSUME NEW q \in Procs PROVE At(q) = "biowait" /\ q # p => At(q)' = "biowait"
      BY <3>1 DEF IInv, TypeOK, BufType, SchedType, LocType, BreadaStart,
         Strategy, Goto, Yield, At, Writing0
    <3> QED
      BY <2>1, <3>1, <3>2 DEF IInv, TypeOK, BufType, StoreType, SchedType,
         LocType, BreadaStart, Strategy, Goto, Yield, Owned, OnlyOwner,
         UnderWay, Driven, Has, Control, At, Writing0, BpLabel, FirstLabel,
         Buf0
  <2>2. CASE "DONE" \notin b_flags[bp[p]]
    <3>a. b_vp[bp[p]] # NoVnode /\ pc[p] \notin {"bwrite", "biowait"} \cup Writing0
      BY <2>2 DEF BreadaStart, Strategy, Writing0
    <3>b. bp[p] \in Bufs
      BY DEF IInv, TypeOK, LocType, BreadaStart, Control, At, Writing0,
         BpLabel, FirstLabel, Buf0
    <3>0. b_vp[bp[p]] # NoVnode /\ bp[p] \in Bufs /\ b_dev[bp[p]] \in Vnodes
      BY <3>a, <3>b DEF IInv, TypeOK, BufType, UnderWay
    <3>c. "BUSY" \in b_flags[bp[p]] /\ bp[p] \notin io
      BY <3>a, <3>b DEF IInv, OnlyOwner, UnderWay, Has, At
    <3>d. \A q \in Procs : ~ (pc[q] = "bwrite" /\ wb[q] = bp[p])
      BY <3>a, <3>b DEF IInv, OnlyOwner, Has
    <3>00. "ASYNC" \notin b_flags[bp[p]] /\ "BUSY" \in b_flags[bp[p]] /\ bp[p] \notin io
      BY <3>b, <3>c, <3>d DEF IInv, UnderWay
    <3>1. /\ b_flags' = [b_flags EXCEPT ![bp[p]] = @ \cup {"READ"}] /\ io' = io \cup {bp[p]}
          /\ UNCHANGED <<b_vp, b_dev, wb, wret>> /\ pc' = [pc EXCEPT ![p] = "breada_ra"]
          /\ bp' = [bp EXCEPT ![p] = NoBuf]
      BY <2>2 DEF BreadaStart, Strategy, Goto, Yield, idVars, wrVars
    <3>2. \A b \in io' : /\ "BUSY" \in b_flags'[b] /\ "DONE" \notin b_flags'[b]
                        /\ b_dev'[b] \in Vnodes
      BY <2>2, <3>0, <3>00, <3>1 DEF IInv, TypeOK, BufType, StoreType, UnderWay
    <3>3. ASSUME NEW b \in Bufs, "ASYNC" \in b_flags'[b]
          PROVE  b \in io' \/ \E q \in Procs : pc'[q] = "bwrite" /\ wb'[q] = b
      BY <3>3, <3>1 DEF IInv, TypeOK, BufType, SchedType, LocType, UnderWay,
         BreadaStart
    <3>4. ASSUME NEW q \in Procs
          PROVE  /\ bp'[q] \in io' => At(q)' = "biowait"
                 /\ pc'[q] = "bwrite" => wb'[q] \notin io'
      <4>1. CASE q = p
        BY <3>0, <3>1, <4>1 DEF IInv, TypeOK, SchedType, LocType, StoreType,
           At, Writing0
      <4>2. CASE q # p
        <5>1. bp[q] # bp[p] /\ (pc[q] = "bwrite" => wb[q] # bp[p])
          BY <3>0, <4>2 DEF IInv, OnlyOwner, Has
        <5> QED
          BY <5>1, <3>0, <3>1, <4>2 DEF IInv, TypeOK, SchedType, LocType,
             UnderWay, At, Writing0
      <4> QED BY <4>1, <4>2
    <3> QED
      BY <3>1, <3>2, <3>3, <3>4 DEF IInv, UnderWay
  <2> QED
    BY <2>1, <2>2
<1> QED BY <1>1, <1>2, <1>3, <1>4, <1>5, <1>6, <1>7, <1>8 DEF IInv, TypeOK

\* BreadaAhead(p): breada looks up its second block.
LEMMA BreadaAheadI ==
  ASSUME IInv, NEW p \in Procs, BreadaAhead(p)
  PROVE  IInv'
<1>1. BufType'
  BY DEF IInv, TypeOK, BreadaAhead, Goto, BufType, LocType, Queue, Flag
<1>2. StoreType'
  BY DEF IInv, TypeOK, BreadaAhead, Goto, StoreType
<1>3. SchedType'
  BY DEF IInv, TypeOK, BreadaAhead, Goto, SchedType, LocType, BufType, Label,
     Chans
<1>4. LocType'
  BY DEF IInv, TypeOK, BreadaAhead, Goto, LocType, Label, Flag, Buf0
<1>5. Control'
  BY DEF IInv, TypeOK, BufType, StoreType, SchedType, LocType, BreadaAhead,
     Goto, Control, At, Writing0, BpLabel, FirstLabel, Buf0
<1>6. Owned'
  BY DEF IInv, TypeOK, BufType, StoreType, SchedType, LocType, BreadaAhead,
     Goto, Owned, OnlyOwner, UnderWay, Driven, Has, Control, At, Writing0,
     BpLabel, FirstLabel, Buf0
<1>7. OnlyOwner'
  BY DEF IInv, TypeOK, BufType, StoreType, SchedType, LocType, BreadaAhead,
     Goto, Owned, OnlyOwner, UnderWay, Driven, Has, Control, At, Writing0,
     BpLabel, FirstLabel, Buf0
<1>8. UnderWay'
  BY DEF IInv, TypeOK, BufType, StoreType, SchedType, LocType, BreadaAhead,
     Goto, Owned, OnlyOwner, UnderWay, Driven, Has, Control, At, Writing0,
     BpLabel, FirstLabel, Buf0
<1> QED BY <1>1, <1>2, <1>3, <1>4, <1>5, <1>6, <1>7, <1>8 DEF IInv, TypeOK

\* BreadaAheadHit(p): breada releases the second buffer.
LEMMA BreadaAheadHitI ==
  ASSUME IInv, NEW p \in Procs, "DONE" \in b_flags[bp[p]], BreadaAheadHit(p)
  PROVE  IInv'
<1>1. BufType'
  BY DEF IInv, TypeOK, BreadaAheadHit, brelse, RelWake, Goto, BufType, LocType,
     Queue, Flag
<1>2. StoreType'
  BY DEF IInv, TypeOK, BreadaAheadHit, brelse, RelWake, Goto, StoreType
<1>3. SchedType'
  BY DEF IInv, TypeOK, BreadaAheadHit, brelse, RelWake, Goto, SchedType,
     LocType, BufType, Label, Chans
<1>4. LocType'
  BY DEF IInv, TypeOK, BreadaAheadHit, brelse, RelWake, Goto, LocType, Label,
     Flag, Buf0
<1>5. Control'
  BY DEF IInv, TypeOK, BufType, StoreType, SchedType, LocType, BreadaAheadHit,
     brelse, RelWake, Goto, Control, At, Writing0, BpLabel, FirstLabel, Buf0
<1>6. Owned'
  <2>1. \A c \in Bufs : "BUSY" \in b_flags'[c] <=> freeq'[c] = "none"
    BY DEF IInv, TypeOK, BufType, StoreType, SchedType, LocType,
       BreadaAheadHit, brelse, RelWake, Goto, Owned
  <2>2. \A c \in Bufs : "BUSY" \in b_flags'[c] =>
          \/ Has(p, c)' \/ Driven(c)'
          \/ "BUSY" \in b_flags[c] /\ ~ Driven(c) /\ ~ Has(p, c)
    BY DEF IInv, TypeOK, BufType, StoreType, SchedType, LocType,
       BreadaAheadHit, brelse, RelWake, Goto, Owned, OnlyOwner, UnderWay,
       Driven, Has, Control, At, Writing0, BpLabel, FirstLabel, Buf0
  <2>3. \A q \in Procs, c \in Bufs : q # p /\ Has(q, c) => Has(q, c)'
    BY DEF IInv, TypeOK, BufType, StoreType, SchedType, LocType,
       BreadaAheadHit, brelse, RelWake, Goto, Owned, OnlyOwner, UnderWay,
       Driven, Has, Control, At, Writing0, BpLabel, FirstLabel, Buf0
  <2> QED
    BY <2>1, <2>2, <2>3, OwnedStep DEF IInv
<1>7. OnlyOwner'
  BY DEF IInv, TypeOK, BufType, StoreType, SchedType, LocType, BreadaAheadHit,
     brelse, RelWake, Goto, Owned, OnlyOwner, UnderWay, Driven, Has, Control,
     At, Writing0, BpLabel, FirstLabel, Buf0
<1>8. UnderWay'
  BY DEF IInv, TypeOK, BufType, StoreType, SchedType, LocType, BreadaAheadHit,
     brelse, RelWake, Goto, Owned, OnlyOwner, UnderWay, Driven, Has, Control,
     At, Writing0, BpLabel, FirstLabel, Buf0
<1> QED BY <1>1, <1>2, <1>3, <1>4, <1>5, <1>6, <1>7, <1>8 DEF IInv, TypeOK

\* BreadaAheadStart(p): the driver has the second buffer from the start of the read.
LEMMA BreadaAheadStartI ==
  ASSUME IInv, NEW p \in Procs, "DONE" \notin b_flags[bp[p]],
         BreadaAheadStart(p)
  PROVE  IInv'
<1>1. BufType'
  BY DEF IInv, TypeOK, BreadaAheadStart, Strategy, Goto, Yield, BufType,
     LocType, Queue, Flag
<1>2. StoreType'
  BY DEF IInv, TypeOK, BreadaAheadStart, Strategy, Goto, Yield, StoreType,
     LocType, Control, At, Writing0, BpLabel, Buf0
<1>3. SchedType'
  BY SMTT(30) DEF IInv, TypeOK, BreadaAheadStart, Strategy, Goto, Yield, SchedType,
     LocType, BufType, Label, Chans
<1>4. LocType'
  BY DEF IInv, TypeOK, BreadaAheadStart, Strategy, Goto, Yield, LocType, Label,
     Flag, Buf0
<1>5. Control'
  BY DEF IInv, TypeOK, BufType, StoreType, SchedType, LocType,
     BreadaAheadStart, Strategy, Goto, Yield, Control, At, Writing0, BpLabel,
     FirstLabel, Buf0
<1>6. Owned'
  <2>1. \A c \in Bufs : "BUSY" \in b_flags'[c] <=> freeq'[c] = "none"
    BY DEF IInv, TypeOK, BufType, StoreType, SchedType, LocType,
       BreadaAheadStart, Strategy, Goto, Yield, Owned
  <2>2. \A c \in Bufs : "BUSY" \in b_flags'[c] =>
          \/ Has(p, c)' \/ Driven(c)'
          \/ "BUSY" \in b_flags[c] /\ ~ Driven(c) /\ ~ Has(p, c)
    BY DEF IInv, TypeOK, BufType, StoreType, SchedType, LocType,
       BreadaAheadStart, Strategy, Goto, Yield, Owned, OnlyOwner, UnderWay,
       Driven, Has, Control, At, Writing0, BpLabel, FirstLabel, Buf0
  <2>3. \A q \in Procs, c \in Bufs : q # p /\ Has(q, c) => Has(q, c)'
    BY DEF IInv, TypeOK, BufType, StoreType, SchedType, LocType,
       BreadaAheadStart, Strategy, Goto, Yield, Owned, OnlyOwner, UnderWay,
       Driven, Has, Control, At, Writing0, BpLabel, FirstLabel, Buf0
  <2> QED
    BY <2>1, <2>2, <2>3, OwnedStep DEF IInv
<1>7. OnlyOwner'
  BY DEF IInv, TypeOK, BufType, StoreType, SchedType, LocType,
     BreadaAheadStart, Strategy, Goto, Yield, Owned, OnlyOwner, UnderWay,
     Driven, Has, Control, At, Writing0, BpLabel, FirstLabel, Buf0
<1>8. UnderWay'
  BY DEF IInv, TypeOK, BufType, StoreType, SchedType, LocType,
     BreadaAheadStart, Strategy, Goto, Yield, Owned, OnlyOwner, UnderWay,
     Driven, Has, Control, At, Writing0, BpLabel, FirstLabel, Buf0
<1> QED BY <1>1, <1>2, <1>3, <1>4, <1>5, <1>6, <1>7, <1>8 DEF IInv, TypeOK

\* BreadaEnd(p): breada returns to the first buffer.
LEMMA BreadaEndI ==
  ASSUME IInv, NEW p \in Procs, BreadaEnd(p)
  PROVE  IInv'
<1>1. BufType'
  BY DEF IInv, TypeOK, BreadaEnd, Goto, BufType, LocType, Queue, Flag
<1>2. StoreType'
  BY DEF IInv, TypeOK, BreadaEnd, Goto, StoreType
<1>3. SchedType'
  BY DEF IInv, TypeOK, BreadaEnd, Goto, SchedType, LocType, BufType, Label,
     Chans
<1>4. LocType'
  BY DEF IInv, TypeOK, BreadaEnd, Goto, LocType, Label, Flag, Buf0
<1>5. Control'
  BY DEF IInv, TypeOK, BufType, StoreType, SchedType, LocType, BreadaEnd, Goto,
     Control, At, Writing0, BpLabel, FirstLabel, Buf0
<1>6. Owned'
  <2>1. /\ bp[p] = NoBuf /\ wb[p] = NoBuf /\ UNCHANGED <<b_flags, freeq, io, wb, wflag>>
        /\ bp' = [bp EXCEPT ![p] = first[p]] /\ first' = [first EXCEPT ![p] = NoBuf]
        /\ pc' = [pc EXCEPT ![p] = IF first[p] = NoBuf THEN "getblk" ELSE "biowait"]
    BY DEF IInv, BreadaEnd, Goto, Control, At, Writing0, BpLabel, FirstLabel
  <2>2. \A q \in Procs, c \in Bufs : Has(q, c) => Has(q, c)'
    BY <2>1 DEF IInv, TypeOK, SchedType, LocType, Has
  <2> QED
    BY <2>1, <2>2 DEF IInv, Owned, Driven
<1>7. OnlyOwner'
  BY DEF IInv, TypeOK, BufType, StoreType, SchedType, LocType, BreadaEnd, Goto,
     Owned, OnlyOwner, UnderWay, Driven, Has, Control, At, Writing0, BpLabel,
     FirstLabel, Buf0
<1>8. UnderWay'
  BY DEF IInv, TypeOK, BufType, StoreType, SchedType, LocType, BreadaEnd, Goto,
     Owned, OnlyOwner, UnderWay, Driven, Has, Control, At, Writing0, BpLabel,
     FirstLabel, Buf0
<1> QED BY <1>1, <1>2, <1>3, <1>4, <1>5, <1>6, <1>7, <1>8 DEF IInv, TypeOK

\* Release(p): brelse gives up the only claim on the buffer.
LEMMA ReleaseI ==
  ASSUME IInv, NEW p \in Procs, Release(p)
  PROVE  IInv'
<1>1. BufType'
  BY DEF IInv, TypeOK, Release, brelse, RelWake, Return, Yield, BufType,
     LocType, Queue, Flag
<1>2. StoreType'
  BY DEF IInv, TypeOK, Release, brelse, RelWake, Return, Yield, StoreType
<1>3. SchedType'
  BY DEF IInv, TypeOK, Release, brelse, RelWake, Return, Yield, SchedType,
     LocType, BufType, Label, Chans
<1>4. LocType'
  BY NoCallType DEF IInv, TypeOK, Release, brelse, RelWake, Return, Yield,
     LocType, Label, Buf0
<1>5. Control'
  BY DEF IInv, TypeOK, BufType, StoreType, SchedType, LocType, Release, brelse,
     RelWake, Return, Yield, Control, At, Writing0, BpLabel, FirstLabel, Buf0
<1>6. Owned'
  <2>1. \A c \in Bufs : "BUSY" \in b_flags'[c] <=> freeq'[c] = "none"
    BY DEF IInv, TypeOK, BufType, StoreType, SchedType, LocType, Release,
       brelse, RelWake, Return, Yield, Owned
  <2>2. \A c \in Bufs : "BUSY" \in b_flags'[c] =>
          \/ Has(p, c)' \/ Driven(c)'
          \/ "BUSY" \in b_flags[c] /\ ~ Driven(c) /\ ~ Has(p, c)
    BY DEF IInv, TypeOK, BufType, StoreType, SchedType, LocType, Release,
       brelse, RelWake, Return, Yield, Owned, OnlyOwner, UnderWay, Driven, Has,
       Control, At, Writing0, BpLabel, FirstLabel, Buf0
  <2>3. \A q \in Procs, c \in Bufs : q # p /\ Has(q, c) => Has(q, c)'
    BY DEF IInv, TypeOK, BufType, StoreType, SchedType, LocType, Release,
       brelse, RelWake, Return, Yield, Owned, OnlyOwner, UnderWay, Driven, Has,
       Control, At, Writing0, BpLabel, FirstLabel, Buf0
  <2> QED
    BY <2>1, <2>2, <2>3, OwnedStep DEF IInv
<1>7. OnlyOwner'
  BY DEF IInv, TypeOK, BufType, StoreType, SchedType, LocType, Release, brelse,
     RelWake, Return, Yield, Owned, OnlyOwner, UnderWay, Driven, Has, Control,
     At, Writing0, BpLabel, FirstLabel, Buf0
<1>8. UnderWay'
  BY DEF IInv, TypeOK, BufType, StoreType, SchedType, LocType, Release, brelse,
     RelWake, Return, Yield, Owned, OnlyOwner, UnderWay, Driven, Has, Control,
     At, Writing0, BpLabel, FirstLabel, Buf0
<1> QED BY <1>1, <1>2, <1>3, <1>4, <1>5, <1>6, <1>7, <1>8 DEF IInv, TypeOK

\* Bdwrite(p): bdwrite gives up the only claim on the buffer.
LEMMA BdwriteI ==
  ASSUME IInv, NEW p \in Procs, Bdwrite(p)
  PROVE  IInv'
<1>1. BufType'
  BY DEF IInv, TypeOK, Bdwrite, brelse, RelWake, Return, Yield, BufType,
     LocType, Queue, Flag
<1>2. StoreType'
  BY DEF IInv, TypeOK, Bdwrite, brelse, RelWake, Return, Yield, StoreType
<1>3. SchedType'
  BY DEF IInv, TypeOK, Bdwrite, brelse, RelWake, Return, Yield, SchedType,
     LocType, BufType, Label, Chans
<1>4. LocType'
  BY NoCallType DEF IInv, TypeOK, Bdwrite, brelse, RelWake, Return, Yield,
     LocType, Label, Buf0
<1>5. Control'
  BY DEF IInv, TypeOK, BufType, StoreType, SchedType, LocType, Bdwrite, brelse,
     RelWake, Return, Yield, Control, At, Writing0, BpLabel, FirstLabel, Buf0
<1>6. Owned'
  BY SMTT(30) DEF IInv, TypeOK, BufType, StoreType, SchedType, LocType, Bdwrite, brelse,
     RelWake, Return, Yield, Owned, OnlyOwner, UnderWay, Driven, Has, Control,
     At, Writing0, BpLabel, FirstLabel, Buf0
<1>7. OnlyOwner'
  BY DEF IInv, TypeOK, BufType, StoreType, SchedType, LocType, Bdwrite, brelse,
     RelWake, Return, Yield, Owned, OnlyOwner, UnderWay, Driven, Has, Control,
     At, Writing0, BpLabel, FirstLabel, Buf0
<1>8. UnderWay'
  BY DEF IInv, TypeOK, BufType, StoreType, SchedType, LocType, Bdwrite, brelse,
     RelWake, Return, Yield, Owned, OnlyOwner, UnderWay, Driven, Has, Control,
     At, Writing0, BpLabel, FirstLabel, Buf0
<1> QED BY <1>1, <1>2, <1>3, <1>4, <1>5, <1>6, <1>7, <1>8 DEF IInv, TypeOK

\* Bwrite(p): an asynchronous write passes the buffer on to the driver.
LEMMA BwriteI ==
  ASSUME IInv, NEW p \in Procs, Bwrite(p)
  PROVE  IInv'
<1>1. BufType'
  BY DEF IInv, TypeOK, Bwrite, Strategy, Goto, Yield, Cleared, BufType,
     LocType, Queue, Flag
<1>2. StoreType'
  BY DEF IInv, TypeOK, Bwrite, Strategy, Goto, Yield, Cleared, StoreType,
     LocType, Control, At, Writing0, BpLabel, Buf0
<1>3. SchedType'
  BY DEF IInv, TypeOK, Bwrite, Strategy, Goto, Yield, Cleared, SchedType,
     LocType, BufType, Label, Chans
<1>4. LocType'
  BY DEF IInv, TypeOK, Bwrite, Strategy, Goto, Yield, Cleared, LocType, Label,
     Flag, Buf0
<1>5. Control'
  BY DEF IInv, TypeOK, BufType, StoreType, SchedType, LocType, Bwrite,
     Strategy, Goto, Yield, Cleared, Control, At, Writing0, BpLabel,
     FirstLabel, Buf0
<1>6. Owned'
  BY DEF IInv, TypeOK, BufType, StoreType, SchedType, LocType, Bwrite,
     Strategy, Goto, Yield, Cleared, Owned, OnlyOwner, UnderWay, Driven, Has,
     Control, At, Writing0, BpLabel, FirstLabel, Buf0
<1>7. OnlyOwner'
  BY DEF IInv, TypeOK, BufType, StoreType, SchedType, LocType, Bwrite,
     Strategy, Goto, Yield, Cleared, Owned, OnlyOwner, UnderWay, Driven, Has,
     Control, At, Writing0, BpLabel, FirstLabel, Buf0
<1>8. UnderWay'
  <2>1. \A b \in io' : /\ "BUSY" \in b_flags'[b] /\ "DONE" \notin b_flags'[b]
                      /\ b_dev'[b] \in Vnodes
    BY DEF IInv, TypeOK, BufType, StoreType, SchedType, LocType, Bwrite,
       Strategy, Goto, Yield, Cleared, Owned, OnlyOwner, UnderWay, Driven, Has,
       Control, At, Writing0, BpLabel, FirstLabel, Buf0
  <2>2. \A b \in Bufs : b_vp'[b] # NoVnode => b_dev'[b] = b_vp'[b]
    BY DEF IInv, TypeOK, BufType, StoreType, SchedType, LocType, Bwrite,
       Strategy, Goto, Yield, Cleared, UnderWay
  <2>3. ASSUME NEW b \in Bufs, "ASYNC" \in b_flags'[b]
        PROVE  b \in io' \/ \E q \in Procs : pc'[q] = "bwrite" /\ wb'[q] = b
    BY <2>3 DEF IInv, TypeOK, BufType, StoreType, SchedType, LocType, Bwrite,
       Strategy, Goto, Yield, Cleared, Owned, OnlyOwner, UnderWay, Driven, Has,
       Control, At, Writing0, BpLabel, FirstLabel, Buf0
  <2>4. ASSUME NEW q \in Procs
        PROVE  /\ bp'[q] \in io' => At(q)' = "biowait"
               /\ pc'[q] = "bwrite" => wb'[q] \notin io'
    BY <2>4 DEF IInv, TypeOK, BufType, StoreType, SchedType, LocType, Bwrite,
       Strategy, Goto, Yield, Cleared, Owned, OnlyOwner, UnderWay, Driven, Has,
       Control, At, Writing0, BpLabel, FirstLabel, Buf0
  <2> QED
    BY <2>1, <2>2, <2>3, <2>4 DEF UnderWay
<1> QED BY <1>1, <1>2, <1>3, <1>4, <1>5, <1>6, <1>7, <1>8 DEF IInv, TypeOK

\* BwriteAsync(p): bwrite returns with no claim on the buffer it started.
LEMMA BwriteAsyncI ==
  ASSUME IInv, NEW p \in Procs, BwriteAsync(p)
  PROVE  IInv'
<1>1. BufType'
  BY DEF IInv, TypeOK, BwriteAsync, BwriteReturn, Return, Yield, Goto, BufType,
     LocType, Queue, Flag
<1>2. StoreType'
  BY DEF IInv, TypeOK, BwriteAsync, BwriteReturn, Return, Yield, Goto,
     StoreType
<1>3. SchedType'
  BY DEF IInv, TypeOK, BwriteAsync, BwriteReturn, Return, Yield, Goto,
     SchedType, LocType, BufType, Label, Chans
<1>4. LocType'
  BY NoCallType DEF IInv, TypeOK, BwriteAsync, BwriteReturn, Return, Yield,
     Goto, LocType, Label, Buf0
<1>5. Control'
  BY DEF IInv, TypeOK, BufType, StoreType, SchedType, LocType, BwriteAsync,
     BwriteReturn, Return, Yield, Goto, Control, At, Writing0, BpLabel,
     FirstLabel, Buf0
<1>6. Owned'
  <2>1. \A c \in Bufs : "BUSY" \in b_flags'[c] <=> freeq'[c] = "none"
    BY DEF IInv, TypeOK, BufType, StoreType, SchedType, LocType, BwriteAsync,
       BwriteReturn, Return, Yield, Goto, Owned
  <2>2. \A c \in Bufs : "BUSY" \in b_flags'[c] =>
          \/ Has(p, c)' \/ Driven(c)'
          \/ "BUSY" \in b_flags[c] /\ ~ Driven(c) /\ ~ Has(p, c)
    BY DEF IInv, TypeOK, BufType, StoreType, SchedType, LocType, BwriteAsync,
       BwriteReturn, Return, Yield, Goto, Owned, OnlyOwner, UnderWay, Driven,
       Has, Control, At, Writing0, BpLabel, FirstLabel, Buf0
  <2>3. \A q \in Procs, c \in Bufs : q # p /\ Has(q, c) => Has(q, c)'
    BY DEF IInv, TypeOK, BufType, StoreType, SchedType, LocType, BwriteAsync,
       BwriteReturn, Return, Yield, Goto, Owned, OnlyOwner, UnderWay, Driven,
       Has, Control, At, Writing0, BpLabel, FirstLabel, Buf0
  <2> QED
    BY <2>1, <2>2, <2>3, OwnedStep DEF IInv
<1>7. OnlyOwner'
  BY DEF IInv, TypeOK, BufType, StoreType, SchedType, LocType, BwriteAsync,
     BwriteReturn, Return, Yield, Goto, Owned, OnlyOwner, UnderWay, Driven,
     Has, Control, At, Writing0, BpLabel, FirstLabel, Buf0
<1>8. UnderWay'
  <2>1. \A b \in io' : /\ "BUSY" \in b_flags'[b] /\ "DONE" \notin b_flags'[b]
                      /\ b_dev'[b] \in Vnodes
    BY DEF IInv, TypeOK, BufType, StoreType, SchedType, LocType, BwriteAsync,
       BwriteReturn, Return, Yield, Goto, Owned, OnlyOwner, UnderWay, Driven,
       Has, Control, At, Writing0, BpLabel, FirstLabel, Buf0
  <2>2. \A b \in Bufs : b_vp'[b] # NoVnode => b_dev'[b] = b_vp'[b]
    BY DEF IInv, TypeOK, BufType, StoreType, SchedType, LocType, BwriteAsync,
       BwriteReturn, Return, Yield, Goto, UnderWay
  <2>3. ASSUME NEW b \in Bufs, "ASYNC" \in b_flags'[b]
        PROVE  b \in io' \/ \E q \in Procs : pc'[q] = "bwrite" /\ wb'[q] = b
    <3>1. CASE b \in io'
      BY <3>1
    <3>2. CASE b \notin io'
      <4>1. "ASYNC" \in b_flags[b] /\ b \notin io
        BY <2>3, <3>2 DEF IInv, TypeOK, BufType, StoreType, SchedType, LocType,
           BwriteAsync, BwriteReturn, Return, Yield, Goto
      <4>2. PICK q \in Procs : pc[q] = "bwrite" /\ wb[q] = b
        BY <4>1, Zenon DEF IInv, UnderWay
      <4>3. q # p
        BY <4>2 DEF BwriteAsync
      <4>4. pc'[q] = pc[q] /\ wb'[q] = wb[q]
        BY <4>3 DEF IInv, TypeOK, BufType, StoreType, SchedType, LocType,
           BwriteAsync, BwriteReturn, Return, Yield, Goto
      <4> QED
        BY <4>2, <4>4
    <3> QED
      BY <3>1, <3>2
  <2>4. ASSUME NEW q \in Procs
        PROVE  /\ bp'[q] \in io' => At(q)' = "biowait"
               /\ pc'[q] = "bwrite" => wb'[q] \notin io'
    BY <2>4 DEF IInv, TypeOK, BufType, StoreType, SchedType, LocType,
       BwriteAsync, BwriteReturn, Return, Yield, Goto, Owned, OnlyOwner,
       UnderWay, Driven, Has, Control, At, Writing0, BpLabel, FirstLabel, Buf0
  <2> QED
    BY <2>1, <2>2, <2>3, <2>4 DEF UnderWay
<1> QED BY <1>1, <1>2, <1>3, <1>4, <1>5, <1>6, <1>7, <1>8 DEF IInv, TypeOK

\* BwriteWait(p): bwrite sleeps with the buffer still its own.
LEMMA BwriteWaitI ==
  ASSUME IInv, NEW p \in Procs, BwriteWait(p)
  PROVE  IInv'
<1>1. BufType'
  BY DEF IInv, TypeOK, BwriteWait, Sleep, Yield, BufType, LocType, Queue, Flag
<1>2. StoreType'
  BY DEF IInv, TypeOK, BwriteWait, Sleep, Yield, StoreType
<1>3. SchedType'
  BY DEF IInv, TypeOK, BwriteWait, Sleep, Yield, SchedType, LocType, BufType,
     Label, Chans, Control, At, Writing0, BpLabel, Buf0
<1>4. LocType'
  BY DEF IInv, TypeOK, BwriteWait, Sleep, Yield, LocType, Label, Flag, Buf0
<1>5. Control'
  BY DEF IInv, TypeOK, BufType, StoreType, SchedType, LocType, BwriteWait,
     Sleep, Yield, Control, At, Writing0, BpLabel, FirstLabel, Buf0
<1>6. Owned'
  BY DEF IInv, TypeOK, BufType, StoreType, SchedType, LocType, BwriteWait,
     Sleep, Yield, Owned, OnlyOwner, UnderWay, Driven, Has, Control, At,
     Writing0, BpLabel, FirstLabel, Buf0
<1>7. OnlyOwner'
  BY DEF IInv, TypeOK, BufType, StoreType, SchedType, LocType, BwriteWait,
     Sleep, Yield, Owned, OnlyOwner, UnderWay, Driven, Has, Control, At,
     Writing0, BpLabel, FirstLabel, Buf0
<1>8. UnderWay'
  BY DEF IInv, TypeOK, BufType, StoreType, SchedType, LocType, BwriteWait,
     Sleep, Yield, Owned, OnlyOwner, UnderWay, Driven, Has, Control, At,
     Writing0, BpLabel, FirstLabel, Buf0
<1> QED BY <1>1, <1>2, <1>3, <1>4, <1>5, <1>6, <1>7, <1>8 DEF IInv, TypeOK

\* BwriteDone(p): bwrite releases the buffer it waited for.
LEMMA BwriteDoneI ==
  ASSUME IInv, NEW p \in Procs, BwriteDone(p)
  PROVE  IInv'
<1>1. BufType'
  BY DEF IInv, TypeOK, BwriteDone, brelse, RelWake, BwriteReturn, Return,
     Yield, Goto, BufType, LocType, Queue, Flag
<1>2. StoreType'
  BY DEF IInv, TypeOK, BwriteDone, brelse, RelWake, BwriteReturn, Return,
     Yield, Goto, StoreType
<1>3. SchedType'
  BY SMTT(30) DEF IInv, TypeOK, BwriteDone, brelse, RelWake, BwriteReturn, Return,
     Yield, Goto, SchedType, LocType, BufType, Label, Chans
<1>4. LocType'
  BY NoCallType DEF IInv, TypeOK, BwriteDone, brelse, RelWake, BwriteReturn,
     Return, Yield, Goto, LocType, Label, Buf0
<1>5. Control'
  BY DEF IInv, TypeOK, BufType, StoreType, SchedType, LocType, BwriteDone,
     brelse, RelWake, BwriteReturn, Return, Yield, Goto, Control, At, Writing0,
     BpLabel, FirstLabel, Buf0
<1>6. Owned'
  <2>1. \A c \in Bufs : "BUSY" \in b_flags'[c] <=> freeq'[c] = "none"
    BY DEF IInv, TypeOK, BufType, StoreType, SchedType, LocType, BwriteDone,
       brelse, RelWake, BwriteReturn, Return, Yield, Goto, Owned
  <2>2. \A c \in Bufs : "BUSY" \in b_flags'[c] =>
          \/ Has(p, c)' \/ Driven(c)'
          \/ "BUSY" \in b_flags[c] /\ ~ Driven(c) /\ ~ Has(p, c)
    BY DEF IInv, TypeOK, BufType, StoreType, SchedType, LocType, BwriteDone,
       brelse, RelWake, BwriteReturn, Return, Yield, Goto, Owned, OnlyOwner,
       UnderWay, Driven, Has, Control, At, Writing0, BpLabel, FirstLabel, Buf0
  <2>3. \A q \in Procs, c \in Bufs : q # p /\ Has(q, c) => Has(q, c)'
    BY DEF IInv, TypeOK, BufType, StoreType, SchedType, LocType, BwriteDone,
       brelse, RelWake, BwriteReturn, Return, Yield, Goto, Owned, OnlyOwner,
       UnderWay, Driven, Has, Control, At, Writing0, BpLabel, FirstLabel, Buf0
  <2> QED
    BY <2>1, <2>2, <2>3, OwnedStep DEF IInv
<1>7. OnlyOwner'
  BY DEF IInv, TypeOK, BufType, StoreType, SchedType, LocType, BwriteDone,
     brelse, RelWake, BwriteReturn, Return, Yield, Goto, Owned, OnlyOwner,
     UnderWay, Driven, Has, Control, At, Writing0, BpLabel, FirstLabel, Buf0
<1>8. UnderWay'
  <2>1. \A b \in io' : /\ "BUSY" \in b_flags'[b] /\ "DONE" \notin b_flags'[b]
                      /\ b_dev'[b] \in Vnodes
    BY DEF IInv, TypeOK, BufType, StoreType, SchedType, LocType, BwriteDone,
       brelse, RelWake, BwriteReturn, Return, Yield, Goto, Owned, OnlyOwner,
       UnderWay, Driven, Has, Control, At, Writing0, BpLabel, FirstLabel, Buf0
  <2>2. \A b \in Bufs : b_vp'[b] # NoVnode => b_dev'[b] = b_vp'[b]
    BY DEF IInv, TypeOK, BufType, StoreType, SchedType, LocType, BwriteDone,
       brelse, RelWake, BwriteReturn, Return, Yield, Goto, UnderWay
  <2>3. ASSUME NEW b \in Bufs, "ASYNC" \in b_flags'[b]
        PROVE  b \in io' \/ \E q \in Procs : pc'[q] = "bwrite" /\ wb'[q] = b
    BY <2>3 DEF IInv, TypeOK, BufType, StoreType, SchedType, LocType,
       BwriteDone, brelse, RelWake, BwriteReturn, Return, Yield, Goto, Owned,
       OnlyOwner, UnderWay, Driven, Has, Control, At, Writing0, BpLabel,
       FirstLabel, Buf0
  <2>4. ASSUME NEW q \in Procs
        PROVE  /\ bp'[q] \in io' => At(q)' = "biowait"
               /\ pc'[q] = "bwrite" => wb'[q] \notin io'
    BY <2>4 DEF IInv, TypeOK, BufType, StoreType, SchedType, LocType,
       BwriteDone, brelse, RelWake, BwriteReturn, Return, Yield, Goto, Owned,
       OnlyOwner, UnderWay, Driven, Has, Control, At, Writing0, BpLabel,
       FirstLabel, Buf0
  <2> QED
    BY <2>1, <2>2, <2>3, <2>4 DEF UnderWay
<1> QED BY <1>1, <1>2, <1>3, <1>4, <1>5, <1>6, <1>7, <1>8 DEF IInv, TypeOK

\* StrategyNoVnode(p): a panic changes nothing else.
LEMMA StrategyNoVnodeI ==
  ASSUME IInv, NEW p \in Procs, StrategyNoVnode(p)
  PROVE  IInv'
<1>1. BufType'
  BY DEF IInv, TypeOK, StrategyNoVnode, Crash, BufType, LocType, Queue, Flag
<1>2. StoreType'
  BY DEF IInv, TypeOK, StrategyNoVnode, Crash, StoreType
<1>3. SchedType'
  BY DEF Fault, IInv, TypeOK, StrategyNoVnode, Crash, SchedType, LocType,
     BufType, Label, Chans
<1>4. LocType'
  BY DEF IInv, TypeOK, StrategyNoVnode, Crash, LocType, Label, Flag, Buf0
<1>5. Control'
  <2>1. UNCHANGED <<bufVars, cpu, wchan, rpc, pc, locVars>>
    BY DEF StrategyNoVnode, Crash
  <2> QED
    BY <2>1 DEF IInv, Owned, OnlyOwner, UnderWay, Driven, Has, Control, At,
       Writing0, BpLabel, FirstLabel, Buf0
<1>6. Owned'
  <2>1. UNCHANGED <<bufVars, cpu, wchan, rpc, pc, locVars>>
    BY DEF StrategyNoVnode, Crash
  <2> QED
    BY <2>1 DEF IInv, Owned, OnlyOwner, UnderWay, Driven, Has, Control, At,
       Writing0, BpLabel, FirstLabel, Buf0
<1>7. OnlyOwner'
  <2>1. UNCHANGED <<bufVars, cpu, wchan, rpc, pc, locVars>>
    BY DEF StrategyNoVnode, Crash
  <2> QED
    BY <2>1 DEF IInv, Owned, OnlyOwner, UnderWay, Driven, Has, Control, At,
       Writing0, BpLabel, FirstLabel, Buf0
<1>8. UnderWay'
  <2>1. UNCHANGED <<bufVars, cpu, wchan, rpc, pc, locVars>>
    BY DEF StrategyNoVnode, Crash
  <2> QED
    BY <2>1 DEF IInv, Owned, OnlyOwner, UnderWay, Driven, Has, Control, At,
       Writing0, BpLabel, FirstLabel, Buf0
<1> QED BY <1>1, <1>2, <1>3, <1>4, <1>5, <1>6, <1>7, <1>8 DEF IInv, TypeOK

\* BflushCollect(p): bflush notes buffers without taking them.
LEMMA BflushCollectI ==
  ASSUME IInv, NEW p \in Procs, BflushCollect(p)
  PROVE  IInv'
<1>1. BufType'
  BY DEF IInv, TypeOK, BflushCollect, Goto, BufType, LocType, Queue, Flag
<1>2. StoreType'
  BY DEF IInv, TypeOK, BflushCollect, Goto, StoreType
<1>3. SchedType'
  BY DEF IInv, TypeOK, BflushCollect, Goto, SchedType, LocType, BufType, Label,
     Chans
<1>4. LocType'
  <2>1. PICK S \in SUBSET Bufs : group' = [group EXCEPT ![p] = S]
    BY DEF BflushCollect, Grab, DirtyFree
  <2> QED
    BY <2>1 DEF IInv, TypeOK, LocType, BflushCollect
<1>5. Control'
  BY DEF IInv, TypeOK, BufType, StoreType, SchedType, LocType, BflushCollect,
     Goto, Control, At, Writing0, BpLabel, FirstLabel, Buf0
<1>6. Owned'
  BY DEF IInv, TypeOK, BufType, StoreType, SchedType, LocType, BflushCollect,
     Goto, Owned, OnlyOwner, UnderWay, Driven, Has, Control, At, Writing0,
     BpLabel, FirstLabel, Buf0
<1>7. OnlyOwner'
  BY DEF IInv, TypeOK, BufType, StoreType, SchedType, LocType, BflushCollect,
     Goto, Owned, OnlyOwner, UnderWay, Driven, Has, Control, At, Writing0,
     BpLabel, FirstLabel, Buf0
<1>8. UnderWay'
  BY DEF IInv, TypeOK, BufType, StoreType, SchedType, LocType, BflushCollect,
     Goto, Owned, OnlyOwner, UnderWay, Driven, Has, Control, At, Writing0,
     BpLabel, FirstLabel, Buf0
<1> QED BY <1>1, <1>2, <1>3, <1>4, <1>5, <1>6, <1>7, <1>8 DEF IInv, TypeOK

\* BflushDone(p): bflush returns with no buffer.
LEMMA BflushDoneI ==
  ASSUME IInv, NEW p \in Procs, BflushDone(p)
  PROVE  IInv'
<1>1. BufType'
  BY DEF IInv, TypeOK, BflushDone, Return, Yield, BufType, LocType, Queue, Flag
<1>2. StoreType'
  BY DEF IInv, TypeOK, BflushDone, Return, Yield, StoreType
<1>3. SchedType'
  BY DEF IInv, TypeOK, BflushDone, Return, Yield, SchedType, LocType, BufType,
     Label, Chans
<1>4. LocType'
  BY NoCallType DEF IInv, TypeOK, BflushDone, Return, Yield, LocType, Label,
     Buf0
<1>5. Control'
  BY DEF IInv, TypeOK, BufType, StoreType, SchedType, LocType, BflushDone,
     Return, Yield, Control, At, Writing0, BpLabel, FirstLabel, Buf0
<1>6. Owned'
  BY DEF IInv, TypeOK, BufType, StoreType, SchedType, LocType, BflushDone,
     Return, Yield, Owned, OnlyOwner, UnderWay, Driven, Has, Control, At,
     Writing0, BpLabel, FirstLabel, Buf0
<1>7. OnlyOwner'
  BY DEF IInv, TypeOK, BufType, StoreType, SchedType, LocType, BflushDone,
     Return, Yield, Owned, OnlyOwner, UnderWay, Driven, Has, Control, At,
     Writing0, BpLabel, FirstLabel, Buf0
<1>8. UnderWay'
  BY DEF IInv, TypeOK, BufType, StoreType, SchedType, LocType, BflushDone,
     Return, Yield, Owned, OnlyOwner, UnderWay, Driven, Has, Control, At,
     Writing0, BpLabel, FirstLabel, Buf0
<1> QED BY <1>1, <1>2, <1>3, <1>4, <1>5, <1>6, <1>7, <1>8 DEF IInv, TypeOK

\* BflushWrite(p): bflush takes a buffer that is free at that moment.
LEMMA BflushWriteI ==
  ASSUME IInv, NEW p \in Procs, BflushWrite(p)
  PROVE  IInv'
<1>1. BufType'
  BY DEF IInv, TypeOK, BflushWrite, notavail, CallBwrite, Goto, BufType,
     LocType, Queue, Flag
<1>2. StoreType'
  BY DEF IInv, TypeOK, BflushWrite, notavail, CallBwrite, Goto, StoreType
<1>3. SchedType'
  BY DEF IInv, TypeOK, BflushWrite, notavail, CallBwrite, Goto, SchedType,
     LocType, BufType, Label, Chans
<1>4. LocType'
  BY DEF IInv, TypeOK, BflushWrite, notavail, CallBwrite, Goto, LocType, Label,
     Flag, Buf0
<1>5. Control'
  BY DEF IInv, TypeOK, BufType, StoreType, SchedType, LocType, BflushWrite,
     notavail, CallBwrite, Goto, Control, At, Writing0, BpLabel, FirstLabel,
     Buf0
<1>6. Owned'
  BY DEF IInv, TypeOK, BufType, StoreType, SchedType, LocType, BflushWrite,
     notavail, CallBwrite, Goto, Owned, OnlyOwner, UnderWay, Driven, Has,
     Control, At, Writing0, BpLabel, FirstLabel, Buf0
<1>7. OnlyOwner'
  BY DEF IInv, TypeOK, BufType, StoreType, SchedType, LocType, BflushWrite,
     notavail, CallBwrite, Goto, Owned, OnlyOwner, UnderWay, Driven, Has,
     Control, At, Writing0, BpLabel, FirstLabel, Buf0
<1>8. UnderWay'
  BY DEF IInv, TypeOK, BufType, StoreType, SchedType, LocType, BflushWrite,
     notavail, CallBwrite, Goto, Owned, OnlyOwner, UnderWay, Driven, Has,
     Control, At, Writing0, BpLabel, FirstLabel, Buf0
<1> QED BY <1>1, <1>2, <1>3, <1>4, <1>5, <1>6, <1>7, <1>8 DEF IInv, TypeOK

\* BflushSteal(p): a panic changes nothing else.
LEMMA BflushStealI ==
  ASSUME IInv, NEW p \in Procs, BflushSteal(p)
  PROVE  IInv'
<1>1. BufType'
  BY DEF IInv, TypeOK, BflushSteal, Crash, BufType, LocType, Queue, Flag
<1>2. StoreType'
  BY DEF IInv, TypeOK, BflushSteal, Crash, StoreType
<1>3. SchedType'
  BY DEF Fault, IInv, TypeOK, BflushSteal, Crash, SchedType, LocType, BufType,
     Label, Chans
<1>4. LocType'
  BY DEF IInv, TypeOK, BflushSteal, Crash, LocType, Label, Flag, Buf0
<1>5. Control'
  <2>1. UNCHANGED <<bufVars, cpu, wchan, rpc, pc, locVars>>
    BY DEF BflushSteal, Crash
  <2> QED
    BY <2>1 DEF IInv, Owned, OnlyOwner, UnderWay, Driven, Has, Control, At,
       Writing0, BpLabel, FirstLabel, Buf0
<1>6. Owned'
  <2>1. UNCHANGED <<bufVars, cpu, wchan, rpc, pc, locVars>>
    BY DEF BflushSteal, Crash
  <2> QED
    BY <2>1 DEF IInv, Owned, OnlyOwner, UnderWay, Driven, Has, Control, At,
       Writing0, BpLabel, FirstLabel, Buf0
<1>7. OnlyOwner'
  <2>1. UNCHANGED <<bufVars, cpu, wchan, rpc, pc, locVars>>
    BY DEF BflushSteal, Crash
  <2> QED
    BY <2>1 DEF IInv, Owned, OnlyOwner, UnderWay, Driven, Has, Control, At,
       Writing0, BpLabel, FirstLabel, Buf0
<1>8. UnderWay'
  <2>1. UNCHANGED <<bufVars, cpu, wchan, rpc, pc, locVars>>
    BY DEF BflushSteal, Crash
  <2> QED
    BY <2>1 DEF IInv, Owned, OnlyOwner, UnderWay, Driven, Has, Control, At,
       Writing0, BpLabel, FirstLabel, Buf0
<1> QED BY <1>1, <1>2, <1>3, <1>4, <1>5, <1>6, <1>7, <1>8 DEF IInv, TypeOK

\* BflushSkip(p): bflush drops a note.
LEMMA BflushSkipI ==
  ASSUME IInv, NEW p \in Procs, BflushSkip(p)
  PROVE  IInv'
<1>1. BufType'
  BY DEF IInv, TypeOK, BflushSkip, Goto, BufType, LocType, Queue, Flag
<1>2. StoreType'
  BY DEF IInv, TypeOK, BflushSkip, Goto, StoreType
<1>3. SchedType'
  BY DEF IInv, TypeOK, BflushSkip, Goto, SchedType, LocType, BufType, Label,
     Chans
<1>4. LocType'
  BY DEF IInv, TypeOK, BflushSkip, Goto, LocType, Label, Flag, Buf0
<1>5. Control'
  BY DEF IInv, TypeOK, BufType, StoreType, SchedType, LocType, BflushSkip,
     Goto, Control, At, Writing0, BpLabel, FirstLabel, Buf0
<1>6. Owned'
  BY DEF IInv, TypeOK, BufType, StoreType, SchedType, LocType, BflushSkip,
     Goto, Owned, OnlyOwner, UnderWay, Driven, Has, Control, At, Writing0,
     BpLabel, FirstLabel, Buf0
<1>7. OnlyOwner'
  BY DEF IInv, TypeOK, BufType, StoreType, SchedType, LocType, BflushSkip,
     Goto, Owned, OnlyOwner, UnderWay, Driven, Has, Control, At, Writing0,
     BpLabel, FirstLabel, Buf0
<1>8. UnderWay'
  BY DEF IInv, TypeOK, BufType, StoreType, SchedType, LocType, BflushSkip,
     Goto, Owned, OnlyOwner, UnderWay, Driven, Has, Control, At, Writing0,
     BpLabel, FirstLabel, Buf0
<1> QED BY <1>1, <1>2, <1>3, <1>4, <1>5, <1>6, <1>7, <1>8 DEF IInv, TypeOK

\* BlkflushBusy(p): blkflush sleeps with no buffer.
LEMMA BlkflushBusyI ==
  ASSUME IInv, NEW p \in Procs, BlkflushBusy(p)
  PROVE  IInv'
<1>1. BufType'
  BY DEF IInv, TypeOK, BlkflushBusy, WaitFor, Sleep, Yield, ToFlush,
     Overlapping, BufType, LocType, Queue, Flag
<1>2. StoreType'
  BY DEF IInv, TypeOK, BlkflushBusy, WaitFor, Sleep, Yield, ToFlush,
     Overlapping, StoreType
<1>3. SchedType'
  BY DEF IInv, TypeOK, BlkflushBusy, WaitFor, Sleep, Yield, ToFlush,
     Overlapping, SchedType, LocType, BufType, Label, Chans
<1>4. LocType'
  BY DEF IInv, TypeOK, BlkflushBusy, WaitFor, Sleep, Yield, ToFlush,
     Overlapping, LocType, Label, Flag, Buf0
<1>5. Control'
  BY DEF IInv, TypeOK, BufType, StoreType, SchedType, LocType, BlkflushBusy,
     WaitFor, Sleep, Yield, ToFlush, Overlapping, Control, At, Writing0,
     BpLabel, FirstLabel, Buf0
<1>6. Owned'
  BY DEF IInv, TypeOK, BufType, StoreType, SchedType, LocType, BlkflushBusy,
     WaitFor, Sleep, Yield, ToFlush, Overlapping, Owned, OnlyOwner, UnderWay,
     Driven, Has, Control, At, Writing0, BpLabel, FirstLabel, Buf0
<1>7. OnlyOwner'
  BY DEF IInv, TypeOK, BufType, StoreType, SchedType, LocType, BlkflushBusy,
     WaitFor, Sleep, Yield, ToFlush, Overlapping, Owned, OnlyOwner, UnderWay,
     Driven, Has, Control, At, Writing0, BpLabel, FirstLabel, Buf0
<1>8. UnderWay'
  BY DEF IInv, TypeOK, BufType, StoreType, SchedType, LocType, BlkflushBusy,
     WaitFor, Sleep, Yield, ToFlush, Overlapping, Owned, OnlyOwner, UnderWay,
     Driven, Has, Control, At, Writing0, BpLabel, FirstLabel, Buf0
<1> QED BY <1>1, <1>2, <1>3, <1>4, <1>5, <1>6, <1>7, <1>8 DEF IInv, TypeOK

\* BlkflushWrite(p): blkflush takes a dirty free buffer to write it.
LEMMA BlkflushWriteI ==
  ASSUME IInv, NEW p \in Procs, BlkflushWrite(p)
  PROVE  IInv'
<1>1. BufType'
  BY DEF IInv, TypeOK, BlkflushWrite, notavail, CallBwrite, Goto, ToFlush,
     Overlapping, BufType, LocType, Queue, Flag
<1>2. StoreType'
  BY DEF IInv, TypeOK, BlkflushWrite, notavail, CallBwrite, Goto, ToFlush,
     Overlapping, StoreType
<1>3. SchedType'
  BY DEF IInv, TypeOK, BlkflushWrite, notavail, CallBwrite, Goto, ToFlush,
     Overlapping, SchedType, LocType, BufType, Label, Chans
<1>4. LocType'
  BY DEF IInv, TypeOK, BlkflushWrite, notavail, CallBwrite, Goto, ToFlush,
     Overlapping, LocType, Label, Flag, Buf0
<1>5. Control'
  BY DEF IInv, TypeOK, BufType, StoreType, SchedType, LocType, BlkflushWrite,
     notavail, CallBwrite, Goto, ToFlush, Overlapping, Control, At, Writing0,
     BpLabel, FirstLabel, Buf0
<1>6. Owned'
  <2>1. \A c \in Bufs : "BUSY" \in b_flags'[c] <=> freeq'[c] = "none"
    BY DEF IInv, TypeOK, BufType, StoreType, SchedType, LocType, BlkflushWrite,
       notavail, CallBwrite, Goto, ToFlush, Overlapping, Owned
  <2>2. \A c \in Bufs : "BUSY" \in b_flags'[c] =>
          \/ Has(p, c)' \/ Driven(c)'
          \/ "BUSY" \in b_flags[c] /\ ~ Driven(c) /\ ~ Has(p, c)
    BY DEF IInv, TypeOK, BufType, StoreType, SchedType, LocType, BlkflushWrite,
       notavail, CallBwrite, Goto, ToFlush, Overlapping, Owned, OnlyOwner,
       UnderWay, Driven, Has, Control, At, Writing0, BpLabel, FirstLabel, Buf0
  <2>3. \A q \in Procs, c \in Bufs : q # p /\ Has(q, c) => Has(q, c)'
    BY DEF IInv, TypeOK, BufType, StoreType, SchedType, LocType, BlkflushWrite,
       notavail, CallBwrite, Goto, ToFlush, Overlapping, Owned, OnlyOwner,
       UnderWay, Driven, Has, Control, At, Writing0, BpLabel, FirstLabel, Buf0
  <2> QED
    BY <2>1, <2>2, <2>3, OwnedStep DEF IInv
<1>7. OnlyOwner'
  BY DEF IInv, TypeOK, BufType, StoreType, SchedType, LocType, BlkflushWrite,
     notavail, CallBwrite, Goto, ToFlush, Overlapping, Owned, OnlyOwner,
     UnderWay, Driven, Has, Control, At, Writing0, BpLabel, FirstLabel, Buf0
<1>8. UnderWay'
  BY DEF IInv, TypeOK, BufType, StoreType, SchedType, LocType, BlkflushWrite,
     notavail, CallBwrite, Goto, ToFlush, Overlapping, Owned, OnlyOwner,
     UnderWay, Driven, Has, Control, At, Writing0, BpLabel, FirstLabel, Buf0
<1> QED BY <1>1, <1>2, <1>3, <1>4, <1>5, <1>6, <1>7, <1>8 DEF IInv, TypeOK

\* BlkflushDone(p): blkflush returns with no buffer.
LEMMA BlkflushDoneI ==
  ASSUME IInv, NEW p \in Procs, BlkflushDone(p)
  PROVE  IInv'
<1>1. BufType'
  BY DEF IInv, TypeOK, BlkflushDone, Return, Yield, BufType, LocType, Queue,
     Flag
<1>2. StoreType'
  BY DEF IInv, TypeOK, BlkflushDone, Return, Yield, StoreType
<1>3. SchedType'
  BY DEF IInv, TypeOK, BlkflushDone, Return, Yield, SchedType, LocType,
     BufType, Label, Chans
<1>4. LocType'
  BY NoCallType DEF IInv, TypeOK, BlkflushDone, Return, Yield, LocType, Label,
     Buf0
<1>5. Control'
  BY DEF IInv, TypeOK, BufType, StoreType, SchedType, LocType, BlkflushDone,
     Return, Yield, Control, At, Writing0, BpLabel, FirstLabel, Buf0
<1>6. Owned'
  BY DEF IInv, TypeOK, BufType, StoreType, SchedType, LocType, BlkflushDone,
     Return, Yield, Owned, OnlyOwner, UnderWay, Driven, Has, Control, At,
     Writing0, BpLabel, FirstLabel, Buf0
<1>7. OnlyOwner'
  BY DEF IInv, TypeOK, BufType, StoreType, SchedType, LocType, BlkflushDone,
     Return, Yield, Owned, OnlyOwner, UnderWay, Driven, Has, Control, At,
     Writing0, BpLabel, FirstLabel, Buf0
<1>8. UnderWay'
  BY DEF IInv, TypeOK, BufType, StoreType, SchedType, LocType, BlkflushDone,
     Return, Yield, Owned, OnlyOwner, UnderWay, Driven, Has, Control, At,
     Writing0, BpLabel, FirstLabel, Buf0
<1> QED BY <1>1, <1>2, <1>3, <1>4, <1>5, <1>6, <1>7, <1>8 DEF IInv, TypeOK

\* BinvalfreeWrite(p): binvalfree takes one dirty free buffer and invalidates others where they are.
LEMMA BinvalfreeWriteI ==
  ASSUME IInv, NEW p \in Procs, BinvalfreeWrite(p)
  PROVE  IInv'
<1>1. BufType'
  BY DEF IInv, TypeOK, BinvalfreeWrite, Drop, Marked, CallBwrite, Goto, FreeOf,
     BufType, LocType, Queue, Flag
<1>2. StoreType'
  BY DEF IInv, TypeOK, BinvalfreeWrite, Drop, Marked, CallBwrite, Goto, FreeOf,
     StoreType
<1>3. SchedType'
  BY DEF IInv, TypeOK, BinvalfreeWrite, Drop, Marked, CallBwrite, Goto, FreeOf,
     SchedType, LocType, BufType, Label, Chans
<1>4. LocType'
  BY DEF IInv, TypeOK, BinvalfreeWrite, Drop, Marked, CallBwrite, Goto, FreeOf,
     LocType, Label, Flag, Buf0
<1>5. Control'
  BY DEF IInv, TypeOK, BufType, StoreType, SchedType, LocType, BinvalfreeWrite,
     Drop, Marked, CallBwrite, Goto, FreeOf, Control, At, Writing0, BpLabel,
     FirstLabel, Buf0
<1>6. Owned'
  BY SMTT(30) DEF IInv, TypeOK, BufType, StoreType, SchedType, LocType, BinvalfreeWrite,
     Drop, Marked, CallBwrite, Goto, FreeOf, Owned, OnlyOwner, UnderWay,
     Driven, Has, Control, At, Writing0, BpLabel, FirstLabel, Buf0
<1>7. OnlyOwner'
  BY DEF IInv, TypeOK, BufType, StoreType, SchedType, LocType, BinvalfreeWrite,
     Drop, Marked, CallBwrite, Goto, FreeOf, Owned, OnlyOwner, UnderWay,
     Driven, Has, Control, At, Writing0, BpLabel, FirstLabel, Buf0
<1>8. UnderWay'
  <2>1. \A b \in io' : /\ "BUSY" \in b_flags'[b] /\ "DONE" \notin b_flags'[b]
                      /\ b_dev'[b] \in Vnodes
    BY DEF IInv, TypeOK, BufType, StoreType, SchedType, LocType,
       BinvalfreeWrite, Drop, Marked, CallBwrite, Goto, FreeOf, Owned,
       OnlyOwner, UnderWay, Driven, Has, Control, At, Writing0, BpLabel,
       FirstLabel, Buf0
  <2>2. \A b \in Bufs : b_vp'[b] # NoVnode => b_dev'[b] = b_vp'[b]
    BY DEF IInv, TypeOK, BufType, StoreType, SchedType, LocType,
       BinvalfreeWrite, Drop, Marked, CallBwrite, Goto, FreeOf, UnderWay
  <2>3. ASSUME NEW b \in Bufs, "ASYNC" \in b_flags'[b]
        PROVE  b \in io' \/ \E q \in Procs : pc'[q] = "bwrite" /\ wb'[q] = b
    <3>1. PICK c \in Bufs, S \in SUBSET Bufs :
            /\ b_flags' = [Marked(S, {"INVAL"}) EXCEPT ![c] = @ \cup {"BUSY", "ASYNC"}]
            /\ CallBwrite(p, c, "binvalfree")
      BY DEF BinvalfreeWrite, FreeOf
    <3>2. wb' = [wb EXCEPT ![p] = c] /\ pc' = [pc EXCEPT ![p] = "bwrite"] /\ io' = io
      BY <3>1 DEF CallBwrite, Goto
    <3>3. CASE b = c
      BY <3>2, <3>3 DEF IInv, TypeOK, SchedType, LocType
    <3>4. CASE b # c
      <4>1. "ASYNC" \in b_flags[b]
        BY <2>3, <3>1, <3>4 DEF IInv, TypeOK, BufType, Marked
      <4> QED
        BY <4>1, <3>2 DEF IInv, TypeOK, SchedType, LocType, UnderWay,
           BinvalfreeWrite
    <3> QED
      BY <3>3, <3>4
  <2>4. ASSUME NEW q \in Procs
        PROVE  /\ bp'[q] \in io' => At(q)' = "biowait"
               /\ pc'[q] = "bwrite" => wb'[q] \notin io'
    BY <2>4 DEF IInv, TypeOK, BufType, StoreType, SchedType, LocType,
       BinvalfreeWrite, Drop, Marked, CallBwrite, Goto, FreeOf, Owned,
       OnlyOwner, UnderWay, Driven, Has, Control, At, Writing0, BpLabel,
       FirstLabel, Buf0
  <2> QED
    BY <2>1, <2>2, <2>3, <2>4 DEF UnderWay
<1> QED BY <1>1, <1>2, <1>3, <1>4, <1>5, <1>6, <1>7, <1>8 DEF IInv, TypeOK

\* BinvalfreeDone(p): binvalfree invalidates free buffers where they are.
LEMMA BinvalfreeDoneI ==
  ASSUME IInv, NEW p \in Procs, BinvalfreeDone(p)
  PROVE  IInv'
<1>1. BufType'
  BY DEF IInv, TypeOK, BinvalfreeDone, Drop, Marked, Return, Yield, FreeOf,
     BufType, LocType, Queue, Flag
<1>2. StoreType'
  BY DEF IInv, TypeOK, BinvalfreeDone, Drop, Marked, Return, Yield, FreeOf,
     StoreType
<1>3. SchedType'
  BY DEF IInv, TypeOK, BinvalfreeDone, Drop, Marked, Return, Yield, FreeOf,
     SchedType, LocType, BufType, Label, Chans
<1>4. LocType'
  BY NoCallType DEF IInv, TypeOK, BinvalfreeDone, Drop, Marked, Return, Yield,
     FreeOf, LocType, Label, Buf0
<1>5. Control'
  BY DEF IInv, TypeOK, BufType, StoreType, SchedType, LocType, BinvalfreeDone,
     Drop, Marked, Return, Yield, FreeOf, Control, At, Writing0, BpLabel,
     FirstLabel, Buf0
<1>6. Owned'
  BY DEF IInv, TypeOK, BufType, StoreType, SchedType, LocType, BinvalfreeDone,
     Drop, Marked, Return, Yield, FreeOf, Owned, OnlyOwner, UnderWay, Driven,
     Has, Control, At, Writing0, BpLabel, FirstLabel, Buf0
<1>7. OnlyOwner'
  BY DEF IInv, TypeOK, BufType, StoreType, SchedType, LocType, BinvalfreeDone,
     Drop, Marked, Return, Yield, FreeOf, Owned, OnlyOwner, UnderWay, Driven,
     Has, Control, At, Writing0, BpLabel, FirstLabel, Buf0
<1>8. UnderWay'
  BY DEF IInv, TypeOK, BufType, StoreType, SchedType, LocType, BinvalfreeDone,
     Drop, Marked, Return, Yield, FreeOf, Owned, OnlyOwner, UnderWay, Driven,
     Has, Control, At, Writing0, BpLabel, FirstLabel, Buf0
<1> QED BY <1>1, <1>2, <1>3, <1>4, <1>5, <1>6, <1>7, <1>8 DEF IInv, TypeOK

\* Binval(p): binval takes no buffer: a busy one stays with its owner.
LEMMA BinvalI ==
  ASSUME IInv, NEW p \in Procs, Binval(p)
  PROVE  IInv'
<1>1. BufType'
  BY DEF IInv, TypeOK, Binval, Drop, Marked, Return, Yield, BufType, LocType,
     Queue, Flag
<1>2. StoreType'
  BY DEF IInv, TypeOK, Binval, Drop, Marked, Return, Yield, StoreType
<1>3. SchedType'
  BY DEF IInv, TypeOK, Binval, Drop, Marked, Return, Yield, SchedType, LocType,
     BufType, Label, Chans
<1>4. LocType'
  BY NoCallType DEF IInv, TypeOK, Binval, Drop, Marked, Return, Yield, LocType,
     Label, Buf0
<1>5. Control'
  BY DEF IInv, TypeOK, BufType, StoreType, SchedType, LocType, Binval, Drop,
     Marked, Return, Yield, Control, At, Writing0, BpLabel, FirstLabel, Buf0
<1>6. Owned'
  BY DEF IInv, TypeOK, BufType, StoreType, SchedType, LocType, Binval, Drop,
     Marked, Return, Yield, Owned, OnlyOwner, UnderWay, Driven, Has, Control,
     At, Writing0, BpLabel, FirstLabel, Buf0
<1>7. OnlyOwner'
  BY DEF IInv, TypeOK, BufType, StoreType, SchedType, LocType, Binval, Drop,
     Marked, Return, Yield, Owned, OnlyOwner, UnderWay, Driven, Has, Control,
     At, Writing0, BpLabel, FirstLabel, Buf0
<1>8. UnderWay'
  BY DEF IInv, TypeOK, BufType, StoreType, SchedType, LocType, Binval, Drop,
     Marked, Return, Yield, Owned, OnlyOwner, UnderWay, Driven, Has, Control,
     At, Writing0, BpLabel, FirstLabel, Buf0
<1> QED BY <1>1, <1>2, <1>3, <1>4, <1>5, <1>6, <1>7, <1>8 DEF IInv, TypeOK

\* Storing in some blocks of a device or of a buffer gives such contents again.
LEMMA StoredType ==
  ASSUME NEW old \in [DevBlks -> Vals \cup {Junk}], NEW S,
         NEW v \in [DevBlks -> Vals \cup {Junk}]
  PROVE  Stored(old, S, v) \in [DevBlks -> Vals \cup {Junk}]
  BY DEF Stored

\* Storing in a buffer touches nothing but its contents.
LEMMA ModifyI ==
  ASSUME IInv, NEW p \in Procs, NEW v \in Vals, Modify(p, v)
  PROVE  IInv'
<1>1. BufType'
  BY DEF IInv, TypeOK, BufType, Modify
<1>2. StoreType'
  <2>1. bp[p] \in Bufs
    BY DEF IInv, TypeOK, SchedType, LocType, Modify, Control, At, Writing0,
       BpLabel, Buf0
  <2>2. Stored(b_data[bp[p]], Extent(bp[p]), [d \in DevBlks |-> v])
          \in [DevBlks -> Vals \cup {Junk}]
    BY <2>1, StoredType DEF IInv, TypeOK, StoreType
  <2>3. b_data' = [b_data EXCEPT ![bp[p]] =
                     Stored(b_data[bp[p]], Extent(bp[p]), [d \in DevBlks |-> v])]
    BY DEF Modify
  <2>4. UNCHANGED <<io, disk>>
    BY DEF Modify
  <2> QED
    BY <2>1, <2>2, <2>3, <2>4 DEF IInv, TypeOK, StoreType
<1>a. /\ UNCHANGED <<b_flags, idVars, listVars, io, wchan, rpc, fault, locVars>> 
      /\ pc' = [pc EXCEPT ![p] = "dirty"] /\ cpu' = NoProc /\ pc[p] = "hold"
  BY DEF Modify, Yield
<1>3. SchedType'
  BY <1>a DEF IInv, TypeOK, SchedType, Label
<1>4. LocType'
  BY <1>a DEF IInv, TypeOK, LocType
<1>5. Control'
  BY <1>a DEF IInv, TypeOK, LocType, SchedType, Control, At, Writing0, BpLabel,
     FirstLabel
<1>6. Owned'
  BY <1>a DEF IInv, TypeOK, LocType, SchedType, Owned, Driven, Has
<1>7. OnlyOwner'
  BY <1>a DEF IInv, TypeOK, LocType, SchedType, OnlyOwner, Driven, Has,
     Writing0
<1>8. UnderWay'
  BY <1>a DEF IInv, TypeOK, LocType, SchedType, UnderWay, At, Writing0,
     Control, BpLabel
<1> QED BY <1>1, <1>2, <1>3, <1>4, <1>5, <1>6, <1>7, <1>8 DEF IInv, TypeOK

\* bwrite and bawrite take the buffer over from the caller, in another role.
LEMMA WriteOutI ==
  ASSUME IInv, NEW p \in Procs, NEW async \in BOOLEAN, WriteOut(p, async)
  PROVE  IInv'
<1>a. /\ bp[p] \in Bufs /\ wb[p] = NoBuf /\ pc[p] = "dirty"
      /\ \/ b_flags' = b_flags
         \/ b_flags' = [b_flags EXCEPT ![bp[p]] = @ \cup {"ASYNC"}]
      /\ bp' = [bp EXCEPT ![p] = NoBuf] /\ wb' = [wb EXCEPT ![p] = bp[p]]
      /\ wret' = [wret EXCEPT ![p] = "user"] /\ pc' = [pc EXCEPT ![p] = "bwrite"]
      /\ cpu' = p /\ first[p] = NoBuf
      /\ UNCHANGED <<idVars, listVars, storeVars, io, wchan, rpc, fault, call,
                     gret, first, wflag, group>>
  BY DEF IInv, TypeOK, BufType, SchedType, LocType, WriteOut, CallBwrite, Goto,
     Control, At, Writing0, BpLabel, FirstLabel, Buf0
<1>1. BufType'
  BY <1>a DEF IInv, TypeOK, BufType, Flag
<1>2. StoreType'
  BY <1>a DEF IInv, TypeOK, StoreType
<1>3. SchedType'
  BY <1>a DEF IInv, TypeOK, SchedType, Label
<1>4. LocType'
  BY <1>a DEF IInv, TypeOK, LocType, Buf0, Label
<1>5. Control'
  BY <1>a DEF IInv, TypeOK, LocType, SchedType, Control, At, Writing0, BpLabel,
     FirstLabel
<1>b. \A q \in Procs, c \in Bufs : Has(q, c) <=> Has(q, c)'
  BY <1>a DEF IInv, TypeOK, LocType, SchedType, Has
<1>c. /\ \A c \in Bufs : "BUSY" \in b_flags'[c] <=> "BUSY" \in b_flags[c]
      /\ \A c \in Bufs : "DONE" \in b_flags'[c] <=> "DONE" \in b_flags[c]
      /\ \A c \in Bufs : "ASYNC" \in b_flags'[c] => "ASYNC" \in b_flags[c] \/ c = bp[p]
      /\ \A c \in Bufs : "ASYNC" \in b_flags[c] => "ASYNC" \in b_flags'[c]
  BY <1>a DEF IInv, TypeOK, BufType
<1>d. bp[p] \notin io
  BY <1>a DEF IInv, UnderWay, At, Writing0
<1>6. Owned'
  BY <1>a, <1>b, <1>c DEF IInv, Owned, Driven
<1>7. OnlyOwner'
  <2>1. \A c \in Bufs : Driven(c)' <=> Driven(c)
    BY <1>a, <1>c, <1>d DEF Driven
  <2>2. \A q \in Procs : /\ bp'[q] = first'[q] => bp'[q] = NoBuf
                         /\ wb'[q] \in {bp'[q], first'[q]} /\ Has(q, wb[q])'
                           => wb'[q] = NoBuf
    BY <1>a DEF IInv, TypeOK, LocType, SchedType, OnlyOwner, Has
  <2> QED
    BY <1>b, <1>c, <2>1, <2>2 DEF IInv, OnlyOwner
<1>8. UnderWay'
  <2>1. \A c \in io' : /\ "BUSY" \in b_flags'[c] /\ "DONE" \notin b_flags'[c]
                      /\ b_dev'[c] \in Vnodes
    BY <1>a, <1>c DEF IInv, TypeOK, StoreType, UnderWay
  <2>2. \A c \in Bufs : "ASYNC" \in b_flags'[c] =>
          c \in io' \/ \E q \in Procs : pc'[q] = "bwrite" /\ wb'[q] = c
    <3>1. pc'[p] = "bwrite" /\ wb'[p] = bp[p]
      BY <1>a DEF IInv, TypeOK, LocType, SchedType
    <3>2. \A q \in Procs : pc[q] = "bwrite" => pc'[q] = "bwrite" /\ wb'[q] = wb[q]
      BY <1>a DEF IInv, TypeOK, LocType, SchedType
    <3> QED
      BY <1>a, <1>c, <3>1, <3>2 DEF IInv, UnderWay
  <2>3. \A q \in Procs : /\ bp'[q] \in io' => At(q)' = "biowait"
                         /\ pc'[q] = "bwrite" => wb'[q] \notin io'
    BY <1>a, <1>d DEF IInv, TypeOK, LocType, SchedType, StoreType, UnderWay,
       At, Writing0
  <2> QED
    BY <1>a, <2>1, <2>2, <2>3 DEF IInv, UnderWay
<1> QED BY <1>1, <1>2, <1>3, <1>4, <1>5, <1>6, <1>7, <1>8 DEF IInv, TypeOK

\* biodone releases an asynchronous buffer, and leaves any other to its waiter.
LEMMA BiodoneI ==
  ASSUME IInv, NEW b \in Bufs, NEW ok \in BOOLEAN, Biodone(b, ok)
  PROVE  IInv'
<1>a. /\ b \in io /\ "BUSY" \in b_flags[b] /\ b_dev[b] \in Vnodes
      /\ io' = io \ {b}
      /\ UNCHANGED <<b_dev, b_blkno, b_bcount, fault, cpu, pc, locVars>>
  BY DEF IInv, Biodone, brelse, UnderWay
<1>b. /\ \A c \in Bufs : c # b => /\ b_flags'[c] = b_flags[c]
                                  /\ b_vp'[c] = b_vp[c] /\ freeq'[c] = freeq[c]
      /\ b_vp'[b] # NoVnode => b_vp'[b] = b_vp[b]
      /\ "ASYNC" \notin b_flags'[b]
      /\ IF Driven(b) THEN "BUSY" \notin b_flags'[b] /\ freeq'[b] # "none"
                      ELSE "BUSY" \in b_flags'[b] /\ freeq'[b] = freeq[b]
  BY <1>a DEF IInv, TypeOK, BufType, Biodone, brelse, Driven
<1>1. BufType'
  <2>1. PICK f \in SUBSET Flag :
          \/ brelse(b, f)
          \/ /\ b_flags' = [b_flags EXCEPT ![b] = f \ {"WANTED"}]
             /\ UNCHANGED <<idVars, listVars>>
    BY DEF IInv, TypeOK, BufType, Biodone, Flag
  <2>2. CASE brelse(b, f)
    BY <2>2 DEF IInv, TypeOK, BufType, brelse, Queue
  <2>3. CASE /\ b_flags' = [b_flags EXCEPT ![b] = f \ {"WANTED"}]
             /\ UNCHANGED <<idVars, listVars>>
    BY <2>3 DEF IInv, TypeOK, BufType
  <2> QED
    BY <2>1, <2>2, <2>3
<1>2. StoreType'
  <2>1. /\ \/ b_data' = b_data
           \/ b_data' = [b_data EXCEPT ![b] =
                           Stored(b_data[b], Extent(b), disk[b_dev[b]])]
        /\ \/ disk' = disk
           \/ disk' = [disk EXCEPT ![b_dev[b]] =
                         Stored(disk[b_dev[b]], Extent(b), b_data[b])]
    BY DEF Biodone, Transfer
  <2>2. /\ Stored(b_data[b], Extent(b), disk[b_dev[b]]) \in [DevBlks -> Vals \cup {Junk}]
        /\ Stored(disk[b_dev[b]], Extent(b), b_data[b]) \in [DevBlks -> Vals \cup {Junk}]
    BY <1>a, StoredType DEF IInv, TypeOK, StoreType
  <2> QED
    BY <1>a, <2>1, <2>2 DEF IInv, TypeOK, StoreType
<1>3. SchedType'
  BY DEF IInv, TypeOK, SchedType, Biodone, brelse, RelWake, Chans, Buf0
<1>4. LocType'
  BY <1>a DEF IInv, TypeOK, LocType
<1>5. Control'
  BY <1>a DEF IInv, Control, At
<1>c. \A q \in Procs, c \in Bufs : Has(q, c) <=> Has(q, c)'
  BY <1>a DEF Has
<1>d. \A c \in Bufs : c # b => (Driven(c)' <=> Driven(c))
  BY <1>a, <1>b DEF Driven
<1>6. Owned'
  BY <1>a, <1>b, <1>c, <1>d DEF IInv, Owned
<1>7. OnlyOwner'
  <2>1. \A q \in Procs, c \in Bufs : Has(q, c) =>
          "BUSY" \in b_flags'[c] /\ ~ Driven(c)'
    BY <1>a, <1>b, <1>d DEF IInv, OnlyOwner, Driven
  <2> QED
    BY <1>a, <1>c, <2>1 DEF IInv, OnlyOwner, Has
<1>8. UnderWay'
  <2>1. \A c \in io' : /\ "BUSY" \in b_flags'[c] /\ "DONE" \notin b_flags'[c]
                      /\ b_dev'[c] \in Vnodes
    BY <1>a, <1>b DEF IInv, TypeOK, StoreType, UnderWay
  <2>2. \A c \in Bufs : "ASYNC" \in b_flags'[c] =>
          c \in io' \/ \E q \in Procs : pc'[q] = "bwrite" /\ wb'[q] = c
    BY <1>a, <1>b DEF IInv, UnderWay
  <2>3. \A q \in Procs : /\ bp'[q] \in io' => At(q)' = "biowait"
                         /\ pc'[q] = "bwrite" => wb'[q] \notin io'
    BY <1>a DEF IInv, UnderWay, At
  <2>4. \A c \in Bufs : b_vp'[c] # NoVnode => b_dev'[c] = b_vp'[c]
    BY <1>a, <1>b DEF IInv, UnderWay
  <2> QED
    BY <2>1, <2>2, <2>3, <2>4 DEF UnderWay
<1> QED BY <1>1, <1>2, <1>3, <1>4, <1>5, <1>6, <1>7, <1>8 DEF IInv, TypeOK

\* Every step of the system, and every stutter, keeps the invariant.
LEMMA NextI == IInv /\ [Next]_vars => IInv'
<1> SUFFICES ASSUME IInv, [Next]_vars PROVE IInv'
  OBVIOUS
<1>1. ASSUME NEW p \in Procs, NEW o \in Ops, NEW vp \in Vnodes,
             NEW blk \in Block, NEW ra \in DevBlks, Call(p, o, vp, blk, ra)
      PROVE  IInv'
  BY <1>1, CallI
<1>2. ASSUME NEW p \in Procs, Step(p)
      PROVE  IInv'
  <2>1. CASE Lookup(p)
    BY <2>1, GetblkBusyI, GetblkHitI, GetblkMissI, GetnewbufWaitI,
       GetnewbufDirtyI, GetnewbufCleanI, BreallocDoneI, BreallocShrinkI,
       BreallocBusyI, BreallocFlushI, BreallocInvalI DEF Lookup
  <2>2. CASE Reading(p)
    BY <2>2, BreadI, BiowaitI, BreadaI, BreadaStartI, BreadaAheadI,
       BreadaAheadHitI, BreadaAheadStartI, BreadaEndI DEF Reading, BreadaSecond
  <2>3. CASE Using(p)
    BY <2>3, ReleaseI, BdwriteI, ModifyI, WriteOutI DEF Using
  <2>4. CASE Writing(p)
    BY <2>4, BwriteI, BwriteAsyncI, BwriteWaitI, BwriteDoneI, StrategyNoVnodeI
       DEF Writing
  <2>5. CASE Flushing(p)
    BY <2>5, BflushCollectI, BflushDoneI, BflushWriteI, BflushStealI,
       BflushSkipI, BlkflushBusyI, BlkflushWriteI, BlkflushDoneI,
       BinvalfreeWriteI, BinvalfreeDoneI, BinvalI DEF Flushing
  <2> QED
    BY <1>2, <2>1, <2>2, <2>3, <2>4, <2>5 DEF Step
<1>3. ASSUME NEW b \in Bufs, NEW ok \in BOOLEAN, Biodone(b, ok)
      PROVE  IInv'
  BY <1>3, BiodoneI
<1>4. CASE UNCHANGED vars
  BY <1>4 DEF vars, IInv, TypeOK, BufType, StoreType, SchedType, LocType,
     Control, At, Owned, OnlyOwner, UnderWay, Driven, Has
<1> QED
  BY <1>1, <1>2, <1>3, <1>4 DEF Next

\* The invariant holds in every state the cache reaches.
THEOREM Invariant == Spec => []IInv
  BY InitI, NextI, PTL DEF Spec

\* Type correctness: every variable keeps to its values, for any number of
\* processes, buffers, vnodes and blocks.
THEOREM TypeCorrect == Spec => []TypeOK
  BY Invariant, SafeI, PTL

\* Exclusive use: getblk, brelse, bwrite and biodone pass each buffer on to
\* exactly one owner, so that none is lost to the pool and none used by two,
\* through every sleep, error and asynchronous release.
THEOREM BuffersExclusive == Spec => []ExclusiveUse
  BY Invariant, SafeI, PTL

\* No dup biodone: a strategy routine is never given a buffer whose transfer
\* is under way or done, so the panic of biodone is unreachable.
THEOREM NoDoubleBiodone == Spec => []NoDupBiodone
  BY Invariant, SafeI, PTL
-----------------------------------------------------------------------------
\* b maps no block any more, or some of those it mapped, and nothing else.
Fades(b) ==
  \/ b_vp'[b] = NoVnode \/ "INVAL" \in b_flags'[b] \/ b_bcount'[b] = 0
  \/ /\ "INVAL" \notin b_flags[b]
     /\ b_vp'[b] = b_vp[b] /\ b_blkno'[b] = b_blkno[b]
     /\ b_bcount'[b] <= b_bcount[b]

\* Block numbers and sizes are numbers.
LEMMA SizeNat ==
  ASSUME IInv, NEW b \in Bufs
  PROVE  b_blkno[b] \in Nat /\ b_bcount[b] \in Nat
<1>1. b_bcount[b] \in Nat
  <2>1. \A n \in Sizes \cup {0} : n \in Nat
    OBVIOUS
  <2>2. b_bcount[b] \in Sizes \cup {0}
    BY DEF IInv, TypeOK, BufType
  <2> QED
    BY <2>1, <2>2, Zenon
<1>2. b_blkno[b] \in Nat
  <2>1. b_blkno[b] \in DevBlks
    BY DEF IInv, TypeOK, BufType
  <2>2. \A n \in DevBlks : n \in Nat
    BY DEF DevBlks
  <2> QED
    BY <2>1, <2>2, Zenon
<1> QED
  BY <1>1, <1>2

\* Buffers that map no more blocks than before overlap no more than before.
LEMMA FadeStep ==
  ASSUME IInv, UniqueMapping, IInv', \A b \in Bufs : Fades(b)
  PROVE  UniqueMapping'
<1> SUFFICES ASSUME NEW b \in Bufs, NEW c \in Bufs, b # c, b_vp'[b] # NoVnode,
                    "INVAL" \notin b_flags'[b], b_bcount'[b] # 0,
                    b_vp'[c] = b_vp'[b], "INVAL" \notin b_flags'[c],
                    b_bcount'[c] # 0,
                    b_blkno'[c] < b_blkno'[b] + b_bcount'[b],
                    b_blkno'[b] < b_blkno'[c] + b_bcount'[c]
             PROVE  FALSE
  BY DEF UniqueMapping, Overlapping
<1>1. \A d \in {b, c} : /\ "INVAL" \notin b_flags[d] /\ b_vp'[d] = b_vp[d]
                        /\ b_blkno'[d] = b_blkno[d]
                        /\ b_bcount'[d] <= b_bcount[d]
  BY DEF Fades
<1>2. \A d \in {b, c} : /\ b_blkno[d] \in Nat /\ b_bcount[d] \in Nat
                        /\ b_bcount'[d] \in Nat
  <2>1. b_bcount'[b] \in Nat /\ b_bcount'[c] \in Nat
    BY DEF IInv, TypeOK, BufType
  <2> QED
    BY <2>1, SizeNat
<1>3. /\ b_bcount[b] # 0 /\ b_bcount[c] # 0
      /\ b_blkno[c] < b_blkno[b] + b_bcount[b]
      /\ b_blkno[b] < b_blkno[c] + b_bcount[c]
  BY <1>1, <1>2
<1> QED
  BY <1>1, <1>3 DEF UniqueMapping, Overlapping

\* Every step but the last of brealloc only takes blocks away from buffers.
LEMMA NextFades ==
  ASSUME IInv, [Next]_vars, \A p \in Procs : ~ BreallocDone(p), NEW b \in Bufs
  PROVE  Fades(b)
<1> DEFINE Same == UNCHANGED <<b_vp, b_blkno, b_bcount>>
                   /\ ("INVAL" \in b_flags[b] => "INVAL" \in b_flags'[b])
<1>0. /\ b_flags \in [Bufs -> SUBSET Flag]
      /\ b_vp \in [Bufs -> Vnodes \cup {NoVnode}] /\ b_bcount[b] \in Nat
  BY SizeNat DEF IInv, TypeOK, BufType
<1>1. Same => Fades(b)
  BY <1>0 DEF Fades
<1>2. ASSUME NEW c \in Bufs, NEW f, brelse(c, f),
             "INVAL" \in b_flags[c] => "INVAL" \in f
      PROVE  Fades(b)
  BY <1>0, <1>2 DEF brelse, Fades
<1>3. ASSUME NEW p \in Procs, NEW o \in Ops, NEW vp \in Vnodes,
             NEW blk \in Block, NEW ra \in DevBlks, Call(p, o, vp, blk, ra)
      PROVE  Same
  BY <1>3 DEF Call
<1>4. ASSUME NEW p \in Procs, Lookup(p)
      PROVE  Fades(b)
  <2>1. CASE GetblkBusy(p) \/ BreallocBusy(p)
    BY <1>0, <1>1, <2>1 DEF GetblkBusy, BreallocBusy, WaitFor
  <2>2. CASE GetblkHit(p) \/ GetblkMiss(p) \/ GetnewbufWait(p)
    BY <1>0, <1>1, <2>2 DEF GetblkHit, GetblkMiss, GetnewbufWait
  <2>3. CASE GetnewbufDirty(p) \/ BreallocFlush(p) \/ BreallocShrink(p)
    BY <1>0, <1>1, <2>3 DEF GetnewbufDirty, BreallocFlush, BreallocShrink,
       notavail
  <2>4. CASE GetnewbufClean(p)
    BY <1>0, <2>4 DEF GetnewbufClean, Fades, IInv, TypeOK, BufType
  <2>5. CASE BreallocInval(p)
    BY <1>2, <2>5 DEF BreallocInval, InTheWay, Overlapping
  <2> QED
    BY <1>4, <2>1, <2>2, <2>3, <2>4, <2>5 DEF Lookup
<1>5. ASSUME NEW p \in Procs, Reading(p)
      PROVE  Fades(b)
  <2>1. CASE BreadaAheadHit(p)
    BY <1>2, <2>1 DEF BreadaAheadHit, IInv, TypeOK, LocType, Buf0, Control,
       At, BpLabel, Writing0
  <2>2. CASE Bread(p) \/ BreadaStart(p) \/ BreadaAheadStart(p)
    BY <1>0, <1>1, <2>2 DEF Bread, BreadaStart, BreadaAheadStart, Strategy
  <2>3. CASE Biowait(p) \/ Breada(p) \/ BreadaAhead(p) \/ BreadaEnd(p)
    BY <1>1, <2>3 DEF Biowait, Breada, BreadaAhead, BreadaEnd
  <2> QED
    BY <1>5, <2>1, <2>2, <2>3 DEF Reading, BreadaSecond
<1>6. ASSUME NEW p \in Procs, Using(p)
      PROVE  Fades(b)
  <2>1. CASE Release(p) \/ Bdwrite(p)
    BY <1>2, <2>1 DEF Release, Bdwrite, IInv, TypeOK, LocType, Buf0,
       Control, At, BpLabel, Writing0
  <2>2. CASE \/ \E v \in Vals : Modify(p, v)
             \/ \E async \in BOOLEAN : WriteOut(p, async)
    BY <1>0, <1>1, <2>2 DEF Modify, WriteOut
  <2> QED
    BY <1>6, <2>1, <2>2 DEF Using
<1>7. ASSUME NEW p \in Procs, Writing(p)
      PROVE  Fades(b)
  <2>1. CASE BwriteDone(p)
    BY <1>2, <2>1 DEF BwriteDone, IInv, TypeOK, LocType, Buf0, Control, Writing0
  <2>2. CASE Bwrite(p)
    BY <1>0, <1>1, <2>2 DEF Bwrite, Strategy, Cleared
  <2>3. CASE BwriteAsync(p)
    BY <1>0, <1>1, <2>3 DEF BwriteAsync
  <2>4. CASE BwriteWait(p) \/ StrategyNoVnode(p)
    BY <1>1, <2>4 DEF BwriteWait, StrategyNoVnode, Crash
  <2> QED
    BY <1>7, <2>1, <2>2, <2>3, <2>4 DEF Writing
<1>8. ASSUME NEW p \in Procs, Flushing(p)
      PROVE  Fades(b)
  <2>1. CASE BflushCollect(p) \/ BflushDone(p) \/ BflushSteal(p) \/ BflushSkip(p)
             \/ BlkflushDone(p)
    BY <1>1, <2>1 DEF BflushCollect, BflushDone, BflushSteal, BflushSkip,
       BlkflushDone, Crash
  <2>2. CASE BflushWrite(p) \/ BlkflushBusy(p) \/ BlkflushWrite(p)
    BY <1>0, <1>1, <2>2 DEF BflushWrite, BlkflushBusy, BlkflushWrite,
       WaitFor, notavail
  <2>3. CASE BinvalfreeWrite(p) \/ BinvalfreeDone(p) \/ Binval(p)
    <3>1. PICK S : /\ Drop(S)
                   /\ "INVAL" \in b_flags[b] => "INVAL" \in b_flags'[b]
      <4>1. CASE BinvalfreeWrite(p)
        BY <1>0, <4>1 DEF BinvalfreeWrite, Marked
      <4>2. CASE BinvalfreeDone(p) \/ Binval(p)
        BY <1>0, <4>2 DEF BinvalfreeDone, Binval, Marked
      <4> QED
        BY <2>3, <4>1, <4>2
    <3> QED
      BY <1>0, <3>1 DEF Drop, Fades
  <2> QED
    BY <1>8, <2>1, <2>2, <2>3 DEF Flushing
<1>9. ASSUME NEW c \in Bufs, NEW ok \in BOOLEAN, Biodone(c, ok)
      PROVE  Fades(b)
  <2>1. CASE \E f : brelse(c, f) /\ b_flags[c] \subseteq f
    BY <1>2, <2>1
  <2>2. CASE \E f : /\ b_flags' = [b_flags EXCEPT ![c] = f \ {"WANTED"}]
                    /\ b_flags[c] \subseteq f /\ UNCHANGED idVars
    BY <1>0, <1>1, <2>2
  <2> QED
    BY <1>9, <2>1, <2>2 DEF Biodone
<1>10. CASE UNCHANGED vars
  BY <1>1, <1>10 DEF vars
<1> QED
  BY <1>1, <1>3, <1>4, <1>5, <1>6, <1>7, <1>8, <1>9, <1>10 DEF Next, Step

\* A buffer that grows in brealloc grows over blocks no other buffer maps.
LEMMA BreallocDoneMaps ==
  ASSUME IInv, UniqueMapping, IInv', NEW p \in Procs, BreallocDone(p)
  PROVE  UniqueMapping'
<1>1. PICK g \in Bufs, n \in Sizes \cup {0} :
        /\ g = bp[p] /\ n = call[p].size
        /\ b_bcount' = [b_bcount EXCEPT ![g] = n]
        /\ UNCHANGED <<b_flags, b_vp, b_blkno>>
        /\ n > b_bcount[g] /\ b_vp[g] # NoVnode
             => Overlapping(b_vp[g], b_blkno[g], n) \subseteq {g}
  BY DEF BreallocDone, InTheWay, IInv, TypeOK, LocType, CallRecord, Buf0,
     Control, At, BpLabel, Writing0
<1>2. n \in Nat /\ \A b \in Bufs : b_blkno[b] \in Nat /\ b_bcount[b] \in Nat
  BY SizeNat
<1>3. \A b \in Bufs : b_bcount'[b] = IF b = g THEN n ELSE b_bcount[b]
  BY <1>1 DEF IInv, TypeOK, BufType
<1>4. CASE n <= b_bcount[g]
  <2>1. \A b \in Bufs : Fades(b)
    BY <1>1, <1>2, <1>3, <1>4 DEF Fades
  <2> QED
    BY <2>1, FadeStep
<1>5. CASE n > b_bcount[g]
  <2> SUFFICES ASSUME NEW b \in Bufs, NEW c \in Bufs, b # c, b_vp[b] # NoVnode,
                      "INVAL" \notin b_flags[b], b_bcount'[b] # 0,
                      b_vp[c] = b_vp[b], "INVAL" \notin b_flags[c],
                      b_bcount'[c] # 0,
                      b_blkno[c] < b_blkno[b] + b_bcount'[b],
                      b_blkno[b] < b_blkno[c] + b_bcount'[c]
               PROVE  FALSE
    BY <1>1 DEF UniqueMapping, Overlapping
  <2>1. CASE b = g
    <3>1. c \in Overlapping(b_vp[g], b_blkno[g], n)
      BY <1>3, <2>1 DEF Overlapping
    <3> QED
      BY <1>1, <1>5, <2>1, <3>1
  <2>2. CASE c = g
    <3>1. b \in Overlapping(b_vp[g], b_blkno[g], n)
      BY <1>3, <2>2 DEF Overlapping
    <3> QED
      BY <1>1, <1>5, <2>2, <3>1
  <2>3. CASE b # g /\ c # g
    BY <1>3, <2>3 DEF UniqueMapping, Overlapping
  <2> QED
    BY <2>1, <2>2, <2>3
<1> QED
  BY <1>2, <1>4, <1>5

\* One mapping: every disk block is mapped by at most one buffer, whatever
\* getblk, brealloc, binval and failing transfers do to other buffers while
\* a process sleeps between its search and its use of what it found.
THEOREM OneMapping == Spec => []UniqueMapping
<1>1. Init => UniqueMapping
  BY DEF Init, UniqueMapping
<1>2. ASSUME IInv, IInv', UniqueMapping, [Next]_vars
      PROVE  UniqueMapping'
  <2>1. CASE \E p \in Procs : BreallocDone(p)
    BY <1>2, <2>1, BreallocDoneMaps
  <2>2. CASE \A p \in Procs : ~ BreallocDone(p)
    <3>1. \A b \in Bufs : Fades(b)
      BY <1>2, <2>2, NextFades
    <3> QED
      BY <1>2, <3>1, FadeStep
  <2> QED
    BY <2>1, <2>2
<1> QED
  BY <1>1, <1>2, Invariant, PTL DEF Spec
-----------------------------------------------------------------------------
\* No sleeper is stranded: whoever sleeps on a buffer or on the free list is on
\* the way of a wakeup.

\* The transfer of b has ended, or its end is still to come.
Answered(b) == "DONE" \in b_flags[b] \/ b \in io

\* biowait is called for a buffer only after its strategy routine.
Asked(p) ==
  /\ At(p) = "biowait" => Answered(bp[p])
  /\ first[p] # NoBuf => Answered(first[p])
  /\ pc[p] \in {"bwstrat", "bwait"} /\ "ASYNC" \notin wflag[p]
       => Answered(wb[p])

Started == \A p \in Procs : Asked(p)

\* Somebody will call wakeup(b): brelse, as b is busy and B_WANTED, or biodone,
\* at the end of a synchronous transfer.
Awaited(b) ==
  /\ "BUSY" \in b_flags[b]
  /\ "WANTED" \in b_flags[b] \/ (b \in io /\ "ASYNC" \notin b_flags[b])

\* The free list is empty and marked: the next brelse calls wakeup(bfreelist).
ListAwaited == listWanted /\ \A b \in Bufs : freeq[b] = "none"

Waiting ==
  \A p \in Procs : /\ wchan[p] \in Bufs => Awaited(wchan[p])
                   /\ wchan[p] = FreeChan => ListAwaited

SInv == IInv /\ Started /\ Waiting

\* What a step of p leaves alone: where the others are and what they have.
OthersStay(p) ==
  \A q \in Procs \ {p} :
    UNCHANGED <<pc[q], wret[q], bp[q], first[q], wb[q], wflag[q]>>

\* A step that wakes nobody keeps what the sleepers rely on.
AnswersKept ==
  \A b \in Bufs : "BUSY" \in b_flags[b] /\ Answered(b) => Answered(b)'

WakeupsKept == /\ \A b \in Bufs : Awaited(b) => Awaited(b)'
               /\ ListAwaited => ListAwaited'

USE ConstAssumption, ChanAssumption
USE DEF bufVars, idVars, listVars, storeVars, holdVars, wrVars, locVars
-----------------------------------------------------------------------------
\* Started depends on p's own buffers, and on the transfers of busy ones.
LEMMA StartedStep ==
  ASSUME IInv, Started, NEW p \in Procs, OthersStay(p), AnswersKept, Asked(p)'
  PROVE  Started'
<1> SUFFICES ASSUME NEW q \in Procs, q # p PROVE Asked(q)'
  BY Zenon DEF Started
<1>1. UNCHANGED <<pc[q], wret[q], bp[q], first[q], wb[q], wflag[q]>>
  BY DEF OthersStay
<1>2. At(q)' = At(q)
  BY <1>1 DEF At
<1>3. \A b \in Bufs : Has(q, b) /\ Answered(b) => Answered(b)'
  BY DEF IInv, OnlyOwner, AnswersKept
<1>4. Asked(q) /\ bp[q] \in Buf0 /\ first[q] \in Buf0 /\ wb[q] \in Buf0
  BY DEF Started, IInv, TypeOK, LocType
<1>5. /\ wb[q] # NoBuf <=> pc[q] \in Writing0
      /\ bp[q] # NoBuf <=> At(q) \in BpLabel
  BY DEF IInv, Control
<1>6. At(q) = "biowait" => Answered(bp[q])'
  BY <1>1, <1>3, <1>4, <1>5 DEF Asked, Answered, BpLabel, Has, Buf0
<1>7. first[q] # NoBuf => Answered(first[q])'
  BY <1>1, <1>3, <1>4 DEF Asked, Answered, Has, Buf0
<1>8. pc[q] \in {"bwstrat", "bwait"} /\ "ASYNC" \notin wflag[q]
        => Answered(wb[q])'
  BY <1>1, <1>3, <1>4, <1>5 DEF Asked, Answered, Has, Buf0, Writing0
<1> QED
  BY <1>1, <1>2, <1>6, <1>7, <1>8 DEF Asked, Answered

\* Waiting holds again if the awaited channels stay awaited and a process that
\* falls asleep does so on an awaited one.
LEMMA WaitingStep ==
  ASSUME IInv, Waiting, WakeupsKept, NEW p \in Procs, NEW c,
         wchan' = [wchan EXCEPT ![p] = c],
         c \in Bufs => Awaited(c)', c = FreeChan => ListAwaited'
  PROVE  Waiting'
<1>1. ASSUME NEW q \in Procs, NEW b \in Bufs, wchan'[q] = b
      PROVE  Awaited(b)'
  <2>1. CASE q = p
    BY <1>1, <2>1 DEF IInv, TypeOK, SchedType, Awaited
  <2>2. CASE q # p
    BY <1>1, <2>2 DEF IInv, TypeOK, SchedType, Waiting, WakeupsKept
  <2> QED
    BY <2>1, <2>2
<1>2. ASSUME NEW q \in Procs, wchan'[q] = FreeChan
      PROVE  ListAwaited'
  BY <1>2 DEF IInv, TypeOK, SchedType, Waiting, WakeupsKept
<1> QED
  BY <1>1, <1>2 DEF Waiting, Awaited

\* The same of a step in which nobody falls asleep.
LEMMA AwakeStep ==
  ASSUME IInv, Waiting, WakeupsKept, UNCHANGED wchan
  PROVE  Waiting'
  BY DEF Waiting, WakeupsKept, Awaited

\* A step that only sets flags, and B_ASYNC of no buffer under I/O, keeps
\* what the sleepers rely on.
LEMMA GrowStep ==
  ASSUME \A b \in Bufs : /\ b_flags[b] \subseteq b_flags'[b]
                         /\ b \in io /\ "ASYNC" \in b_flags'[b]
                              => "ASYNC" \in b_flags[b]
                         /\ freeq[b] = "none" => freeq'[b] = "none",
         io' = io, listWanted => listWanted'
  PROVE  AnswersKept /\ WakeupsKept
  BY DEF AnswersKept, WakeupsKept, Answered, Awaited, ListAwaited

\* brelse(b) wakes whoever sleeps on b, which had better be B_WANTED, and
\* whoever sleeps on the free list.
LEMMA ReleaseStep ==
  ASSUME IInv, Waiting, NEW b \in Bufs, NEW f, brelse(b, f),
         Awaited(b) => "WANTED" \in f,
         "DONE" \in b_flags[b] \/ io' # io => "DONE" \in f,
         io' = io \/ io' = io \ {b}
  PROVE  AnswersKept /\ Waiting'
<1>1. /\ b_flags' = [b_flags EXCEPT ![b] =
                        f \ {"WANTED", "BUSY", "ASYNC", "AGE"}]
      /\ \A q \in Procs : wchan'[q] = IF \/ wchan[q] = b /\ "WANTED" \in f
                                         \/ wchan[q] = FreeChan /\ listWanted
                                      THEN NoChan ELSE wchan[q]
  BY DEF brelse, RelWake
<1>2. AnswersKept
  BY <1>1 DEF AnswersKept, Answered, IInv, TypeOK, BufType
<1>3. ASSUME NEW q \in Procs, NEW c \in Bufs, wchan'[q] = c
      PROVE  Awaited(c)'
  <2>1. wchan[q] = c /\ c # b /\ Awaited(c)
    BY <1>1, <1>3 DEF Waiting
  <2> QED
    BY <1>1, <1>3, <2>1 DEF Awaited, IInv, TypeOK, BufType
<1>4. ASSUME NEW q \in Procs
      PROVE  wchan'[q] # FreeChan
  BY <1>1 DEF Waiting, ListAwaited, NoChan, FreeChan
<1> QED
  BY <1>2, <1>3, <1>4 DEF Waiting, Awaited
-----------------------------------------------------------------------------
\* The steps that change no flag, no list and no channel.
StillStep(p) ==
  \/ \E o \in Ops, vp \in Vnodes, blk \in Block, ra \in DevBlks :
       Call(p, o, vp, blk, ra)
  \/ \E v \in Vals : Modify(p, v)
  \/ GetblkMiss(p) \/ BreallocDone(p) \/ BreallocShrink(p)
  \/ Breada(p) \/ BreadaAhead(p) \/ BreadaEnd(p) \/ StrategyNoVnode(p)
  \/ BflushCollect(p) \/ BflushDone(p) \/ BflushSteal(p) \/ BflushSkip(p)
  \/ BlkflushDone(p)

\* They leave the sleepers alone; only BreadaEnd goes to biowait, for the
\* block that BreadaStart asked for.
LEMMA StillS ==
  ASSUME SInv, NEW p \in Procs, StillStep(p)
  PROVE  Started' /\ Waiting'
<1> DEFINE Frame == UNCHANGED <<b_flags, io, listVars, wchan>>
<1> USE DEF SInv
<1>1. ASSUME NEW o \in Ops, NEW vp \in Vnodes,
             NEW blk \in Block, NEW ra \in DevBlks, Call(p, o, vp, blk, ra)
      PROVE  Frame /\ OthersStay(p) /\ Asked(p)'
  <2>1. \E l \in {"getblk", "getnewbuf", "bflush", "bread", "breada", "geteblk",
                  "bflush0", "blkflush", "binvalfree", "binval"} :
          pc' = [pc EXCEPT ![p] = l]
    BY <1>1 DEF Call, Goto, AllOps
  <2> QED
    BY <1>1, <2>1 DEF Call, IInv, TypeOK, SchedType, LocType, Started, Asked,
       Answered, At, Writing0, Control, OthersStay
<1>2. ASSUME NEW v \in Vals, Modify(p, v)
      PROVE  Frame /\ OthersStay(p) /\ Asked(p)'
  BY <1>2 DEF Modify, Yield, IInv, TypeOK, SchedType, LocType, Started, Asked,
     Answered, At, Writing0, Control, OthersStay
<1>3. ASSUME GetblkMiss(p)
      PROVE  Frame /\ OthersStay(p) /\ Asked(p)'
  BY <1>3 DEF GetblkMiss, Goto, IInv, TypeOK, SchedType, LocType, Started,
     Asked, Answered, At, Writing0, Control, OthersStay
<1>4. ASSUME BreallocDone(p)
      PROVE  Frame /\ OthersStay(p) /\ Asked(p)'
  BY <1>4 DEF BreallocDone, Goto, IInv, TypeOK, SchedType, LocType, Started,
     Asked, Answered, At, Writing0, Control, OthersStay
<1>5. ASSUME BreallocShrink(p)
      PROVE  Frame /\ OthersStay(p) /\ Asked(p)'
  BY <1>5 DEF BreallocShrink, CallBwrite, Goto, IInv, TypeOK, SchedType,
     LocType, Started, Asked, Answered, At, Writing0, Control, OthersStay
<1>6. ASSUME Breada(p)
      PROVE  Frame /\ OthersStay(p) /\ Asked(p)'
  BY <1>6 DEF Breada, Goto, IInv, TypeOK, SchedType, LocType, Started, Asked,
     Answered, At, Writing0, Control, OthersStay
<1>7. ASSUME BreadaAhead(p)
      PROVE  Frame /\ OthersStay(p) /\ Asked(p)'
  BY <1>7 DEF BreadaAhead, Goto, IInv, TypeOK, SchedType, LocType, Started,
     Asked, Answered, At, Writing0, Control, OthersStay
<1>8. ASSUME BreadaEnd(p)
      PROVE  Frame /\ OthersStay(p) /\ Asked(p)'
  BY <1>8 DEF BreadaEnd, Goto, IInv, TypeOK, SchedType, LocType, Started,
     Asked, Answered, At, Writing0, Control, OthersStay
<1>9. ASSUME StrategyNoVnode(p)
      PROVE  Frame /\ OthersStay(p) /\ Asked(p)'
  BY <1>9 DEF StrategyNoVnode, Crash, IInv, TypeOK, SchedType, LocType,
     Started, Asked, Answered, At, Writing0, Control, OthersStay
<1>10. ASSUME BflushCollect(p)
      PROVE  Frame /\ OthersStay(p) /\ Asked(p)'
  BY <1>10 DEF BflushCollect, Goto, IInv, TypeOK, SchedType, LocType, Started,
     Asked, Answered, At, Writing0, Control, OthersStay
<1>11. ASSUME BflushDone(p)
      PROVE  Frame /\ OthersStay(p) /\ Asked(p)'
  BY <1>11 DEF BflushDone, Return, Yield, IInv, TypeOK, SchedType, LocType,
     Started, Asked, Answered, At, Writing0, Control, OthersStay
<1>12. ASSUME BflushSteal(p)
      PROVE  Frame /\ OthersStay(p) /\ Asked(p)'
  BY <1>12 DEF BflushSteal, Crash, IInv, TypeOK, SchedType, LocType, Started,
     Asked, Answered, At, Writing0, Control, OthersStay
<1>13. ASSUME BflushSkip(p)
      PROVE  Frame /\ OthersStay(p) /\ Asked(p)'
  BY <1>13 DEF BflushSkip, Goto, IInv, TypeOK, SchedType, LocType, Started,
     Asked, Answered, At, Writing0, Control, OthersStay
<1>14. ASSUME BlkflushDone(p)
      PROVE  Frame /\ OthersStay(p) /\ Asked(p)'
  BY <1>14 DEF BlkflushDone, Return, Yield, IInv, TypeOK, SchedType, LocType,
     Started, Asked, Answered, At, Writing0, Control, OthersStay
<1>15. Frame /\ OthersStay(p) /\ Asked(p)'
  BY <1>1, <1>2, <1>3, <1>4, <1>5, <1>6, <1>7, <1>8, <1>9, <1>10, <1>11,
     <1>12, <1>13, <1>14, Zenon DEF StillStep
<1>16. AnswersKept /\ WakeupsKept
  BY <1>15 DEF AnswersKept, WakeupsKept, Answered, Awaited, ListAwaited
<1> QED
  BY <1>15, <1>16, StartedStep, AwakeStep

\* The steps that only set flags: notavail before a write, B_INVAL, B_AGE.
MarkStep(p) ==
  \/ \E async \in BOOLEAN : WriteOut(p, async)
  \/ GetnewbufDirty(p) \/ BreallocFlush(p) \/ BflushWrite(p)
  \/ BlkflushWrite(p) \/ BinvalfreeWrite(p) \/ BinvalfreeDone(p)
  \/ Binval(p) \/ BwriteAsync(p)

\* They make no buffer under I/O asynchronous: a free buffer is under no I/O,
\* nor is one that its holder writes out.
LEMMA MarkS ==
  ASSUME SInv, NEW p \in Procs, MarkStep(p)
  PROVE  Started' /\ Waiting'
<1> DEFINE Grow ==
      /\ \A b \in Bufs :
           /\ b_flags[b] \subseteq b_flags'[b]
           /\ b \in io /\ "ASYNC" \in b_flags'[b] => "ASYNC" \in b_flags[b]
           /\ freeq[b] = "none" => freeq'[b] = "none"
      /\ UNCHANGED <<io, listWanted, wchan>>
<1> USE DEF SInv
<1>1. ASSUME NEW async \in BOOLEAN, WriteOut(p, async)
      PROVE  Grow /\ OthersStay(p) /\ Asked(p)'
  <2>1. bp[p] \notin io
    BY <1>1 DEF WriteOut, IInv, UnderWay, At, Writing0
  <2>2. Grow
    BY <1>1, <2>1 DEF WriteOut, CallBwrite, Goto, IInv, TypeOK, SchedType,
       LocType, BufType, StoreType, Owned, UnderWay
  <2>3. OthersStay(p) /\ Asked(p)'
    BY <1>1, <2>2 DEF WriteOut, CallBwrite, Goto, IInv, TypeOK, SchedType,
       LocType, Started, Asked, Answered, At, Writing0, Control, OthersStay
  <2> QED
    BY <2>2, <2>3
<1>2. ASSUME GetnewbufDirty(p)
      PROVE  Grow /\ OthersStay(p) /\ Asked(p)'
  <2>1. Grow
    BY <1>2 DEF GetnewbufDirty, Candidates, notavail, CallBwrite, Goto, IInv,
       TypeOK, SchedType, LocType, BufType, StoreType, Owned, UnderWay
  <2>2. OthersStay(p) /\ Asked(p)'
    BY <1>2, <2>1 DEF GetnewbufDirty, notavail, CallBwrite, Goto, IInv,
       TypeOK, SchedType, LocType, Started, Asked, Answered, At, Writing0,
       Control, OthersStay, Buf0
  <2> QED
    BY <2>1, <2>2
<1>3. ASSUME BreallocFlush(p)
      PROVE  Grow /\ OthersStay(p) /\ Asked(p)'
  <2>1. Grow
    BY <1>3 DEF BreallocFlush, notavail, CallBwrite, Goto, IInv, TypeOK,
       SchedType, LocType, BufType, StoreType, Owned, UnderWay
  <2>2. OthersStay(p) /\ Asked(p)'
    BY <1>3, <2>1 DEF BreallocFlush, notavail, CallBwrite, Goto, IInv, TypeOK,
       SchedType, LocType, Started, Asked, Answered, At, Writing0, Control,
       OthersStay, Buf0
  <2> QED
    BY <2>1, <2>2
<1>4. ASSUME BflushWrite(p)
      PROVE  Grow /\ OthersStay(p) /\ Asked(p)'
  <2>1. Grow
    BY <1>4 DEF BflushWrite, notavail, CallBwrite, Goto, IInv, TypeOK,
       SchedType, LocType, BufType, StoreType, Owned, UnderWay
  <2>2. OthersStay(p) /\ Asked(p)'
    BY <1>4, <2>1 DEF BflushWrite, notavail, CallBwrite, Goto, IInv, TypeOK,
       SchedType, LocType, Started, Asked, Answered, At, Writing0, Control,
       OthersStay, Buf0
  <2> QED
    BY <2>1, <2>2
<1>5. ASSUME BlkflushWrite(p)
      PROVE  Grow /\ OthersStay(p) /\ Asked(p)'
  <2>1. Grow
    BY <1>5 DEF BlkflushWrite, ToFlush, Overlapping, notavail, CallBwrite,
       Goto, IInv, TypeOK, SchedType, LocType, BufType, StoreType, Owned,
       UnderWay
  <2>2. OthersStay(p) /\ Asked(p)'
    BY <1>5, <2>1 DEF BlkflushWrite, notavail, CallBwrite, Goto, IInv, TypeOK,
       SchedType, LocType, Started, Asked, Answered, At, Writing0, Control,
       OthersStay, Buf0
  <2> QED
    BY <2>1, <2>2
<1>6. ASSUME BinvalfreeWrite(p)
      PROVE  Grow /\ OthersStay(p) /\ Asked(p)'
  <2>1. Grow
    BY <1>6 DEF BinvalfreeWrite, FreeOf, Marked, CallBwrite, Goto, IInv,
       TypeOK, SchedType, LocType, BufType, StoreType, Owned, UnderWay
  <2>2. OthersStay(p) /\ Asked(p)'
    BY <1>6, <2>1 DEF BinvalfreeWrite, CallBwrite, Goto, IInv, TypeOK,
       SchedType, LocType, Started, Asked, Answered, At, Writing0, Control,
       OthersStay, Buf0
  <2> QED
    BY <2>1, <2>2
<1>7. ASSUME BinvalfreeDone(p)
      PROVE  Grow /\ OthersStay(p) /\ Asked(p)'
  <2>1. Grow
    BY <1>7 DEF BinvalfreeDone, FreeOf, Marked, Return, Yield, IInv, TypeOK,
       SchedType, LocType, BufType, StoreType, Owned, UnderWay
  <2>2. OthersStay(p) /\ Asked(p)'
    BY <1>7, <2>1 DEF BinvalfreeDone, Return, Yield, IInv, TypeOK, SchedType,
       LocType, Started, Asked, Answered, At, Writing0, Control, OthersStay,
       Buf0
  <2> QED
    BY <2>1, <2>2
<1>8. ASSUME Binval(p)
      PROVE  Grow /\ OthersStay(p) /\ Asked(p)'
  <2>1. Grow
    BY <1>8 DEF Binval, Marked, Return, Yield, IInv, TypeOK, SchedType,
       LocType, BufType, StoreType, Owned, UnderWay
  <2>2. OthersStay(p) /\ Asked(p)'
    BY <1>8, <2>1 DEF Binval, Return, Yield, IInv, TypeOK, SchedType, LocType,
       Started, Asked, Answered, At, Writing0, Control, OthersStay, Buf0
  <2> QED
    BY <2>1, <2>2
<1>9. ASSUME BwriteAsync(p)
      PROVE  Grow /\ OthersStay(p) /\ Asked(p)'
  <2>1. Grow
    BY <1>9 DEF BwriteAsync, BwriteReturn, Return, Yield, Goto, IInv, TypeOK,
       SchedType, LocType, BufType, StoreType, Owned, UnderWay
  <2>2. OthersStay(p) /\ Asked(p)'
    BY <1>9, <2>1 DEF BwriteAsync, BwriteReturn, Return, Yield, Goto, IInv,
       TypeOK, SchedType, LocType, Started, Asked, Answered, At, Writing0,
       Control, OthersStay, Buf0
  <2> QED
    BY <2>1, <2>2
<1>10. Grow /\ OthersStay(p) /\ Asked(p)'
  BY <1>1, <1>2, <1>3, <1>4, <1>5, <1>6, <1>7, <1>8, <1>9, Zenon DEF MarkStep
<1>11. AnswersKept /\ WakeupsKept
  BY <1>10, GrowStep
<1> QED
  BY <1>10, <1>11, StartedStep, AwakeStep

\* A process that finds a buffer busy marks it and sleeps on it.
LEMMA WaitForS ==
  ASSUME SInv, NEW p \in Procs, NEW b \in Bufs, WaitFor(p, b)
  PROVE  Started' /\ Waiting'
<1> USE DEF SInv
<1>1. /\ "BUSY" \in b_flags[b]
      /\ b_flags' = [b_flags EXCEPT ![b] = @ \cup {"WANTED"}]
      /\ wchan' = [wchan EXCEPT ![p] = b]
      /\ UNCHANGED <<io, listVars, pc, wret, bp, first, wb, wflag>>
  BY DEF WaitFor, Sleep, Yield, IInv, TypeOK, SchedType
<1>2. AnswersKept /\ WakeupsKept
  BY <1>1, GrowStep DEF IInv, TypeOK, BufType
<1>3. OthersStay(p) /\ Asked(p)'
  BY <1>1, <1>2 DEF OthersStay, Started, Asked, Answered, At, IInv, TypeOK,
     BufType, LocType, Buf0
<1>4. Awaited(b)'
  BY <1>1 DEF Awaited, IInv, TypeOK, BufType
<1>5. b # FreeChan
  OBVIOUS
<1> QED
  BY <1>1, <1>2, <1>3, <1>4, <1>5, StartedStep, WaitingStep

\* biowait sleeps on a buffer of its own whose transfer is under way.
LEMMA BiowaitS ==
  ASSUME SInv, NEW p \in Procs, Biowait(p) \/ BwriteWait(p)
  PROVE  Started' /\ Waiting'
<1> USE DEF SInv
<1>1. UNCHANGED <<b_flags, io, listVars, bp, first, wb, wflag, wret>>
  BY DEF Biowait, BwriteWait
<1>2. AnswersKept /\ WakeupsKept
  BY <1>1 DEF AnswersKept, WakeupsKept, Answered, Awaited, ListAwaited
<1>3. OthersStay(p) /\ Asked(p)'
  BY <1>1 DEF Biowait, BwriteWait, Sleep, Yield, IInv, TypeOK, SchedType,
     Started, Asked, Answered, At, Writing0, OthersStay
<1>4. CASE UNCHANGED wchan
  BY <1>2, <1>3, <1>4, StartedStep, AwakeStep
<1>5. CASE ~ UNCHANGED wchan
  <2>1. PICK b \in {bp[p], wb[p]} :
          wchan' = [wchan EXCEPT ![p] = b] /\ Has(p, b) /\ Answered(b)
                 /\ "DONE" \notin b_flags[b] /\ b # NoBuf
    BY <1>5 DEF Biowait, BwriteWait, Sleep, Started, Asked, Answered, Has, At,
       Writing0, BpLabel, IInv, Control
  <2>2. b \in Bufs
    BY <2>1 DEF IInv, TypeOK, LocType, Buf0
  <2>3. Awaited(b)
    BY <2>1, <2>2 DEF Answered, Awaited, IInv, OnlyOwner, Driven
  <2>4. Awaited(b)' /\ b # FreeChan
    BY <1>2, <2>2, <2>3 DEF WakeupsKept
  <2> QED
    BY <1>2, <1>3, <2>1, <2>4, StartedStep, WaitingStep
<1> QED
  BY <1>4, <1>5

\* getnewbuf sleeps on the free list when it finds it empty.
LEMMA GetnewbufWaitS ==
  ASSUME SInv, NEW p \in Procs, GetnewbufWait(p)
  PROVE  Started' /\ Waiting'
<1> USE DEF SInv
<1>1. /\ wchan' = [wchan EXCEPT ![p] = FreeChan] /\ listWanted'
      /\ UNCHANGED <<b_flags, io, freeq, bp, first, wb, wflag, wret, pc>>
  BY DEF GetnewbufWait, Sleep, Yield, IInv, TypeOK, SchedType
<1>2. AnswersKept /\ WakeupsKept
  BY <1>1 DEF AnswersKept, WakeupsKept, Answered, Awaited, ListAwaited
<1>3. OthersStay(p) /\ Asked(p)'
  BY <1>1 DEF Started, Asked, Answered, At, OthersStay
<1>4. \A b \in Bufs : freeq[b] = "none"
  <2>1. CASE \E c \in Bufs : freeq[c] = "AGE"
    BY <2>1 DEF GetnewbufWait, Candidates
  <2>2. CASE \A c \in Bufs : freeq[c] # "AGE"
    BY <2>2 DEF GetnewbufWait, Candidates
  <2> QED BY <2>1, <2>2
<1>5. ListAwaited'
  BY <1>1, <1>4 DEF ListAwaited
<1> QED
  BY <1>1, <1>2, <1>3, <1>5, StartedStep, WaitingStep

\* A free buffer that getblk or getnewbuf takes is one nobody waits for.
LEMMA TakeS ==
  ASSUME SInv, NEW p \in Procs, GetblkHit(p) \/ GetnewbufClean(p)
  PROVE  Started' /\ Waiting'
<1> USE DEF SInv
<1>1. PICK b \in Bufs :
        /\ "BUSY" \notin b_flags[b]
        /\ \A c \in Bufs : c # b => b_flags'[c] = b_flags[c]
        /\ freeq' = [freeq EXCEPT ![b] = "none"]
        /\ bp' = [bp EXCEPT ![p] = b]
        /\ pc' = [pc EXCEPT ![p] = "brealloc"]
        /\ UNCHANGED <<io, listWanted, wchan, first, wrVars>>
    BY DEF GetblkHit, GetnewbufClean, Matches, Candidates, Goto, IInv, TypeOK,
       BufType, Owned
<1>2. AnswersKept /\ WakeupsKept
  BY <1>1 DEF AnswersKept, WakeupsKept, Answered, Awaited, ListAwaited, IInv,
     TypeOK, BufType
<1>3. OthersStay(p)
  BY <1>1 DEF OthersStay, IInv, TypeOK, SchedType, LocType
<1>4. first[p] # NoBuf => first[p] \in Bufs /\ "BUSY" \in b_flags[first[p]]
  BY DEF IInv, TypeOK, LocType, Buf0, OnlyOwner, Has
<1>5. Asked(p)'
  BY <1>1, <1>4 DEF Started, Asked, Answered, At, Writing0, IInv, TypeOK,
     SchedType
<1> QED
  BY <1>1, <1>2, <1>3, <1>5, StartedStep, AwakeStep

\* A strategy routine that takes b keeps B_BUSY and B_WANTED, and so what the
\* sleepers on b rely on; from now on its transfer is under way.
LEMMA StrategyStep ==
  ASSUME IInv, NEW b \in Bufs, b \notin io, NEW f,
         b_flags' = [b_flags EXCEPT ![b] = f],
         {"BUSY", "WANTED"} \cap b_flags[b] \subseteq f,
         io' = io \cup {b}, UNCHANGED <<freeq, listWanted>>
  PROVE  AnswersKept /\ WakeupsKept /\ Answered(b)'
  BY DEF AnswersKept, WakeupsKept, Answered, Awaited, ListAwaited, IInv,
     TypeOK, BufType

\* bread, breada and bwrite start a transfer before they wait for it.
LEMMA AskS ==
  ASSUME SInv, NEW p \in Procs,
         Bread(p) \/ BreadaStart(p) \/ BreadaAheadStart(p) \/ Bwrite(p)
  PROVE  Started' /\ Waiting'
<1> USE DEF SInv
<1>1. PICK b \in Bufs : /\ b = IF pc[p] = "bwrite" THEN wb[p] ELSE bp[p]
                        /\ b \notin io
  BY DEF Bread, BreadaStart, BreadaAheadStart, Bwrite, IInv, TypeOK, LocType,
     Buf0, Control, UnderWay, At, BpLabel, Writing0
<1>2. UNCHANGED <<listVars, wchan>>
  BY DEF Bread, BreadaStart, BreadaAheadStart, Bwrite
<1>3. \/ UNCHANGED <<b_flags, io>> /\ "DONE" \in b_flags[b]
      \/ /\ io' = io \cup {b}
         /\ \E f : /\ b_flags' = [b_flags EXCEPT ![b] = f]
                   /\ {"BUSY", "WANTED"} \cap b_flags[b] \subseteq f
  BY <1>1 DEF Bread, BreadaStart, BreadaAheadStart, Bwrite, Strategy, Cleared
<1>4. AnswersKept /\ WakeupsKept /\ Answered(b)'
  <2>1. CASE UNCHANGED <<b_flags, io>> /\ "DONE" \in b_flags[b]
    BY <1>2, <2>1 DEF AnswersKept, WakeupsKept, Answered, Awaited, ListAwaited
  <2>2. CASE /\ io' = io \cup {b}
             /\ \E f : /\ b_flags' = [b_flags EXCEPT ![b] = f]
                       /\ {"BUSY", "WANTED"} \cap b_flags[b] \subseteq f
    BY <1>1, <1>2, <2>2, StrategyStep
  <2> QED
    BY <1>3, <2>1, <2>2
<1>5. first[p] # NoBuf => first[p] \in Bufs /\ Answered(first[p])'
  <2>1. first[p] # NoBuf =>
          first[p] \in Bufs /\ "BUSY" \in b_flags[first[p]] /\ Answered(first[p])
    BY DEF IInv, TypeOK, LocType, Buf0, OnlyOwner, Has, Started, Asked
  <2>2. \A c \in Bufs : "BUSY" \in b_flags[c] /\ Answered(c) => Answered(c)'
    BY <1>4 DEF AnswersKept
  <2>3. UNCHANGED first \/ BreadaStart(p)
    BY DEF Bread, BreadaStart, BreadaAheadStart, Bwrite
  <2>4. CASE UNCHANGED first
    BY <2>1, <2>2, <2>4 DEF Answered
  <2>5. CASE BreadaStart(p)
    BY <2>5 DEF BreadaStart, IInv, Control, At, Writing0, FirstLabel
  <2> QED
    BY <2>3, <2>4, <2>5
<1>6. OthersStay(p)
  BY DEF Bread, BreadaStart, BreadaAheadStart, Bwrite, Strategy, Goto, Yield,
     OthersStay, IInv, TypeOK, SchedType, LocType
<1>7. Asked(p)'
  BY <1>1, <1>4, <1>5 DEF Bread, BreadaStart, BreadaAheadStart, Bwrite,
     Strategy, Goto, Yield, Asked, Answered, At, Writing0, Control, IInv,
     TypeOK, SchedType, LocType
<1> QED
  BY <1>2, <1>4, <1>6, <1>7, StartedStep, AwakeStep

\* Whoever calls brelse releases a buffer that is under no I/O: if somebody
\* sleeps on it, it is B_WANTED.
LEMMA BrelseS ==
  ASSUME SInv, NEW p \in Procs,
         \/ BreallocInval(p) \/ BreadaAheadHit(p)
         \/ Release(p) \/ Bdwrite(p) \/ BwriteDone(p)
  PROVE  Started' /\ Waiting'
<1> USE DEF SInv
<1>1. PICK b \in Bufs, f \in SUBSET Flag :
        /\ brelse(b, f) /\ b_flags[b] \subseteq f
        /\ "BUSY" \in b_flags[b] => b \notin io
  <2>1. CASE BreallocInval(p)
    BY <2>1 DEF BreallocInval, InTheWay, Overlapping, IInv, TypeOK, BufType, Flag
  <2>2. CASE BreadaAheadHit(p) \/ Release(p) \/ Bdwrite(p)
    <3>1. bp[p] \in Bufs /\ bp[p] \notin io
      BY <2>2 DEF BreadaAheadHit, Release, Bdwrite, IInv, TypeOK, LocType,
         Buf0, Control, UnderWay, At, BpLabel, Writing0
    <3>2. b_flags[bp[p]] \in SUBSET Flag /\ {"DELWRI", "DONE"} \subseteq Flag
      BY <3>1 DEF IInv, TypeOK, BufType, Flag
    <3>3. \/ brelse(bp[p], b_flags[bp[p]])
          \/ brelse(bp[p], b_flags[bp[p]] \cup {"DELWRI", "DONE"})
      BY <2>2 DEF BreadaAheadHit, Release, Bdwrite
    <3> QED
      BY <3>1, <3>2, <3>3
  <2>3. CASE BwriteDone(p)
    BY <2>3 DEF BwriteDone, IInv, TypeOK, LocType, Buf0, BufType, Control,
       UnderWay, Writing0
  <2> QED
    BY <2>1, <2>2, <2>3
<1>2. UNCHANGED <<io, first>>
  BY DEF BreallocInval, BreadaAheadHit, Release, Bdwrite, BwriteDone,
     BwriteReturn
<1>3. AnswersKept /\ Waiting'
  BY <1>1, <1>2, ReleaseStep DEF Awaited
<1>4. first[p] # NoBuf => first[p] \in Bufs /\ Answered(first[p])'
  BY <1>2, <1>3 DEF IInv, TypeOK, LocType, Buf0, OnlyOwner, Has, Started,
     Asked, Answered, AnswersKept
<1>5. OthersStay(p)
  BY DEF BreallocInval, BreadaAheadHit, Release, Bdwrite, BwriteDone,
     BwriteReturn, Return, Goto, Yield, OthersStay, IInv, TypeOK, SchedType,
     LocType
<1>6. Asked(p)'
  BY <1>4 DEF BreallocInval, BreadaAheadHit, Release, Bdwrite, BwriteDone,
     BwriteReturn, Return, Goto, Yield, Asked, Answered, At, Writing0,
     Control, IInv, TypeOK, SchedType, LocType
<1> QED
  BY <1>3, <1>5, <1>6, StartedStep

\* biodone wakes whoever sleeps on the buffer: brelse does for an asynchronous
\* transfer, biodone itself for any other.
LEMMA BiodoneS ==
  ASSUME SInv, NEW b \in Bufs, NEW ok \in BOOLEAN, Biodone(b, ok)
  PROVE  Started' /\ Waiting'
<1> USE DEF SInv
<1>1. b \in io /\ io' = io \ {b} /\ UNCHANGED <<pc, locVars>>
  BY DEF Biodone
<1>2. PICK f : /\ f = b_flags[b] \cup {"DONE"} \cup (IF ok THEN {} ELSE {"ERROR"})
               /\ IF "ASYNC" \in f
                  THEN brelse(b, f)
                  ELSE /\ b_flags' = [b_flags EXCEPT ![b] = f \ {"WANTED"}]
                       /\ wchan' = [q \in Procs |-> IF wchan[q] = b THEN NoChan
                                                                   ELSE wchan[q]]
                       /\ UNCHANGED listVars
  BY DEF Biodone
<1>3. AnswersKept /\ Waiting'
  <2>1. CASE "ASYNC" \in f
    BY <1>1, <1>2, <2>1, ReleaseStep DEF Awaited
  <2>2. CASE "ASYNC" \notin f
    <3>1. AnswersKept
      BY <1>1, <1>2, <2>2 DEF AnswersKept, Answered, IInv, TypeOK, BufType
    <3>2. ASSUME NEW q \in Procs, NEW c \in Bufs, wchan'[q] = c
          PROVE  Awaited(c)'
      BY <1>1, <1>2, <2>2, <3>2 DEF Waiting, Awaited, IInv, TypeOK, BufType
    <3>3. ASSUME NEW q \in Procs, wchan'[q] = FreeChan
          PROVE  ListAwaited'
      BY <1>2, <2>2, <3>3 DEF Waiting, ListAwaited, NoChan, FreeChan
    <3> QED
      BY <3>1, <3>2, <3>3 DEF Waiting, Awaited
  <2> QED
    BY <2>1, <2>2
<1>4. ASSUME NEW q \in Procs
      PROVE  Asked(q)'
  <2>1. At(q)' = At(q)
    BY <1>1 DEF At
  <2>2. \A c \in Bufs : Has(q, c) /\ Answered(c) => Answered(c)'
    BY <1>3 DEF IInv, OnlyOwner, AnswersKept
  <2> QED
    BY <1>1, <2>1, <2>2 DEF Started, Asked, Answered, Has, BpLabel, Writing0,
       Buf0, IInv, TypeOK, LocType, Control
<1> QED
  BY <1>3, <1>4 DEF Started
-----------------------------------------------------------------------------
\* Nobody sleeps, and nothing is under way, after binit ...
LEMMA InitS == Init => SInv
<1>1. Init => Started
  BY DEF Init, Started, Asked, At, Writing0
<1>2. Init => Waiting
  BY DEF Init, Waiting, NoChan, FreeChan
<1> QED
  BY <1>1, <1>2, InitI DEF SInv

\* ... and every step keeps the invariant, if it keeps that of BufCacheProofs.
LEMMA NextS == SInv /\ [Next]_vars => SInv'
<1> SUFFICES ASSUME SInv, [Next]_vars PROVE Started' /\ Waiting'
  BY NextI DEF SInv
<1>1. ASSUME NEW p \in Procs, NEW o \in Ops, NEW vp \in Vnodes,
             NEW blk \in Block, NEW ra \in DevBlks, Call(p, o, vp, blk, ra)
      PROVE  Started' /\ Waiting'
  BY <1>1, StillS DEF StillStep
<1>2. ASSUME NEW p \in Procs, Step(p)
      PROVE  Started' /\ Waiting'
  <2>1. CASE Lookup(p)
    <3>1. CASE GetblkBusy(p) \/ BreallocBusy(p)
      BY <3>1, WaitForS DEF GetblkBusy, BreallocBusy, Matches, InTheWay,
         Overlapping
    <3> QED
      BY <2>1, <3>1, StillS, MarkS, GetnewbufWaitS, TakeS, BrelseS
         DEF Lookup, StillStep, MarkStep
  <2>2. CASE Reading(p)
    BY <2>2, StillS, AskS, BiowaitS, BrelseS
       DEF Reading, BreadaSecond, StillStep
  <2>3. CASE Using(p)
    BY <2>3, StillS, MarkS, BrelseS DEF Using, StillStep, MarkStep
  <2>4. CASE Writing(p)
    BY <2>4, StillS, MarkS, AskS, BiowaitS, BrelseS
       DEF Writing, StillStep, MarkStep
  <2>5. CASE Flushing(p)
    <3>1. CASE BlkflushBusy(p)
      BY <3>1, WaitForS DEF BlkflushBusy, ToFlush, Overlapping
    <3> QED
      BY <2>5, <3>1, StillS, MarkS DEF Flushing, StillStep, MarkStep
  <2> QED
    BY <1>2, <2>1, <2>2, <2>3, <2>4, <2>5 DEF Step
<1>3. ASSUME NEW b \in Bufs, NEW ok \in BOOLEAN, Biodone(b, ok)
      PROVE  Started' /\ Waiting'
  BY <1>3, BiodoneS
<1>4. CASE UNCHANGED vars
  BY <1>4 DEF vars, SInv, Started, Asked, Answered, At, Waiting, Awaited,
     ListAwaited
<1> QED
  BY <1>1, <1>2, <1>3, <1>4 DEF Next

\* The invariant with the sleepers holds in every state the cache reaches.
THEOREM SleepInvariant == Spec => []SInv
  BY InitS, NextS, PTL DEF Spec

\* No lost wakeup: a process that getblk, brealloc, getnewbuf, biowait or
\* blkflush put to sleep sleeps on a busy buffer that is B_WANTED or under I/O,
\* or on an empty free list that is marked; brelse or biodone will wake it.
THEOREM NobodyStranded == Spec => []NoStrandedSleeper
<1>1. SInv => NoStrandedSleeper
  BY DEF SInv, Waiting, Awaited, ListAwaited, NoStrandedSleeper
<1> QED
  BY <1>1, SleepInvariant, PTL
=============================================================================
