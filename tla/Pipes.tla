------------------------------- MODULE Pipes -------------------------------
(***************************************************************************)
(* A pipe: SVFS/sys/5_pipe.c and the IFIFO part of rwip (5_vnodeops.c).    *)
(* The bytes are in the first PIPSIZ bytes of a file, used as a ring; a    *)
(* read or write moves them block by block with the inode locked and may   *)
(* wait for a buffer at each, opens and closes do not lock.  A block may   *)
(* fail, or the copy to or from the user; the last close may sleep in      *)
(* free before it resets the inode.  A byte is its number in the order     *)
(* written since the pipe was last empty.                                  *)
(***************************************************************************)
EXTENDS Kernel

CONSTANTS
  PIPSIZ, BSIZE,  \* bytes a pipe holds, bytes of a block
  Amounts         \* sizes of reads and writes

ASSUME PipeAssumption ==
  /\ BSIZE \in Nat \ {0} /\ PIPSIZ \in Nat \ {0} /\ PIPSIZ % BSIZE = 0
  /\ Amounts \subseteq Nat \ {0} /\ "nobody" \notin Procs

VARIABLES
  ip,     \* the inode: i_size, i_frptr, i_fwptr, i_frcnt, i_fwcnt, IFIR, IFIW
  ring,   \* the number of the byte in each place, -1 once it has been read
  moved,  \* numbers of the next bytes to be written and read
  odds,   \* what i_size and the places do not agree after: "bytes", a failure,
          \* or "wiped", an open during the last close, which sleeps; else "no"
  fd,     \* what each process has open, "none", or "closing"
  rw,     \* the call that has the inode locked, or none
  pipewait  \* the sleepers

pipeVars == <<ip, ring, moved, odds, fd, rw, pipewait>>

Idle == [p |-> "nobody"]
Frcnt == <<"frcnt">>   \* the addresses slept on
Fwcnt == <<"fwcnt">>
Mod(n) == n % (PIPSIZ + 1)
Count(mode) == IF mode = "R" THEN "frcnt" ELSE "fwcnt"
Other(mode) == IF mode = "R" THEN "fwcnt" ELSE "frcnt"
Least(S) == CHOOSE n \in S : \A m \in S : n <= m
-----------------------------------------------------------------------------
\* Numbers start again when the pipe is empty or at odds: no bytes are followed
\* through a pipe at odds.
Empty == [i \in 0 .. PIPSIZ - 1 |-> -1]
Restart == ring' = Empty /\ moved' = [w |-> 0, r |-> 0]
Mend == odds' = IF odds = "wiped" THEN odds ELSE "no"
Break == Restart /\ odds' = IF odds = "wiped" THEN odds ELSE "bytes"

Closing == {p \in Procs : fd[p] = "closing"}

\* openp, from its loops on; w is pipewait without p.
OpenTry(p, mode, I, w) ==
  /\ ip' = I
  /\ \/ /\ I[Other(mode)] > 0 \/ (mode = "R" /\ I.size # 0)
        /\ fd' = [fd EXCEPT ![p] = mode] /\ pipewait' = w
     \/ /\ I[Other(mode)] = 0 /\ (mode = "R" => I.size = 0)
        /\ fd' = fd
        /\ pipewait' = sleep(w, p, [op |-> "open", mode |-> mode,
                                    chan |-> <<Other(mode)>>])
  /\ UNCHANGED <<ring, moved, rw>>

PipeOpen(p, mode) ==
  /\ fd[p] = "none" /\ p \notin DOMAIN pipewait
  /\ OpenTry(p, mode, [ip EXCEPT ![Count(mode)] = @ + 1],
             IF ip[Count(mode)] = 0 THEN wakeup(pipewait, {<<Count(mode)>>})
             ELSE pipewait)
  /\ odds' = IF Closing = {} THEN odds ELSE "wiped"

\* closep: the last of a side wakes those of the other, the last of all goes
\* on to free the blocks.
ClosePipe(mode) ==
  LET left == ip[Count(mode)] - 1
      flag == IF mode = "R" THEN "wwait" ELSE "rwait"
      wake == left = 0 /\ ip[flag]
  IN [I |-> [ip EXCEPT ![Count(mode)] = left, ![flag] = @ /\ ~wake],
      wake |-> IF wake THEN {<<Other(mode)>>} ELSE {}]

Close(p, mode, w) ==
  LET C == ClosePipe(mode)
  IN /\ ip' = C.I /\ pipewait' = wakeup(w, C.wake)
     /\ fd' = [fd EXCEPT ![p] = IF C.I.frcnt = 0 /\ C.I.fwcnt = 0
                                THEN "closing" ELSE "none"]
     /\ UNCHANGED <<ring, moved, odds, rw>>

PipeClose(p) ==
  /\ fd[p] \in {"R", "W"} /\ p \notin DOMAIN pipewait /\ rw.p # p
  /\ Close(p, fd[p], pipewait)

\* The inode of an empty pipe.
ResetPipe(I) == [I EXCEPT !.size = 0, !.frptr = 0, !.fwptr = 0,
                          !.rwait = FALSE, !.wwait = FALSE]

\* free has slept for the super block's lock or a buffer, or not at all; the
\* inode is reset, whoever has opened the pipe meanwhile.
PipeReset(p) ==
  /\ p \in Closing
  /\ ip' = ResetPipe(ip) /\ fd' = [fd EXCEPT ![p] = "none"]
  /\ Restart
  /\ odds' = IF ip.frcnt = 0 /\ ip.fwcnt = 0 /\ Closing = {p} THEN "no" ELSE "wiped"
  /\ UNCHANGED <<rw, pipewait>>

\* A signal: an open is taken back (svfs_open), a read or write just ends.
PipeInterrupt(p) ==
  /\ p \in DOMAIN pipewait
  /\ LET call == pipewait[p]  w == unsleep(pipewait, p)
     IN IF call.op = "open" THEN Close(p, call.mode, w)
        ELSE pipewait' = w /\ UNCHANGED <<ip, ring, moved, odds, fd, rw>>
-----------------------------------------------------------------------------
\* Bytes of the next block of a call (n in rwip).
Block(op, off, resid, size) ==
  Least({BSIZE - (off % BSIZE), resid} \cup IF op = "R" THEN {size} ELSE {})

\* began: a block has been moved.
Start(p, op, resid, usave, w) ==
  LET off == IF op = "R" THEN ip.frptr ELSE ip.fwptr
  IN /\ rw' = [p |-> p, op |-> op, n |-> Block(op, off, resid, ip.size),
               resid |-> resid, usave |-> usave, off |-> off, began |-> FALSE]
     /\ pipewait' = w /\ UNCHANGED <<ip, ring, moved, odds, fd>>

\* The call returns at once: end of file, EPIPE, or FNDELAY.
Return(w) == rw' = Idle /\ pipewait' = w /\ UNCHANGED <<ip, ring, moved, odds, fd>>

Wait(p, op, n, w) ==
  /\ ip' = [ip EXCEPT ![IF op = "R" THEN "rwait" ELSE "wwait"] = TRUE]
  /\ rw' = Idle
  /\ pipewait' = sleep(w, p, [op |-> op, n |-> n,
                              chan |-> IF op = "R" THEN Frcnt ELSE Fwcnt])
  /\ UNCHANGED <<ring, moved, odds, fd>>

\* rwip up to its loop.
ReadTry(p, n, w) ==
  IF ip.size # 0 THEN Start(p, "R", n, 0, w)
  ELSE IF ip.fwcnt = 0 THEN Return(w) ELSE Return(w) \/ Wait(p, "R", n, w)

WriteTry(p, n, w) ==
  IF ip.frcnt = 0 THEN Return(w)
  ELSE IF n + ip.size <= PIPSIZ THEN Start(p, "W", n, 0, w)
  ELSE IF n > PIPSIZ /\ ip.size < PIPSIZ
       THEN Start(p, "W", PIPSIZ - ip.size, n - (PIPSIZ - ip.size), w)
  ELSE Return(w) \/ Wait(p, "W", n, w)

CallTry(p, op, n, w) == IF op = "R" THEN ReadTry(p, n, w) ELSE WriteTry(p, n, w)

PipeCall(p, n) ==
  /\ rw = Idle /\ fd[p] \in {"R", "W"} /\ p \notin DOMAIN pipewait
  /\ CallTry(p, fd[p], n, pipewait)

PipeResume(p) ==
  /\ p \in DOMAIN pipewait \ Asleep(pipewait)
  /\ LET call == pipewait[p]  w == unsleep(pipewait, p)
     IN IF call.op = "open" THEN OpenTry(p, call.mode, ip, w) /\ odds' = odds
        ELSE rw = Idle /\ CallTry(p, call.op, call.n, w)

\* Faulty: the flag is reset, but nobody woken.
p_wakeupQuiet(flag, chan) == pipewait

\* p_wakeup
p_wakeup(flag, chan) ==
  IF ip[flag] THEN wakeup(pipewait, {chan}) ELSE pipewait

\* Faulty: the place where writes go on is not set back.
ReadEndKeep(size, off) ==
  [ip EXCEPT !.size = size, !.wwait = FALSE, !.frptr = IF size # 0 THEN off ELSE 0]

\* The end of a read; an empty pipe starts again at its beginning.
ReadEnd(size, off) ==
  [ip EXCEPT !.size = size, !.wwait = FALSE,
             !.frptr = IF size # 0 THEN off ELSE 0,
             !.fwptr = IF size # 0 THEN @ ELSE 0]

\* The next block of a call that is at off with resid bytes left.
NextBlock(size, off, resid) ==
  rw' = [rw EXCEPT !.n = Block(rw.op, off, resid, size), !.resid = resid,
                   !.off = off, !.began = TRUE]

\* What is known of the bytes, once n have been read from rw.off on.
TakeBytes(n) ==
  /\ odds' = odds
  /\ IF odds # "no" THEN UNCHANGED <<ring, moved>>
     ELSE /\ ring' = [i \in DOMAIN ring |-> IF i \in rw.off .. rw.off + n - 1
                                            THEN -1 ELSE ring[i]]
          /\ moved' = [moved EXCEPT !.r = Mod(@ + n)]

\* A block is read; at the end the place is kept and writers are woken.  A
\* negative n (i_size reset under a read) moves nothing.
ReadBlock ==
  LET n == IF rw.n > 0 THEN rw.n ELSE 0
      off == IF rw.off + n >= PIPSIZ THEN 0 ELSE rw.off + n
      size == ip.size - rw.n
      more == rw.resid > n /\ rw.n # 0
  IN /\ rw.p # "nobody" /\ rw.op = "R"
     /\ \/ /\ more
           /\ NextBlock(size, off, rw.resid - n)
           /\ ip' = [ip EXCEPT !.size = size]
           /\ TakeBytes(n)
           /\ UNCHANGED pipewait
        \/ /\ ~more /\ rw' = Idle
           /\ ip' = ReadEnd(size, off)
           /\ IF size = 0 THEN Restart /\ Mend
              ELSE TakeBytes(n)
           /\ pipewait' = p_wakeup("wwait", Fwcnt)
     /\ UNCHANGED fd

\* The same, once n have been written.
PutBytes(n) ==
  IF odds # "no" THEN UNCHANGED <<ring, moved>>
  ELSE /\ ring' = [i \in DOMAIN ring |-> IF i \in rw.off .. rw.off + n - 1
                                         THEN Mod(moved.w + i - rw.off) ELSE ring[i]]
       /\ moved' = [moved EXCEPT !.w = Mod(@ + n)]

\* A block is written; at the end the place is kept, readers are woken, and
\* what is left of a long write (usave) is tried again.
WriteBlock ==
  LET n == rw.n
      off == IF rw.off + n = PIPSIZ THEN 0 ELSE rw.off + n
      size == ip.size + n
  IN /\ rw.p # "nobody" /\ rw.op = "W"
     /\ PutBytes(n)
     /\ \/ /\ rw.resid > n
           /\ NextBlock(size, off, rw.resid - n)
           /\ ip' = [ip EXCEPT !.size = size] /\ UNCHANGED pipewait
        \/ /\ rw.resid = n
           /\ ip' = [ip EXCEPT !.size = size, !.fwptr = off, !.rwait = FALSE]
           /\ pipewait' = p_wakeup("rwait", Frcnt)
           /\ rw' = IF rw.usave = 0 THEN Idle
                    ELSE [rw EXCEPT !.op = "floop", !.resid = rw.usave]
     /\ UNCHANGED <<odds, fd>>

\* bmap finds no block, or its buffer has an error: the call is over, with
\* the bytes of earlier blocks in i_size, its place not kept, nobody woken.
BlockFails ==
  /\ rw.p # "nobody" /\ rw.op \in {"R", "W"} /\ rw' = Idle
  /\ IF rw.began THEN Break ELSE UNCHANGED <<ring, moved, odds>>
  /\ UNCHANGED <<ip, fd, pipewait>>

\* uiomove fails after k of the n bytes (other iovecs): the place moves by k,
\* i_size by n, and the call ends as usual.
CopyFails ==
  /\ rw.p # "nobody" /\ rw' = Idle
  /\ \E k \in 0 .. rw.n - 1 :
       \/ /\ rw.op = "R"
          /\ ip' = ReadEnd(ip.size - rw.n, rw.off + k)
          /\ IF ip.size = rw.n THEN Restart /\ Mend ELSE Break
          /\ pipewait' = p_wakeup("wwait", Fwcnt)
       \/ /\ rw.op = "W"
          /\ ip' = [ip EXCEPT !.size = @ + rw.n, !.fwptr = rw.off + k, !.rwait = FALSE]
          /\ Break
          /\ pipewait' = p_wakeup("rwait", Frcnt)
  /\ UNCHANGED fd

\* goto floop, the inode still locked.
WriteRest ==
  /\ rw.p # "nobody" /\ rw.op = "floop"
  /\ WriteTry(rw.p, rw.resid, pipewait)
-----------------------------------------------------------------------------
PipeInit ==
  /\ ip = [size |-> 0, frptr |-> 0, fwptr |-> 0, frcnt |-> 0, fwcnt |-> 0,
           rwait |-> FALSE, wwait |-> FALSE]
  /\ ring = Empty /\ moved = [w |-> 0, r |-> 0] /\ odds = "no"
  /\ fd = [p \in Procs |-> "none"] /\ rw = Idle /\ pipewait = <<>>

PipeNext ==
  \/ \E p \in Procs, mode \in {"R", "W"} : PipeOpen(p, mode)
  \/ \E p \in Procs, n \in Amounts : PipeCall(p, n)
  \/ \E p \in Procs : PipeClose(p) \/ PipeReset(p) \/ PipeInterrupt(p) \/ PipeResume(p)
  \/ ReadBlock \/ WriteBlock \/ WriteRest \/ BlockFails \/ CopyFails

PipeSpec == PipeInit /\ [][PipeNext]_pipeVars
-----------------------------------------------------------------------------
\* The place of the next byte to be read, and of the next to be written.
Where(op, ptr) == IF rw.p # "nobody" /\ rw.op = op THEN rw.off ELSE ptr

\* The ring holds the bytes written and not read, in order, although places
\* are kept in local variables during a call, wrap around block by block and
\* are set back when the pipe is empty.  Not so from a copy that fails, or a
\* block after the first, until a read has emptied the pipe; nor when it is
\* opened while its last close sleeps in free.
PipeFifo ==
  odds = "no" =>
    /\ ip.size \in 0 .. PIPSIZ
    /\ Mod(moved.w - moved.r) = ip.size
    /\ ip.size < PIPSIZ =>
         (Where("R", ip.frptr) + ip.size) % PIPSIZ = Where("W", ip.fwptr) % PIPSIZ
    /\ \A i \in 0 .. ip.size - 1 :
         ring[(Where("R", ip.frptr) + i) % PIPSIZ] = Mod(moved.r + i)

\* Nobody sleeps on a pipe while the call could go on, unless the call that
\* will wake it is not over.  A call that failed after its first block leaves
\* sleepers that could go on, but with the flag set that wakes them at the end
\* of the next one; the flag is lost when the pipe is opened while its last
\* close sleeps.
PipeSleeperBlocked ==
  \A p \in Asleep(pipewait) :
    LET c == pipewait[p]
        running(op) == rw.p # "nobody" /\ rw.op = op /\ rw.began
    IN CASE c.op = "open" -> ip[Other(c.mode)] = 0
         [] c.op = "R" -> odds # "wiped" =>
              /\ ip.fwcnt > 0 /\ ip.rwait
              /\ ip.size = 0 \/ running("W") \/ odds = "bytes"
         [] c.op = "W" -> odds # "wiped" =>
              /\ ip.frcnt > 0 /\ ip.wwait
              /\ \/ c.n + ip.size > PIPSIZ /\ ~(c.n > PIPSIZ /\ ip.size < PIPSIZ)
                 \/ running("R") \/ odds = "bytes"
=============================================================================
