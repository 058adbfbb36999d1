------------------------------ MODULE Messages ------------------------------
(***************************************************************************)
(* System V messages: PAGING/os/msg.c, with the identifiers of ipc.c.  The *)
(* text of a message is in consecutive segments of a pool (msgmap), its    *)
(* header from a list (msgfp); senders wait for room on the queue or for   *)
(* the pool, receivers for a message of their type.  The caller's memory   *)
(* is resident: copying from or to it does not wait.                       *)
(***************************************************************************)
EXTENDS Kernel

CONSTANTS
  Queues,   \* the slots of msgque[]
  msgseg,   \* segments of the pool
  msgtql,   \* message headers
  msgmnb,   \* most bytes on a queue (a byte stands for a segment: msgssz = 1)
  MsgKinds, \* types (positive) and sizes of the messages sent: pairs
  Wanted,   \* msgtyp of msgrcv: 0, a type, or less than 0
  MsgRemovals  \* bound: IPC_RMIDs of a slot

ASSUME MsgAssumption ==
  /\ msgseg \in Nat /\ msgtql \in Nat /\ msgmnb \in Nat /\ MsgRemovals \in Nat
  /\ MsgKinds \subseteq (Nat \ {0}) \X Nat /\ Wanted \subseteq Int

VARIABLES
  msgque,   \* of each slot: alloc and seq, MSG_RWAIT, MSG_WWAIT, msg_cbytes,
            \* and the messages: type, text (its segments) and h (its header)
  msgmap,   \* the free segments
  msgfp,    \* the free headers
  mapwant,  \* somebody sleeps on msgmap
  msgwait   \* processes asleep in msgsnd and msgrcv, with their call

msgVars == <<msgque, msgmap, msgfp, mapwant, msgwait>>

MsgId(q) == <<q, msgque[q].seq>>
msgconv(id) == msgque[id[1]].alloc /\ id = MsgId(id[1])
Qnum(q) == <<q, "qnum">>   \* the addresses slept on
Room(q) == <<q, "room">>
Pool == <<"msgmap">>

MsgGet(q) ==
  /\ ~msgque[q].alloc
  /\ msgque' = [msgque EXCEPT ![q].alloc = TRUE]
  /\ UNCHANGED <<msgmap, msgfp, mapwant, msgwait>>

\* Faulty: one segment too few is enough.
FitsShort(n) == {s \in msgmap : s .. s + n - 2 \subseteq msgmap}

\* malloc: first fit.
Fits(n) == {s \in msgmap : s .. s + n - 1 \subseteq msgmap}
malloc(n) == LET s == Min(Fits(n)) IN s .. s + n - 1

\* msgfree of messages M of queue q; w is msgwait as it is so far.
msgfree(q, M, w) ==
  /\ msgmap' = msgmap \cup UNION {m.text : m \in M}
  /\ msgfp' = msgfp \cup {m.h : m \in M}
  /\ LET freed == \E m \in M : m.text # {}
     IN /\ mapwant' = (mapwant /\ ~freed)
        /\ msgwait' = wakeup(w, (IF mapwant /\ freed THEN {Pool} ELSE {})
                                \cup (IF msgque[q].wwait /\ M # {} THEN {Room(q)} ELSE {}))

\* msgctl(IPC_RMID): both kinds of waiters are woken.
MsgRemove(id) ==
  LET q == id[1]
      Q == msgque[q]
  IN /\ msgconv(id) /\ Q.seq < MsgRemovals
     /\ msgfree(q, ToSet(Q.msgs),
                wakeup(msgwait, (IF Q.rwait THEN {Qnum(q)} ELSE {})
                                \cup (IF Q.wwait THEN {Room(q)} ELSE {})))
     /\ msgque' = [msgque EXCEPT ![q] =
          [alloc |-> FALSE, seq |-> @.seq + 1, rwait |-> FALSE, wwait |-> FALSE,
           cbytes |-> 0, msgs |-> <<>>]]
-----------------------------------------------------------------------------
\* A call gives up the processor on chan.
MsgSleep(p, call, chan, w) == sleep(w, p, [call EXCEPT !.chan = chan, !.on = chan])

\* The text is copied into its segments: the message is on the queue.
Enqueue(call, text, w) ==
  LET q == call.id[1]
      h == Min(msgfp)
  IN /\ msgque' = [msgque EXCEPT
          ![q].msgs = Append(@, [type |-> call.type, text |-> text, h |-> h]),
          ![q].cbytes = @ + call.size, ![q].rwait = FALSE]
     /\ msgfp' = msgfp \ {h}
     /\ msgwait' = wakeup(w, IF msgque[q].rwait THEN {Qnum(q)} ELSE {})
     /\ UNCHANGED mapwant

\* msgsnd from getres on.
SendTry(p, call, w) ==
  LET q == call.id[1]
      Q == msgque[q]
      text == IF call.size > 0 THEN malloc(call.size) ELSE {}
  IN \/ /\ call.size + Q.cbytes > msgmnb
        /\ \/ UNCHANGED <<msgque>> /\ msgwait' = w  \* IPC_NOWAIT
           \/ /\ msgque' = [msgque EXCEPT ![q].wwait = TRUE]
              /\ msgwait' = MsgSleep(p, call, Room(q), w)
        /\ UNCHANGED <<msgmap, msgfp, mapwant>>
     \/ /\ call.size + Q.cbytes <= msgmnb
        /\ (call.size > 0 /\ Fits(call.size) = {}) \/ msgfp = {}
        \* the space malloc found is lost when there is no header
        /\ msgmap' = IF call.size > 0 /\ Fits(call.size) # {}
                     THEN msgmap \ malloc(call.size) ELSE msgmap
        /\ \/ UNCHANGED <<mapwant>> /\ msgwait' = w  \* IPC_NOWAIT
           \/ mapwant' = TRUE /\ msgwait' = MsgSleep(p, call, Pool, w)
        /\ UNCHANGED <<msgque, msgfp>>
     \/ /\ call.size + Q.cbytes <= msgmnb
        /\ call.size > 0 => Fits(call.size) # {}
        /\ msgfp # {}
        /\ \/ Enqueue(call, text, w) /\ msgmap' = msgmap \ text
           \/ /\ call.size > 0  \* EFAULT: mfree
              /\ mapwant' = FALSE /\ msgwait' = wakeup(w, IF mapwant THEN {Pool} ELSE {})
              /\ UNCHANGED <<msgque, msgfp, msgmap>>

\* Faulty: the last of the lowest type.
BetterLast(msgs, i, j) ==
  msgs[i].type < msgs[j].type \/ (msgs[i].type = msgs[j].type /\ i >= j)

Better(msgs, i, j) ==
  msgs[i].type < msgs[j].type \/ (msgs[i].type = msgs[j].type /\ i <= j)

\* The message msgrcv takes (its index, or 0): the first, the first of a type,
\* or the first of the lowest type up to -msgtyp.
findmsg(msgs, msgtyp) ==
  IF msgtyp > 0 THEN SelectInSeq(msgs, LAMBDA m : m.type = msgtyp)
  ELSE IF msgtyp = 0 THEN IF msgs = <<>> THEN 0 ELSE 1
  ELSE LET I == {i \in DOMAIN msgs : msgs[i].type <= -msgtyp}
       IN IF I = {} THEN 0 ELSE CHOOSE i \in I : \A j \in I : Better(msgs, i, j)

\* The end of msgrcv: the message it copied is taken off the queue.
Take(q, i, w) ==
  LET m == msgque[q].msgs[i]
  IN /\ msgque' = [msgque EXCEPT ![q].msgs = RemoveAt(@, i), ![q].wwait = FALSE,
                                 ![q].cbytes = @ - Cardinality(m.text)]
     /\ msgfree(q, {m}, w)

\* msgrcv from findmsg on.
ReceiveTry(p, call, w) ==
  LET q == call.id[1]
      i == findmsg(msgque[q].msgs, call.msgtyp)
  IN \/ i # 0 /\ Take(q, i, w)
     \/ i = 0 /\ msgwait' = w /\ UNCHANGED <<msgque, msgmap, msgfp, mapwant>>  \* ENOMSG
     \/ /\ i = 0
        /\ msgque' = [msgque EXCEPT ![q].rwait = TRUE]
        /\ msgwait' = MsgSleep(p, call, Qnum(q), w)
        /\ UNCHANGED <<msgmap, msgfp, mapwant>>

MsgSend(p, id, type, size) ==
  /\ p \notin DOMAIN msgwait /\ msgconv(id)
  /\ SendTry(p, [op |-> "snd", chan |-> Run, on |-> Run, id |-> id, type |-> type,
                 size |-> size], msgwait)

MsgReceive(p, id, msgtyp) ==
  /\ p \notin DOMAIN msgwait /\ msgconv(id)
  /\ ReceiveTry(p, [op |-> "rcv", chan |-> Run, on |-> Run, id |-> id, msgtyp |-> msgtyp],
                msgwait)

\* A sleeper runs again: the queue may be gone (EIDRM).
MsgResume(p) ==
  /\ p \in DOMAIN msgwait \ Asleep(msgwait)
  /\ LET call == msgwait[p]
         w == unsleep(msgwait, p)
     IN IF ~msgconv(call.id)
        THEN msgwait' = w /\ UNCHANGED <<msgque, msgmap, msgfp, mapwant>>
        ELSE IF call.op = "snd" THEN SendTry(p, call, w) ELSE ReceiveTry(p, call, w)

\* Faulty: the others are not woken, but their flag is reset.
MsgInterruptQuiet(p) ==
  /\ p \in DOMAIN msgwait
  /\ LET q == msgwait[p].id[1]
     IN msgque' = IF msgwait[p].on = Room(q) THEN [msgque EXCEPT ![q].wwait = FALSE]
                  ELSE msgque
  /\ msgwait' = unsleep(msgwait, p)
  /\ UNCHANGED <<msgmap, msgfp, mapwant>>

\* A signal ends the sleep; a sender that waited for room lets the others
\* look again, whether it was woken or not.
MsgInterrupt(p) ==
  /\ p \in DOMAIN msgwait
  /\ LET q == msgwait[p].id[1]
         room == msgwait[p].on = Room(q)
         w == unsleep(msgwait, p)
     IN /\ msgque' = IF room THEN [msgque EXCEPT ![q].wwait = FALSE] ELSE msgque
        /\ msgwait' = IF room THEN wakeup(w, {Room(q)}) ELSE w
        /\ UNCHANGED <<msgmap, msgfp, mapwant>>
-----------------------------------------------------------------------------
MsgInit ==
  /\ msgque = [q \in Queues |-> [alloc |-> FALSE, seq |-> 0, rwait |-> FALSE,
                                 wwait |-> FALSE, cbytes |-> 0, msgs |-> <<>>]]
  /\ msgmap = 1 .. msgseg /\ msgfp = 1 .. msgtql /\ mapwant = FALSE
  /\ msgwait = <<>>

MsgNext ==
  \/ \E q \in Queues : MsgGet(q) \/ MsgRemove(MsgId(q))
  \/ \E p \in Procs, q \in Queues, k \in MsgKinds :
       MsgSend(p, MsgId(q), k[1], k[2])
  \/ \E p \in Procs, q \in Queues, msgtyp \in Wanted : MsgReceive(p, MsgId(q), msgtyp)
  \/ \E p \in Procs : MsgResume(p) \/ MsgInterrupt(p)

MsgSpec == MsgInit /\ [][MsgNext]_msgVars
-----------------------------------------------------------------------------
InUse(q) == ToSet(msgque[q].msgs)

\* The pool, the headers and msg_cbytes account for every message.
MsgSpace ==
  /\ \A q \in Queues : msgque[q].cbytes = Cardinality(UNION {m.text : m \in InUse(q)})
  /\ LET M == UNION {InUse(q) : q \in Queues}
     IN /\ msgmap \cup UNION {m.text : m \in M} = 1 .. msgseg
        /\ \A m, n \in M : m.h = n.h => m = n
        /\ \A m, n \in M : m # n => m.text \cap n.text = {}
        /\ \A m \in M : m.text \cap msgmap = {} /\ m.h \notin msgfp

CanSend(c) ==
  /\ c.size + msgque[c.id[1]].cbytes <= msgmnb
  /\ (c.size > 0 => Fits(c.size) # {}) /\ msgfp # {}

\* Nobody sleeps while the call could go on, or waits for a queue removed.
MsgSleeperBlocked ==
  \A p \in Asleep(msgwait) :
    LET c == msgwait[p]
    IN IF c.op = "snd" THEN ~CanSend(c) /\ (c.chan # Pool => msgconv(c.id))
       ELSE msgconv(c.id) /\ findmsg(msgque[c.id[1]].msgs, c.msgtyp) = 0

\* Messages of one type are received in the order they were sent.
MsgOrder ==
  [][\A q \in Queues :
       LET old == msgque[q].msgs  new == msgque'[q].msgs
       IN Len(new) = Len(old) - 1 /\ new # <<>> =>
            \E i \in DOMAIN old : /\ new = RemoveAt(old, i)
                                  /\ \A j \in 1 .. i - 1 : old[j].type # old[i].type]_msgVars
=============================================================================
