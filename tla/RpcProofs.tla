----------------------------- MODULE RpcProofs -----------------------------
(***************************************************************************)
(* Theorems about Rpc, for any processes, handles, mounts and requests and *)
(* any loss, duplication, delay and reordering in the net: a handle has    *)
(* one caller, a caller sleeps only while there is something to wait for,  *)
(* and takes no reply but its own; one server process does not deny what   *)
(* it has carried out and remembers.                                       *)
(***************************************************************************)
EXTENDS Rpc, TLAPS

Args == Requests \cup {NoRequest}
Message ==
  [kind : {"call"}, h : Handles, xid : Nat, args : Args]
  \cup [kind : {"reply"}, h : Handles, xid : Nat, args : Args, ok : BOOLEAN]
Handle ==
  [inuse : BOOLEAN, bufbusy : BOOLEAN, bufwanted : BOOLEAN, timedout : BOOLEAN,
   held : Nat, xid : Int, args : Args, rcv : Seq(Message)]
Where == {"clget", "buf", "mbuf", "encode", "recv", "ready"}
Chans == {Run, Chtable} \cup {Buf(h) : h \in Handles} \cup {Rcv(h) : h \in Handles}
Caller ==
  [at : Where, chan : Chans, mi : Mounts, args : Requests, h : Handles \cup {0},
   xid : Nat, stries : Int, rtries : Int]

Types ==
  /\ chtable \in [Handles -> Handle]
  /\ clwanted \in BOOLEAN /\ clntkudpxid \in Nat
  /\ \A p \in DOMAIN calls : calls[p] \in Caller
  /\ net \subseteq Message
  /\ DOMAIN nfsd = Nfsds
  /\ \A d \in Nfsds : nfsd[d].busy => nfsd[d].req \in net /\ nfsd[d].ok \in BOOLEAN

\* A caller that sleeps waits for something that is still to come, and its
\* sleep will be ended by whoever brings it.
Waits(c) ==
  \/ c.at = "clget" /\ c.chan = Chtable /\ clwanted /\ \A h \in Handles : chtable[h].inuse
  \/ /\ c.at = "buf" /\ c.chan = Buf(c.h)
     /\ chtable[c.h].bufbusy /\ chtable[c.h].bufwanted
  \/ /\ c.at = "recv" /\ c.chan = Rcv(c.h)
     /\ chtable[c.h].rcv = <<>> /\ ~chtable[c.h].timedout

\* Where a caller is with its handle: the buffer is its own while it fills it.
Placed(c) ==
  /\ c.at = "clget" <=> c.h = 0
  /\ c.chan # Run => Waits(c)
  /\ c.h # 0 /\ c.at # "recv" => ~chtable[c.h].timedout
  /\ c.at \in {"mbuf", "encode"} /\ c.h \notin torn =>
       chtable[c.h].bufbusy /\ chtable[c.h].held = 0
  /\ c.at \in {"encode", "recv", "ready"} => chtable[c.h].xid = c.xid
  /\ c.at = "ready" => chtable[c.h].rcv # <<>>

\* An xid in a message, in a buffer or with a caller stands for one handle,
\* and, unless the handle is torn, for one list of arguments.
Named(c) ==
  c.h # 0 =>
    /\ c.xid < clntkudpxid
    /\ \A m \in net : m.xid = c.xid => m.h = c.h /\ (c.h \notin torn => m.args = c.args)
    /\ \A k \in Handles : chtable[k].xid = c.xid =>
         k = c.h /\ (k \notin torn /\ chtable[k].held > 0 => chtable[k].args = c.args)

\* An interface that holds the buffer of h has it once, marked busy.
Busy(ch, t, h) == h \notin t /\ ch[h].held > 0 => ch[h].bufbusy /\ ch[h].held = 1

\* The xid in a buffer.
Buffered(h) ==
  /\ chtable[h].xid < clntkudpxid
  /\ chtable[h].held > 0 => chtable[h].xid >= 0
  /\ \A m \in net : m.xid = chtable[h].xid =>
       m.h = h /\ (h \notin torn /\ chtable[h].held > 0 => m.args = chtable[h].args)
  /\ \A k \in Handles : k # h /\ chtable[k].xid = chtable[h].xid => chtable[h].xid < 0

Held ==
  /\ \A h \in Handles : chtable[h].inuse <=> \E p \in DOMAIN calls : calls[p].h = h
  /\ \A p, q \in DOMAIN calls : calls[p].h # 0 /\ calls[p].h = calls[q].h => p = q
  /\ \A p, q \in DOMAIN calls :
       calls[p].h # 0 /\ calls[q].h # 0 /\ calls[p].xid = calls[q].xid => p = q

Sent ==
  /\ \A m \in net : m.xid < clntkudpxid
  /\ \A m, n \in net : m.xid = n.xid => m.h = n.h /\ (m.h \notin torn => m.args = n.args)

RpcInv ==
  /\ Types /\ Held /\ Sent
  /\ \A p \in DOMAIN calls : Placed(calls[p]) /\ Named(calls[p])
  /\ \A h \in Handles : Busy(chtable, torn, h) /\ Buffered(h)
-----------------------------------------------------------------------------
\* The addresses slept on are different ones.
LEMMA Addresses ==
  /\ Run # Chtable
  /\ \A h : Buf(h) # Run /\ Buf(h) # Chtable /\ Rcv(h) # Run /\ Rcv(h) # Chtable
  /\ \A h, k : Buf(h) # Rcv(k) /\ (h # k => Buf(h) # Buf(k) /\ Rcv(h) # Rcv(k))
BY DEF Run, Chtable, Buf, Rcv

\* d is the caller c, awake perhaps.
Same(c, d) == d = c \/ d = [c EXCEPT !.chan = Run]

\* Nobody but p has h, and the others are where they were, or woken.
Alone(p, h, w) ==
  /\ DOMAIN w \ {p} = DOMAIN calls \ {p}
  /\ \A q \in DOMAIN calls \ {p} : calls[q].h # h /\ Same(calls[q], w[q])

\* wakeup changes nothing of a caller but that it no longer sleeps.
LEMMA SameCaller ==
  ASSUME NEW c \in Caller, NEW d, Same(c, d)
  PROVE  /\ d \in Caller /\ d.at = c.at /\ d.h = c.h /\ d.xid = c.xid /\ d.args = c.args
         /\ d.mi = c.mi /\ (d.chan = c.chan \/ d.chan = Run)
BY DEF Same, Caller, Chans

\* A step that changes no other handle does not disturb the others, if it does
\* not free a handle somebody sleeps for.
LEMMA OthersPlaced ==
  ASSUME RpcInv, Types', NEW h \in Handles, NEW q \in DOMAIN calls, calls[q].h # h,
         NEW d, Same(calls[q], d), torn \subseteq torn',
         \A k \in Handles \ {h} : chtable'[k] = chtable[k],
         d.chan = Chtable => (clwanted => clwanted') /\ chtable'[h].inuse
  PROVE  Placed(d)'
<1>1. calls[q] \in Caller /\ Placed(calls[q])
  BY DEF RpcInv, Types
<1>2. /\ d \in Caller /\ d.at = calls[q].at /\ d.h = calls[q].h /\ d.xid = calls[q].xid
      /\ (d.chan = calls[q].chan \/ d.chan = Run)
  BY <1>1, SameCaller
<1>3. d.h # 0 => d.h \in Handles /\ chtable'[d.h] = chtable[d.h]
  BY <1>2 DEF Caller
<1>4. d.chan # Run => Waits(d)'
  BY <1>1, <1>2, <1>3, Addresses DEF Placed, Waits
<1> QED
  BY <1>1, <1>2, <1>3, <1>4 DEF Placed

\* Nothing about xids changes while net, buffers and counter stay.
Kept ==
  /\ net' = net /\ torn \subseteq torn' /\ clntkudpxid <= clntkudpxid'
  /\ \A k \in Handles : /\ chtable'[k].xid = chtable[k].xid /\ chtable'[k].args = chtable[k].args
                        /\ chtable'[k].held = chtable[k].held

\* What has been sent, buffered and noted keeps its name then.
LEMMA KeptNames ==
  ASSUME RpcInv, Types', Kept
  PROVE  /\ Sent' /\ \A h \in Handles : Buffered(h)'
         /\ \A c \in Caller : Named(c) => Named(c)'
<1>1. clntkudpxid \in Nat /\ clntkudpxid' \in Nat /\ net \subseteq Message
      /\ chtable \in [Handles -> Handle] /\ chtable' \in [Handles -> Handle]
  BY DEF RpcInv, Types
<1>2. /\ \A m \in net : m.xid \in Nat
      /\ \A h \in Handles : chtable[h].xid \in Int
      /\ \A c \in Caller : c.xid \in Nat
  BY <1>1 DEF Message, Handle, Caller
<1>3. Sent'
  BY <1>1, <1>2 DEF RpcInv, Sent, Kept
<1>4. ASSUME NEW h \in Handles PROVE Buffered(h)'
  BY <1>1, <1>2 DEF RpcInv, Buffered, Kept
<1>5. ASSUME NEW c \in Caller, Named(c) PROVE Named(c)'
  BY <1>1, <1>2, <1>5 DEF Named, Kept
<1> QED
  BY <1>3, <1>4, <1>5

\* The xid of c is that of the call p is in already, or a new one.
OwnXid(p, c) ==
  \/ c.xid = clntkudpxid /\ clntkudpxid' = clntkudpxid + 1
  \/ /\ p \in DOMAIN calls /\ clntkudpxid' = clntkudpxid
     /\ calls[p].h = c.h /\ calls[p].xid = c.xid /\ calls[p].args = c.args

\* clntkudp_callit: the xid p has, or takes from the counter, is nobody else's.
LEMMA OwnNamed ==
  ASSUME RpcInv, Types', Kept, NEW p, NEW c \in Caller, c.h \in Handles, OwnXid(p, c)
  PROVE  /\ Named(c)'
         /\ \A q \in DOMAIN calls \ {p} : calls[q].h # 0 => calls[q].xid # c.xid
<1>1. /\ clntkudpxid \in Nat /\ net \subseteq Message /\ chtable \in [Handles -> Handle]
      /\ \A q \in DOMAIN calls : calls[q] \in Caller /\ Named(calls[q])
  BY DEF RpcInv, Types
<1>2. /\ \A m \in net : m.xid \in Nat /\ m.xid < clntkudpxid
      /\ \A h \in Handles : chtable[h].xid \in Int /\ chtable[h].xid < clntkudpxid
      /\ \A q \in DOMAIN calls : calls[q].xid \in Nat
  BY <1>1 DEF Message, Handle, Caller, RpcInv, Sent, Buffered
<1>3. 0 \notin Handles
  BY DEF Handles
<1>4. CASE c.xid = clntkudpxid /\ clntkudpxid' = clntkudpxid + 1
  <2>1. Named(c)'
    BY <1>1, <1>2, <1>4 DEF Named, Kept
  <2>2. \A q \in DOMAIN calls : calls[q].h # 0 => calls[q].xid # c.xid
    BY <1>1, <1>2, <1>4 DEF Named
  <2> QED BY <2>1, <2>2
<1>5. CASE /\ p \in DOMAIN calls /\ clntkudpxid' = clntkudpxid
           /\ calls[p].h = c.h /\ calls[p].xid = c.xid /\ calls[p].args = c.args
  <2>1. Named(c)
    BY <1>1, <1>5 DEF Named
  <2>2. Named(c)'
    BY <2>1, KeptNames
  <2>3. \A q \in DOMAIN calls \ {p} : calls[q].h # 0 => calls[q].xid # c.xid
    BY <1>3, <1>5 DEF RpcInv, Held
  <2> QED BY <2>2, <2>3
<1> QED
  BY <1>4, <1>5 DEF OwnXid

\* p goes on as c with its handle: nothing else changes, so it is enough to
\* look at p and its handle.
LEMMA Settled ==
  ASSUME RpcInv, Types', Kept, NEW p, NEW c \in Caller, c.h \in Handles, OwnXid(p, c),
         p \in DOMAIN calls => calls[p].h \in {0, c.h},
         \A k \in Handles \ {c.h} : chtable'[k] = chtable[k], chtable'[c.h].inuse,
         clwanted' = clwanted, Alone(p, c.h, calls'), p \in DOMAIN calls', calls'[p] = c,
         Placed(c)', Busy(chtable', torn', c.h)
  PROVE  RpcInv'
<1>1. DOMAIN calls' = DOMAIN calls \cup {p} /\ 0 \notin Handles
  BY DEF Alone, Handles
<1>2. ASSUME NEW q \in DOMAIN calls \ {p}
      PROVE  /\ Placed(calls[q])' /\ Named(calls[q])'
             /\ calls'[q].h = calls[q].h /\ calls'[q].xid = calls[q].xid
             /\ calls[q].h # c.h /\ calls[q].xid \in Nat
             /\ (calls[q].h # 0 => calls[q].h \in Handles /\ calls[q].xid # c.xid)
  <2>1. calls[q] \in Caller /\ Named(calls[q]) /\ Same(calls[q], calls'[q]) /\ calls[q].h # c.h
    BY DEF RpcInv, Types, Alone
  <2>2. /\ calls'[q] \in Caller /\ calls'[q].h = calls[q].h /\ calls'[q].xid = calls[q].xid
        /\ calls'[q].args = calls[q].args
    BY <2>1, SameCaller
  <2>3. Named(calls'[q])
    BY <2>1, <2>2 DEF Named
  <2>4. Named(calls[q])'
    BY <2>2, <2>3, KeptNames
  <2>5. Placed(calls[q])'
    BY <2>1, OthersPlaced DEF Kept
  <2>6. calls[q].h # 0 => calls[q].xid # c.xid
    BY OwnNamed
  <2> QED
    BY <2>1, <2>2, <2>4, <2>5, <2>6 DEF Caller
<1>3. \A q \in DOMAIN calls' : Placed(calls[q])' /\ Named(calls[q])'
  BY <1>1, <1>2, OwnNamed
<1>4. \A h \in Handles : Busy(chtable', torn', h) /\ Buffered(h)'
  <2>1. ASSUME NEW h \in Handles \ {c.h} PROVE Busy(chtable', torn', h)
    BY DEF RpcInv, Busy, Kept
  <2> QED BY <2>1, KeptNames
<1>5. Held'
  <2>1. \A h \in Handles : chtable'[h].inuse <=> \E q \in DOMAIN calls' : calls'[q].h = h
    <3>1. ASSUME NEW h \in Handles \ {c.h}
          PROVE  chtable'[h].inuse <=> \E q \in DOMAIN calls' : calls'[q].h = h
      <4>1. chtable[h].inuse <=> \E q \in DOMAIN calls : calls[q].h = h
        BY DEF RpcInv, Held
      <4>2. (\E q \in DOMAIN calls : calls[q].h = h) <=> (\E q \in DOMAIN calls' : calls'[q].h = h)
        BY <1>1, <1>2
      <4> QED BY <4>1, <4>2
    <3> QED BY <1>1, <3>1
  <2>2. \A q, r \in DOMAIN calls' : calls'[q].h # 0 /\ calls'[q].h = calls'[r].h => q = r
    BY <1>1, <1>2 DEF RpcInv, Held
  <2>3. \A q, r \in DOMAIN calls' :
          calls'[q].h # 0 /\ calls'[r].h # 0 /\ calls'[q].xid = calls'[r].xid => q = r
    BY <1>1, <1>2 DEF RpcInv, Held
  <2> QED BY <2>1, <2>2, <2>3 DEF Held
<1> QED
  BY <1>3, <1>4, <1>5, KeptNames DEF RpcInv
-----------------------------------------------------------------------------
\* p, in rfscall as c, has handle c.h, and the table is ch and the sleepers are
\* w by now: nothing but p, its handle and who was woken has changed.
Midway(p, c, ch, w) ==
  /\ c \in Caller /\ c.h \in Handles /\ ch \in [Handles -> Handle]
  /\ \A k \in Handles \ {c.h} : ch[k] = chtable[k]
  /\ ch[c.h].inuse /\ ~ch[c.h].timedout
  /\ ch[c.h].xid = chtable[c.h].xid /\ ch[c.h].args = chtable[c.h].args
  /\ ch[c.h].held = chtable[c.h].held
  /\ Busy(ch, torn', c.h) /\ torn \subseteq torn'
  /\ Alone(p, c.h, w) /\ (p \in DOMAIN calls => calls[p].h \in {0, c.h})
  /\ net' = net /\ UNCHANGED nfsd

\* The types of the next state, when what p does is known.
LEMMA NextTypes ==
  ASSUME RpcInv, NEW p, NEW h \in Handles, Alone(p, h, calls'), chtable' \in [Handles -> Handle],
         p \in DOMAIN calls' => calls'[p] \in Caller,
         clwanted' \in BOOLEAN, clntkudpxid' \in Nat, net' = net, UNCHANGED nfsd
  PROVE  Types'
<1>1. ASSUME NEW q \in DOMAIN calls' PROVE calls'[q] \in Caller
  <2>1. CASE q # p
    BY <2>1, SameCaller DEF Alone, RpcInv, Types
  <2> QED BY <2>1
<1> QED
  BY <1>1 DEF Types, RpcInv

\* sleep, and the marks on a handle.
LEMMA Slept ==
  ASSUME NEW p, NEW h, NEW w, NEW d, Alone(p, h, w)
  PROVE  /\ Alone(p, h, sleep(w, p, d)) /\ p \in DOMAIN sleep(w, p, d)
         /\ sleep(w, p, d)[p] = d
BY DEF Alone, sleep, Put

\* call_again: p waits for its buffer, marked, or takes it for itself.
LEMMA CallAgainOk ==
  ASSUME RpcInv, NEW p, NEW c, NEW ch, NEW w, Midway(p, c, ch, w), OwnXid(p, c),
         CallAgain(p, c, ch, w), clwanted' = clwanted
  PROVE  RpcInv'
<1>1. /\ c \in Caller /\ c.h \in Handles /\ ch \in [Handles -> Handle] /\ ch[c.h] \in Handle
      /\ Alone(p, c.h, w) /\ clntkudpxid \in Nat /\ c.h # 0
  BY DEF Midway, RpcInv, Types, Handles
<1>2. clntkudpxid' \in Nat /\ clntkudpxid <= clntkudpxid'
  BY <1>1 DEF OwnXid
<1>3. CASE ch[c.h].bufbusy
  <2> DEFINE d == [c EXCEPT !.at = "buf", !.chan = Buf(c.h)]
             r == [ch[c.h] EXCEPT !.bufwanted = TRUE]
  <2>1. d \in Caller /\ d.h = c.h /\ d.at = "buf" /\ d.chan = Buf(c.h) /\ d.xid = c.xid /\ d.args = c.args
    BY <1>1 DEF Caller, Where, Chans
  <2>2. /\ r \in Handle /\ r.bufwanted /\ r.bufbusy /\ r.inuse = ch[c.h].inuse
        /\ r.timedout = ch[c.h].timedout /\ r.xid = ch[c.h].xid /\ r.args = ch[c.h].args
        /\ r.held = ch[c.h].held
    BY <1>1, <1>3 DEF Handle
  <2>3. chtable' = [ch EXCEPT ![c.h] = r] /\ calls' = sleep(w, p, d)
    BY <1>3 DEF CallAgain
  <2> HIDE DEF d, r
  <2>4. /\ chtable' \in [Handles -> Handle] /\ chtable'[c.h] = r
        /\ \A k \in Handles \ {c.h} : chtable'[k] = ch[k]
    BY <1>1, <2>2, <2>3
  <2>5. Alone(p, c.h, calls') /\ p \in DOMAIN calls' /\ calls'[p] = d
    BY <1>1, <2>3, Slept
  <2>6. Types'
    BY <1>1, <1>2, <2>1, <2>4, <2>5, NextTypes DEF Midway, RpcInv, Types
  <2>7. Kept
    BY <1>2, <2>2, <2>4 DEF Kept, Midway
  <2>8. Placed(d)'
    BY <1>1, <2>1, <2>2, <2>4 DEF Placed, Waits, Midway
  <2>9. Busy(chtable', torn', d.h) /\ chtable'[d.h].inuse
    BY <2>1, <2>2, <2>4 DEF Busy, Midway
  <2>10. OwnXid(p, d)
    BY <2>1 DEF OwnXid
  <2> QED
    BY <1>1, <2>1, <2>4, <2>5, <2>6, <2>7, <2>8, <2>9, <2>10, Settled DEF Midway
<1>4. CASE ~ch[c.h].bufbusy
  <2> DEFINE d == [c EXCEPT !.at = "mbuf", !.chan = Run]
             r == [ch[c.h] EXCEPT !.bufbusy = TRUE]
  <2>1. d \in Caller /\ d.h = c.h /\ d.at = "mbuf" /\ d.chan = Run /\ d.xid = c.xid /\ d.args = c.args
    BY <1>1 DEF Caller, Where, Chans
  <2>2. /\ r \in Handle /\ r.bufbusy /\ r.inuse = ch[c.h].inuse
        /\ r.timedout = ch[c.h].timedout /\ r.xid = ch[c.h].xid /\ r.args = ch[c.h].args
        /\ r.held = ch[c.h].held /\ r.held \in Nat
    BY <1>1, <1>4 DEF Handle
  <2>3. chtable' = [ch EXCEPT ![c.h] = r] /\ calls' = sleep(w, p, d)
    BY <1>4 DEF CallAgain
  <2> HIDE DEF d, r
  <2>4. /\ chtable' \in [Handles -> Handle] /\ chtable'[c.h] = r
        /\ \A k \in Handles \ {c.h} : chtable'[k] = ch[k]
    BY <1>1, <2>2, <2>3
  <2>5. Alone(p, c.h, calls') /\ p \in DOMAIN calls' /\ calls'[p] = d
    BY <1>1, <2>3, Slept
  <2>6. Types'
    BY <1>1, <1>2, <2>1, <2>4, <2>5, NextTypes DEF Midway, RpcInv, Types
  <2>7. Kept
    BY <1>2, <2>2, <2>4 DEF Kept, Midway
  <2>11. c.h \notin torn' => r.held = 0
    BY <1>4, <2>2 DEF Busy, Midway
  <2>8. Placed(d)'
    BY <1>1, <2>1, <2>2, <2>4, <2>11 DEF Placed, Midway
  <2>9. Busy(chtable', torn', d.h) /\ chtable'[d.h].inuse
    BY <2>1, <2>2, <2>4, <2>11 DEF Busy, Midway
  <2>10. OwnXid(p, d)
    BY <2>1 DEF OwnXid
  <2> QED
    BY <1>1, <2>1, <2>4, <2>5, <2>6, <2>7, <2>8, <2>9, <2>10, Settled DEF Midway
<1> QED
  BY <1>3, <1>4

\* clntkudp_callit: a new xid is not in the net, in a buffer or another call's.
LEMMA CallitOk ==
  ASSUME RpcInv, NEW p, NEW c, NEW ch, NEW w, Midway(p, c, ch, w),
         Callit(p, c, ch, w), clwanted' = clwanted
  PROVE  RpcInv'
<1> DEFINE d == [c EXCEPT !.xid = clntkudpxid, !.stries = c.mi.retrans]
<1>1. c \in Caller /\ clntkudpxid \in Nat
  BY DEF Midway, RpcInv, Types
<1>2. c.mi.retrans \in Int
  BY <1>1, RpcAssumption DEF Caller, RpcAssumption
<1>3. d \in Caller /\ d.h = c.h /\ d.xid = clntkudpxid
  BY <1>1, <1>2 DEF Caller
<1>4. CallAgain(p, d, ch, w) /\ clntkudpxid' = clntkudpxid + 1
  BY DEF Callit
<1> HIDE DEF d
<1>5. Midway(p, d, ch, w) /\ OwnXid(p, d)
  BY <1>3, <1>4 DEF Midway, OwnXid
<1> QED
  BY <1>4, <1>5, CallAgainOk

\* clfree, and the end of rfscall: whoever sleeps for a handle is woken.
LEMMA ClfreeOk ==
  ASSUME RpcInv, NEW p, NEW c, NEW ch, NEW w, Midway(p, c, ch, w),
         clfree(p, c.h, ch, w)
  PROVE  RpcInv'
<1> DEFINE r == [ch[c.h] EXCEPT !.inuse = FALSE]
           who == IF clwanted THEN {Chtable} ELSE {}
<1>1. /\ c \in Caller /\ c.h \in Handles /\ ch \in [Handles -> Handle] /\ ch[c.h] \in Handle
      /\ Alone(p, c.h, w) /\ clntkudpxid \in Nat
  BY DEF Midway, RpcInv, Types
<1>2. /\ chtable' = [ch EXCEPT ![c.h] = r] /\ clwanted' = FALSE
      /\ calls' = wakeup(unsleep(w, p), who) /\ UNCHANGED <<clntkudpxid, torn>>
  BY DEF clfree
<1>3. /\ r \in Handle /\ ~r.inuse /\ r.bufbusy = ch[c.h].bufbusy
      /\ r.xid = ch[c.h].xid /\ r.args = ch[c.h].args /\ r.held = ch[c.h].held
  BY <1>1 DEF Handle
<1> HIDE DEF r
<1>4. /\ chtable' \in [Handles -> Handle] /\ chtable'[c.h] = r
      /\ \A k \in Handles \ {c.h} : chtable'[k] = ch[k]
  BY <1>1, <1>2, <1>3
<1>5. /\ DOMAIN calls' = DOMAIN calls \ {p}
      /\ \A q \in DOMAIN calls \ {p} :
           calls'[q] = IF w[q].chan \in who THEN [w[q] EXCEPT !.chan = Run] ELSE w[q]
  BY <1>1, <1>2 DEF wakeup, unsleep, Drop, Alone
<1>6. ASSUME NEW q \in DOMAIN calls \ {p}
      PROVE  /\ Same(calls[q], calls'[q]) /\ calls[q].h # c.h /\ calls[q] \in Caller
             /\ calls'[q].chan # Chtable
  <2>1. /\ calls[q] \in Caller /\ Placed(calls[q]) /\ Same(calls[q], w[q]) /\ calls[q].h # c.h
    BY <1>1 DEF RpcInv, Types, Alone
  <2>2. Same(calls[q], calls'[q])
    BY <1>5, <2>1 DEF Same, Caller
  <2>3. CASE clwanted
    <3>1. w[q] \in Caller
      BY <2>1, SameCaller
    <3>2. calls'[q].chan = IF w[q].chan = Chtable THEN Run ELSE w[q].chan
      BY <1>5, <2>3, <3>1 DEF Caller
    <3> QED BY <2>1, <2>2, <3>2, Addresses
  <2>4. CASE ~clwanted
    <3>1. calls[q].chan # Chtable
      BY <2>1, <2>4, Addresses DEF Placed, Waits
    <3> QED BY <2>1, <2>2, <3>1, SameCaller, Addresses
  <2> QED BY <2>3, <2>4
<1>7. Alone(p, c.h, calls') /\ p \notin DOMAIN calls'
  BY <1>5, <1>6 DEF Alone
<1>8. Types'
  BY <1>1, <1>2, <1>4, <1>7, NextTypes DEF Midway
<1>9. Kept
  BY <1>1, <1>2, <1>3, <1>4 DEF Kept, Midway
<1>10. ASSUME NEW q \in DOMAIN calls'
       PROVE  /\ Placed(calls[q])' /\ Named(calls[q])'
              /\ q \in DOMAIN calls \ {p} /\ calls'[q].h = calls[q].h /\ calls'[q].xid = calls[q].xid
  <2>1. /\ q \in DOMAIN calls \ {p} /\ Same(calls[q], calls'[q]) /\ calls[q].h # c.h
        /\ calls[q] \in Caller /\ calls'[q].chan # Chtable /\ Named(calls[q])
    BY <1>5, <1>6 DEF RpcInv
  <2>2. /\ calls'[q] \in Caller /\ calls'[q].h = calls[q].h /\ calls'[q].xid = calls[q].xid
        /\ calls'[q].args = calls[q].args
    BY <2>1, SameCaller
  <2>3. Named(calls'[q])
    BY <2>1, <2>2 DEF Named
  <2>4. Named(calls[q])'
    BY <1>8, <1>9, <2>2, <2>3, KeptNames
  <2>5. \A k \in Handles \ {c.h} : chtable'[k] = chtable[k]
    BY <1>4 DEF Midway
  <2>6. Placed(calls[q])'
    BY <1>1, <1>2, <1>8, <2>1, <2>5, OthersPlaced
  <2> QED BY <2>1, <2>2, <2>4, <2>6
<1>11. \A h \in Handles : Busy(chtable', torn', h) /\ Buffered(h)'
  <2>1. ASSUME NEW h \in Handles \ {c.h} PROVE Busy(chtable', torn', h)
    BY <1>4 DEF RpcInv, Busy, Midway
  <2>2. Busy(chtable', torn', c.h)
    BY <1>3, <1>4 DEF Busy, Midway
  <2> QED BY <1>8, <1>9, <2>1, <2>2, KeptNames
<1>12. Held'
  <2>1. ASSUME NEW h \in Handles
        PROVE  chtable'[h].inuse <=> \E q \in DOMAIN calls' : calls'[q].h = h
    <3>1. CASE h = c.h
      BY <1>3, <1>4, <1>5, <1>6, <1>10, <3>1
    <3>2. CASE h # c.h
      <4>1. chtable'[h] = chtable[h] /\ h # 0
        BY <1>4, <3>2 DEF Midway, Handles
      <4>2. chtable[h].inuse <=> \E q \in DOMAIN calls : calls[q].h = h
        BY DEF RpcInv, Held
      <4>3. p \in DOMAIN calls => calls[p].h # h
        BY <3>2, <4>1 DEF Midway
      <4>4. (\E q \in DOMAIN calls : calls[q].h = h) <=> (\E q \in DOMAIN calls' : calls'[q].h = h)
        BY <1>5, <1>10, <4>3
      <4> QED BY <4>1, <4>2, <4>4
    <3> QED BY <3>1, <3>2
  <2>2. /\ \A q, u \in DOMAIN calls' : calls'[q].h # 0 /\ calls'[q].h = calls'[u].h => q = u
        /\ \A q, u \in DOMAIN calls' :
             calls'[q].h # 0 /\ calls'[u].h # 0 /\ calls'[q].xid = calls'[u].xid => q = u
    BY <1>10 DEF RpcInv, Held
  <2> QED BY <2>1, <2>2 DEF Held
<1> QED
  BY <1>8, <1>9, <1>10, <1>11, <1>12, KeptNames DEF RpcInv

\* A transmission failed: again, anew or not any more.
LEMMA RetryOk ==
  ASSUME RpcInv, NEW p, NEW c, NEW ch, NEW w, Midway(p, c, ch, w),
         p \in DOMAIN calls, calls[p].h = c.h, calls[p].xid = c.xid, calls[p].args = c.args,
         Retry(p, c, ch, w)
  PROVE  RpcInv'
<1>1. CASE /\ CallAgain(p, [c EXCEPT !.stries = @ - 1], ch, w)
           /\ UNCHANGED <<clwanted, clntkudpxid, torn>>
  <2> DEFINE n == c.stries - 1
             d == [c EXCEPT !.stries = n]
  <2>1. c \in Caller /\ n \in Int
    BY DEF Midway, Caller
  <2>2. CallAgain(p, d, ch, w)
    BY <1>1
  <2> HIDE DEF n
  <2>3. d \in Caller /\ d.h = c.h /\ d.xid = c.xid /\ d.args = c.args
    BY <2>1 DEF Caller
  <2> HIDE DEF d
  <2>4. Midway(p, d, ch, w) /\ OwnXid(p, d)
    BY <1>1, <2>3 DEF Midway, OwnXid
  <2> QED
    BY <1>1, <2>2, <2>4, CallAgainOk
<1>2. CASE Callit(p, c, ch, w) /\ UNCHANGED <<clwanted, torn>>
  BY <1>2, CallitOk
<1>3. CASE clfree(p, c.h, ch, w)
  BY <1>3, ClfreeOk
<1> QED
  BY <1>1, <1>2, <1>3 DEF Retry
-----------------------------------------------------------------------------
\* The steps of a call, one by one.

\* clget: p has no handle yet and gets the first free one, or sleeps.
LEMMA ClgetOk ==
  ASSUME RpcInv, NEW p, NEW c \in Caller, c.h = 0, c.at = "clget",
         p \in DOMAIN calls => calls[p].h = 0,
         clget(p, c, calls), net' = net, UNCHANGED nfsd
  PROVE  RpcInv'
<1> DEFINE free == {h \in Handles : ~chtable[h].inuse}
<1>1. /\ chtable \in [Handles -> Handle] /\ clntkudpxid \in Nat /\ 0 \notin Handles
      /\ \A q \in DOMAIN calls : calls[q] \in Caller /\ Placed(calls[q]) /\ Named(calls[q])
  BY DEF RpcInv, Types, Handles
<1>2. CASE free = {}
  <2> DEFINE d == [c EXCEPT !.at = "clget", !.chan = Chtable]
  <2>1. d \in Caller /\ d.h = 0 /\ d.at = "clget" /\ d.chan = Chtable
    BY DEF Caller, Where, Chans
  <2>2. /\ clwanted' = TRUE /\ calls' = sleep(calls, p, d)
        /\ UNCHANGED <<chtable, clntkudpxid, torn>>
    BY <1>2 DEF clget
  <2> HIDE DEF d
  <2>3. /\ DOMAIN calls' = DOMAIN calls \cup {p} /\ calls'[p] = d
        /\ \A q \in DOMAIN calls \ {p} : calls'[q] = calls[q]
    BY <2>2 DEF sleep, Put
  <2>4. \A h \in Handles : chtable'[h].inuse
    BY <1>2, <2>2
  <2>5. Types'
    BY <1>1, <2>1, <2>2, <2>3 DEF RpcInv, Types
  <2>6. Kept
    BY <1>1, <2>2 DEF Kept
  <2>7. ASSUME NEW q \in DOMAIN calls \ {p}
        PROVE  Placed(calls[q])' /\ Named(calls[q])' /\ Named(calls[q])
    <3>1. Named(calls[q])'
      BY <1>1, <2>3, <2>5, <2>6, KeptNames
    <3>2. Placed(calls[q])'
      BY <1>1, <2>2, <2>3, <2>4 DEF Placed, Waits
    <3> QED BY <1>1, <3>1, <3>2
  <2>8. Placed(calls[p])' /\ Named(calls[p])'
    BY <2>1, <2>2, <2>3, <2>4, Addresses DEF Placed, Waits, Named
  <2>9. \A h \in Handles : Busy(chtable', torn', h) /\ Buffered(h)'
    BY <2>2, <2>5, <2>6, KeptNames DEF RpcInv, Busy
  <2>10. Held'
    <3>1. ASSUME NEW h \in Handles
          PROVE  chtable'[h].inuse <=> \E q \in DOMAIN calls' : calls'[q].h = h
      <4>1. PICK q \in DOMAIN calls : calls[q].h = h
        BY <2>2, <2>4 DEF RpcInv, Held
      <4>2. q # p
        BY <1>1, <4>1
      <4> QED BY <2>3, <2>4, <4>1, <4>2
    <3>2. /\ \A q, r \in DOMAIN calls' : calls'[q].h # 0 /\ calls'[q].h = calls'[r].h => q = r
          /\ \A q, r \in DOMAIN calls' :
               calls'[q].h # 0 /\ calls'[r].h # 0 /\ calls'[q].xid = calls'[r].xid => q = r
      BY <2>1, <2>3 DEF RpcInv, Held
    <3> QED BY <3>1, <3>2 DEF Held
  <2> QED
    BY <2>3, <2>5, <2>6, <2>7, <2>8, <2>9, <2>10, KeptNames DEF RpcInv
<1>3. CASE free # {}
  <2>1. PICK h \in free : /\ torn' = torn \cup {k \in {h} : chtable[k].held > 0}
                          /\ Callit(p, [c EXCEPT !.h = h], clntkudp_init(h), calls)
                          /\ UNCHANGED clwanted
    BY <1>3 DEF clget
  <2> DEFINE d == [c EXCEPT !.h = h]
             r == [chtable[h] EXCEPT !.inuse = TRUE, !.bufbusy = FALSE, !.bufwanted = FALSE,
                                     !.timedout = FALSE]
             ch == [chtable EXCEPT ![h] = r]
  <2>2. d \in Caller /\ d.h = h
    BY DEF Caller
  <2>3. /\ r \in Handle /\ r.inuse /\ ~r.timedout
        /\ r.xid = chtable[h].xid /\ r.args = chtable[h].args /\ r.held = chtable[h].held
        /\ r.held \in Nat
    BY ZenonT(60), <1>1 DEF Handle
  <2>4. clntkudp_init(h) = ch
    BY <1>1 DEF clntkudp_init
  <2> HIDE DEF d, r
  <2>5. ch \in [Handles -> Handle] /\ ch[h] = r /\ \A k \in Handles \ {h} : ch[k] = chtable[k]
    BY <1>1, <2>3
  <2>6. h \notin torn' => r.held = 0
    BY <2>1, <2>3
  <2>7. Alone(p, h, calls)
    BY DEF Alone, Same, RpcInv, Held
  <2> HIDE DEF ch
  <2>8. Midway(p, d, ch, calls)
    BY <2>1, <2>2, <2>3, <2>5, <2>6, <2>7 DEF Midway, Busy
  <2>9. Callit(p, d, ch, calls)
    BY <2>1, <2>4 DEF d
  <2> QED
    BY <2>1, <2>8, <2>9, CallitOk
<1> QED
  BY <1>2, <1>3

\* A process calls rfscall.
LEMMA RfsCallStep ==
  ASSUME RpcInv, NEW p, NEW mi \in Mounts, NEW args \in Requests, RfsCall(p, mi, args)
  PROVE  RpcInv'
<1> DEFINE c == [at |-> "clget", chan |-> Run, mi |-> mi, args |-> args, h |-> 0, xid |-> 0,
                 stries |-> 0, rtries |-> 0]
<1>1. c \in Caller /\ c.h = 0 /\ c.at = "clget"
  BY DEF Caller, Where, Chans
<1>2. clget(p, c, calls) /\ p \notin DOMAIN calls /\ net' = net /\ UNCHANGED nfsd
  BY DEF RfsCall, serverVars
<1> HIDE DEF c
<1> QED
  BY <1>1, <1>2, ClgetOk

\* Woken by clfree, p looks for a handle again.
LEMMA ClgetWokenStep ==
  ASSUME RpcInv, NEW p, ClgetWoken(p)
  PROVE  RpcInv'
<1>1. /\ calls[p] \in Caller /\ calls[p].h = 0 /\ calls[p].at = "clget"
      /\ clget(p, calls[p], calls) /\ net' = net /\ UNCHANGED nfsd
  BY DEF ClgetWoken, At, serverVars, RpcInv, Types, Placed
<1> QED
  BY <1>1, ClgetOk

\* What a process with a handle knows: the handle is its own.
LEMMA Mine ==
  ASSUME RpcInv, NEW p \in DOMAIN calls, calls[p].at # "clget"
  PROVE  /\ calls[p] \in Caller /\ calls[p].h \in Handles /\ Alone(p, calls[p].h, calls)
         /\ chtable \in [Handles -> Handle] /\ chtable[calls[p].h] \in Handle
         /\ chtable[calls[p].h].inuse /\ Placed(calls[p]) /\ Named(calls[p])
         /\ Busy(chtable, torn, calls[p].h) /\ Buffered(calls[p].h)
         /\ (calls[p].at # "recv" => ~chtable[calls[p].h].timedout)
<1>1. calls[p] \in Caller /\ Placed(calls[p]) /\ chtable \in [Handles -> Handle]
  BY DEF RpcInv, Types
<1>2. calls[p].h \in Handles /\ calls[p].h # 0
  BY <1>1 DEF Placed, Caller
<1>3. Alone(p, calls[p].h, calls)
  BY <1>2 DEF RpcInv, Held, Alone, Same
<1>4. chtable[calls[p].h].inuse
  BY <1>2 DEF RpcInv, Held
<1> QED
  BY <1>1, <1>2, <1>3, <1>4 DEF RpcInv, Placed

\* buffree clears two marks of the handle's buffer and nothing else.
LEMMA BuffreeOk ==
  ASSUME NEW ch \in [Handles -> Handle], NEW h \in Handles
  PROVE  /\ buffree(ch, h) \in [Handles -> Handle]
         /\ \A k \in Handles \ {h} : buffree(ch, h)[k] = ch[k]
         /\ ~buffree(ch, h)[h].bufbusy /\ ~buffree(ch, h)[h].bufwanted
         /\ buffree(ch, h)[h].inuse = ch[h].inuse /\ buffree(ch, h)[h].timedout = ch[h].timedout
         /\ buffree(ch, h)[h].xid = ch[h].xid /\ buffree(ch, h)[h].args = ch[h].args
         /\ buffree(ch, h)[h].held = ch[h].held /\ buffree(ch, h)[h].rcv = ch[h].rcv
<1> DEFINE r == [ch[h] EXCEPT !.bufbusy = FALSE, !.bufwanted = FALSE]
<1>1. /\ r \in Handle /\ ~r.bufbusy /\ ~r.bufwanted /\ r.inuse = ch[h].inuse
      /\ r.timedout = ch[h].timedout /\ r.xid = ch[h].xid /\ r.args = ch[h].args
      /\ r.held = ch[h].held /\ r.rcv = ch[h].rcv
  BY DEF Handle
<1>2. buffree(ch, h) = [ch EXCEPT ![h] = r]
  BY DEF buffree
<1> HIDE DEF r
<1> QED
  BY <1>1, <1>2

\* wakeup on the addresses of h, whoever sleeps there, keeps the others apart.
LEMMA WokenAlone ==
  ASSUME RpcInv, NEW p, NEW h, NEW w, NEW chans, Alone(p, h, w)
  PROVE  /\ Alone(p, h, wakeup(w, chans)) /\ DOMAIN wakeup(w, chans) = DOMAIN w
<1> DEFINE v == wakeup(w, chans)
<1>1. /\ DOMAIN v = DOMAIN w
      /\ \A q \in DOMAIN w : v[q] = w[q] \/ v[q] = [w[q] EXCEPT !.chan = Run]
  BY DEF wakeup
<1> HIDE DEF v
<1>2. ASSUME NEW q \in DOMAIN calls \ {p} PROVE calls[q].h # h /\ Same(calls[q], v[q])
  <2>1. /\ calls[q] \in Caller /\ calls[q].h # h /\ q \in DOMAIN w
        /\ (w[q] = calls[q] \/ w[q] = [calls[q] EXCEPT !.chan = Run])
    BY DEF RpcInv, Types, Alone, Same
  <2> QED
    BY <1>1, <2>1 DEF Same, Caller
<1>3. Alone(p, h, v)
  BY <1>1, <1>2 DEF Alone
<1> QED
  BY <1>1, <1>3 DEF v

\* So does buffree, which wakes who waits for the buffer if there is one.
LEMMA FreedAlone ==
  ASSUME RpcInv, NEW p, NEW h, NEW w, NEW ch, Alone(p, h, w)
  PROVE  Alone(p, h, Freed(ch, w, h))
<1>1. CASE ch[h].bufwanted
  BY <1>1, WokenAlone DEF Freed
<1>2. CASE ~ch[h].bufwanted
  BY <1>2 DEF Freed
<1> QED
  BY <1>1, <1>2

\* Woken by buffree or by its timer, p tries for the buffer again.
LEMMA BufWokenStep ==
  ASSUME RpcInv, NEW p, BufWoken(p)
  PROVE  RpcInv'
<1> DEFINE h == calls[p].h
           r == [chtable[h] EXCEPT !.rcv = <<>>]
           ch == [chtable EXCEPT ![h] = r]
<1>1. /\ p \in DOMAIN calls /\ calls[p].at = "buf" /\ CallAgain(p, calls[p], ch, calls)
      /\ UNCHANGED <<clwanted, clntkudpxid, torn, net, nfsd>>
  BY DEF BufWoken, serverVars
<1>2. /\ calls[p] \in Caller /\ h \in Handles /\ Alone(p, h, calls)
      /\ chtable \in [Handles -> Handle] /\ chtable[h] \in Handle /\ chtable[h].inuse
      /\ Busy(chtable, torn, h) /\ ~chtable[h].timedout
  BY <1>1, Mine
<1>3. <<>> \in Seq(Message)
  OBVIOUS
<1>4. /\ r \in Handle /\ r.inuse /\ ~r.timedout /\ r.bufbusy = chtable[h].bufbusy
      /\ r.xid = chtable[h].xid /\ r.args = chtable[h].args /\ r.held = chtable[h].held
  BY <1>2, <1>3 DEF Handle
<1> HIDE DEF r
<1>5. ch \in [Handles -> Handle] /\ ch[h] = r /\ \A k \in Handles \ {h} : ch[k] = chtable[k]
  BY <1>2, <1>4
<1> HIDE DEF ch
<1>6. Midway(p, calls[p], ch, calls) /\ OwnXid(p, calls[p])
  BY <1>1, <1>2, <1>4, <1>5 DEF Midway, Busy, OwnXid
<1> QED
  BY <1>1, <1>6, CallAgainOk

\* The transmission, or the encoding, failed before the interface had the buffer.
LEMMA FailStep ==
  ASSUME RpcInv, NEW p, SendFails(p) \/ EncodeFails(p)
  PROVE  RpcInv'
<1> DEFINE h == calls[p].h
           ch == buffree(chtable, h)
           w == Freed(chtable, calls, h)
<1>1. /\ p \in DOMAIN calls /\ calls[p].at \in {"mbuf", "encode"} /\ UNCHANGED <<net, nfsd>>
      /\ Retry(p, calls[p], ch, w) \/ clfree(p, h, ch, w)
  BY DEF SendFails, EncodeFails, At, serverVars
<1>2. /\ calls[p] \in Caller /\ h \in Handles /\ Alone(p, h, calls)
      /\ chtable \in [Handles -> Handle] /\ chtable[h] \in Handle /\ chtable[h].inuse
      /\ Placed(calls[p]) /\ ~chtable[h].timedout
  BY <1>1, Mine
<1>3. h \notin torn => chtable[h].held = 0
  BY <1>1, <1>2 DEF Placed
<1>4. /\ ch \in [Handles -> Handle] /\ \A k \in Handles \ {h} : ch[k] = chtable[k]
      /\ ch[h].inuse = chtable[h].inuse /\ ch[h].timedout = chtable[h].timedout
      /\ ch[h].xid = chtable[h].xid /\ ch[h].args = chtable[h].args /\ ch[h].held = chtable[h].held
  BY <1>2, BuffreeOk
<1>5. Alone(p, h, w)
  BY <1>2, FreedAlone
<1>6. torn \subseteq torn'
  BY <1>1 DEF Retry, clfree
<1> HIDE DEF ch, w
<1>7. chtable[h].held \in Nat
  BY <1>2 DEF Handle
<1>8. Midway(p, calls[p], ch, w)
  BY <1>1, <1>2, <1>3, <1>4, <1>5, <1>6, <1>7 DEF Midway, Busy
<1> QED
  BY <1>1, <1>8, RetryOk, ClfreeOk
-----------------------------------------------------------------------------
\* The xid x can go, with handle h and arguments a, into a message or a buffer.
Fits(x, h, a) ==
  /\ x \in Nat /\ x < clntkudpxid
  /\ \A n \in net : n.xid = x => n.h = h /\ (h \notin torn => n.args = a)
  /\ \A k \in Handles : chtable[k].xid = x => k = h
  /\ \A q \in DOMAIN calls : calls[q].h # 0 /\ calls[q].xid = x =>
       calls[q].h = h /\ (h \notin torn => calls[q].args = a)

\* All that a step adds to net and to the buffer of h is x, with h and a.
Carried(x, h, a) ==
  /\ UNCHANGED <<clntkudpxid, torn>> /\ net \subseteq net'
  /\ \A m \in net' \ net : m.xid = x /\ m.h = h /\ m.args = a
  /\ \A k \in Handles \ {h} : chtable'[k] = chtable[k]
  /\ \/ /\ chtable'[h].xid = x
        /\ h \notin torn /\ chtable'[h].held > 0 => chtable'[h].args = a
     \/ /\ chtable[h].xid # x /\ chtable'[h].xid = chtable[h].xid
        /\ chtable'[h].args = chtable[h].args /\ chtable'[h].held = chtable[h].held

\* The xids still name one handle and one list of arguments each, when a call
\* is put into a buffer (PutXid), sent (Send, Transmit) or answered (Answer).
LEMMA CarriedNames ==
  ASSUME RpcInv, Types', NEW x, NEW h \in Handles, NEW a, Fits(x, h, a), Carried(x, h, a)
  PROVE  /\ Sent' /\ \A k \in Handles : Buffered(k)'
         /\ \A q \in DOMAIN calls, d \in Caller :
              d.h = calls[q].h /\ d.xid = calls[q].xid /\ d.args = calls[q].args => Named(d)'
<1>1. /\ clntkudpxid \in Nat /\ net \subseteq Message /\ net' \subseteq Message
      /\ chtable \in [Handles -> Handle] /\ chtable' \in [Handles -> Handle]
      /\ x \in Nat /\ UNCHANGED <<clntkudpxid, torn>>
  BY DEF RpcInv, Types, Fits, Carried
<1>2. /\ \A m \in net' : m.xid \in Nat
      /\ \A k \in Handles : chtable[k].xid \in Int /\ chtable'[k].xid \in Int
      /\ \A k \in Handles : chtable[k].held \in Nat /\ chtable'[k].held \in Nat
      /\ \A c \in Caller : c.xid \in Nat
  BY <1>1 DEF Message, Handle, Caller
<1>3. Sent'
  BY <1>1, <1>2 DEF RpcInv, Sent, Fits, Carried
<1>4. Buffered(h)'
  <2>1. CASE /\ chtable'[h].xid = x
             /\ h \notin torn /\ chtable'[h].held > 0 => chtable'[h].args = a
    <3>1. \A m \in net' : m.xid = x =>
            m.h = h /\ (h \notin torn /\ chtable'[h].held > 0 => m.args = chtable'[h].args)
      BY <2>1 DEF Fits, Carried
    <3>2. \A k \in Handles : k # h => chtable'[k].xid # x
      BY DEF Fits, Carried
    <3> QED BY <1>1, <1>2, <2>1, <3>1, <3>2 DEF Buffered, Fits
  <2>2. CASE /\ chtable[h].xid # x /\ chtable'[h].xid = chtable[h].xid
             /\ chtable'[h].args = chtable[h].args /\ chtable'[h].held = chtable[h].held
    BY <1>1, <1>2, <2>2 DEF RpcInv, Buffered, Carried
  <2> QED BY <2>1, <2>2 DEF Carried
<1>5. ASSUME NEW k \in Handles \ {h} PROVE Buffered(k)'
  <2>1. Buffered(k) /\ chtable'[k] = chtable[k] /\ chtable[k].xid # x
    BY DEF RpcInv, Fits, Carried
  <2>2. \A m \in net' : m.xid = chtable[k].xid => m \in net
    BY <2>1 DEF Carried
  <2>3. \A j \in Handles : j # k /\ chtable'[j].xid = chtable'[k].xid =>
          chtable[j].xid = chtable[k].xid
    BY <2>1 DEF Carried
  <2> QED BY <1>1, <1>2, <2>1, <2>2, <2>3 DEF Buffered
<1>6. ASSUME NEW q \in DOMAIN calls, NEW d \in Caller,
             d.h = calls[q].h, d.xid = calls[q].xid, d.args = calls[q].args, d.h # 0
      PROVE  Named(d)'
  <2>1. /\ d.xid < clntkudpxid
        /\ \A m \in net : m.xid = d.xid => m.h = d.h /\ (d.h \notin torn => m.args = d.args)
        /\ \A k \in Handles : chtable[k].xid = d.xid =>
             k = d.h /\ (k \notin torn /\ chtable[k].held > 0 => chtable[k].args = d.args)
        /\ (d.xid = x => d.h = h /\ (h \notin torn => d.args = a))
    BY <1>6 DEF RpcInv, Named, Fits
  <2>2. \A m \in net' : m.xid = d.xid => m.h = d.h /\ (d.h \notin torn => m.args = d.args)
    BY <2>1 DEF Carried
  <2>3. ASSUME NEW k \in Handles, chtable'[k].xid = d.xid
        PROVE  k = d.h /\ (k \notin torn /\ chtable'[k].held > 0 => chtable'[k].args = d.args)
    <3>1. CASE k # h
      BY <2>1, <2>3, <3>1 DEF Carried
    <3>2. CASE k = h
      BY <2>1, <2>3, <3>2 DEF Carried
    <3> QED BY <3>1, <3>2
  <2> QED BY <1>1, <2>1, <2>2, <2>3 DEF Named
<1>7. \A d \in Caller : d.h = 0 => Named(d)'
  BY DEF Named
<1> QED
  BY <1>3, <1>4, <1>5, <1>6, <1>7

\* A step that takes no handle and frees none, and changes at most h and the
\* caller that has it.
LEMMA Moved ==
  ASSUME RpcInv, Types', NEW h \in Handles, Sent', \A k \in Handles : Buffered(k)',
         \A k \in Handles \ {h} : chtable'[k] = chtable[k],
         chtable'[h].inuse = chtable[h].inuse, UNCHANGED <<clwanted, torn>>,
         DOMAIN calls' = DOMAIN calls, Busy(chtable', torn', h),
         \A q \in DOMAIN calls :
           /\ calls'[q].h = calls[q].h /\ calls'[q].xid = calls[q].xid
           /\ Named(calls[q])'
           /\ IF calls[q].h = h THEN Placed(calls[q])' ELSE Same(calls[q], calls'[q])
  PROVE  RpcInv'
<1>1. Held'
  BY DEF RpcInv, Held
<1>2. ASSUME NEW q \in DOMAIN calls, calls[q].h # h PROVE Placed(calls[q])'
  <2>1. /\ Same(calls[q], calls'[q]) /\ calls[q] \in Caller /\ Placed(calls[q])
    BY <1>2 DEF RpcInv, Types
  <2>2. calls'[q].chan = calls[q].chan \/ calls'[q].chan = Run
    BY <2>1, SameCaller
  <2>3. calls'[q].chan = Chtable => chtable'[h].inuse
    BY <2>1, <2>2, Addresses DEF Placed, Waits
  <2> QED BY <1>2, <2>1, <2>3, OthersPlaced
<1>3. \A k \in Handles : Busy(chtable', torn', k)
  BY DEF RpcInv, Busy
<1> QED
  BY <1>1, <1>2, <1>3 DEF RpcInv
-----------------------------------------------------------------------------
\* The types of the next state, when net may grow.
LEMMA GrownTypes ==
  ASSUME RpcInv, chtable' \in [Handles -> Handle], UNCHANGED <<clwanted, clntkudpxid>>,
         net \subseteq net', net' \subseteq Message, DOMAIN calls' = DOMAIN calls,
         \A q \in DOMAIN calls : calls'[q] \in Caller, DOMAIN nfsd' = Nfsds,
         \A d \in Nfsds : nfsd'[d].busy => nfsd'[d].req \in net /\ nfsd'[d].ok \in BOOLEAN
  PROVE  Types'
BY DEF Types, RpcInv

\* The xid and the arguments of a call fit its handle.
LEMMA CallFits ==
  ASSUME RpcInv, NEW p \in DOMAIN calls, calls[p].at # "clget"
  PROVE  Fits(calls[p].xid, calls[p].h, calls[p].args)
<1>1. /\ calls[p] \in Caller /\ calls[p].h \in Handles /\ Named(calls[p])
      /\ calls[p].h # 0
  BY Mine DEF Handles
<1>2. \A q \in DOMAIN calls : calls[q].h # 0 /\ calls[q].xid = calls[p].xid => q = p
  BY <1>1 DEF RpcInv, Held
<1> QED
  BY <1>1, <1>2 DEF Fits, Named, Caller

\* The xid goes into the buffer: no reply in the net is for it yet, unless it
\* is one to an earlier transmission of the same call.
LEMMA PutXidStep ==
  ASSUME RpcInv, NEW p, PutXid(p)
  PROVE  RpcInv'
<1> DEFINE c == calls[p]
           h == calls[p].h
           x == c.xid
           r == [chtable[h] EXCEPT !.xid = x]
           d == [c EXCEPT !.at = "encode"]
<1>1. /\ p \in DOMAIN calls /\ c.at = "mbuf" /\ c.chan = Run
      /\ UNCHANGED <<clwanted, clntkudpxid, torn, net, nfsd>>
  BY DEF PutXid, At, serverVars
<1>2. /\ c \in Caller /\ h \in Handles /\ Alone(p, h, calls) /\ h # 0
      /\ chtable \in [Handles -> Handle] /\ chtable[h] \in Handle /\ chtable[h].inuse
      /\ Placed(c) /\ ~chtable[h].timedout /\ Busy(chtable, torn, h)
      /\ Fits(c.xid, h, c.args) /\ x \in Int
  BY <1>1, Mine, CallFits DEF Handles, Caller
<1> HIDE DEF x
<1>3. /\ r \in Handle /\ r.xid = x /\ r.inuse = chtable[h].inuse
      /\ r.bufbusy = chtable[h].bufbusy /\ r.held = chtable[h].held
      /\ r.timedout = chtable[h].timedout
  BY <1>2 DEF Handle
<1>4. /\ d \in Caller /\ d.at = "encode" /\ d.h = h /\ d.chan = Run
      /\ d.xid = c.xid /\ d.args = c.args
  BY <1>1, <1>2 DEF Caller, Where
<1>5. chtable' = [chtable EXCEPT ![h] = r] /\ calls' = [calls EXCEPT ![p] = d]
  BY DEF PutXid, x
<1> HIDE DEF r, d
<1>6. /\ chtable' \in [Handles -> Handle] /\ chtable'[h] = r
      /\ \A k \in Handles \ {h} : chtable'[k] = chtable[k]
  BY <1>2, <1>3, <1>5
<1>7. /\ DOMAIN calls' = DOMAIN calls /\ calls'[p] = d
      /\ \A q \in DOMAIN calls \ {p} : calls'[q] = calls[q]
  BY <1>1, <1>5
<1>8. h \notin torn => chtable[h].held = 0 /\ chtable[h].bufbusy
  BY <1>1, <1>2 DEF Placed
<1>9. Types'
  <2>1. \A q \in DOMAIN calls : calls'[q] \in Caller
    BY <1>4, <1>7 DEF RpcInv, Types
  <2> QED BY <1>1, <1>6, <1>7, <2>1, GrownTypes DEF RpcInv, Types
<1>10. Carried(c.xid, h, c.args)
  BY <1>1, <1>3, <1>6, <1>8 DEF Carried, x
<1>11. /\ Sent' /\ \A k \in Handles : Buffered(k)'
       /\ \A q \in DOMAIN calls, e \in Caller :
            e.h = calls[q].h /\ e.xid = calls[q].xid /\ e.args = calls[q].args => Named(e)'
  BY <1>2, <1>9, <1>10, CarriedNames
<1>12. Placed(calls[p])'
  BY <1>1, <1>2, <1>3, <1>4, <1>6, <1>7, <1>8 DEF Placed, x
<1>13. Busy(chtable', torn', h)
  BY <1>1, <1>2, <1>3, <1>6 DEF Busy
<1>14. \A q \in DOMAIN calls : calls[q] \in Caller
  BY DEF RpcInv, Types
<1>15. \A q \in DOMAIN calls :
         /\ calls'[q].h = calls[q].h /\ calls'[q].xid = calls[q].xid
         /\ Named(calls[q])'
         /\ IF calls[q].h = h THEN Placed(calls[q])' ELSE Same(calls[q], calls'[q])
  <2>1. ASSUME NEW q \in DOMAIN calls \ {p} PROVE calls[q].h # h /\ Named(calls[q])'
    <3>1. Named(calls[q])'
      BY <1>7, <1>11, <1>14
    <3> QED BY <1>2, <3>1 DEF Alone
  <2>2. Named(calls[p])'
    BY <1>1, <1>4, <1>7, <1>11
  <2> QED BY <1>4, <1>7, <1>12, <2>1, <2>2 DEF Same
<1> QED
  BY <1>1, <1>2, <1>3, <1>6, <1>7, <1>9, <1>11, <1>13, <1>15, Moved

\* Listen: p sleeps if its socket is empty, and only then.
LEMMA Listened ==
  ASSUME RpcInv, NEW p \in DOMAIN calls, NEW c \in Caller, c.h \in Handles,
         NEW ch \in [Handles -> Handle], NEW w, Alone(p, c.h, w), p \in DOMAIN w,
         Listen(p, c, ch, w), ch[c.h].xid = c.xid, ~ch[c.h].timedout
  PROVE  /\ chtable' = ch /\ Alone(p, c.h, calls') /\ DOMAIN calls' = DOMAIN calls
         /\ \A q \in DOMAIN calls : calls'[q] \in Caller
         /\ calls'[p].h = c.h /\ calls'[p].xid = c.xid /\ calls'[p].args = c.args
         /\ Placed(calls[p])'
<1> DEFINE waiting == [c EXCEPT !.at = "recv", !.chan = Rcv(c.h)]
           ready == [c EXCEPT !.at = "ready", !.chan = Run]
           d == IF ch[c.h].rcv = <<>> THEN waiting ELSE ready
<1>1. chtable' = ch /\ calls' = sleep(w, p, d)
  BY DEF Listen
<1>7. /\ waiting \in Caller /\ waiting.h = c.h /\ waiting.xid = c.xid /\ waiting.args = c.args
      /\ waiting.at = "recv" /\ waiting.chan = Rcv(c.h)
  BY DEF Caller, Where, Chans
<1>8. /\ ready \in Caller /\ ready.h = c.h /\ ready.xid = c.xid /\ ready.args = c.args
      /\ ready.at = "ready" /\ ready.chan = Run
  BY DEF Caller, Where, Chans
<1> HIDE DEF waiting, ready
<1>2. d \in Caller /\ d.h = c.h /\ d.xid = c.xid /\ d.args = c.args /\ d.h # 0
  BY <1>7, <1>8 DEF Handles
<1>3. \/ d.at = "recv" /\ d.chan = Rcv(c.h) /\ ch[c.h].rcv = <<>>
      \/ d.at = "ready" /\ d.chan = Run /\ ch[c.h].rcv # <<>>
  BY <1>7, <1>8
<1> HIDE DEF d
<1>9. Alone(p, c.h, calls') /\ p \in DOMAIN calls' /\ calls'[p] = d
  BY <1>1, Slept
<1>4. Alone(p, c.h, calls') /\ DOMAIN calls' = DOMAIN calls /\ calls'[p] = d
  BY <1>9 DEF Alone
<1>5. \A q \in DOMAIN calls : calls'[q] \in Caller
  BY <1>2, <1>4, SameCaller DEF Alone, RpcInv, Types
<1>6. Placed(calls[p])'
  BY <1>1, <1>2, <1>3, <1>4 DEF Placed, Waits
<1> QED
  BY <1>1, <1>2, <1>4, <1>5, <1>6

\* After Listen, whatever Listen was called for.
LEMMA ListenedOk ==
  ASSUME RpcInv, NEW p \in DOMAIN calls, calls[p].at # "clget", Types',
         Carried(calls[p].xid, calls[p].h, calls[p].args), UNCHANGED clwanted,
         chtable'[calls[p].h].inuse, Busy(chtable', torn', calls[p].h),
         Alone(p, calls[p].h, calls'), DOMAIN calls' = DOMAIN calls,
         calls'[p].h = calls[p].h, calls'[p].xid = calls[p].xid,
         calls'[p].args = calls[p].args, Placed(calls[p])'
  PROVE  RpcInv'
<1> DEFINE h == calls[p].h
<1>1. /\ h \in Handles /\ chtable[h].inuse /\ Fits(calls[p].xid, h, calls[p].args)
      /\ chtable[h] \in Handle
  BY Mine, CallFits
<1>2. /\ Sent' /\ \A k \in Handles : Buffered(k)'
      /\ \A q \in DOMAIN calls, e \in Caller :
           e.h = calls[q].h /\ e.xid = calls[q].xid /\ e.args = calls[q].args => Named(e)'
  BY <1>1, CarriedNames
<1>3. \A q \in DOMAIN calls : calls[q] \in Caller /\ calls'[q] \in Caller
  BY DEF RpcInv, Types
<1>4. ASSUME NEW q \in DOMAIN calls
      PROVE  /\ calls'[q].h = calls[q].h /\ calls'[q].xid = calls[q].xid
             /\ Named(calls[q])'
             /\ IF calls[q].h = h THEN Placed(calls[q])' ELSE Same(calls[q], calls'[q])
  <2>1. CASE q = p
    BY <1>2, <1>3, <2>1
  <2>2. CASE q # p
    <3>1. Same(calls[q], calls'[q]) /\ calls[q].h # h
      BY <2>2 DEF Alone
    <3>2. /\ calls'[q].h = calls[q].h /\ calls'[q].xid = calls[q].xid
          /\ calls'[q].args = calls[q].args
      BY <1>3, <3>1, SameCaller
    <3> QED BY <1>2, <1>3, <3>1, <3>2
  <2> QED BY <2>1, <2>2
<1>5. /\ \A k \in Handles \ {h} : chtable'[k] = chtable[k]
      /\ UNCHANGED torn /\ chtable' \in [Handles -> Handle]
  BY DEF Carried, Types
<1>6. chtable'[h].inuse = chtable[h].inuse
  BY <1>1, <1>5 DEF Handle
<1> QED
  BY <1>1, <1>2, <1>4, <1>5, <1>6, Moved

\* The call is sent at once, or left with the interface.
LEMMA SendStep ==
  ASSUME RpcInv, NEW p, Send(p)
  PROVE  RpcInv'
<1> DEFINE h == calls[p].h
           x == calls[p].xid
           a == calls[p].args
           c == [calls[p] EXCEPT !.rtries = RECVTRIES]
           r == [chtable[h] EXCEPT !.args = a]
           ch == [chtable EXCEPT ![h] = r]
           n == r.held + 1
           s == [r EXCEPT !.held = n]
           kept == [ch EXCEPT ![h] = s]
<1>1. /\ p \in DOMAIN calls /\ calls[p].at = "encode"
      /\ UNCHANGED <<clwanted, clntkudpxid, torn, nfsd>>
  BY DEF Send, At, serverVars
<1>2. /\ calls[p] \in Caller /\ h \in Handles /\ Alone(p, h, calls)
      /\ chtable \in [Handles -> Handle] /\ chtable[h] \in Handle /\ chtable[h].inuse
      /\ Placed(calls[p]) /\ ~chtable[h].timedout /\ Fits(x, h, a)
  BY <1>1, Mine, CallFits
<1>3. /\ h \notin torn => chtable[h].held = 0 /\ chtable[h].bufbusy
      /\ chtable[h].xid = x /\ a \in Args /\ x \in Nat /\ net \subseteq Message /\ h # 0
  BY <1>1, <1>2 DEF Placed, Caller, Args, RpcInv, Types, Handles
<1>4. c \in Caller /\ c.h = h /\ c.xid = x /\ c.args = a
  BY <1>2 DEF Caller, RECVTRIES
<1>5. /\ r \in Handle /\ r.args = a /\ r.xid = x /\ r.inuse /\ ~r.timedout
      /\ r.held = chtable[h].held /\ r.bufbusy = chtable[h].bufbusy /\ r.held \in Nat
  BY <1>2, <1>3 DEF Handle
<1>6. \/ /\ net' = net \cup {Call(h, ch[h].xid, a)}
         /\ Listen(p, c, buffree(ch, h), Freed(ch, calls, h))
      \/ net' = net /\ Listen(p, c, [ch EXCEPT ![h].held = @ + 1], calls)
  BY <1>4 DEF Send
<1> HIDE DEF c, r
<1>7. n \in Nat /\ n > 0
  BY <1>5
<1>8. ch \in [Handles -> Handle] /\ ch[h] = r /\ \A k \in Handles \ {h} : ch[k] = chtable[k]
  BY <1>2, <1>5
<1>9. [ch EXCEPT ![h].held = @ + 1] = kept
  BY <1>2, <1>8
<1> HIDE DEF n, ch
<1>10. /\ s \in Handle /\ s.args = a /\ s.xid = x /\ s.inuse /\ ~s.timedout /\ s.held = n
       /\ s.bufbusy = r.bufbusy
  BY <1>5, <1>7 DEF Handle
<1> HIDE DEF s
<1>11. CASE /\ net' = net \cup {Call(h, ch[h].xid, a)}
            /\ Listen(p, c, buffree(ch, h), Freed(ch, calls, h))
  <2> DEFINE f == buffree(ch, h)
             w == Freed(ch, calls, h)
  <2>1. /\ f \in [Handles -> Handle] /\ f[h].inuse /\ ~f[h].timedout /\ f[h].args = a
        /\ f[h].xid = x /\ f[h].held = chtable[h].held
        /\ \A k \in Handles \ {h} : f[k] = chtable[k]
    BY <1>2, <1>5, <1>8, BuffreeOk
  <2>2. Alone(p, h, w) /\ p \in DOMAIN w
    <3>1. DOMAIN w = DOMAIN calls
      BY DEF Freed, wakeup
    <3> QED BY <1>1, <1>2, <3>1, FreedAlone
  <2> HIDE DEF f, w
  <2>3. /\ chtable' = f /\ Alone(p, h, calls') /\ DOMAIN calls' = DOMAIN calls
        /\ \A q \in DOMAIN calls : calls'[q] \in Caller
        /\ calls'[p].h = h /\ calls'[p].xid = x /\ calls'[p].args = a
        /\ Placed(calls[p])'
    BY <1>1, <1>2, <1>4, <1>11, <2>1, <2>2, Listened DEF f, w
  <2>4. net \subseteq net' /\ net' \subseteq Message /\ \A m \in net' \ net : m = Call(h, x, a)
    BY <1>2, <1>3, <1>5, <1>8, <1>11 DEF Call, Message
  <2>5. Types'
    BY <1>1, <2>1, <2>3, <2>4, GrownTypes DEF RpcInv, Types
  <2>6. Carried(x, h, a)
    BY <1>1, <2>1, <2>3, <2>4 DEF Carried, Call
  <2>7. Busy(chtable', torn', h)
    BY <1>1, <1>2, <1>3, <2>1, <2>3 DEF Busy, Handle
  <2> QED
    BY <1>1, <2>1, <2>3, <2>5, <2>6, <2>7, ListenedOk
<1>12. CASE net' = net /\ Listen(p, c, kept, calls)
  <2>1. /\ kept \in [Handles -> Handle] /\ kept[h] = s
        /\ \A k \in Handles \ {h} : kept[k] = chtable[k]
    BY <1>2, <1>8, <1>10
  <2> HIDE DEF kept
  <2>2. /\ chtable' = kept /\ Alone(p, h, calls') /\ DOMAIN calls' = DOMAIN calls
        /\ \A q \in DOMAIN calls : calls'[q] \in Caller
        /\ calls'[p].h = h /\ calls'[p].xid = x /\ calls'[p].args = a
        /\ Placed(calls[p])'
    BY <1>1, <1>2, <1>4, <1>10, <1>12, <2>1, Listened
  <2>3. Types'
    BY <1>1, <1>3, <1>12, <2>1, <2>2, GrownTypes DEF RpcInv, Types
  <2>4. Carried(x, h, a)
    BY <1>1, <1>10, <1>12, <2>1, <2>2 DEF Carried
  <2>5. n = 1 \/ h \in torn
    BY <1>3, <1>5 DEF n
  <2>6. Busy(chtable', torn', h)
    BY <1>1, <1>3, <1>5, <1>10, <2>1, <2>2, <2>5 DEF Busy
  <2> QED
    BY <1>1, <1>10, <2>1, <2>2, <2>3, <2>4, <2>6, ListenedOk
<1> QED
  BY <1>6, <1>9, <1>11, <1>12

\* p has changed its own socket, or its timer's mark, and goes on in rfscall.
LEMMA Within ==
  ASSUME RpcInv, NEW p \in DOMAIN calls, calls[p].at # "clget",
         NEW r \in Handle, r.inuse, ~r.timedout,
         r.bufbusy = chtable[calls[p].h].bufbusy, r.held = chtable[calls[p].h].held,
         r.xid = chtable[calls[p].h].xid, r.args = chtable[calls[p].h].args,
         UNCHANGED <<net, nfsd>>, torn \subseteq torn'
  PROVE  Midway(p, calls[p], [chtable EXCEPT ![calls[p].h] = r], calls)
<1> DEFINE h == calls[p].h
           ch == [chtable EXCEPT ![h] = r]
<1>1. /\ calls[p] \in Caller /\ h \in Handles /\ Alone(p, h, calls)
      /\ chtable \in [Handles -> Handle] /\ Busy(chtable, torn, h)
  BY Mine
<1>2. ch \in [Handles -> Handle] /\ ch[h] = r /\ \A k \in Handles \ {h} : ch[k] = chtable[k]
  BY <1>1
<1> HIDE DEF ch
<1>3. Busy(ch, torn', h)
  BY <1>1, <1>2 DEF Busy
<1>4. Midway(p, calls[p], ch, calls)
  BY <1>1, <1>2, <1>3 DEF Midway
<1> QED
  BY <1>4 DEF ch

\* The reply at the head of the socket is the right one, or p listens on.
LEMMA TakeReplyOk ==
  ASSUME RpcInv, NEW p \in DOMAIN calls, calls[p].at \in {"recv", "ready"},
         ~chtable[calls[p].h].timedout, chtable[calls[p].h].rcv # <<>>,
         TakeReply(p), UNCHANGED <<net, nfsd>>
  PROVE  RpcInv'
<1> DEFINE c == calls[p]
           h == c.h
           r0 == [chtable[h] EXCEPT !.rcv = <<>>]
           r1 == [chtable[h] EXCEPT !.rcv = Tail(chtable[h].rcv)]
           r2 == chtable[h]
           ch0 == [chtable EXCEPT ![h] = r0]
           ch1 == [chtable EXCEPT ![h] = r1]
           ch2 == [chtable EXCEPT ![h] = r2]
           n == c.rtries - 1
           d == [c EXCEPT !.rtries = n]
           Next1(ch) == \/ Listen(p, d, ch, calls) /\ UNCHANGED <<clwanted, clntkudpxid, torn>>
                        \/ Retry(p, c, ch, calls)
<1>1. /\ c \in Caller /\ h \in Handles /\ Alone(p, h, calls) /\ Busy(chtable, torn, h)
      /\ chtable \in [Handles -> Handle] /\ chtable[h] \in Handle /\ chtable[h].inuse
      /\ Fits(c.xid, h, c.args) /\ chtable[h].xid = c.xid
  BY Mine, CallFits DEF Placed
<1>2. <<>> \in Seq(Message)
  OBVIOUS
<1>3. Tail(chtable[h].rcv) \in Seq(Message)
  <2>1. chtable[h].rcv \in Seq(Message)
    BY <1>1 DEF Handle
  <2> QED BY <2>1
<1>4. ch2 = chtable /\ ch1 = [chtable EXCEPT ![h].rcv = Tail(@)]
      /\ ch0 = [chtable EXCEPT ![h].rcv = <<>>]
  BY <1>1
<1>5. clfree(p, h, ch0, calls) \/ Next1(ch1) \/ Next1(ch2)
  BY <1>4 DEF TakeReply
<1>6. n \in Int
  BY <1>1 DEF Caller
<1> HIDE DEF n
<1>7. d \in Caller /\ d.h = h /\ d.xid = c.xid /\ d.args = c.args
  BY <1>1, <1>6 DEF Caller
<1> HIDE DEF d
<1>8. ASSUME NEW r \in Handle, r.inuse, ~r.timedout, r.bufbusy = chtable[h].bufbusy,
             r.held = chtable[h].held, r.xid = chtable[h].xid, r.args = chtable[h].args,
             Next1([chtable EXCEPT ![h] = r])
      PROVE  RpcInv'
  <2> DEFINE ch == [chtable EXCEPT ![h] = r]
  <2>1. CASE Listen(p, d, ch, calls) /\ UNCHANGED <<clwanted, clntkudpxid, torn>>
    <3>1. ch \in [Handles -> Handle] /\ ch[h] = r /\ \A k \in Handles \ {h} : ch[k] = chtable[k]
      BY <1>1, <1>8
    <3> HIDE DEF ch
    <3>2. /\ chtable' = ch /\ Alone(p, h, calls') /\ DOMAIN calls' = DOMAIN calls
          /\ \A q \in DOMAIN calls : calls'[q] \in Caller
          /\ calls'[p].h = h /\ calls'[p].xid = c.xid /\ calls'[p].args = c.args
          /\ Placed(calls[p])'
      BY <1>1, <1>7, <1>8, <2>1, <3>1, Listened
    <3>3. Types'
      BY <2>1, <3>1, <3>2, GrownTypes DEF RpcInv, Types
    <3>4. Carried(c.xid, h, c.args)
      <4>1. h \notin torn /\ chtable[h].held > 0 => chtable[h].args = c.args
        BY <1>1, Mine DEF Named, Handles
      <4> QED BY <1>1, <1>8, <2>1, <3>1, <3>2, <4>1 DEF Carried
    <3>5. Busy(chtable', torn', h)
      BY <1>1, <1>8, <2>1, <3>1, <3>2 DEF Busy
    <3> QED BY <1>8, <2>1, <3>1, <3>2, <3>3, <3>4, <3>5, ListenedOk
  <2>2. CASE Retry(p, c, ch, calls)
    <3>1. torn \subseteq torn'
      BY <2>2 DEF Retry, clfree
    <3>2. Midway(p, c, ch, calls)
      BY <1>8, <3>1, Within
    <3> QED BY <2>2, <3>2, RetryOk
  <2> QED BY <1>8, <2>1, <2>2
<1>9. CASE clfree(p, h, ch0, calls)
  <2>1. r0 \in Handle /\ r0.inuse /\ ~r0.timedout /\ r0.bufbusy = chtable[h].bufbusy
        /\ r0.held = chtable[h].held /\ r0.xid = chtable[h].xid /\ r0.args = chtable[h].args
    BY <1>1, <1>2 DEF Handle
  <2>2. torn \subseteq torn'
    BY <1>9 DEF clfree
  <2> HIDE DEF r0
  <2>3. Midway(p, c, ch0, calls)
    BY <2>1, <2>2, Within
  <2> QED BY <1>9, <2>3, ClfreeOk
<1>10. CASE Next1(ch1)
  <2>1. r1 \in Handle /\ r1.inuse /\ ~r1.timedout /\ r1.bufbusy = chtable[h].bufbusy
        /\ r1.held = chtable[h].held /\ r1.xid = chtable[h].xid /\ r1.args = chtable[h].args
    BY <1>1, <1>3 DEF Handle
  <2> HIDE DEF r1, Next1
  <2> QED BY <1>8, <1>10, <2>1
<1>11. CASE Next1(ch2)
  <2> HIDE DEF Next1
  <2> QED BY <1>1, <1>8, <1>11
<1> QED
  BY <1>5, <1>9, <1>10, <1>11

\* Woken by input or by its timer, whichever came first.
LEMMA ReceiveStep ==
  ASSUME RpcInv, NEW p, Receive(p)
  PROVE  RpcInv'
<1> DEFINE h == calls[p].h
<1>1. p \in DOMAIN calls /\ calls[p].at \in {"recv", "ready"} /\ UNCHANGED <<net, nfsd>>
  BY DEF Receive, At, serverVars
<1>2. /\ chtable \in [Handles -> Handle] /\ chtable[h] \in Handle /\ chtable[h].inuse
      /\ Placed(calls[p]) /\ (calls[p].at # "recv" => ~chtable[h].timedout)
  BY <1>1, Mine
<1>3. CASE TakeReply(p) /\ ~chtable[h].timedout /\ chtable[h].rcv # <<>>
  BY <1>1, <1>3, TakeReplyOk
<1>4. CASE Retry(p, calls[p], [chtable EXCEPT ![h].timedout = FALSE], calls)
  <2> DEFINE r == [chtable[h] EXCEPT !.timedout = FALSE]
  <2>1. /\ r \in Handle /\ r.inuse /\ ~r.timedout /\ r.bufbusy = chtable[h].bufbusy
        /\ r.held = chtable[h].held /\ r.xid = chtable[h].xid /\ r.args = chtable[h].args
    BY <1>2 DEF Handle
  <2>2. [chtable EXCEPT ![h].timedout = FALSE] = [chtable EXCEPT ![h] = r]
    OBVIOUS
  <2> HIDE DEF r
  <2>3. torn \subseteq torn'
    BY <1>4 DEF Retry, clfree
  <2>4. Midway(p, calls[p], [chtable EXCEPT ![h] = r], calls)
    BY <1>1, <2>1, <2>3, Within
  <2> QED BY <1>1, <1>4, <2>2, <2>4, RetryOk
<1> QED
  BY <1>1, <1>2, <1>3, <1>4 DEF Receive, At, Placed

\* wakeup takes callers off the queues of some addresses, and does no more.
LEMMA WokenUp ==
  ASSUME RpcInv, NEW chans, calls' = wakeup(calls, chans)
  PROVE  /\ DOMAIN calls' = DOMAIN calls
         /\ \A q \in DOMAIN calls :
              /\ calls[q] \in Caller /\ calls'[q] \in Caller /\ Same(calls[q], calls'[q])
              /\ calls'[q].at = calls[q].at /\ calls'[q].h = calls[q].h
              /\ calls'[q].xid = calls[q].xid /\ calls'[q].args = calls[q].args
              /\ calls'[q].chan = IF calls[q].chan \in chans THEN Run ELSE calls[q].chan
<1>1. ASSUME NEW q \in DOMAIN calls
      PROVE  /\ calls[q] \in Caller /\ Same(calls[q], calls'[q])
             /\ calls'[q].chan = IF calls[q].chan \in chans THEN Run ELSE calls[q].chan
  <2>1. calls[q] \in Caller
    BY DEF RpcInv, Types
  <2>2. calls'[q] = IF calls[q].chan \in chans THEN [calls[q] EXCEPT !.chan = Run] ELSE calls[q]
    BY DEF wakeup
  <2> QED BY <2>1, <2>2 DEF Caller, Same
<1> QED
  BY <1>1, SameCaller DEF wakeup

\* The timer marks the handle and wakes its caller.
LEMMA TimeoutStep ==
  ASSUME RpcInv, NEW p, Timeout(p)
  PROVE  RpcInv'
<1> DEFINE h == calls[p].h
           r == [chtable[h] EXCEPT !.timedout = TRUE]
<1>1. /\ p \in DOMAIN calls /\ calls[p].at = "recv" /\ calls' = wakeup(calls, {Rcv(h)})
      /\ chtable' = [chtable EXCEPT ![h] = r]
      /\ UNCHANGED <<clwanted, clntkudpxid, torn, net, nfsd>>
  BY DEF Timeout, serverVars
<1>2. /\ calls[p] \in Caller /\ h \in Handles /\ chtable \in [Handles -> Handle]
      /\ chtable[h] \in Handle /\ Placed(calls[p]) /\ Busy(chtable, torn, h)
      /\ Alone(p, h, calls)
  BY <1>1, Mine
<1>3. /\ r \in Handle /\ r.inuse = chtable[h].inuse /\ r.bufbusy = chtable[h].bufbusy
      /\ r.held = chtable[h].held /\ r.xid = chtable[h].xid /\ r.args = chtable[h].args
  BY <1>2 DEF Handle
<1> HIDE DEF r
<1>4. /\ chtable' \in [Handles -> Handle] /\ chtable'[h] = r
      /\ \A k \in Handles \ {h} : chtable'[k] = chtable[k]
  BY <1>1, <1>2, <1>3
<1>5. /\ DOMAIN calls' = DOMAIN calls
      /\ \A q \in DOMAIN calls :
           /\ calls[q] \in Caller /\ calls'[q] \in Caller /\ Same(calls[q], calls'[q])
           /\ calls'[q].at = calls[q].at /\ calls'[q].h = calls[q].h
           /\ calls'[q].xid = calls[q].xid /\ calls'[q].args = calls[q].args
           /\ calls'[q].chan = IF calls[q].chan \in {Rcv(h)} THEN Run ELSE calls[q].chan
  BY <1>1, WokenUp
<1>6. Types' /\ Kept
  <2>1. net \subseteq Message /\ clntkudpxid \in Nat
    BY DEF RpcInv, Types
  <2>2. Kept
    BY <1>1, <1>3, <1>4, <2>1 DEF Kept
  <2> QED BY <1>1, <1>4, <1>5, <2>1, <2>2, GrownTypes DEF RpcInv, Types
<1>7. calls'[p].chan = Run
  BY <1>1, <1>2, <1>5 DEF Placed, Waits
<1>8. Placed(calls[p])'
  BY <1>1, <1>2, <1>3, <1>4, <1>5, <1>7 DEF Placed
<1>9. ASSUME NEW q \in DOMAIN calls
      PROVE  /\ Named(calls[q])'
             /\ IF calls[q].h = h THEN Placed(calls[q])' ELSE Same(calls[q], calls'[q])
  <2>1. Named(calls[q])
    BY DEF RpcInv
  <2>2. Named(calls'[q])
    BY <1>5, <2>1 DEF Named
  <2>3. Named(calls[q])'
    BY <1>5, <1>6, <2>2, KeptNames
  <2> QED BY <1>2, <1>5, <1>8, <2>3 DEF Alone
<1>10. Busy(chtable', torn', h)
  BY <1>1, <1>2, <1>3, <1>4 DEF Busy
<1>11. Sent' /\ \A k \in Handles : Buffered(k)'
  BY <1>6, KeptNames
<1>12. UNCHANGED <<clwanted, torn>> /\ chtable'[h].inuse = chtable[h].inuse
  BY <1>1, <1>3, <1>4
<1> HIDE DEF h
<1> QED
  BY <1>2, <1>4, <1>5, <1>6, <1>9, <1>10, <1>11, <1>12, Moved

\* A reply comes in for h, whoever has it by now, and wakes who listens.
LEMMA DeliverStep ==
  ASSUME RpcInv, NEW h \in Handles, Deliver(h)
  PROVE  RpcInv'
<1>1. PICK m \in Replies(h) : chtable' = [chtable EXCEPT ![h].rcv = Append(@, m)]
  BY DEF Deliver
<1> DEFINE s == Append(chtable[h].rcv, m)
           r == [chtable[h] EXCEPT !.rcv = s]
<1>2. /\ calls' = wakeup(calls, {Rcv(h)}) /\ chtable' = [chtable EXCEPT ![h] = r]
      /\ UNCHANGED <<clwanted, clntkudpxid, torn, net, nfsd>>
  BY <1>1 DEF Deliver, serverVars
<1>3. /\ chtable \in [Handles -> Handle] /\ chtable[h] \in Handle /\ Busy(chtable, torn, h)
      /\ m \in Message /\ net \subseteq Message /\ clntkudpxid \in Nat
  BY <1>1 DEF RpcInv, Types, Replies
<1>4. s \in Seq(Message) /\ s # <<>>
  <2>1. chtable[h].rcv \in Seq(Message)
    BY <1>3 DEF Handle
  <2> QED BY <1>3, <2>1
<1> HIDE DEF s
<1>5. /\ r \in Handle /\ r.inuse = chtable[h].inuse /\ r.bufbusy = chtable[h].bufbusy
      /\ r.bufwanted = chtable[h].bufwanted /\ r.timedout = chtable[h].timedout
      /\ r.held = chtable[h].held /\ r.xid = chtable[h].xid /\ r.args = chtable[h].args
      /\ r.rcv # <<>>
  BY <1>3, <1>4 DEF Handle
<1> HIDE DEF r
<1>6. /\ chtable' \in [Handles -> Handle] /\ chtable'[h] = r
      /\ \A k \in Handles \ {h} : chtable'[k] = chtable[k]
  BY <1>2, <1>3, <1>5
<1>7. /\ DOMAIN calls' = DOMAIN calls
      /\ \A q \in DOMAIN calls :
           /\ calls[q] \in Caller /\ calls'[q] \in Caller /\ Same(calls[q], calls'[q])
           /\ calls'[q].at = calls[q].at /\ calls'[q].h = calls[q].h
           /\ calls'[q].xid = calls[q].xid /\ calls'[q].args = calls[q].args
           /\ calls'[q].chan = IF calls[q].chan \in {Rcv(h)} THEN Run ELSE calls[q].chan
  BY <1>2, WokenUp
<1>8. Types' /\ Kept
  <2>1. Kept
    BY <1>2, <1>3, <1>5, <1>6 DEF Kept
  <2> QED BY <1>2, <1>3, <1>6, <1>7, <2>1, GrownTypes DEF RpcInv, Types
<1>9. ASSUME NEW q \in DOMAIN calls, calls[q].h = h PROVE Placed(calls[q])'
  <2>1. Placed(calls[q]) /\ h # 0
    BY DEF RpcInv, Handles
  <2>2. calls'[q].chan # Run => /\ calls[q].at = "buf" /\ calls'[q].chan = Buf(h)
                               /\ chtable[h].bufbusy /\ chtable[h].bufwanted
    BY <1>7, <1>9, <2>1 DEF Placed, Waits
  <2> QED BY ZenonT(60), <1>2, <1>5, <1>6, <1>7, <1>9, <2>1, <2>2 DEF Placed, Waits
<1>10. ASSUME NEW q \in DOMAIN calls PROVE Named(calls[q])'
  <2>1. Named(calls[q])
    BY DEF RpcInv
  <2>2. Named(calls'[q])
    BY <1>7, <2>1 DEF Named
  <2> QED BY <1>7, <1>8, <2>2, KeptNames
<1>11. Busy(chtable', torn', h)
  BY <1>2, <1>3, <1>5, <1>6 DEF Busy
<1>12. Sent' /\ \A k \in Handles : Buffered(k)'
  BY <1>8, KeptNames
<1>13. UNCHANGED <<clwanted, torn>> /\ chtable'[h].inuse = chtable[h].inuse
  BY <1>2, <1>5, <1>6
<1>14. \A q \in DOMAIN calls :
         /\ calls'[q].h = calls[q].h /\ calls'[q].xid = calls[q].xid
         /\ Named(calls[q])'
         /\ IF calls[q].h = h THEN Placed(calls[q])' ELSE Same(calls[q], calls'[q])
  BY <1>7, <1>9, <1>10
<1> QED
  BY <1>6, <1>7, <1>8, <1>11, <1>12, <1>13, <1>14, Moved

\* The interface sends what is in the buffer of h by now, and frees it.
LEMMA TransmitStep ==
  ASSUME RpcInv, NEW h \in Handles, Transmit(h)
  PROVE  RpcInv'
<1> DEFINE x == chtable[h].xid
           a == chtable[h].args
           n == chtable[h].held - 1
           s == [chtable[h] EXCEPT !.held = n]
           ch == [chtable EXCEPT ![h] = s]
           f == buffree(ch, h)
           chans == IF chtable[h].bufwanted THEN {Buf(h)} ELSE {}
<1>1. /\ chtable[h].held > 0 /\ net' = net \cup {Call(h, x, a)}
      /\ chtable' = f /\ calls' = Freed(chtable, calls, h)
      /\ UNCHANGED <<clwanted, clntkudpxid, torn, nfsd>>
  BY DEF Transmit, serverVars
<1>2. /\ chtable \in [Handles -> Handle] /\ chtable[h] \in Handle /\ Busy(chtable, torn, h)
      /\ Buffered(h) /\ net \subseteq Message
      /\ \A q \in DOMAIN calls : calls[q] \in Caller /\ Placed(calls[q]) /\ Named(calls[q])
  BY DEF RpcInv, Types
<1>3. n \in Nat /\ (h \notin torn => n = 0) /\ x \in Nat /\ a \in Args
  BY <1>1, <1>2 DEF Handle, Busy, Buffered
<1> HIDE DEF n
<1>4. /\ s \in Handle /\ s.held = n /\ s.inuse = chtable[h].inuse /\ s.rcv = chtable[h].rcv
      /\ s.timedout = chtable[h].timedout /\ s.xid = x /\ s.args = a
  BY <1>2, <1>3 DEF Handle
<1> HIDE DEF s
<1>5. ch \in [Handles -> Handle] /\ ch[h] = s /\ \A k \in Handles \ {h} : ch[k] = chtable[k]
  BY <1>2, <1>4
<1> HIDE DEF ch
<1>6. /\ f \in [Handles -> Handle] /\ \A k \in Handles \ {h} : f[k] = chtable[k]
      /\ f[h].inuse = chtable[h].inuse /\ f[h].timedout = chtable[h].timedout
      /\ f[h].xid = x /\ f[h].args = a /\ f[h].held = n /\ f[h].rcv = chtable[h].rcv
  BY <1>4, <1>5, BuffreeOk
<1> HIDE DEF f
<1>8. /\ DOMAIN calls' = DOMAIN calls
      /\ \A q \in DOMAIN calls :
           /\ calls[q] \in Caller /\ calls'[q] \in Caller /\ Same(calls[q], calls'[q])
           /\ calls'[q].at = calls[q].at /\ calls'[q].h = calls[q].h
           /\ calls'[q].xid = calls[q].xid /\ calls'[q].args = calls[q].args
           /\ calls'[q].chan = IF calls[q].chan \in chans THEN Run ELSE calls[q].chan
  <2>1. CASE chtable[h].bufwanted
    <3>1. calls' = wakeup(calls, chans)
      BY <1>1, <2>1 DEF Freed
    <3> HIDE DEF chans
    <3> QED BY <3>1, WokenUp
  <2>2. CASE ~chtable[h].bufwanted
    <3>1. calls' = calls
      BY <1>1, <2>2 DEF Freed
    <3> QED BY <1>2, <2>2, <3>1 DEF Same
  <2> QED BY <2>1, <2>2
<1>9. Types'
  <2>1. net \subseteq net' /\ net' \subseteq Message
    BY <1>1, <1>2, <1>3 DEF Call, Message
  <2> QED BY <1>1, <1>6, <1>8, <2>1, GrownTypes DEF RpcInv, Types
<1>10. Fits(x, h, a)
  BY <1>1, <1>2, <1>3 DEF Fits, Named, Buffered
<1>11. Carried(x, h, a)
  BY <1>1, <1>6 DEF Carried, Call
<1>12. /\ Sent' /\ \A k \in Handles : Buffered(k)'
       /\ \A q \in DOMAIN calls, e \in Caller :
            e.h = calls[q].h /\ e.xid = calls[q].xid /\ e.args = calls[q].args => Named(e)'
  BY <1>9, <1>10, <1>11, CarriedNames
<1>13. ASSUME NEW q \in DOMAIN calls, calls[q].h = h PROVE Placed(calls[q])'
  <2>1. Placed(calls[q]) /\ h # 0
    BY <1>2 DEF Handles
  <2>2. ~(calls[q].at \in {"mbuf", "encode"} /\ h \notin torn)
    BY <1>1, <1>2, <1>13, <2>1 DEF Placed
  <2>3. calls'[q].chan # Run => /\ calls[q].at = "recv" /\ calls'[q].chan = Rcv(h)
                               /\ chtable[h].rcv = <<>> /\ ~chtable[h].timedout
    BY <1>8, <1>13, <2>1 DEF Placed, Waits
  <2> QED BY <1>1, <1>6, <1>8, <1>13, <2>1, <2>2, <2>3 DEF Placed, Waits
<1>14. Busy(chtable', torn', h)
  BY <1>1, <1>3, <1>6 DEF Busy
<1>15. \A q \in DOMAIN calls :
         /\ calls'[q].h = calls[q].h /\ calls'[q].xid = calls[q].xid
         /\ Named(calls[q])'
         /\ IF calls[q].h = h THEN Placed(calls[q])' ELSE Same(calls[q], calls'[q])
  BY <1>8, <1>12, <1>13
<1>16. UNCHANGED <<clwanted, torn>> /\ chtable'[h].inuse = chtable[h].inuse
       /\ \A k \in Handles \ {h} : chtable'[k] = chtable[k]
  BY <1>1, <1>6
<1> QED
  BY <1>8, <1>9, <1>12, <1>14, <1>15, <1>16, Moved

\* The server takes a request from the net, and answers it with its xid.
LEMMA ServerStep ==
  ASSUME RpcInv, NEW d \in Nfsds, Answer(d) \/ \E m \in net : Serve(d, m)
  PROVE  RpcInv'
<1>1. CASE Answer(d)
  <2> DEFINE m == nfsd[d].req
  <2>1. /\ nfsd[d].busy /\ net' = net \cup {Reply(m, nfsd[d].ok)}
        /\ nfsd' = [nfsd EXCEPT ![d] = IdleNfsd]
        /\ UNCHANGED <<chtable, clwanted, clntkudpxid, calls, torn>>
    BY <1>1 DEF Answer, clientVars
  <2>2. /\ m \in net /\ m \in Message /\ nfsd[d].ok \in BOOLEAN /\ net \subseteq Message
        /\ \A q \in DOMAIN calls : calls[q] \in Caller /\ Placed(calls[q]) /\ Named(calls[q])
        /\ DOMAIN nfsd = Nfsds /\ clntkudpxid \in Nat
    BY <2>1 DEF RpcInv, Types
  <2>3. m.h \in Handles /\ m.xid \in Nat /\ m.args \in Args
    BY <2>2 DEF Message
  <2>4. net \subseteq net' /\ net' \subseteq Message
    BY <2>1, <2>2, <2>3 DEF Reply, Message
  <2>5. /\ DOMAIN nfsd' = Nfsds
        /\ \A e \in Nfsds : nfsd'[e].busy => nfsd'[e].req \in net /\ nfsd'[e].ok \in BOOLEAN
    BY <2>1, <2>2 DEF IdleNfsd, RpcInv, Types
  <2>6. Types'
    BY <2>1, <2>2, <2>4, <2>5, GrownTypes DEF RpcInv, Types
  <2>7. Fits(m.xid, m.h, m.args)
    BY <2>2, <2>3 DEF Fits, RpcInv, Sent, Named, Buffered
  <2>8. Carried(m.xid, m.h, m.args)
    BY <2>1, <2>2, <2>3 DEF Carried, Reply, RpcInv, Buffered
  <2>9. /\ Sent' /\ \A k \in Handles : Buffered(k)'
        /\ \A q \in DOMAIN calls, e \in Caller :
             e.h = calls[q].h /\ e.xid = calls[q].xid /\ e.args = calls[q].args => Named(e)'
    BY <2>3, <2>6, <2>7, <2>8, CarriedNames
  <2>10. \A q \in DOMAIN calls : Placed(calls[q])' /\ Named(calls[q])'
    BY <2>1, <2>2, <2>9 DEF Placed, Waits
  <2>11. Held' /\ \A h \in Handles : Busy(chtable', torn', h)
    BY <2>1 DEF RpcInv, Held, Busy
  <2> QED BY <2>1, <2>6, <2>9, <2>10, <2>11 DEF RpcInv
<1>2. ASSUME NEW m \in net, Serve(d, m) PROVE RpcInv'
  <2> DEFINE v == Possible(m.args) \/ svckudp_dup(m)
  <2>3. v \in BOOLEAN
    BY Zenon DEF Possible, svckudp_dup
  <2>4. /\ UNCHANGED <<chtable, clwanted, clntkudpxid, calls, torn, net>>
        /\ nfsd' = [nfsd EXCEPT ![d] = [busy |-> TRUE, req |-> m, ok |-> v]]
    BY <1>2 DEF Serve, clientVars
  <2> HIDE DEF v
  <2>1. /\ UNCHANGED <<chtable, clwanted, clntkudpxid, calls, torn, net>>
        /\ DOMAIN nfsd' = DOMAIN nfsd
        /\ \A e \in Nfsds \ {d} : nfsd'[e] = nfsd[e]
        /\ d \in DOMAIN nfsd => nfsd'[d].req = m /\ nfsd'[d].ok \in BOOLEAN
    BY <2>3, <2>4
  <2>2. Types'
    BY <2>1 DEF RpcInv, Types
  <2> QED
    BY <2>1, <2>2 DEF RpcInv, Held, Sent, Placed, Waits, Named, Busy, Buffered
<1> QED
  BY <1>1, <1>2
-----------------------------------------------------------------------------
\* Nothing has been called yet.
LEMMA RpcInitially == RpcInit => RpcInv
<1> SUFFICES ASSUME RpcInit PROVE RpcInv
  OBVIOUS
<1>1. <<>> \in Seq(Message)
  OBVIOUS
<1>2. DOMAIN calls = {}
  BY DEF RpcInit
<1>3. Types
  <2>1. chtable \in [Handles -> Handle]
    BY <1>1 DEF RpcInit, Handle, Args
  <2>2. DOMAIN nfsd = Nfsds /\ \A d \in Nfsds : ~nfsd[d].busy
    BY DEF RpcInit, IdleNfsd
  <2> QED BY <1>2, <2>1, <2>2 DEF RpcInit, Types
<1>4. Held /\ Sent
  BY <1>2 DEF RpcInit, Held, Sent
<1>5. \A h \in Handles : Busy(chtable, torn, h) /\ Buffered(h)
  BY DEF RpcInit, Busy, Buffered
<1> QED
  BY <1>2, <1>3, <1>4, <1>5 DEF RpcInv

\* Every step of a client, of the net or of the server keeps the invariant.
LEMMA RpcStep == RpcInv /\ [RpcNext]_rpcVars => RpcInv'
<1> SUFFICES ASSUME RpcInv, [RpcNext]_rpcVars PROVE RpcInv'
  OBVIOUS
<1>1. CASE \E p \in Procs, mi \in Mounts, args \in Requests : RfsCall(p, mi, args)
  BY <1>1, RfsCallStep
<1>2. ASSUME NEW p \in Procs, ClgetWoken(p) PROVE RpcInv'
  BY <1>2, ClgetWokenStep
<1>3. ASSUME NEW p \in Procs,
             \/ BufWoken(p) \/ PutXid(p) \/ SendFails(p) \/ EncodeFails(p)
             \/ Send(p) \/ Receive(p) \/ Timeout(p)
      PROVE  RpcInv'
  BY <1>3, BufWokenStep, PutXidStep, FailStep, SendStep, ReceiveStep, TimeoutStep
<1>4. CASE \E h \in Handles : Deliver(h) \/ Transmit(h)
  BY <1>4, DeliverStep, TransmitStep
<1>5. CASE \E d \in Nfsds : Answer(d) \/ \E m \in net : Serve(d, m)
  BY <1>5, ServerStep
<1>6. CASE UNCHANGED rpcVars
  BY <1>6 DEF rpcVars, clientVars, serverVars, RpcInv, Types, Held, Sent, Placed, Waits,
              Named, Busy, Buffered
<1> QED
  BY <1>1, <1>2, <1>3, <1>4, <1>5, <1>6 DEF RpcNext

\* A handle in use has one process, which CKU_BUSY need not ensure (clget,
\* clfree), and an interface that holds its buffer has it once, marked busy,
\* unless clntkudp_init has reset the mark.
THEOREM HandleHasOneCaller == RpcSpec => []OneCaller
<1>1. RpcInv => OneCaller
  <2> SUFFICES ASSUME RpcInv PROVE OneCaller
    OBVIOUS
  <2>1. ASSUME NEW h \in Handles
        PROVE  chtable[h].inuse = (\E p \in DOMAIN calls : calls[p].h = h)
    <3>1. chtable[h].inuse <=> \E p \in DOMAIN calls : calls[p].h = h
      BY DEF RpcInv, Held
    <3>2. chtable[h].inuse \in BOOLEAN
      BY DEF RpcInv, Types, Handle
    <3> QED BY <3>1, <3>2, Zenon
  <2>2. /\ \A p, q \in DOMAIN calls : calls[p].h = calls[q].h /\ calls[p].h # 0 => p = q
        /\ \A h \in Handles \ torn : chtable[h].held > 0 =>
             chtable[h].bufbusy /\ chtable[h].held = 1
    BY DEF RpcInv, Held, Busy
  <2> QED BY <2>1, <2>2 DEF OneCaller
<1> QED
  BY <1>1, RpcInitially, RpcStep, PTL DEF RpcSpec

\* A reply accepted for the xid in the buffer answers the very call of the
\* process, whatever the net still brings from earlier calls on the handle.
THEOREM ReplyIsOwn == RpcSpec => []OwnReply
<1>1. RpcInv => OwnReply
  <2> SUFFICES ASSUME RpcInv PROVE OwnReply
    OBVIOUS
  <2>1. ASSUME NEW p \in DOMAIN calls, calls[p].at \in {"recv", "ready"}, calls[p].h \notin torn,
               NEW m \in Replies(calls[p].h), Accepts(p, m)
        PROVE  m.args = calls[p].args /\ m.xid = calls[p].xid
    <3>1. /\ calls[p].h # 0 /\ Named(calls[p]) /\ chtable[calls[p].h].xid = calls[p].xid
      BY <2>1, Mine DEF Placed
    <3> QED BY <2>1, <3>1 DEF Named, Replies, Accepts, Matches
  <2>2. \A m, n \in net : m.xid = n.xid /\ m.h \notin torn => m.args = n.args
    BY DEF RpcInv, Sent
  <2> QED BY <2>1, <2>2 DEF OwnReply
<1> QED
  BY <1>1, RpcInitially, RpcStep, PTL DEF RpcSpec

\* Nobody sleeps on what is there already, or without the mark that gets him
\* woken (clwanted, CKU_BUFWANTED, CKU_TIMEDOUT).
THEOREM RpcSleeperBlocked == RpcSpec => []RpcSleeper
<1>1. RpcInv => RpcSleeper
  <2> SUFFICES ASSUME RpcInv, NEW p \in Asleep(calls)
               PROVE  LET c == calls[p]
                      IN CASE c.at = "clget" -> clwanted /\ \A h \in Handles : chtable[h].inuse
                           [] c.at = "buf" -> chtable[c.h].bufbusy /\ chtable[c.h].bufwanted
                           [] c.at = "recv" -> chtable[c.h].rcv = <<>> /\ ~chtable[c.h].timedout
    BY DEF RpcSleeper
  <2>1. Waits(calls[p])
    BY DEF RpcInv, Placed, Asleep
  <2> QED BY <2>1 DEF Waits
<1> QED
  BY <1>1, RpcInitially, RpcStep, PTL DEF RpcSpec
-----------------------------------------------------------------------------
(***************************************************************************)
(* The server.  It asks drcache before it has saved the request it is busy *)
(* with, so that a second process could ask in between: there is one.      *)
(***************************************************************************)
OneNfsd == \A d, e \in Nfsds : d = e

\* What has been carried out and not forgotten is remembered, or about to be.
Known(x) ==
  \/ \E r \in ToSet(drcache) : r.xid = x
  \/ \E d \in Nfsds : nfsd[d].busy /\ nfsd[d].ok /\ nfsd[d].req.xid = x

ServerInv ==
  /\ drcache \in Seq(Message) /\ ToSet(drcache) \subseteq net
  /\ \A r \in ToSet(drcache) : r.kind = "call"
  /\ \A d \in Nfsds : nfsd[d].busy => nfsd[d].req.kind = "call"
  /\ \A x \in did \ forgot : Known(x)
  /\ NoAfterYes

\* Two requests of one xid are the same request.
LEMMA OneRequest ==
  ASSUME RpcInv, NEW m \in net, NEW r \in net, m.kind = "call", r.kind = "call",
         m.xid = r.xid, m.h \notin torn
  PROVE  m = r
<1>1. m.h = r.h /\ m.args = r.args
  BY DEF RpcInv, Sent
<1>2. /\ m \in [kind : {"call"}, h : Handles, xid : Nat, args : Args]
      /\ r \in [kind : {"call"}, h : Handles, xid : Nat, args : Args]
  BY DEF RpcInv, Types, Message
<1> QED BY <1>1, <1>2

\* svckudp_dupsave enters m, and nothing else.
LEMMA Dupsaved ==
  ASSUME drcache \in Seq(Message), NEW m \in Message
  PROVE  /\ svckudp_dupsave(m) \in Seq(Message)
         /\ m \in ToSet(svckudp_dupsave(m))
         /\ ToSet(svckudp_dupsave(m)) \subseteq ToSet(drcache) \cup {m}
<1> DEFINE s == IF Len(drcache) < MAXDUPREQS THEN drcache ELSE Tail(drcache)
<1>1. s \in Seq(Message) /\ ToSet(s) \subseteq ToSet(drcache)
  <2>1. CASE Len(drcache) < MAXDUPREQS
    BY <2>1
  <2>2. CASE ~(Len(drcache) < MAXDUPREQS)
    <3>1. Len(drcache) > 0
      BY <2>2, RpcAssumption
    <3>2. /\ Tail(drcache) \in Seq(Message) /\ Len(Tail(drcache)) = Len(drcache) - 1
          /\ \A i \in 1 .. Len(drcache) - 1 : Tail(drcache)[i] = drcache[i + 1]
      BY <3>1
    <3> QED BY <2>2, <3>1, <3>2 DEF ToSet
  <2> QED BY <2>1, <2>2
<1> HIDE DEF s
<1>2. /\ Append(s, m) \in Seq(Message) /\ Len(Append(s, m)) = Len(s) + 1
      /\ Append(s, m)[Len(s) + 1] = m
      /\ \A i \in 1 .. Len(s) : Append(s, m)[i] = s[i]
  BY <1>1
<1>3. m \in ToSet(Append(s, m)) /\ ToSet(Append(s, m)) \subseteq ToSet(s) \cup {m}
  BY <1>1, <1>2 DEF ToSet
<1> QED BY <1>1, <1>2, <1>3 DEF s, svckudp_dupsave

\* A client or the net takes nothing back.
LEMMA ClientKeeps ==
  ASSUME RpcInv, ServerInv, UNCHANGED serverVars, net \subseteq net', torn \subseteq torn'
  PROVE  ServerInv'
BY DEF serverVars, ServerInv, Known, NoAfterYes

\* A message once in the net stays there, and a torn handle torn.
LEMMA ClientSteps ==
  ASSUME NEW p, \/ \E mi \in Mounts, args \in Requests : RfsCall(p, mi, args)
                \/ ClgetWoken(p) \/ BufWoken(p) \/ PutXid(p) \/ SendFails(p)
                \/ EncodeFails(p) \/ Send(p) \/ Receive(p) \/ Timeout(p)
  PROVE  UNCHANGED serverVars /\ net \subseteq net' /\ torn \subseteq torn'
<1>1. \A c, w : clget(p, c, w) => torn \subseteq torn'
  BY DEF clget
<1>2. \A c, ch, w : Retry(p, c, ch, w) => torn \subseteq torn'
  BY DEF Retry, clfree
<1>3. TakeReply(p) => torn \subseteq torn'
  BY <1>2 DEF TakeReply, clfree
<1>4. CASE \/ \E mi \in Mounts, args \in Requests : RfsCall(p, mi, args)
           \/ ClgetWoken(p)
  BY <1>1, <1>4 DEF RfsCall, ClgetWoken
<1>5. CASE BufWoken(p) \/ PutXid(p) \/ Timeout(p) \/ Send(p)
  BY <1>5 DEF BufWoken, PutXid, Timeout, Send
<1>6. CASE SendFails(p) \/ EncodeFails(p)
  BY <1>2, <1>6 DEF SendFails, EncodeFails, clfree
<1>7. CASE Receive(p)
  BY <1>2, <1>3, <1>7 DEF Receive
<1> QED BY <1>4, <1>5, <1>6, <1>7

\* The request that is carried out is noted by the process that is busy with
\* it; the one refused is in no entry of drcache.
LEMMA ServeKeeps ==
  ASSUME OneNfsd, RpcInv, ServerInv, NEW d \in Nfsds, NEW m \in net, Serve(d, m)
  PROVE  ServerInv'
<1> DEFINE v == Possible(m.args) \/ svckudp_dup(m)
<1>1. v \in BOOLEAN
  BY Zenon DEF Possible, svckudp_dup
<1>2. /\ ~nfsd[d].busy /\ m.kind = "call"
      /\ nfsd' = [nfsd EXCEPT ![d] = [busy |-> TRUE, req |-> m, ok |-> v]]
      /\ UNCHANGED <<drcache, forgot, net, torn>>
      /\ did' = did \/ (did' = did \cup {m.xid} /\ v)
      /\ Nfsds = {d} /\ DOMAIN nfsd = Nfsds
  BY DEF Serve, clientVars, OneNfsd, RpcInv, Types
<1>3. ~v => m \notin ToSet(drcache)
  BY DEF svckudp_dup
<1> HIDE DEF v
<1>4. nfsd'[d].busy /\ nfsd'[d].req = m /\ nfsd'[d].ok = v
  BY <1>2
<1>5. \A x \in did \ forgot : \E r \in ToSet(drcache) : r.xid = x
  BY <1>2 DEF ServerInv, Known
<1>6. \A x \in did' \ forgot' : Known(x)'
  BY <1>1, <1>2, <1>4, <1>5 DEF Known
<1>7. NoAfterYes'
  <2> SUFFICES ASSUME ~v, m.xid \in did' \ forgot', m.h \notin torn' PROVE FALSE
    BY <1>2, <1>4 DEF NoAfterYes
  <2>1. PICK r \in ToSet(drcache) : r.xid = m.xid
    BY <1>2, <1>5
  <2>2. m = r
    BY <1>2, <2>1, OneRequest DEF ServerInv
  <2> QED BY <1>3, <2>2
<1> QED BY <1>2, <1>4, <1>6, <1>7 DEF ServerInv

\* What was carried out is entered before the answer leaves, and what gives
\* way in drcache is forgotten.
LEMMA AnswerKeeps ==
  ASSUME OneNfsd, RpcInv, ServerInv, NEW d \in Nfsds, Answer(d)
  PROVE  ServerInv'
<1> DEFINE m == nfsd[d].req
<1>1. /\ nfsd[d].busy /\ m \in net /\ m \in Message /\ m.kind = "call" /\ Nfsds = {d}
      /\ DOMAIN nfsd = Nfsds
  BY DEF Answer, RpcInv, Types, OneNfsd, ServerInv
<1>2. /\ drcache' = IF nfsd[d].ok THEN svckudp_dupsave(m) ELSE drcache
      /\ forgot' = forgot \cup {r.xid : r \in ToSet(drcache) \ ToSet(drcache')}
      /\ net \subseteq net' /\ nfsd' = [nfsd EXCEPT ![d] = IdleNfsd]
      /\ UNCHANGED <<did, torn>>
  BY DEF Answer, clientVars
<1>3. /\ drcache' \in Seq(Message) /\ ToSet(drcache') \subseteq ToSet(drcache) \cup {m}
      /\ nfsd[d].ok => m \in ToSet(drcache')
  BY <1>1, <1>2, Dupsaved DEF ServerInv
<1>4. ~nfsd'[d].busy
  BY <1>1, <1>2 DEF IdleNfsd
<1> HIDE DEF m
<1>5. ASSUME NEW x \in did' \ forgot' PROVE Known(x)'
  <2>1. x \in did \ forgot
    BY <1>2
  <2>2. CASE \E r \in ToSet(drcache) : r.xid = x
    BY <1>2, <2>2 DEF Known
  <2>3. CASE nfsd[d].ok /\ m.xid = x
    BY <1>3, <2>3 DEF Known
  <2> QED BY <1>1, <2>1, <2>2, <2>3 DEF ServerInv, Known, m
<1> QED BY <1>1, <1>2, <1>3, <1>4, <1>5 DEF ServerInv, NoAfterYes

\* Every step keeps what the server remembers.
LEMMA ServerKeeps ==
  ASSUME OneNfsd PROVE RpcInv /\ ServerInv /\ [RpcNext]_rpcVars => ServerInv'
<1> SUFFICES ASSUME RpcInv, ServerInv, [RpcNext]_rpcVars PROVE ServerInv'
  OBVIOUS
<1>1. CASE \/ \E p \in Procs, mi \in Mounts, args \in Requests : RfsCall(p, mi, args)
           \/ \E p \in Procs : \/ ClgetWoken(p) \/ BufWoken(p) \/ PutXid(p) \/ SendFails(p)
                               \/ EncodeFails(p) \/ Send(p) \/ Receive(p) \/ Timeout(p)
  BY <1>1, ClientSteps, ClientKeeps
<1>2. ASSUME NEW h \in Handles, Deliver(h) \/ Transmit(h) PROVE ServerInv'
  <2>1. UNCHANGED serverVars /\ net \subseteq net' /\ torn \subseteq torn'
    BY <1>2 DEF Deliver, Transmit
  <2> QED BY <2>1, ClientKeeps
<1>3. CASE \E d \in Nfsds : Answer(d) \/ \E m \in net : Serve(d, m)
  BY <1>3, ServeKeeps, AnswerKeeps
<1>4. CASE UNCHANGED rpcVars
  BY <1>4, ClientKeeps DEF rpcVars, clientVars
<1> QED
  BY <1>1, <1>2, <1>3, <1>4 DEF RpcNext

\* A server of one process does not answer no to a request it has carried out
\* and not forgotten, however often the net repeats it (rfs_remove, rfs_mkdir,
\* svckudp_dup, svckudp_dupsave).
THEOREM DoneIsNotDenied ==
  ASSUME OneNfsd PROVE RpcSpec => []NoAfterYes
<1>1. RpcInit => ServerInv
  <2> SUFFICES ASSUME RpcInit PROVE ServerInv
    OBVIOUS
  <2>1. drcache \in Seq(Message) /\ ToSet(drcache) = {}
    BY DEF RpcInit, ToSet
  <2>2. \A d \in Nfsds : ~nfsd[d].busy
    BY DEF RpcInit, IdleNfsd
  <2>3. did = {}
    BY DEF RpcInit
  <2> QED BY <2>1, <2>2, <2>3 DEF ServerInv, NoAfterYes
<1>2. RpcInv /\ ServerInv /\ [RpcNext]_rpcVars => ServerInv'
  BY ServerKeeps
<1>3. ServerInv => NoAfterYes
  BY DEF ServerInv
<1> QED
  BY <1>1, <1>2, <1>3, RpcInitially, RpcStep, PTL DEF RpcSpec
=============================================================================
