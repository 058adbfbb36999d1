-------------------------------- MODULE Rpc --------------------------------
(***************************************************************************)
(* Remote procedure calls of the NFS client over UDP: rfscall and its      *)
(* table of handles (NFS/sys/nfs_subr.c), a call on a handle               *)
(* (RPC/sys/clnt_kudp.c), the server's cache of requests it has answered   *)
(* (RPC/sys/svc_kudp.c), and the two requests that cannot be repeated of   *)
(* the server that uses it (NET/sys/nfs_server.c).  What is once in the    *)
(* net stays there: messages are lost, duplicated, delayed and reordered.  *)
(* CKU_BUSY is left out: chtable gives a handle to one process (OneCaller).*)
(***************************************************************************)
EXTENDS Kernel

CONSTANTS
  MAXCLIENTS,  \* handles of the client
  Mounts,      \* mounts: hard (mi_hard), retrans (mi_retrans)
  Requests,    \* requests: an operation ("remove", "mkdir") and a name
  Nfsds,       \* processes of the server
  MAXDUPREQS,  \* requests the server remembers
  MaxXid,      \* bound: transaction ids
  MaxCalls,    \* bound: processes in rfscall at a time
  MaxRcv       \* bound: replies in a socket's buffer

ASSUME RpcAssumption ==
  /\ MAXCLIENTS \in Nat \ {0} /\ MAXDUPREQS \in Nat \ {0}
  /\ MaxXid \in Nat /\ MaxCalls \in Nat /\ MaxRcv \in Nat \ {0}
  /\ \A mi \in Mounts : mi.hard \in BOOLEAN /\ mi.retrans \in Nat \ {0}
  /\ \A a \in Requests : a.op \in {"remove", "mkdir"}

VARIABLES
  chtable,     \* of each handle: ch_inuse, the flags CKU_BUFBUSY,
               \* CKU_BUFWANTED and CKU_TIMEDOUT, the xid and the arguments in
               \* cku_outbuf, how often the interface holds that buffer, and
               \* the replies in the socket
  clwanted,    \* somebody sleeps on chtable
  clntkudpxid, \* the next transaction id
  calls,       \* processes in rfscall, and where
  net,         \* calls and replies sent so far
  names,       \* names in the server's directory
  drcache,     \* the requests the server remembers, oldest first
  nfsd,        \* of each process of the server: the request and its answer
  did,         \* history: xids of requests that changed the directory
  torn,        \* history: handles taken again while the interface held the buffer
  forgot       \* history: xids that left drcache

clientVars == <<chtable, clwanted, clntkudpxid, calls, torn>>
serverVars == <<names, drcache, nfsd, did, forgot>>
rpcVars == <<clientVars, serverVars, net>>

Handles == 1 .. MAXCLIENTS
RECVTRIES == 2
NoRequest == [op |-> "none"]
Chtable == <<"chtable">>  \* the addresses slept on
Buf(h) == <<h, "buf">>
Rcv(h) == <<h, "rcv">>

Call(h, xid, args) == [kind |-> "call", h |-> h, xid |-> xid, args |-> args]
Reply(m, ok) == [kind |-> "reply", h |-> m.h, xid |-> m.xid, args |-> m.args, ok |-> ok]
Replies(h) == {m \in net : m.kind = "reply" /\ m.h = h}
-----------------------------------------------------------------------------
\* The interface or the process frees the mbuf over the buffer of h.
buffree(ch, h) == [ch EXCEPT ![h].bufbusy = FALSE, ![h].bufwanted = FALSE]

\* Faulty: the process that waits for the buffer is left to its timer.
FreedQuiet(ch, w, h) == w

\* It wakes the process that waits for it.
Freed(ch, w, h) == IF ch[h].bufwanted THEN wakeup(w, {Buf(h)}) ELSE w

\* call_again: wait for the buffer, then take it.
CallAgain(p, c, ch, w) ==
  IF ch[c.h].bufbusy
  THEN /\ chtable' = [ch EXCEPT ![c.h].bufwanted = TRUE]
       /\ calls' = sleep(w, p, [c EXCEPT !.at = "buf", !.chan = Buf(c.h)])
  ELSE /\ chtable' = [ch EXCEPT ![c.h].bufbusy = TRUE]
       /\ calls' = sleep(w, p, [c EXCEPT !.at = "mbuf", !.chan = Run])

\* clntkudp_callit: one xid for all transmissions of the call.
Callit(p, c, ch, w) ==
  /\ clntkudpxid < MaxXid
  /\ clntkudpxid' = clntkudpxid + 1
  /\ CallAgain(p, [c EXCEPT !.xid = clntkudpxid, !.stries = c.mi.retrans], ch, w)

\* Faulty: the handle is not marked.
clntkudp_initFree(h) ==
  [chtable EXCEPT ![h].bufbusy = FALSE, ![h].bufwanted = FALSE, ![h].timedout = FALSE]

\* clntkudp_init, and ch_inuse: the flags are reset, whatever the interface still holds.
clntkudp_init(h) ==
  [chtable EXCEPT ![h].inuse = TRUE, ![h].bufbusy = FALSE, ![h].bufwanted = FALSE,
                  ![h].timedout = FALSE]

clget(p, c, w) ==
  LET free == {h \in Handles : ~chtable[h].inuse}
  IN IF free = {}
     THEN /\ clwanted' = TRUE
          /\ calls' = sleep(w, p, [c EXCEPT !.at = "clget", !.chan = Chtable])
          /\ UNCHANGED <<chtable, clntkudpxid, torn>>
     ELSE \E h \in free :
            /\ \A k \in free : h <= k
            /\ torn' = torn \cup {k \in {h} : chtable[k].held > 0}
            /\ Callit(p, [c EXCEPT !.h = h], clntkudp_init(h), w)
            /\ UNCHANGED clwanted

\* The rest of rfscall: the process returns.
clfree(p, h, ch, w) ==
  /\ chtable' = [ch EXCEPT ![h].inuse = FALSE]
  /\ clwanted' = FALSE
  /\ calls' = wakeup(unsleep(w, p), IF clwanted THEN {Chtable} ELSE {})
  /\ UNCHANGED <<clntkudpxid, torn>>

\* A transmission failed: the same call again, or, of a hard mount, a new one.
Retry(p, c, ch, w) ==
  \/ /\ c.stries > 1
     /\ CallAgain(p, [c EXCEPT !.stries = @ - 1], ch, w)
     /\ UNCHANGED <<clwanted, clntkudpxid, torn>>
  \/ /\ c.stries <= 1 /\ c.mi.hard
     /\ Callit(p, c, ch, w) /\ UNCHANGED <<clwanted, torn>>
  \/ c.stries <= 1 /\ ~c.mi.hard /\ clfree(p, c.h, ch, w)
-----------------------------------------------------------------------------
RfsCall(p, mi, args) ==
  /\ p \notin DOMAIN calls /\ Cardinality(DOMAIN calls) < MaxCalls
  /\ clget(p, [at |-> "clget", chan |-> Run, mi |-> mi, args |-> args, h |-> 0, xid |-> 0,
               stries |-> 0, rtries |-> 0], calls)
  /\ UNCHANGED <<net, serverVars>>

At(p, where) == p \in DOMAIN calls /\ calls[p].at = where /\ calls[p].chan = Run

ClgetWoken(p) ==
  At(p, "clget") /\ clget(p, calls[p], calls) /\ UNCHANGED <<net, serverVars>>

\* Woken by buffree or after a second: what came in meanwhile is flushed.
BufWoken(p) ==
  /\ p \in DOMAIN calls /\ calls[p].at = "buf"
  /\ CallAgain(p, calls[p], [chtable EXCEPT ![calls[p].h].rcv = <<>>], calls)
  /\ UNCHANGED <<clwanted, clntkudpxid, torn, net, serverVars>>

\* mclgetx may have slept; the xid goes into the buffer first.
PutXid(p) ==
  /\ At(p, "mbuf")
  /\ chtable' = [chtable EXCEPT ![calls[p].h].xid = calls[p].xid]
  /\ calls' = [calls EXCEPT ![p].at = "encode"]
  /\ UNCHANGED <<clwanted, clntkudpxid, torn, net, serverVars>>

\* No mbuf, or ku_sendto_mbuf failed: wait for lbolt, then again.
SendFails(p) ==
  /\ At(p, "mbuf") \/ At(p, "encode")
  /\ LET h == calls[p].h
     IN Retry(p, calls[p], buffree(chtable, h), Freed(chtable, calls, h))
  /\ UNCHANGED <<net, serverVars>>

\* CANTENCODEARGS is not tried again.
EncodeFails(p) ==
  /\ At(p, "encode")
  /\ LET h == calls[p].h
     IN clfree(p, h, buffree(chtable, h), Freed(chtable, calls, h))
  /\ UNCHANGED <<net, serverVars>>

\* Wait for input unless there is some; the timer runs while it waits.
Listen(p, c, ch, w) ==
  /\ chtable' = ch
  /\ calls' = sleep(w, p, IF ch[c.h].rcv = <<>>
                          THEN [c EXCEPT !.at = "recv", !.chan = Rcv(c.h)]
                          ELSE [c EXCEPT !.at = "ready", !.chan = Run])

\* The arguments are encoded; the interface sends the mbuf, or queues it.
Send(p) ==
  /\ At(p, "encode")
  /\ LET c == [calls[p] EXCEPT !.rtries = RECVTRIES]
         ch == [chtable EXCEPT ![c.h].args = c.args]
     IN \/ /\ net' = net \cup {Call(c.h, ch[c.h].xid, c.args)}
           /\ Listen(p, c, buffree(ch, c.h), Freed(ch, calls, c.h))
        \/ /\ net' = net
           /\ Listen(p, c, [ch EXCEPT ![c.h].held = @ + 1], calls)
  /\ UNCHANGED <<clwanted, clntkudpxid, torn, serverVars>>

\* Faulty: any reply will do.
AnyReply(h, m) == m.h = h

\* The reply is to the xid in the buffer.
Matches(h, m) == m.xid = chtable[h].xid

\* The reply p takes, if it is the right one.
Accepts(p, m) == Matches(calls[p].h, m)

\* p takes the first reply of its socket, or so_error or a runt uses up a try.
TakeReply(p) ==
  LET c == calls[p]
      m == Head(chtable[c.h].rcv)
      Without == [chtable EXCEPT ![c.h].rcv = Tail(@)]
      Next1(ch) == IF c.rtries > 1
                   THEN /\ Listen(p, [c EXCEPT !.rtries = @ - 1], ch, calls)
                        /\ UNCHANGED <<clwanted, clntkudpxid, torn>>
                   ELSE Retry(p, c, ch, calls)
  IN \/ Accepts(p, m) /\ clfree(p, c.h, [chtable EXCEPT ![c.h].rcv = <<>>], calls)
     \/ ~Accepts(p, m) /\ Next1(Without)
     \/ Next1(chtable)

\* It runs after a sleep: a timeout counts even if a reply is there.
Receive(p) ==
  /\ \/ At(p, "ready") /\ TakeReply(p)
     \/ /\ At(p, "recv")
        /\ LET c == calls[p]
           IN \/ /\ chtable[c.h].timedout
                 /\ Retry(p, c, [chtable EXCEPT ![c.h].timedout = FALSE], calls)
              \/ /\ ~chtable[c.h].timedout /\ chtable[c.h].rcv # <<>>
                 /\ TakeReply(p)
  /\ UNCHANGED <<net, serverVars>>

\* ckuwakeup: also when p has been woken and has not run yet.
Timeout(p) ==
  /\ p \in DOMAIN calls /\ calls[p].at = "recv" /\ ~chtable[calls[p].h].timedout
  /\ chtable' = [chtable EXCEPT ![calls[p].h].timedout = TRUE]
  /\ calls' = wakeup(calls, {Rcv(calls[p].h)})
  /\ UNCHANGED <<clwanted, clntkudpxid, torn, net, serverVars>>

\* A reply comes in.
Deliver(h) ==
  /\ Len(chtable[h].rcv) < MaxRcv
  /\ \E m \in Replies(h) : chtable' = [chtable EXCEPT ![h].rcv = Append(@, m)]
  /\ calls' = wakeup(calls, {Rcv(h)})
  /\ UNCHANGED <<clwanted, clntkudpxid, torn, net, serverVars>>

\* The interface sends a buffer it holds, with what is in it by now.
Transmit(h) ==
  /\ chtable[h].held > 0
  /\ net' = net \cup {Call(h, chtable[h].xid, chtable[h].args)}
  /\ chtable' = buffree([chtable EXCEPT ![h].held = @ - 1], h)
  /\ calls' = Freed(chtable, calls, h)
  /\ UNCHANGED <<clwanted, clntkudpxid, torn, serverVars>>
-----------------------------------------------------------------------------
IdleNfsd == [busy |-> FALSE]

\* The hash chain of the xid is searched for the same request.
svckudp_dup(m) == m \in ToSet(drcache)

\* VOP_REMOVE and VOP_MKDIR.
Possible(a) == (a.op = "remove") = (a.name \in names)

\* rfs_remove, rfs_mkdir: done, or done before.
Serve(d, m) ==
  /\ ~nfsd[d].busy /\ m \in net /\ m.kind = "call"
  /\ nfsd' = [nfsd EXCEPT ![d] = [busy |-> TRUE, req |-> m,
                                  ok |-> Possible(m.args) \/ svckudp_dup(m)]]
  /\ IF Possible(m.args)
     THEN /\ names' = IF m.args.op = "remove" THEN names \ {m.args.name}
                      ELSE names \cup {m.args.name}
          /\ did' = did \cup {m.xid}
     ELSE UNCHANGED <<names, did>>
  /\ UNCHANGED <<drcache, forgot, net, clientVars>>

\* Faulty: once the table is full nothing is remembered any more.
dupsaveFirst(m) == IF Len(drcache) < MAXDUPREQS THEN Append(drcache, m) ELSE drcache

\* svckudp_dupsave: the oldest entry gives way, even to a second entry for m.
svckudp_dupsave(m) ==
  Append(IF Len(drcache) < MAXDUPREQS THEN drcache ELSE Tail(drcache), m)

\* VN_RELE of the directory may have slept: svckudp_dupsave, then the reply.
Answer(d) ==
  /\ nfsd[d].busy
  /\ LET m == nfsd[d].req
     IN /\ drcache' = IF nfsd[d].ok THEN svckudp_dupsave(m) ELSE drcache
        /\ forgot' = forgot \cup {r.xid : r \in ToSet(drcache) \ ToSet(drcache')}
        /\ net' = net \cup {Reply(m, nfsd[d].ok)}
  /\ nfsd' = [nfsd EXCEPT ![d] = IdleNfsd]
  /\ UNCHANGED <<names, did, clientVars>>
-----------------------------------------------------------------------------
RpcInit ==
  /\ chtable = [h \in Handles |->
                  [inuse |-> FALSE, bufbusy |-> FALSE, bufwanted |-> FALSE,
                   timedout |-> FALSE, held |-> 0, xid |-> -1, args |-> NoRequest,
                   rcv |-> <<>>]]
  /\ clwanted = FALSE /\ clntkudpxid = 0 /\ calls = <<>> /\ torn = {}
  /\ net = {} /\ names = {a.name : a \in Requests} /\ drcache = <<>>
  /\ nfsd = [d \in Nfsds |-> IdleNfsd] /\ did = {} /\ forgot = {}

RpcNext ==
  \/ \E p \in Procs, mi \in Mounts, args \in Requests : RfsCall(p, mi, args)
  \/ \E p \in Procs : \/ ClgetWoken(p) \/ BufWoken(p) \/ PutXid(p) \/ SendFails(p)
                      \/ EncodeFails(p) \/ Send(p) \/ Receive(p) \/ Timeout(p)
  \/ \E h \in Handles : Deliver(h) \/ Transmit(h)
  \/ \E d \in Nfsds : Answer(d) \/ \E m \in net : Serve(d, m)

RpcSpec == RpcInit /\ [][RpcNext]_rpcVars
-----------------------------------------------------------------------------
\* CKU_BUSY is not needed: a handle in use has one process (clget, clfree),
\* and an interface that holds its buffer has it once, marked busy, unless
\* clntkudp_init has reset the mark.
OneCaller ==
  /\ \A h \in Handles : chtable[h].inuse = (\E p \in DOMAIN calls : calls[p].h = h)
  /\ \A p, q \in DOMAIN calls : calls[p].h = calls[q].h /\ calls[p].h # 0 => p = q
  /\ \A h \in Handles \ torn : chtable[h].held > 0 => chtable[h].bufbusy /\ chtable[h].held = 1

\* A reply accepted for the xid in the buffer answers the very call of the
\* process, whatever the net still brings from earlier calls on the handle,
\* and one xid never stands for two calls.
OwnReply ==
  /\ \A p \in DOMAIN calls : calls[p].at \in {"recv", "ready"} /\ calls[p].h \notin torn =>
       \A m \in Replies(calls[p].h) : Accepts(p, m) =>
         m.args = calls[p].args /\ m.xid = calls[p].xid
  /\ \A m, n \in net : m.xid = n.xid /\ m.h \notin torn => m.args = n.args

\* A server of one process does not answer no to a request it has carried
\* out and not forgotten, as often as the request is repeated.
NoAfterYes ==
  \A d \in Nfsds : nfsd[d].busy /\ ~nfsd[d].ok =>
    nfsd[d].req.xid \notin did \ forgot \/ nfsd[d].req.h \in torn

\* Nobody sleeps on what is there already, or without the mark that gets
\* him woken.
RpcSleeper ==
  \A p \in Asleep(calls) :
    LET c == calls[p]
    IN CASE c.at = "clget" -> clwanted /\ \A h \in Handles : chtable[h].inuse
         [] c.at = "buf" -> chtable[c.h].bufbusy /\ chtable[c.h].bufwanted
         [] c.at = "recv" -> chtable[c.h].rcv = <<>> /\ ~chtable[c.h].timedout
=============================================================================
