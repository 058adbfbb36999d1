---------------------------- MODULE StreamProofs ----------------------------
(***************************************************************************)
(* Theorems about Streams, for any processes, marks and messages: the      *)
(* output never comes to rest with something left to do, and every         *)
(* character is printed, flushed or on its way, once and in order.         *)
(***************************************************************************)
EXTENDS Streams, FiniteSetTheorems, SequenceTheorems, WellFoundedInduction, TLAPS

Message == [type : {"data"}, c : Seq(Nat)] \cup {Delay}
Queue == [msgs : Seq(Message), full : BOOLEAN, wantr : BOOLEAN, wantw : BOOLEAN]
Qname == {"head", "line", "ttx"}
Store == [queue : [{"line", "ttx"} -> Queue], run : Seq(Qname)]
At == {"", "get", "canput", "full", "send", "back", "got", "output", "print"}
Procedure == [q : Qname \cup {"none"}, at : At, m : Seq(Nat)]
On(S, q) == \E i \in 1 .. Len(S.run) : S.run[i] = q

\* What the scheduling looks at of the history; printed and flushed are in CharsInv.
Counts(c) ==
  /\ DOMAIN c = {"left", "put", "printed", "flushed", "reset"} /\ c = [k \in DOMAIN c |-> c[k]]
  /\ c.left \in Nat /\ c.put \in Nat /\ c.reset \in BOOLEAN

Types ==
  /\ Now \in Store
  /\ queueflag \in BOOLEAN
  /\ srv \in Procedure
  /\ tty \in [xm : Seq(Nat), stop : BOOLEAN, delay : BOOLEAN]
  /\ callouts \in [line : Nat, vain : Nat]
  /\ \A p \in DOMAIN writers : writers[p] \in [chan : {Run, Wrq}, n : Nat \ {0}, may : BOOLEAN]
  /\ WSLEEP \in BOOLEAN
  /\ Counts(chars)

\* What will have the driver's, the line's, or the stream head's service
\* procedure run again.
TtxBusy == On(Now, "ttx") \/ srv.q = "ttx" \/ tty.delay \/ tty.stop
LineBusy == On(Now, "line") \/ srv.q = "line" \/ callouts.line > 0 \/ queue["ttx"].wantw
HeadBusy ==
  \/ On(Now, "head") \/ srv.q = "head"
  \/ queue["line"].wantw /\ (queue["line"].msgs # <<>> \/ srv.q = "line")

\* Whoever has something left to do, or is waited for, is busy.
Scheduled ==
  /\ srv # NoSrv => queueflag
  /\ \A q \in {"line", "ttx"} : queue[q].full => queue[q].msgs # <<>>
  /\ (\/ queue["ttx"].msgs # <<>> \/ tty.xm # <<>> \/ ~queue["ttx"].wantr
      \/ queue["ttx"].wantw \/ In("line", "full")) => TtxBusy
  /\ (queue["line"].msgs # <<>> \/ ~queue["line"].wantr) => LineBusy
  /\ In("line", "back") => callouts.line > 0 \/ queue["ttx"].wantw
  /\ Asleep(writers) # {} => chars.reset \/ (WSLEEP /\ HeadBusy)

StreamInv == Types /\ Scheduled
-----------------------------------------------------------------------------
\* What is on the queues: characters, or a delay without any.
LEMMA Characters ==
  ASSUME NEW m \in Message
  PROVE  m.c \in Seq(Nat) /\ (IsDelay(m) => m.c = <<>>)
<1>1. <<>> \in Seq(Nat)
  OBVIOUS
<1>2. CASE m = Delay
  BY <1>1, <1>2 DEF Delay
<1>3. CASE m \in [type : {"data"}, c : Seq(Nat)]
  BY <1>3 DEF IsDelay
<1> QED
  BY <1>2, <1>3 DEF Message

\* What the operations of stream.c do to the marks and to the run list.
LEMMA Enabled ==
  ASSUME NEW S \in Store, NEW q \in Qname, NEW on \in BOOLEAN
  PROVE  /\ qenable(S, q, on) \in Store
         /\ qenable(S, q, on).queue = S.queue
         /\ \A x \in Qname : On(qenable(S, q, on), x) <=> On(S, x) \/ (x = q /\ on)
<1> DEFINE T == qenable(S, q, on)
<1>1. q \in ToSet(S.run) <=> On(S, q)
  BY DEF ToSet, On, Store
<1>2. CASE on /\ ~On(S, q)
  <2>1. T = [S EXCEPT !.run = Append(S.run, q)]
    BY <1>1, <1>2 DEF qenable
  <2>2. T.run = Append(S.run, q) /\ T.queue = S.queue /\ T \in Store
    BY <2>1 DEF Store
  <2>3. /\ Len(T.run) = Len(S.run) + 1
        /\ \A i \in 1 .. Len(S.run) : T.run[i] = S.run[i]
        /\ T.run[Len(S.run) + 1] = q
    BY <2>2 DEF Store
  <2>4. Len(S.run) \in Nat
    BY DEF Store
  <2>5. ASSUME NEW x \in Qname PROVE On(T, x) <=> On(S, x) \/ x = q
    BY SMTT(30), <2>3, <2>4 DEF On
  <2> QED
    BY <1>2, <2>2, <2>5
<1>3. CASE ~(on /\ ~On(S, q))
  <2>1. T = S
    BY <1>1, <1>3 DEF qenable
  <2> QED
    BY <2>1, <1>3
<1> QED
  BY <1>2, <1>3

\* Every other queue is as before.
Elsewhere(S, T, q) == \A r \in {"line", "ttx"} \ {q} : T.queue[r] = S.queue[r]

\* T is S with something on queue q.
Puts(S, T, q) ==
  /\ T \in Store /\ Elsewhere(S, T, q)
  /\ T.queue[q].msgs # <<>>
  /\ T.queue[q].wantr = S.queue[q].wantr /\ T.queue[q].wantw = S.queue[q].wantw
  /\ \A x \in Qname : On(T, x) <=> On(S, x) \/ (x = q /\ S.queue[q].wantr)

\* Whatever is put on a queue, at either end, its server is enabled if it waits.
LEMMA HoldsPuts ==
  ASSUME NEW S \in Store, NEW q \in {"line", "ttx"}, NEW msgs \in Seq(Message), msgs # <<>>
  PROVE  Puts(S, Holds(S, q, msgs), q) /\ Holds(S, q, msgs).queue[q].msgs = msgs
<1> DEFINE full == S.queue[q].full \/ Len(msgs) >= HIWAT
           Q == [S.queue[q] EXCEPT !.msgs = msgs, !.full = full]
           R == [S EXCEPT !.queue = [S.queue EXCEPT ![q] = Q]]
<1>1. S.queue[q] \in Queue /\ S.queue \in [{"line", "ttx"} -> Queue] /\ q \in Qname
  BY DEF Store, Qname
<1>2. full \in BOOLEAN
  BY <1>1 DEF Queue
<1>3. /\ Q \in Queue /\ Q.msgs = msgs
      /\ Q.wantr = S.queue[q].wantr /\ Q.wantw = S.queue[q].wantw
  BY <1>1, <1>2 DEF Queue
<1>4. R \in Store /\ R.run = S.run /\ R.queue = [S.queue EXCEPT ![q] = Q]
  BY <1>1, <1>3 DEF Store
<1>5. Holds(S, q, msgs) = qenable(R, q, S.queue[q].wantr)
  BY ZenonT(60), <1>1 DEF Holds, Store, Queue
<1>6. S.queue[q].wantr \in BOOLEAN
  BY <1>1 DEF Queue
<1> HIDE DEF Q, R
<1>7. \A x \in Qname : On(R, x) <=> On(S, x)
  BY <1>4 DEF On
<1>8. R.queue[q] = Q /\ Elsewhere(S, R, q)
  BY <1>1, <1>4 DEF Elsewhere
<1>9. Holds(S, q, msgs).queue = R.queue
  BY <1>1, <1>4, <1>5, <1>6, Enabled
<1>10. Holds(S, q, msgs).queue[q].msgs = msgs
  BY <1>3, <1>8, <1>9
<1>11. Puts(S, Holds(S, q, msgs), q)
  BY <1>1, <1>3, <1>4, <1>5, <1>6, <1>7, <1>8, Enabled DEF Elsewhere, Puts
<1> QED
  BY <1>10, <1>11

\* putq and putbq are such puts.
LEMMA PutPuts ==
  ASSUME NEW S \in Store, NEW q \in {"line", "ttx"}, NEW m \in Message
  PROVE  Puts(S, putq(S, q, m), q) /\ Puts(S, putbq(S, q, m), q)
<1>1. S.queue[q].msgs \in Seq(Message)
  BY DEF Store, Queue
<1>2. Append(S.queue[q].msgs, m) \in Seq(Message) /\ Append(S.queue[q].msgs, m) # <<>>
  BY <1>1, AppendProperties
<1>3. <<m>> \o S.queue[q].msgs \in Seq(Message)
  BY <1>1
<1>4. <<m>> \o S.queue[q].msgs # <<>>
  BY <1>1
<1>5. putq(S, q, m) = Holds(S, q, Append(S.queue[q].msgs, m))
  BY DEF putq
<1>6. putbq(S, q, m) = Holds(S, q, <<m>> \o S.queue[q].msgs)
  BY DEF putbq
<1>7. Puts(S, Holds(S, q, Append(S.queue[q].msgs, m)), q)
  BY <1>2, HoldsPuts
<1>8. Puts(S, Holds(S, q, <<m>> \o S.queue[q].msgs), q)
  BY <1>3, <1>4, HoldsPuts
<1> QED
  BY <1>5, <1>6, <1>7, <1>8

\* T is S after getq(q).
Gets(S, T, q) ==
  /\ T \in Store /\ Elsewhere(S, T, q)
  /\ S.queue[q].msgs = <<>> => T.queue[q].msgs = <<>> /\ T.queue[q].wantr /\ ~T.queue[q].wantw
  /\ T.queue[q].full => S.queue[q].full /\ (S.queue[q].msgs = <<>> \/ T.queue[q].msgs # <<>>)
  /\ T.queue[q].wantw => S.queue[q].wantw /\ T.queue[q].msgs # <<>>
  /\ \A x \in Qname :
       On(T, x) <=> (On(S, x) \/ (x = Back(q) /\ S.queue[q].wantw /\ ~T.queue[q].wantw))

\* getq lowers the flag of whoever waits for room only when it enables it.
LEMMA GetqGets ==
  ASSUME NEW S \in Store, NEW q \in {"line", "ttx"}
  PROVE  /\ Gets(S, getq(S, q), q)
         /\ getq(S, q).queue[q].msgs =
              IF S.queue[q].msgs = <<>> THEN <<>> ELSE Tail(S.queue[q].msgs)
<1> DEFINE Q == S.queue[q]
           left == IF Q.msgs = <<>> THEN <<>> ELSE Tail(Q.msgs)
           low == Len(left) <= HIWAT
           N == [msgs |-> left, wantr |-> Q.msgs = <<>>, wantw |-> Q.wantw /\ ~low,
                 full |-> Q.full /\ (Q.msgs = <<>> \/ Len(left) >= HIWAT)]
           R == [S EXCEPT !.queue = [S.queue EXCEPT ![q] = N]]
<1>1. /\ Q \in Queue /\ S.queue \in [{"line", "ttx"} -> Queue]
      /\ Back(q) \in Qname /\ HIWAT \in Nat /\ HIWAT > 0
  BY StreamAssumption DEF Store, Qname, Back, StreamAssumption
<1>2. left \in Seq(Message) /\ Len(left) \in Nat
  BY <1>1 DEF Queue
<1>3. N \in Queue
  BY <1>1, <1>2 DEF Queue
<1>4. R \in Store /\ R.run = S.run /\ R.queue = [S.queue EXCEPT ![q] = N]
  BY <1>1, <1>3 DEF Store
<1>5. getq(S, q) = qenable(R, Back(q), Q.wantw /\ low)
  BY <1>1 DEF getq, Store
<1>6. (Q.wantw /\ low) \in BOOLEAN
  BY <1>1 DEF Queue
<1>7. /\ N.msgs = left
      /\ N.wantr <=> Q.msgs = <<>>
      /\ N.full <=> Q.full /\ (Q.msgs = <<>> \/ Len(left) >= HIWAT)
      /\ N.wantw <=> Q.wantw /\ ~low
  OBVIOUS
<1>8. Len(<<>>) = 0
  OBVIOUS
<1>11. /\ Q.msgs = <<>> => left = <<>>
       /\ left = <<>> => Len(left) = 0
  BY <1>8
<1>13. low <=> Len(left) <= HIWAT
  OBVIOUS
<1>12. /\ Q.msgs = <<>> => left = <<>> /\ low
       /\ Len(left) >= HIWAT => left # <<>>
       /\ ~low => left # <<>>
  <2> HIDE DEF left, low
  <2> QED BY <1>1, <1>2, <1>11, <1>13
<1>9. (\A x \in Qname : On(R, x) <=> On(S, x)) /\ R.queue[q] = N /\ Elsewhere(S, R, q)
  BY <1>1, <1>4 DEF On, Elsewhere
<1> DEFINE T == qenable(R, Back(q), Q.wantw /\ low)
<1> HIDE DEF N, R, left, low
<1>10. /\ T \in Store /\ T.queue = R.queue
       /\ \A x \in Qname : On(T, x) <=> On(R, x) \/ (x = Back(q) /\ Q.wantw /\ low)
  BY <1>1, <1>4, <1>6, Enabled
<1>14. Gets(S, getq(S, q), q)
  BY <1>1, <1>5, <1>7, <1>12, <1>9, <1>10 DEF Gets, Elsewhere
<1>15. getq(S, q).queue[q].msgs = left
  BY <1>5, <1>7, <1>9, <1>10
<1> QED
  BY <1>14, <1>15 DEF left

\* T is S after flushq(q, 0).
Flushes(S, T, q) ==
  /\ T \in Store /\ Elsewhere(S, T, q)
  /\ T.queue[q].wantr = S.queue[q].wantr /\ T.queue[q].wantw = S.queue[q].wantw
  /\ T.queue[q].full => T.queue[q].msgs # <<>>
  /\ \A x \in Qname : On(S, x) => On(T, x)
  /\ S.queue[q].wantw => On(T, Back(q)) \/ T.queue[q].msgs # <<>>
  /\ S.queue[q].wantr /\ T.queue[q].msgs # <<>> => On(T, q)

\* flushq leaves nothing unscheduled: a queue that was wanted is enabled, and
\* what it keeps is served.
LEMMA FlushqFlushes ==
  ASSUME NEW S \in Store, NEW q \in {"line", "ttx"}
  PROVE  /\ Flushes(S, flushq(S, q), q)
         /\ \A i \in 1 .. Len(flushq(S, q).queue[q].msgs) :
              flushq(S, q).queue[q].msgs[i] = Delay
<1> DEFINE Q == S.queue[q]
           delays == {j \in DOMAIN Q.msgs : IsDelay(Q.msgs[j])}
           kept == [i \in 1 .. Cardinality(delays) |-> Delay]
           full == Len(kept) >= HIWAT
           N == [Q EXCEPT !.msgs = kept, !.full = full]
           R == [S EXCEPT !.queue = [S.queue EXCEPT ![q] = N]]
           again == Q.wantr /\ kept # <<>>
           low == Q.wantw /\ Len(kept) <= HIWAT
           T == qenable(R, q, again)
           U == qenable(T, Back(q), low)
<1>1. /\ Q \in Queue /\ S.queue \in [{"line", "ttx"} -> Queue]
      /\ q \in Qname /\ Back(q) \in Qname /\ HIWAT \in Nat /\ HIWAT > 0
  BY StreamAssumption DEF Store, Qname, Back, StreamAssumption
<1>2. Cardinality(delays) \in Nat
  <2>1. Len(Q.msgs) \in Nat /\ DOMAIN Q.msgs = 1 .. Len(Q.msgs)
    BY <1>1 DEF Queue
  <2>2. IsFiniteSet(1 .. Len(Q.msgs))
    BY <2>1, FS_Interval
  <2>3. IsFiniteSet(delays)
    BY <2>1, <2>2, FS_Subset
  <2> QED
    BY <2>3, FS_CardinalityType
<1>3. Delay \in Message
  BY DEF Delay, Message
<1>4. kept \in Seq(Message) /\ Len(kept) = Cardinality(delays) /\ Len(kept) \in Nat
  <2> HIDE DEF delays
  <2> QED BY <1>2, <1>3
<1>5. kept = <<>> => Len(kept) = 0
  <2> HIDE DEF kept
  <2> QED OBVIOUS
<1>17. \A i \in 1 .. Len(kept) : kept[i] = Delay
  <2> HIDE DEF delays
  <2> QED BY <1>4
<1>16. full \in BOOLEAN
  BY <1>1, <1>4
<1>6. N \in Queue /\ N.msgs = kept /\ N.wantr = Q.wantr /\ N.wantw = Q.wantw /\ N.full = full
  <2> HIDE DEF kept, full
  <2> QED BY <1>1, <1>4, <1>16 DEF Queue
<1>7. flushq(S, q) = U
  BY <1>1 DEF flushq, Store, Queue
<1>8. again \in BOOLEAN /\ low \in BOOLEAN
  BY <1>1 DEF Queue
<1> HIDE DEF kept, N
<1>9. R \in Store /\ R.run = S.run /\ R.queue = [S.queue EXCEPT ![q] = N]
  BY <1>1, <1>6 DEF Store
<1>10. (\A x \in Qname : On(R, x) <=> On(S, x)) /\ R.queue[q] = N /\ Elsewhere(S, R, q)
  BY <1>1, <1>9 DEF On, Elsewhere
<1> HIDE DEF R, again, low
<1>11. /\ T \in Store /\ T.queue = R.queue
       /\ \A x \in Qname : On(T, x) <=> On(R, x) \/ (x = q /\ again)
  BY <1>1, <1>8, <1>9, Enabled
<1> HIDE DEF T
<1>12. /\ U \in Store /\ U.queue = T.queue
       /\ \A x \in Qname : On(U, x) <=> On(T, x) \/ (x = Back(q) /\ low)
  BY <1>1, <1>8, <1>11, Enabled
<1> HIDE DEF U
<1>13. N.full => kept # <<>>
  <2>1. full => kept # <<>>
    BY <1>1, <1>4, <1>5
  <2> HIDE DEF full
  <2> QED BY <1>6, <2>1
<1>14. Q.wantw => low \/ kept # <<>>
  BY <1>1, <1>4, <1>5 DEF low
<1>15. Q.wantr /\ kept # <<>> => again
  BY DEF again
<1>18. Flushes(S, flushq(S, q), q)
  BY <1>1, <1>6, <1>7, <1>10, <1>11, <1>12, <1>13, <1>14, <1>15 DEF Flushes, Elsewhere
<1>19. flushq(S, q).queue[q].msgs = kept
  BY <1>6, <1>7, <1>10, <1>11, <1>12
<1> QED
  BY <1>17, <1>18, <1>19
-----------------------------------------------------------------------------
\* What the state's parts are, and what the steps do to the run list.
LEMMA Parts ==
  ASSUME Types
  PROVE  /\ Now \in Store /\ Now.queue = queue /\ Now.run = qhead
         /\ queue \in [{"line", "ttx"} -> Queue] /\ qhead \in Seq(Qname)
BY DEF Types, Now, Store

\* The primed queues and run list are the store Becomes names.
LEMMA Became ==
  ASSUME NEW T \in Store, Becomes(T)
  PROVE  Now' = T /\ queue' = T.queue
BY DEF Becomes, Now, Store

\* Who sleeps, after each of the operations on the sleep queue.
LEMMA Sleepers ==
  ASSUME Types, NEW p, NEW n \in Nat \ {0}, NEW b \in BOOLEAN
  PROVE  /\ Asleep(Put(writers, p, [chan |-> Run, n |-> n, may |-> b])) \subseteq Asleep(writers)
         /\ Asleep(Drop(writers, p)) = Asleep(writers) \ {p}
<1>1. /\ \A x \in DOMAIN Put(writers, p, [chan |-> Run, n |-> n, may |-> b]) :
           \/ x = p /\ Put(writers, p, [chan |-> Run, n |-> n, may |-> b])[x].chan = Run
           \/ /\ x \in DOMAIN writers
              /\ Put(writers, p, [chan |-> Run, n |-> n, may |-> b])[x] = writers[x]
  BY DEF Put
<1>2. /\ DOMAIN Drop(writers, p) = DOMAIN writers \ {p}
      /\ \A x \in DOMAIN writers \ {p} : Drop(writers, p)[x] = writers[x]
  BY DEF Drop
<1> QED
  BY <1>1, <1>2 DEF Asleep

\* The counts stay counts, whichever of them a step changes.
LEMMA Counted ==
  /\ \A c, d, n : Counts(c) /\ n \in Nat /\ d = [c EXCEPT !.left = n]
                  => Counts(d) /\ d.reset = c.reset
  /\ \A c, d, n : Counts(c) /\ n \in Nat /\ d = [c EXCEPT !.put = n]
                  => Counts(d) /\ d.reset = c.reset
  /\ \A c, d, n : Counts(c) /\ d = [c EXCEPT !.printed = n] => Counts(d) /\ d.reset = c.reset
  /\ \A c, d, n : Counts(c) /\ d = [c EXCEPT !.flushed = n] => Counts(d) /\ d.reset = c.reset
  /\ \A c, d, n : Counts(c) /\ n \in BOOLEAN /\ d = [c EXCEPT !.reset = n]
                  => Counts(d) /\ d.reset = n
BY DEF Counts

\* The characters StrwritePut and Echo put.
LEMMA Puttable ==
  ASSUME Types, NEW k \in Nat
  PROVE  Data(Next1(k)) \in Message /\ chars.put + k \in Nat
<1>1. chars.put \in Nat
  BY DEF Types, Counts
<1>2. Next1(k) \in Seq(Nat)
  BY <1>1 DEF Next1
<1> QED
  BY <1>1, <1>2 DEF Data, Message

\* strwrite's MIN of what is left and a message's size.
LEMMA Smaller ==
  ASSUME NEW a \in Nat, NEW b \in Nat
  PROVE  Min({a, b}) \in {a, b} /\ Min({a, b}) <= a /\ Min({a, b}) <= b
<1>1. \E x \in {a, b} : \A y \in {a, b} : x <= y
  <2>1. CASE a <= b
    BY <2>1
  <2>2. CASE b <= a
    BY <2>2
  <2> QED BY <2>1, <2>2
<1> QED
  BY <1>1 DEF Min
-----------------------------------------------------------------------------
\* The steps of the writers, one by one.
LEMMA WantsLine ==
  ASSUME Types, Wants("line")
  PROVE  /\ Now' \in Store /\ queue' = [queue EXCEPT !["line"].wantw = TRUE]
         /\ queue'["ttx"] = queue["ttx"]
         /\ queue'["line"].wantw /\ queue'["line"].msgs = queue["line"].msgs
         /\ queue'["line"].wantr = queue["line"].wantr /\ queue'["line"].full = queue["line"].full
         /\ \A x \in Qname : On(Now, x) <=> On(Now, x)'
BY Parts DEF Wants, Now, Store, Queue, On

\* canput: a writer sleeps only behind a full queue, which is not empty and now
\* wants its back enabled.
LEMMA StrwriteTryStep ==
  ASSUME StreamInv, NEW p, NEW n \in Nat \ {0}, StrwriteTry(p, n)
  PROVE  StreamInv'
<1> USE DEF StreamInv
<1>1. ~queueflag /\ srv = NoSrv /\ UNCHANGED <<queueflag, srv, tty, callouts>>
  BY DEF StrwriteTry, Scheduled
<1>2. CASE /\ writers' = Put(writers, p, [chan |-> Run, n |-> n, may |-> TRUE])
           /\ UNCHANGED <<queue, qhead, WSLEEP, chars>>
  <2>1. Now' = Now
    BY <1>2 DEF Now
  <2>2. \A x \in Qname : On(Now, x) <=> On(Now, x)'
    BY <2>1
  <2>3. Asleep(writers)' \subseteq Asleep(writers)
    BY <1>2, Sleepers
  <2>4. Types'
    BY <1>1, <1>2, <2>1 DEF Types, Put
  <2>5. Scheduled'
    BY <1>1, <1>2, <2>2, <2>3 DEF Scheduled, TtxBusy, LineBusy, HeadBusy, In, Qname
  <2> QED
    BY <2>4, <2>5
<1>3. CASE /\ queue["line"].full /\ Wants("line")
           /\ WSLEEP' = TRUE /\ chars' = [chars EXCEPT !.reset = FALSE]
           /\ writers' = sleep(writers, p, [chan |-> Wrq, n |-> n, may |-> FALSE])
  <2>4. Counts(chars)'
    BY <1>3 DEF Types, Counts
  <2>1. Types'
    BY <1>1, <1>3, <2>4, WantsLine DEF Types, Put, sleep
  <2>2. queue["line"].msgs # <<>>
    BY <1>3 DEF Scheduled
  <2>3. Scheduled'
    BY <1>1, <1>3, <2>2, WantsLine DEF Scheduled, TtxBusy, LineBusy, HeadBusy, In, Qname
  <2> QED
    BY <2>1, <2>3
<1>4. CASE /\ queue["line"].full /\ Wants("line")
           /\ writers' = Drop(writers, p) /\ UNCHANGED <<WSLEEP, chars>>
  <2>1. Types'
    BY <1>1, <1>4, WantsLine DEF Types, Drop
  <2>2. Asleep(writers)' \subseteq Asleep(writers)
    BY <1>4, Sleepers
  <2>3. Scheduled'
    BY <1>1, <1>4, <2>2, WantsLine DEF Scheduled, TtxBusy, LineBusy, HeadBusy, In, Qname
  <2> QED
    BY <2>1, <2>3
<1> QED
  BY <1>2, <1>3, <1>4 DEF StrwriteTry

\* A new writer does not sleep.
LEMMA StrwriteStep ==
  ASSUME StreamInv, NEW p, NEW n \in Chunks, Strwrite(p, n)
  PROVE  StreamInv'
<1> USE DEF StreamInv
<1>1. n \in Nat \ {0}
  BY StreamAssumption DEF StreamAssumption
<1>2. Now' = Now /\ \A x \in Qname : On(Now, x) <=> On(Now, x)'
  BY DEF Strwrite, Now
<1>3. Asleep(writers)' \subseteq Asleep(writers)
  BY <1>1, Sleepers DEF Strwrite
<1> DEFINE left == chars.left - n
<1>6. left \in Nat /\ chars' = [chars EXCEPT !.left = left]
  BY <1>1 DEF Strwrite, Types, Counts
<1> HIDE DEF left
<1>7. Counts(chars)' /\ chars'.reset = chars.reset
  BY <1>6, Counted DEF Types
<1>4. Types'
  BY <1>1, <1>2, <1>7 DEF Types, Strwrite, Put
<1>5. Scheduled'
  BY <1>2, <1>3, <1>7 DEF Scheduled, Strwrite, TtxBusy, LineBusy, HeadBusy, In, Qname, Types
<1> QED
  BY <1>4, <1>5

\* A message put on the line's queue enables it, if it is not busy already.
LEMMA StrwritePutStep ==
  ASSUME StreamInv, NEW p, StrwritePut(p)
  PROVE  StreamInv'
<1> USE DEF StreamInv
<1> DEFINE k == Min({writers[p].n, strmsgsz})
           put == chars.put + k
           T == putq(Now, "line", Data(Next1(k)))
<1>1. writers[p].n \in Nat \ {0} /\ strmsgsz \in Nat
  BY StreamAssumption DEF StrwritePut, Types, StreamAssumption
<1>2. k \in Nat /\ k <= writers[p].n
  BY <1>1, Smaller
<1> HIDE DEF k
<1>3. Data(Next1(k)) \in Message /\ put \in Nat
  BY <1>2, Puttable
<1>4. Puts(Now, T, "line")
  BY <1>3, Parts, PutPuts
<1>5. /\ Becomes(T) /\ queueflag' = (T.run # <<>>)
      /\ writers' = IF k < writers[p].n
                    THEN [writers EXCEPT ![p].n = @ - k, ![p].may = FALSE]
                    ELSE Drop(writers, p)
      /\ chars' = [chars EXCEPT !.put = put]
      /\ ~queueflag /\ UNCHANGED <<srv, tty, callouts, WSLEEP>>
  BY DEF StrwritePut, k
<1> HIDE DEF T, put
<1>6. T \in Store /\ Now' = T /\ queue' = T.queue
  BY <1>4, <1>5, Became DEF Puts
<1>7. Asleep(writers)' \subseteq Asleep(writers)
  BY <1>5 DEF Asleep, Drop, Types
<1>8. \A x \in DOMAIN writers' : writers'[x] \in [chan : {Run, Wrq}, n : Nat \ {0}, may : BOOLEAN]
  <2>1. CASE k < writers[p].n
    <3>1. writers[p].n - k \in Nat \ {0} /\ p \in DOMAIN writers
      BY <1>1, <1>2, <2>1 DEF StrwritePut
    <3>2. writers' = [writers EXCEPT ![p] = [writers[p] EXCEPT !.n = writers[p].n - k, !.may = FALSE]]
      BY <1>5, <2>1, <3>1 DEF Types
    <3> QED
      BY ZenonT(60), <3>1, <3>2 DEF Types
  <2>2. CASE ~(k < writers[p].n)
    BY <1>5, <2>2 DEF Types, Drop
  <2> QED BY <2>1, <2>2
<1>11. Counts(chars)' /\ chars'.reset = chars.reset
  BY <1>3, <1>5, Counted DEF Types
<1>12. queueflag' \in BOOLEAN /\ UNCHANGED <<srv, tty, callouts, WSLEEP>>
  BY <1>5
<1>13. srv = NoSrv
  BY <1>5 DEF Scheduled
<1>9. Types'
  BY <1>6, <1>8, <1>11, <1>12 DEF Types
<1>10. Scheduled'
  BY <1>4, <1>11, <1>12, <1>13, <1>6, <1>7, Parts
     DEF Scheduled, TtxBusy, LineBusy, HeadBusy, In, Qname, Types, Puts, Elsewhere
<1> QED
  BY <1>9, <1>10

\* A writer that gives up leaves the queues alone.
LEMMA StrwriteFailsStep ==
  ASSUME StreamInv, NEW p, StrwriteFails(p)
  PROVE  StreamInv'
<1> USE DEF StreamInv
<1>1. Now' = Now /\ \A x \in Qname : On(Now, x) <=> On(Now, x)'
  BY DEF StrwriteFails, Now
<1>2. Asleep(writers)' \subseteq Asleep(writers)
  BY DEF StrwriteFails, Asleep, Drop
<1>3. Types'
  BY <1>1 DEF Types, StrwriteFails, Drop
<1>4. Scheduled'
  BY <1>1, <1>2 DEF Scheduled, StrwriteFails, TtxBusy, LineBusy, HeadBusy, In, Qname
<1> QED
  BY <1>3, <1>4

\* The interrupted writer takes WSLEEP with it; chars.reset remembers the others.
LEMMA StrwriteInterruptStep ==
  ASSUME StreamInv, NEW p, StrwriteInterrupt(p)
  PROVE  StreamInv'
<1> USE DEF StreamInv
<1>1. Now' = Now /\ \A x \in Qname : On(Now, x) <=> On(Now, x)'
  BY DEF StrwriteInterrupt, Now
<1>2. Asleep(writers)' = Asleep(writers) \ {p}
  BY DEF StrwriteInterrupt, Asleep, unsleep, Drop
<1> DEFINE reset == chars.reset \/ Asleep(writers) # {p}
<1>7. reset \in BOOLEAN /\ chars' = [chars EXCEPT !.reset = reset]
  BY DEF StrwriteInterrupt, Types, Counts
<1>8. reset <=> chars.reset \/ Asleep(writers) # {p}
  OBVIOUS
<1> HIDE DEF reset
<1>3. Counts(chars)' /\ chars'.reset = reset
  BY <1>7, Counted DEF Types
<1>4. Types'
  BY <1>1, <1>3 DEF Types, StrwriteInterrupt, unsleep, Drop
<1>5. Asleep(writers)' # {} => chars'.reset
  BY <1>2, <1>3, <1>8
<1>6. Scheduled'
  BY <1>1, <1>5 DEF Scheduled, StrwriteInterrupt, TtxBusy, LineBusy, HeadBusy, In, Qname
<1> QED
  BY <1>4, <1>6

-----------------------------------------------------------------------------
\* The service procedures, step by step.
LEMMA Idle == NoSrv \in Procedure /\ NoSrv.q = "none"
<1>1. <<>> \in Seq(Nat)
  OBVIOUS
<1> QED
  BY <1>1 DEF NoSrv, Procedure, At

\* strwsrv's wakeup wakes all of them.
LEMMA Awake ==
  ASSUME Types PROVE Asleep(wakeup(writers, {Wrq})) = {}
<1>1. /\ DOMAIN wakeup(writers, {Wrq}) = DOMAIN writers
      /\ \A x \in DOMAIN writers : wakeup(writers, {Wrq})[x].chan = Run
  BY DEF wakeup, Types
<1> QED
  BY <1>1 DEF Asleep

\* queueflag is set for a run list that is not empty, while no procedure runs.
LEMMA RunQueuesStep ==
  ASSUME StreamInv, RunQueues
  PROVE  StreamInv'
<1>1. Now' = Now /\ \A x \in Qname : On(Now, x) <=> On(Now, x)'
  BY DEF RunQueues, Now
<1>2. UNCHANGED <<srv, tty, callouts, writers, WSLEEP, chars, queue>> /\ srv = NoSrv
  BY DEF RunQueues
<1>3. queueflag' \in BOOLEAN
  BY DEF RunQueues
<1>4. Types'
  BY <1>1, <1>2, <1>3 DEF StreamInv, Types
<1>5. Scheduled'
  BY <1>1, <1>2 DEF StreamInv, Scheduled, TtxBusy, LineBusy, HeadBusy, In, Qname
<1> QED
  BY <1>4, <1>5 DEF StreamInv

\* The queue taken from the run list is the one now served.
LEMMA QueuerunStep ==
  ASSUME StreamInv, Queuerun
  PROVE  StreamInv'
<1>1. qhead \in Seq(Qname) /\ qhead # <<>>
  BY Parts DEF StreamInv, Queuerun
<1>2. Head(qhead) \in Qname /\ Tail(qhead) \in Seq(Qname)
  BY <1>1
<1>3. /\ srv.q = "none" /\ srv' = [q |-> Head(qhead), at |-> "get", m |-> <<>>] /\ queueflag
      /\ UNCHANGED <<queue, queueflag, tty, callouts, writers, WSLEEP, chars>>
  BY DEF Queuerun, NoSrv
<1>4. /\ \A x \in Qname : On(Now, x) => x = srv'.q \/ On(Now, x)'
      /\ Now' \in Store
  <2>1. Now'.run = Tail(qhead) /\ Now.run = qhead /\ srv'.q = Head(qhead)
    BY <1>3 DEF Queuerun, Now
  <2>2. /\ Len(qhead) \in Nat /\ Len(Tail(qhead)) = Len(qhead) - 1
        /\ \A i \in 2 .. Len(qhead) : Tail(qhead)[i - 1] = qhead[i]
        /\ Head(qhead) = qhead[1]
    BY <1>1
  <2>3. ASSUME NEW x \in Qname, On(Now, x), x # srv'.q PROVE On(Now, x)'
    <3>1. PICK i \in 1 .. Len(qhead) : qhead[i] = x
      BY <2>1, <2>3 DEF On
    <3>2. i # 1
      BY <2>1, <2>2, <2>3, <3>1
    <3>3. i - 1 \in 1 .. Len(Tail(qhead)) /\ Tail(qhead)[i - 1] = x
      BY <2>2, <3>1, <3>2
    <3> QED
      BY <2>1, <3>3 DEF On
  <2>4. Now' \in Store
    BY <1>2, <1>3, <2>1, Parts DEF Now, Store, Queuerun, StreamInv
  <2> QED
    BY <2>3, <2>4
<1>5. Types'
  <2>1. srv' \in Procedure
    <3>1. <<>> \in Seq(Nat)
      OBVIOUS
    <3> QED BY <1>2, <1>3, <3>1 DEF Procedure, At
  <2> QED BY <1>3, <1>4, <2>1 DEF StreamInv, Types
<1>6. Scheduled'
  BY <1>2, <1>3, <1>4 DEF StreamInv, Scheduled, TtxBusy, LineBusy, HeadBusy, In, Qname
<1> QED
  BY <1>5, <1>6 DEF StreamInv

\* The stream head's procedure leaves nobody asleep unless WSLEEP was reset.
LEMMA StrwsrvStep ==
  ASSUME StreamInv, Strwsrv
  PROVE  StreamInv'
<1>1. Now' = Now /\ \A x \in Qname : On(Now, x) <=> On(Now, x)'
  BY DEF Strwsrv, Now
<1>2. srv.q = "head" /\ srv' = NoSrv /\ WSLEEP' = FALSE
  BY DEF Strwsrv, In
<1>3. Asleep(writers)' # {} => ~WSLEEP /\ Asleep(writers) # {}
  <2>1. CASE WSLEEP
    BY <2>1, Awake DEF Strwsrv, StreamInv
  <2>2. CASE ~WSLEEP
    BY <2>2 DEF Strwsrv
  <2> QED BY <2>1, <2>2
<1>4. \A x \in DOMAIN writers' : writers'[x] \in [chan : {Run, Wrq}, n : Nat \ {0}, may : BOOLEAN]
  BY SMTT(30) DEF Strwsrv, wakeup, StreamInv, Types
<1>5. Types'
  BY <1>1, <1>2, <1>4, Idle DEF StreamInv, Types, Strwsrv
<1>6. Scheduled'
  BY <1>1, <1>2, <1>3, Idle DEF StreamInv, Scheduled, Strwsrv, TtxBusy, LineBusy, HeadBusy, In, Qname
<1> QED
  BY <1>5, <1>6 DEF StreamInv

\* Steps that only move the service procedure on, with what it holds.
LEMMA Moves ==
  ASSUME Types, NEW at \in At, NEW m \in Seq(Nat), srv.q # "none", Goto(at, m)
  PROVE  /\ srv' \in Procedure
         /\ srv'.q = srv.q /\ srv'.at = at
BY DEF Types, Goto, Procedure

\* Service procedures run under queueflag.
LEMMA Running ==
  ASSUME StreamInv, srv.q # "none"
  PROVE  queueflag
BY Idle DEF StreamInv, Scheduled

\* An empty queue wants a reader again; one that is low enables the stream head.
LEMMA LineGetStep ==
  ASSUME StreamInv, LineGet
  PROVE  StreamInv'
<1> DEFINE T == getq(Now, "line")
<1>1. Gets(Now, T, "line")
  BY Parts, GetqGets DEF StreamInv
<1>2. /\ Becomes(T) /\ srv.q = "line" /\ UNCHANGED <<queueflag, tty, callouts, writers, WSLEEP, chars>>
  BY DEF LineGet, In
<1> HIDE DEF T
<1>3. T \in Store /\ Now' = T /\ queue' = T.queue
  BY <1>1, <1>2, Became DEF Gets
<1>4. queueflag /\ Types
  BY <1>2, Running DEF StreamInv
<1>5. CASE queue["line"].msgs = <<>>
  <2>1. srv' = NoSrv
    BY <1>5 DEF LineGet
  <2>2. Types'
    BY <1>2, <1>3, <1>4, <2>1, Idle DEF Types
  <2>3. Scheduled'
    BY <1>1, <1>2, <1>3, <1>5, <2>1, Parts, Idle
       DEF StreamInv, Scheduled, TtxBusy, LineBusy, HeadBusy, In, Qname, Gets, Elsewhere, Back
  <2> QED
    BY <2>2, <2>3 DEF StreamInv
<1>6. CASE queue["line"].msgs # <<>>
  <2>1. Head(queue["line"].msgs).c \in Seq(Nat)
    <3>1. queue["line"].msgs \in Seq(Message)
      BY <1>4, Parts DEF Queue
    <3>2. Head(queue["line"].msgs) \in Message
      BY <1>6, <3>1
    <3> QED BY <3>2, Characters
  <2>2. Goto("canput", Head(queue["line"].msgs).c)
    BY <1>6 DEF LineGet
  <2>3. /\ srv' \in Procedure
        /\ srv'.q = "line" /\ srv'.at = "canput"
    BY <1>2, <1>4, <2>1, <2>2, Moves DEF At
  <2>4. Types'
    BY <1>2, <1>3, <1>4, <2>3 DEF Types
  <2>5. Scheduled'
    BY <1>1, <1>2, <1>3, <1>4, <1>6, <2>3, Parts
       DEF StreamInv, Scheduled, TtxBusy, LineBusy, HeadBusy, In, Qname, Gets, Elsewhere, Back
  <2> QED
    BY <2>4, <2>5 DEF StreamInv
<1> QED
  BY <1>5, <1>6

\* The driver's queue is full only with something on it, so the driver is busy.
LEMMA LineCanputStep ==
  ASSUME StreamInv, LineCanput
  PROVE  StreamInv'
<1> DEFINE at == IF queue["ttx"].full THEN "full" ELSE IF srv.m = <<>> THEN "get" ELSE "send"
<1>1. Now' = Now /\ \A x \in Qname : On(Now, x) <=> On(Now, x)'
  BY DEF LineCanput, Now
<1>2. /\ Goto(at, srv.m) /\ srv.q = "line"
      /\ UNCHANGED <<queue, queueflag, tty, callouts, writers, WSLEEP, chars>>
  BY DEF LineCanput, In
<1>3. at \in At /\ srv.m \in Seq(Nat) /\ at # "back" /\ (at = "full" => queue["ttx"].full)
  <2>1. at \in {"full", "get", "send"} /\ (at = "full" => queue["ttx"].full)
    OBVIOUS
  <2>2. srv.m \in Seq(Nat)
    BY DEF StreamInv, Types, Procedure
  <2> HIDE DEF at
  <2> QED BY <2>1, <2>2 DEF At
<1> HIDE DEF at
<1>4. /\ srv' \in Procedure
      /\ srv'.q = "line" /\ srv'.at = at
  BY <1>2, <1>3, Moves DEF StreamInv
<1>5. Types'
  BY <1>1, <1>2, <1>4 DEF StreamInv, Types
<1>6. Scheduled'
  BY <1>1, <1>2, <1>3, <1>4, Running
     DEF StreamInv, Scheduled, TtxBusy, LineBusy, HeadBusy, In, Qname
<1> QED
  BY <1>5, <1>6 DEF StreamInv

\* The line leaves QWANTW with a driver that was busy when found full, and is still.
LEMMA LineFullStep ==
  ASSUME StreamInv, LineFull
  PROVE  StreamInv'
<1>1. /\ Wants("ttx") /\ Goto("back", srv.m) /\ srv.q = "line" /\ srv.at = "full"
      /\ UNCHANGED <<queueflag, tty, callouts, writers, WSLEEP, chars>>
  BY DEF LineFull, In
<1>2. srv' \in Procedure /\ srv'.q = "line" /\ srv'.at = "back"
  <2>1. srv.m \in Seq(Nat)
    BY DEF StreamInv, Types, Procedure
  <2> QED BY <1>1, <2>1, Moves DEF StreamInv, At
<1>3. /\ Now' \in Store /\ queue' = [queue EXCEPT !["ttx"].wantw = TRUE]
      /\ queue'["line"] = queue["line"]
      /\ queue'["ttx"].wantw /\ queue'["ttx"].msgs = queue["ttx"].msgs
      /\ queue'["ttx"].wantr = queue["ttx"].wantr /\ queue'["ttx"].full = queue["ttx"].full
      /\ \A x \in Qname : On(Now, x) <=> On(Now, x)'
  BY <1>1, Parts DEF Wants, Now, Store, Queue, On, StreamInv
<1>4. Types'
  BY <1>1, <1>2, <1>3 DEF StreamInv, Types
<1>5. Scheduled'
  BY <1>1, <1>2, <1>3, Running
     DEF StreamInv, Scheduled, TtxBusy, LineBusy, HeadBusy, In, Qname
<1> QED
  BY <1>4, <1>5 DEF StreamInv

\* What is sent, with its delay, enables the driver, if it is not busy already.
LEMMA LineSendStep ==
  ASSUME StreamInv, NEW k \in 1 .. strmsgsz, NEW delay \in BOOLEAN, LineSend(k, delay)
  PROVE  StreamInv'
<1> DEFINE rest == SubSeq(srv.m, k + 1, Len(srv.m))
           S == putq(Now, "ttx", Data(SubSeq(srv.m, 1, k)))
           T == IF delay THEN putq(S, "ttx", Delay) ELSE S
           at == IF rest = <<>> /\ ~delay THEN "get" ELSE "canput"
           m == IF rest = <<>> /\ ~delay THEN <<>> ELSE rest
<1>1. /\ srv.m \in Seq(Nat) /\ Len(srv.m) \in Nat /\ k \in Nat \ {0} /\ k <= Len(srv.m)
  BY StreamAssumption DEF LineSend, StreamInv, Types, Procedure, StreamAssumption
<1>2. rest \in Seq(Nat) /\ SubSeq(srv.m, 1, k) \in Seq(Nat) /\ <<>> \in Seq(Nat)
  BY <1>1
<1>3. /\ Becomes(T) /\ srv.q = "line" /\ Goto(at, m)
      /\ UNCHANGED <<queueflag, tty, callouts, writers, WSLEEP, chars>>
  BY DEF LineSend, In
<1>4. Data(SubSeq(srv.m, 1, k)) \in Message /\ Delay \in Message
  BY <1>2 DEF Data, Delay, Message
<1>5. Puts(Now, S, "ttx")
  BY <1>4, Parts, PutPuts DEF StreamInv
<1>6. Puts(Now, T, "ttx")
  <2>1. CASE delay
    <3> HIDE DEF S
    <3>1. Puts(S, putq(S, "ttx", Delay), "ttx")
      <4>1. S \in Store
        BY <1>5 DEF Puts
      <4> QED BY <1>4, <4>1, PutPuts
    <3>2. T = putq(S, "ttx", Delay)
      BY <2>1
    <3> QED
      BY <1>5, <3>1, <3>2 DEF Puts, Elsewhere
  <2>2. CASE ~delay
    BY <1>5, <2>2
  <2> QED BY <2>1, <2>2
<1>7. at \in {"get", "canput"} /\ m \in Seq(Nat)
  BY <1>2
<1> HIDE DEF rest, S, T, at, m
<1>8. srv' \in Procedure /\ srv'.q = "line" /\ srv'.at \in {"get", "canput"}
  BY <1>3, <1>7, Moves DEF StreamInv, At
<1>9. T \in Store /\ Now' = T /\ queue' = T.queue
  BY <1>3, <1>6, Became DEF Puts
<1>10. Types'
  BY <1>3, <1>8, <1>9 DEF StreamInv, Types
<1>11. Scheduled'
  BY <1>3, <1>6, <1>8, <1>9, Parts, Running
     DEF StreamInv, Scheduled, TtxBusy, LineBusy, HeadBusy, In, Qname, Puts, Elsewhere
<1> QED
  BY <1>10, <1>11 DEF StreamInv

\* Without memory the callout will enable the line.
LEMMA LineNoMemoryStep ==
  ASSUME StreamInv, LineNoMemory
  PROVE  StreamInv'
<1>1. Now' = Now /\ \A x \in Qname : On(Now, x) <=> On(Now, x)'
  BY DEF LineNoMemory, Now
<1>2. /\ Goto("back", srv.m) /\ srv.q = "line"
      /\ UNCHANGED <<queue, queueflag, tty, writers, WSLEEP, chars>>
  BY DEF LineNoMemory, In
<1>3. callouts' \in [line : Nat, vain : Nat] /\ callouts'.line > 0
  <2> DEFINE line == callouts.line + 1
             vain == callouts.vain - 1
  <2>1. line \in Nat /\ line > 0 /\ vain \in Nat
    BY DEF LineNoMemory, StreamInv, Types
  <2>2. callouts' = [callouts EXCEPT !.line = line, !.vain = vain]
    BY DEF LineNoMemory
  <2> HIDE DEF line, vain
  <2> QED
    BY <2>1, <2>2 DEF StreamInv, Types
<1>4. srv' \in Procedure /\ srv'.q = "line" /\ srv'.at = "back"
  <2>1. srv.m \in Seq(Nat)
    BY DEF StreamInv, Types, Procedure
  <2> QED BY <1>2, <2>1, Moves DEF StreamInv, At
<1>5. Types'
  BY <1>1, <1>2, <1>3, <1>4 DEF StreamInv, Types
<1>6. Scheduled'
  BY <1>1, <1>2, <1>3, <1>4, Running
     DEF StreamInv, Scheduled, TtxBusy, LineBusy, HeadBusy, In, Qname
<1> QED
  BY <1>5, <1>6 DEF StreamInv

\* What is put back is served again: by the callout, or by the driver's getq.
LEMMA LineBackStep ==
  ASSUME StreamInv, LineBack
  PROVE  StreamInv'
<1> DEFINE T == putbq(Now, "line", Data(srv.m))
<1>1. /\ Becomes(T) /\ srv.q = "line" /\ In("line", "back") /\ srv' = NoSrv
      /\ UNCHANGED <<queueflag, tty, callouts, writers, WSLEEP, chars>>
  BY DEF LineBack, In
<1>2. Data(srv.m) \in Message
  BY DEF StreamInv, Types, Procedure, Data, Message
<1>3. Puts(Now, T, "line")
  BY <1>2, Parts, PutPuts DEF StreamInv
<1> HIDE DEF T
<1>4. T \in Store /\ Now' = T /\ queue' = T.queue
  BY <1>1, <1>3, Became DEF Puts
<1>5. Types'
  BY <1>1, <1>4, Idle DEF StreamInv, Types
<1>6. Scheduled'
  BY <1>1, <1>3, <1>4, Parts, Idle
     DEF StreamInv, Scheduled, TtxBusy, LineBusy, HeadBusy, In, Qname, Puts, Elsewhere
<1> QED
  BY <1>5, <1>6 DEF StreamInv

\* The driver ends its procedure only with a delay running or an empty queue, and
\* enables the line when it is low.
LEMMA TtxGetStep ==
  ASSUME StreamInv, TtxGet
  PROVE  StreamInv'
<1>1. /\ srv.q = "ttx" /\ queueflag /\ Types
      /\ UNCHANGED <<queueflag, callouts, writers, WSLEEP, chars>>
  BY Running DEF TtxGet, In, StreamInv
<1>2. CASE tty.xm # <<>> /\ Goto("output", <<>>) /\ UNCHANGED <<queue, qhead, tty>>
  <2>1. Now' = Now /\ \A x \in Qname : On(Now, x) <=> On(Now, x)'
    BY <1>2 DEF Now
  <2>2. srv' \in Procedure /\ srv'.q = "ttx" /\ srv'.at = "output"
    <3>1. <<>> \in Seq(Nat)
      OBVIOUS
    <3> QED BY <1>1, <1>2, <3>1, Moves DEF At
  <2>3. Types'
    BY <1>1, <1>2, <2>1, <2>2 DEF Types
  <2>4. Scheduled'
    BY <1>1, <1>2, <2>1, <2>2
       DEF StreamInv, Scheduled, TtxBusy, LineBusy, HeadBusy, In, Qname
  <2> QED
    BY <2>3, <2>4 DEF StreamInv
<1>3. CASE tty.xm = <<>> /\ tty.delay /\ srv' = NoSrv /\ UNCHANGED <<queue, qhead, tty>>
  <2>1. Now' = Now /\ \A x \in Qname : On(Now, x) <=> On(Now, x)'
    BY <1>3 DEF Now
  <2>2. Types'
    BY <1>1, <1>3, <2>1, Idle DEF Types
  <2>3. Scheduled'
    BY <1>1, <1>3, <2>1, Idle
       DEF StreamInv, Scheduled, TtxBusy, LineBusy, HeadBusy, In, Qname
  <2> QED
    BY <2>2, <2>3 DEF StreamInv
<1>4. CASE /\ tty.xm = <<>> /\ ~tty.delay /\ Becomes(getq(Now, "ttx"))
           /\ LET msgs == queue["ttx"].msgs
              IN \/ msgs = <<>> /\ srv' = NoSrv /\ UNCHANGED tty
                 \/ msgs # <<>> /\ IsDelay(msgs[1]) /\ srv' = NoSrv /\ tty' = [tty EXCEPT !.delay = TRUE]
                 \/ msgs # <<>> /\ ~IsDelay(msgs[1]) /\ Goto("got", msgs[1].c) /\ UNCHANGED tty
  <2> DEFINE T == getq(Now, "ttx")
             msgs == queue["ttx"].msgs
  <2>1. Gets(Now, T, "ttx") /\ Becomes(T)
    BY <1>1, <1>4, Parts, GetqGets
  <2>2. \/ msgs = <<>> /\ srv' = NoSrv /\ UNCHANGED tty
        \/ msgs # <<>> /\ IsDelay(msgs[1]) /\ srv' = NoSrv /\ tty' = [tty EXCEPT !.delay = TRUE]
        \/ msgs # <<>> /\ ~IsDelay(msgs[1]) /\ Goto("got", msgs[1].c) /\ UNCHANGED tty
    BY <1>4
  <2> HIDE DEF T
  <2>3. T \in Store /\ Now' = T /\ queue' = T.queue
    BY <2>1, Became DEF Gets
  <2>4. CASE msgs = <<>> /\ srv' = NoSrv /\ UNCHANGED tty
    <3>1. Types'
      BY <1>1, <2>3, <2>4, Idle DEF Types
    <3>2. Scheduled'
      BY <1>1, <1>4, <2>1, <2>3, <2>4, Parts, Idle
         DEF StreamInv, Scheduled, TtxBusy, LineBusy, HeadBusy, In, Qname, Gets, Elsewhere, Back
    <3> QED
      BY <3>1, <3>2 DEF StreamInv
  <2>5. CASE /\ msgs # <<>> /\ IsDelay(msgs[1]) /\ srv' = NoSrv
             /\ tty' = [tty EXCEPT !.delay = TRUE]
    <3>1. Types' /\ tty'.delay
      BY <1>1, <2>3, <2>5, Idle DEF Types
    <3>2. Scheduled'
      BY <1>1, <2>1, <2>3, <2>5, <3>1, Parts, Idle
         DEF StreamInv, Scheduled, TtxBusy, LineBusy, HeadBusy, In, Qname, Gets, Elsewhere, Back
    <3> QED
      BY <3>1, <3>2 DEF StreamInv
  <2>6. CASE msgs # <<>> /\ Goto("got", msgs[1].c) /\ UNCHANGED tty
    <3>1. msgs[1].c \in Seq(Nat)
      <4>1. msgs \in Seq(Message)
        BY <1>1, Parts DEF Queue
      <4>2. msgs[1] \in Message
        BY <2>6, <4>1
      <4> QED BY <4>2, Characters
    <3>2. srv' \in Procedure /\ srv'.q = "ttx" /\ srv'.at = "got"
      BY <1>1, <2>6, <3>1, Moves DEF At
    <3>3. Types'
      BY <1>1, <2>3, <2>6, <3>2 DEF Types
    <3>4. Scheduled'
      BY <1>1, <2>1, <2>3, <2>6, <3>2, Parts
         DEF StreamInv, Scheduled, TtxBusy, LineBusy, HeadBusy, In, Qname, Gets, Elsewhere, Back
    <3> QED
      BY <3>3, <3>4 DEF StreamInv
  <2> QED
    BY <2>2, <2>4, <2>5, <2>6
<1> QED
  BY <1>2, <1>3, <1>4 DEF TtxGet

\* The character block taken is the driver's.
LEMMA TtxGotStep ==
  ASSUME StreamInv, TtxGot
  PROVE  StreamInv'
<1>1. Now' = Now /\ \A x \in Qname : On(Now, x) <=> On(Now, x)'
  BY DEF TtxGot, Now
<1>2. /\ srv.q = "ttx" /\ queueflag /\ Types /\ Goto("output", <<>>)
      /\ UNCHANGED <<queue, queueflag, callouts, writers, WSLEEP, chars>>
  BY Running DEF TtxGot, In, StreamInv
<1>3. tty' \in [xm : Seq(Nat), stop : BOOLEAN, delay : BOOLEAN]
  BY <1>2 DEF TtxGot, Types, Procedure
<1>4. srv' \in Procedure /\ srv'.q = "ttx" /\ srv'.at = "output"
  <2>1. <<>> \in Seq(Nat)
    OBVIOUS
  <2> QED BY <1>2, <2>1, Moves DEF At
<1>5. Types'
  BY <1>1, <1>2, <1>3, <1>4 DEF Types
<1>6. Scheduled'
  BY <1>1, <1>2, <1>4
     DEF StreamInv, Scheduled, TtxBusy, LineBusy, HeadBusy, In, Qname
<1> QED
  BY <1>5, <1>6 DEF StreamInv

\* What enabling the driver's queue, and nothing else, does.
LEMMA TtxEnabled ==
  ASSUME Types, Becomes(qenable(Now, "ttx", TRUE))
  PROVE  /\ Now' \in Store /\ queue' = queue /\ On(Now, "ttx")'
         /\ \A x \in Qname : On(Now, x) => On(Now, x)'
<1> DEFINE T == qenable(Now, "ttx", TRUE)
<1>1. /\ T \in Store /\ T.queue = queue
      /\ \A x \in Qname : On(T, x) <=> On(Now, x) \/ x = "ttx"
  <2>1. /\ T \in Store /\ T.queue = Now.queue
        /\ \A x \in Qname : On(T, x) <=> On(Now, x) \/ (x = "ttx" /\ TRUE)
    BY Parts, Enabled DEF Qname
  <2> QED
    BY <2>1, Parts
<1> HIDE DEF T
<1>2. Becomes(T)
  BY DEF T
<1>3. Now' = T /\ queue' = T.queue
  BY <1>1, <1>2, Became
<1> QED
  BY <1>1, <1>3 DEF Qname

\* T_OUTPUT ends for a stop or a delay, or enables the driver again.
LEMMA TtxOutputStep ==
  ASSUME StreamInv, TtxOutput
  PROVE  StreamInv'
<1>1. /\ srv.q = "ttx" /\ queueflag /\ Types
      /\ UNCHANGED <<queueflag, callouts, writers, WSLEEP, chars>>
  BY Running DEF TtxOutput, In, StreamInv
<1>2. CASE (tty.stop \/ tty.delay) /\ srv' = NoSrv /\ UNCHANGED <<queue, qhead, tty>>
  <2>1. Now' = Now /\ \A x \in Qname : On(Now, x) <=> On(Now, x)'
    BY <1>2 DEF Now
  <2>2. Types'
    BY <1>1, <1>2, <2>1, Idle DEF Types
  <2>3. Scheduled'
    BY <1>1, <1>2, <2>1, Idle
       DEF StreamInv, Scheduled, TtxBusy, LineBusy, HeadBusy, In, Qname
  <2> QED
    BY <2>2, <2>3 DEF StreamInv
<1>3. CASE srv' = NoSrv /\ Becomes(qenable(Now, "ttx", TRUE)) /\ UNCHANGED tty
  <2>1. Types'
    BY <1>1, <1>3, TtxEnabled, Idle DEF Types
  <2>2. Scheduled'
    BY <1>1, <1>3, TtxEnabled, Idle
       DEF StreamInv, Scheduled, TtxBusy, LineBusy, HeadBusy, In, Qname
  <2> QED
    BY <2>1, <2>2 DEF StreamInv
<1>4. CASE /\ Goto("print", tty.xm) /\ tty' = [tty EXCEPT !.xm = <<>>]
           /\ UNCHANGED <<queue, qhead>>
  <2>1. Now' = Now /\ \A x \in Qname : On(Now, x) <=> On(Now, x)'
    BY <1>4 DEF Now
  <2>2. srv' \in Procedure /\ srv'.q = "ttx" /\ srv'.at = "print"
    <3>1. tty.xm \in Seq(Nat)
      BY <1>1 DEF Types
    <3> QED BY <1>1, <1>4, <3>1, Moves DEF At
  <2>3. tty' \in [xm : Seq(Nat), stop : BOOLEAN, delay : BOOLEAN]
    <3>1. <<>> \in Seq(Nat)
      OBVIOUS
    <3> QED BY <1>1, <1>4, <3>1 DEF Types
  <2>4. Types'
    BY <1>1, <2>1, <2>2, <2>3 DEF Types
  <2>5. Scheduled'
    BY <1>1, <1>4, <2>1, <2>2
       DEF StreamInv, Scheduled, TtxBusy, LineBusy, HeadBusy, In, Qname
  <2> QED
    BY <2>4, <2>5 DEF StreamInv
<1> QED
  BY <1>2, <1>3, <1>4 DEF TtxOutput

\* After the block is printed the driver runs again.
LEMMA TtxPrintStep ==
  ASSUME StreamInv, TtxPrint
  PROVE  StreamInv'
<1> DEFINE printed == chars.printed \o srv.m
<1>1. /\ srv.q = "ttx" /\ Types /\ srv' = NoSrv
      /\ Becomes(qenable(Now, "ttx", TRUE)) /\ chars' = [chars EXCEPT !.printed = printed]
      /\ UNCHANGED <<queueflag, tty, callouts, writers, WSLEEP>>
  BY DEF TtxPrint, In, StreamInv
<1> HIDE DEF printed
<1>2. Counts(chars)' /\ chars'.reset = chars.reset
  BY <1>1, Counted DEF Types
<1>3. Types'
  BY <1>1, <1>2, TtxEnabled, Idle DEF Types
<1>4. Scheduled'
  BY <1>1, <1>2, TtxEnabled, Idle
     DEF StreamInv, Scheduled, TtxBusy, LineBusy, HeadBusy, In, Qname
<1> QED
  BY <1>3, <1>4 DEF StreamInv
-----------------------------------------------------------------------------
\* The timers and the keyboard.  line_send's callout enables the line.
LEMMA LineTimerStep ==
  ASSUME StreamInv, LineTimer
  PROVE  StreamInv'
<1> DEFINE T == qenable(Now, "line", TRUE)
           line == callouts.line - 1
<1>7. line \in Nat
  BY DEF LineTimer, StreamInv, Types
<1>1. /\ Types /\ srv = NoSrv /\ Becomes(T)
      /\ callouts' = [callouts EXCEPT !.line = line]
      /\ UNCHANGED <<queueflag, srv, tty, writers, WSLEEP, chars>>
  BY DEF LineTimer, StreamInv, Scheduled
<1>2. /\ T \in Store /\ T.queue = Now.queue
      /\ \A x \in Qname : On(T, x) <=> On(Now, x) \/ (x = "line" /\ TRUE)
  BY <1>1, Parts, Enabled DEF Qname
<1> HIDE DEF T, line
<1>3. Now' = T /\ queue' = queue
  BY <1>1, <1>2, Became, Parts
<1>4. callouts' \in [line : Nat, vain : Nat]
  BY <1>1, <1>7 DEF Types
<1>5. Types'
  BY <1>1, <1>2, <1>3, <1>4 DEF Types
<1>6. Scheduled'
  BY <1>1, <1>2, <1>3, Idle
     DEF StreamInv, Scheduled, TtxBusy, LineBusy, HeadBusy, In, Qname
<1> QED
  BY <1>5, <1>6 DEF StreamInv

\* ttx_delaytimer enables the driver when the delay ends.
LEMMA DelayTimerStep ==
  ASSUME StreamInv, DelayTimer
  PROVE  StreamInv'
<1>1. /\ Types /\ Becomes(qenable(Now, "ttx", TRUE)) /\ tty' = [tty EXCEPT !.delay = FALSE]
      /\ UNCHANGED <<queueflag, srv, callouts, writers, WSLEEP, chars>>
  BY DEF DelayTimer, StreamInv
<1>2. Types'
  BY <1>1, TtxEnabled DEF Types
<1>3. Scheduled'
  BY <1>1, TtxEnabled
     DEF StreamInv, Scheduled, TtxBusy, LineBusy, HeadBusy, In, Qname
<1> QED
  BY <1>2, <1>3 DEF StreamInv

\* An echo at any point of another procedure is a put like the others.
LEMMA EchoStep ==
  ASSUME StreamInv, Echo
  PROVE  StreamInv'
<1> DEFINE T == putq(Now, "line", Data(Next1(1)))
           put == chars.put + 1
           left == chars.left - 1
<1>1. /\ Types /\ Becomes(T) /\ chars' = [chars EXCEPT !.put = put, !.left = left]
      /\ UNCHANGED <<queueflag, srv, tty, callouts, writers, WSLEEP>>
  BY DEF Echo, StreamInv
<1>2. put \in Nat /\ left \in Nat
  BY DEF Echo, StreamInv, Types, Counts
<1>3. Puts(Now, T, "line")
  BY <1>1, Puttable, Parts, PutPuts
<1> HIDE DEF T, put, left
<1>4. T \in Store /\ Now' = T /\ queue' = T.queue
  BY <1>1, <1>3, Became DEF Puts
<1>5. Counts(chars)' /\ chars'.reset = chars.reset
  <2> DEFINE c == [chars EXCEPT !.put = put]
  <2>1. Counts(c) /\ c.reset = chars.reset
    BY <1>1, <1>2, Counted DEF Types
  <2>2. chars' = [c EXCEPT !.left = left]
    BY <1>1
  <2> HIDE DEF c
  <2> QED
    BY <1>2, <2>1, <2>2, Counted
<1>6. Types'
  BY <1>1, <1>4, <1>5 DEF Types
<1>7. Scheduled'
  BY <1>1, <1>3, <1>4, <1>5, Parts
     DEF StreamInv, Scheduled, TtxBusy, LineBusy, HeadBusy, In, Qname, Puts, Elsewhere
<1> QED
  BY <1>6, <1>7 DEF StreamInv

\* An interrupt character at any point: both queues flushed, the driver enabled.
LEMMA FlushStep ==
  ASSUME StreamInv, Flush
  PROVE  StreamInv'
<1> DEFINE S == flushq(Now, "line")
           R == flushq(S, "ttx")
           T == qenable(R, "ttx", TRUE)
           flushed == chars.flushed \cup ToSet(tty.xm)
                      \cup ToSet(Chars(queue["line"].msgs)) \cup ToSet(Chars(queue["ttx"].msgs))
<1>1. /\ Types /\ Becomes(T) /\ chars' = [chars EXCEPT !.flushed = flushed]
      /\ tty' = [tty EXCEPT !.xm = <<>>, !.stop = FALSE]
      /\ UNCHANGED <<queueflag, srv, callouts, writers, WSLEEP>>
  BY DEF Flush, StreamInv
<1>2. Flushes(Now, S, "line")
  BY <1>1, Parts, FlushqFlushes
<1> HIDE DEF S
<1>3. Flushes(S, R, "ttx")
  BY <1>2, FlushqFlushes DEF Flushes
<1> HIDE DEF R
<1>4. /\ T \in Store /\ T.queue = R.queue
      /\ \A x \in Qname : On(T, x) <=> On(R, x) \/ (x = "ttx" /\ TRUE)
  BY <1>3, Enabled DEF Flushes, Qname
<1> HIDE DEF T, flushed
<1>5. Now' = T /\ queue' = R.queue
  BY <1>1, <1>4, Became
<1>6. Counts(chars)' /\ chars'.reset = chars.reset
  BY <1>1, Counted DEF Types
<1>7. tty' \in [xm : Seq(Nat), stop : BOOLEAN, delay : BOOLEAN]
  <2>1. <<>> \in Seq(Nat)
    OBVIOUS
  <2> QED BY <1>1, <2>1 DEF Types
<1>8. Types'
  BY <1>1, <1>4, <1>5, <1>6, <1>7 DEF Types
<1>9. /\ queue'["line"] = S.queue["line"] /\ S.queue["ttx"] = queue["ttx"]
      /\ \A x \in Qname : On(Now, x) => On(Now, x)'
      /\ On(Now, "ttx")' /\ \A x \in Qname : On(S, x) => On(Now, x)'
  BY <1>2, <1>3, <1>4, <1>5, Parts, <1>1 DEF Flushes, Elsewhere, Qname
<1>10. Scheduled'
  BY <1>1, <1>2, <1>3, <1>5, <1>6, <1>9, Parts
     DEF StreamInv, Scheduled, TtxBusy, LineBusy, HeadBusy, In, Qname, Flushes, Back
<1> QED
  BY <1>8, <1>10 DEF StreamInv

\* T_SUSPEND: a stopped driver will be started again,
LEMMA SuspendStep ==
  ASSUME StreamInv, Suspend
  PROVE  StreamInv'
<1>1. Now' = Now /\ \A x \in Qname : On(Now, x) <=> On(Now, x)'
  BY DEF Suspend, Now
<1>2. /\ tty' = [tty EXCEPT !.stop = TRUE] /\ Types
      /\ UNCHANGED <<queue, queueflag, srv, callouts, writers, WSLEEP, chars>>
  BY DEF Suspend, StreamInv
<1>3. Types'
  BY <1>1, <1>2 DEF Types
<1>4. Scheduled'
  BY <1>1, <1>2 DEF StreamInv, Scheduled, TtxBusy, LineBusy, HeadBusy, In, Qname, Types
<1> QED
  BY <1>3, <1>4 DEF StreamInv

\* and T_RESUME enables it.
LEMMA ResumeStep ==
  ASSUME StreamInv, Resume
  PROVE  StreamInv'
<1>1. /\ Types /\ Becomes(qenable(Now, "ttx", TRUE)) /\ tty' = [tty EXCEPT !.stop = FALSE]
      /\ UNCHANGED <<queueflag, srv, callouts, writers, WSLEEP, chars>>
  BY DEF Resume, StreamInv
<1>2. Types'
  BY <1>1, TtxEnabled DEF Types
<1>3. Scheduled'
  BY <1>1, TtxEnabled
     DEF StreamInv, Scheduled, TtxBusy, LineBusy, HeadBusy, In, Qname
<1> QED
  BY <1>2, <1>3 DEF StreamInv

-----------------------------------------------------------------------------
\* The initial state: nothing on the run list, nothing to serve, nobody asleep.
LEMMA StreamInitially == StreamInit => StreamInv
<1> SUFFICES ASSUME StreamInit PROVE StreamInv
  OBVIOUS
<1>1. <<>> \in Seq(Message) /\ <<>> \in Seq(Qname) /\ <<>> \in Seq(Nat)
  OBVIOUS
<1>2. Now \in Store
  BY <1>1 DEF StreamInit, Now, Store, Queue
<1>3. DOMAIN writers = {} /\ Asleep(writers) = {}
  BY DEF StreamInit, Asleep
<1>4. Counts(chars)
  BY StreamAssumption DEF StreamInit, Counts, StreamAssumption
<1>5. tty \in [xm : Seq(Nat), stop : BOOLEAN, delay : BOOLEAN] /\ callouts \in [line : Nat, vain : Nat]
  BY <1>1, StreamAssumption DEF StreamInit, StreamAssumption
<1>6. Types
  BY <1>2, <1>3, <1>4, <1>5, Idle DEF StreamInit, Types
<1>7. Scheduled
  BY <1>3, Idle DEF StreamInit, Scheduled, In
<1> QED
  BY <1>6, <1>7 DEF StreamInv

\* Every step of the writers, of queuerun and the service procedures, of the
\* timers and of the keyboard keeps whoever has something left to do busy.
LEMMA StreamStep == StreamInv /\ [StreamNext]_streamVars => StreamInv'
<1> SUFFICES ASSUME StreamInv, [StreamNext]_streamVars PROVE StreamInv'
  OBVIOUS
<1>1. ASSUME NEW p \in Procs,
             \/ StrwriteResume(p) \/ StrwritePut(p) \/ StrwriteFails(p)
             \/ StrwriteInterrupt(p) \/ \E n \in Chunks : Strwrite(p, n)
      PROVE  StreamInv'
  <2>1. CASE StrwriteResume(p)
    <3>1. writers[p].n \in Nat \ {0} /\ StrwriteTry(p, writers[p].n)
      BY <2>1 DEF StrwriteResume, StreamInv, Types
    <3> QED BY <3>1, StrwriteTryStep
  <2> QED
    BY <1>1, <2>1, StrwritePutStep, StrwriteFailsStep, StrwriteInterruptStep, StrwriteStep
<1>2. CASE RunQueues \/ Queuerun \/ Strwsrv
  BY <1>2, RunQueuesStep, QueuerunStep, StrwsrvStep
<1>3. CASE LineGet \/ LineCanput \/ LineFull \/ LineNoMemory \/ LineBack
  BY <1>3, LineGetStep, LineCanputStep, LineFullStep, LineNoMemoryStep, LineBackStep
<1>4. CASE \E k \in 1 .. strmsgsz, delay \in BOOLEAN : LineSend(k, delay)
  BY <1>4, LineSendStep
<1>5. CASE TtxGet \/ TtxGot \/ TtxOutput \/ TtxPrint
  BY <1>5, TtxGetStep, TtxGotStep, TtxOutputStep, TtxPrintStep
<1>6. CASE LineTimer \/ DelayTimer \/ Echo \/ Flush \/ Suspend \/ Resume
  BY <1>6, LineTimerStep, DelayTimerStep, EchoStep, FlushStep, SuspendStep, ResumeStep
<1>7. CASE UNCHANGED streamVars
  <2>1. /\ Now' = Now /\ \A x \in Qname : On(Now, x) <=> On(Now, x)'
        /\ UNCHANGED <<queue, queueflag, srv, tty, callouts, writers, WSLEEP, chars>>
    BY <1>7 DEF streamVars, Now
  <2>2. Types'
    BY <2>1 DEF StreamInv, Types
  <2>3. Scheduled'
    BY <2>1 DEF StreamInv, Scheduled, TtxBusy, LineBusy, HeadBusy, In, Qname
  <2> QED
    BY <2>2, <2>3 DEF StreamInv
<1> QED
  BY <1>1, <1>2, <1>3, <1>4, <1>5, <1>6, <1>7 DEF StreamNext

\* Whoever has something left is busy, so when nothing is busy nothing is left:
\* the driver first, then the line, which may wait for it, then the writers.
LEMMA NothingBusyNothingLeft == StreamInv => NothingStuck
<1> SUFFICES ASSUME StreamInv, qhead = <<>>, srv = NoSrv, callouts.line = 0, ~tty.delay, ~tty.stop
             PROVE  /\ queue["line"].msgs = <<>> /\ queue["ttx"].msgs = <<>> /\ tty.xm = <<>>
                    /\ Asleep(writers) = {} \/ chars.reset
  BY DEF NothingStuck
<1>1. \A x \in Qname : ~On(Now, x)
  BY DEF On, Now
<1>2. ~TtxBusy
  BY <1>1, Idle DEF TtxBusy, Qname
<1>3. queue["ttx"].msgs = <<>> /\ tty.xm = <<>> /\ ~queue["ttx"].wantw
  BY <1>2 DEF StreamInv, Scheduled
<1>4. ~LineBusy
  BY <1>1, <1>3, Idle DEF LineBusy, Qname
<1>5. queue["line"].msgs = <<>>
  BY <1>4 DEF StreamInv, Scheduled
<1>6. ~HeadBusy
  BY <1>1, <1>5, Idle DEF HeadBusy, Qname
<1> QED
  BY <1>3, <1>5, <1>6 DEF StreamInv, Scheduled

\* The output of a terminal never comes to rest with a message on a queue, a
\* character in the driver's block or a writer asleep, but for a writer whose
\* WSLEEP another one's signal has reset: for all the orders in which strwrite,
\* queuerun, the service procedures, timeouts and keyboard interrupts follow
\* each other, all marks, message sizes and numbers of processes.
THEOREM OutputNeverStuck == StreamSpec => []NothingStuck
<1>1. StreamSpec => []StreamInv
  BY StreamInitially, StreamStep, PTL DEF StreamSpec
<1> QED
  BY <1>1, NothingBusyNothingLeft, PTL
-----------------------------------------------------------------------------
\* A set of naturals that is not empty has a least one.
LEMMA LeastNat ==
  ASSUME NEW S \in SUBSET Nat, S # {}
  PROVE  \E x \in S : \A y \in S : x <= y
<1> DEFINE R == OpToRel(<, Nat)
<1>1. IsWellFoundedOn(R, Nat)
  BY NatLessThanWellFounded
<1>2. PICK x \in S : \A y \in S : ~(<<y, x>> \in R)
  BY <1>1, WFMin
<1>3. \A y \in S : <<y, x>> \in R <=> y < x
  BY DEF OpToRel
<1>4. \A y \in S : ~(y < x)
  BY <1>2, <1>3
<1> QED
  BY <1>4

\* g[i] is the characters of the first i of seqs.
Flat(seqs, g) ==
  /\ g \in [0 .. Len(seqs) -> Seq(Nat)]
  /\ g[0] = <<>>
  /\ \A i \in 1 .. Len(seqs) : g[i] = g[i - 1] \o seqs[i]

\* FlattenSeq puts the sequences one behind the other.
LEMMA Flattened ==
  ASSUME NEW seqs \in Seq(Seq(Nat)), NEW g, Flat(seqs, g)
  PROVE  FlattenSeq(seqs) = g[Len(seqs)]
<1> DEFINE n == Len(seqs)
           flatten[i \in 1 .. n] == IF i = 1 THEN seqs[i] ELSE flatten[i - 1] \o seqs[i]
           step(f) == [i \in 1 .. n |-> IF i = 1 THEN seqs[i] ELSE f[i - 1] \o seqs[i]]
           h == [i \in 1 .. n |-> g[i]]
<1>1. n \in Nat /\ \A i \in 1 .. n : seqs[i] \in Seq(Nat)
  OBVIOUS
<1>2. CASE n = 0
  <2>1. seqs = <<>>
    BY <1>2
  <2> QED
    BY <1>2, <2>1 DEF FlattenSeq, Flat
<1>3. CASE n # 0
  <2>1. FlattenSeq(seqs) = flatten[n]
    BY <1>3 DEF FlattenSeq
  <2>2. h = step(h)
    <3>1. ASSUME NEW i \in 1 .. n
          PROVE  g[i] = IF i = 1 THEN seqs[i] ELSE h[i - 1] \o seqs[i]
      <4>1. CASE i = 1
        <5>1. g[1] = <<>> \o seqs[1]
          <6>1. g[i] = g[i - 1] \o seqs[i] /\ g[0] = <<>>
            BY <3>1 DEF Flat
          <6>2. i - 1 = 0
            BY <4>1
          <6> QED
            BY <4>1, <6>1, <6>2
        <5> QED
          BY <4>1, <5>1, <1>1, ConcatEmptySeq
      <4>2. CASE i # 1
        <5>1. i - 1 \in 1 .. n
          BY <4>2, <1>1
        <5>2. h[i - 1] = g[i - 1]
          BY <5>1
        <5>3. g[i] = g[i - 1] \o seqs[i]
          BY DEF Flat
        <5> QED
          BY <4>2, <5>2, <5>3
      <4> QED
        BY <4>1, <4>2
    <3> QED
      BY <3>1
  <2>3. flatten = CHOOSE f : f = step(f)
    OBVIOUS
  <2>4. flatten = step(flatten)
    BY <2>2, <2>3
  <2> HIDE DEF flatten
  <2>5. \A i \in 1 .. n : flatten[i] = IF i = 1 THEN seqs[i] ELSE flatten[i - 1] \o seqs[i]
    BY <2>4
  <2>6. \A i \in 1 .. n : flatten[i] = g[i]
    <3> DEFINE Other == {i \in 1 .. n : flatten[i] # g[i]}
    <3>1. SUFFICES ASSUME Other # {} PROVE FALSE
      OBVIOUS
    <3>2. Other \in SUBSET Nat
      OBVIOUS
    <3>3. PICK i \in Other : \A j \in Other : i <= j
      BY <3>1, <3>2, LeastNat
    <3>4. i \in 1 .. n /\ flatten[i] # g[i]
      OBVIOUS
    <3>5. h[i] = step(h)[i]
      BY <2>2
    <3>6. CASE i = 1
      BY <3>4, <3>5, <3>6, <2>5
    <3>7. CASE i # 1
      <4>1. i - 1 \in 1 .. n /\ ~(i <= i - 1)
        BY <3>4, <3>7, <1>1
      <4>2. flatten[i - 1] = g[i - 1]
        BY <3>3, <4>1
      <4>3. g[i] = g[i - 1] \o seqs[i]
        BY <3>4 DEF Flat
      <4> QED
        BY <4>2, <4>3, <3>4, <3>7, <2>5
    <3> QED
      BY <3>6, <3>7
  <2> QED
    BY <2>1, <2>6, <1>1, <1>3
<1> QED
  BY <1>2, <1>3

\* There are such characters for every sequence.
LEMMA Flattens ==
  ASSUME NEW seqs \in Seq(Seq(Nat))
  PROVE  \E g : Flat(seqs, g)
<1> DEFINE n == Len(seqs)
           Upto(g, k) == /\ g \in [0 .. k -> Seq(Nat)] /\ g[0] = <<>>
                         /\ \A i \in 1 .. k : g[i] = g[i - 1] \o seqs[i]
           Without == {k \in 0 .. n : ~\E g : Upto(g, k)}
<1>1. n \in Nat /\ \A i \in 1 .. n : seqs[i] \in Seq(Nat)
  OBVIOUS
<1>2. Without = {}
  <2>1. SUFFICES ASSUME Without # {} PROVE FALSE
    OBVIOUS
  <2>2. Without \in SUBSET Nat
    <3>1. 0 .. n \subseteq Nat
      BY <1>1
    <3> QED
      BY <3>1
  <2>3. PICK k \in Without : \A j \in Without : k <= j
    BY <2>1, <2>2, LeastNat
  <2>4. k \in 0 .. n /\ ~\E g : Upto(g, k)
    OBVIOUS
  <2>5. CASE k = 0
    <3>1. [i \in 0 .. 0 |-> <<>>] \in [0 .. 0 -> Seq(Nat)]
      OBVIOUS
    <3>2. Upto([i \in 0 .. 0 |-> <<>>], 0)
      BY <3>1
    <3> QED
      BY <2>4, <2>5, <3>2
  <2>6. CASE k # 0
    <3>1. k - 1 \in 0 .. n /\ ~(k <= k - 1) /\ k \in 1 .. n /\ k \in Nat
      BY <2>4, <2>6, <1>1
    <3>2. PICK g : Upto(g, k - 1)
      BY <2>3, <3>1
    <3>3. g[k - 1] \in Seq(Nat) /\ seqs[k] \in Seq(Nat)
      BY <3>1, <3>2, <1>1
    <3>4. PICK last \in Seq(Nat) : last = g[k - 1] \o seqs[k]
      BY <3>3, ConcatProperties
    <3> DEFINE f == [i \in 0 .. k |-> IF i = k THEN last ELSE g[i]]
    <3>5. \A i \in 0 .. k : i # k => i \in 0 .. k - 1
      BY <3>1
    <3>6. f \in [0 .. k -> Seq(Nat)]
      BY <3>2, <3>5
    <3>7. f[0] = <<>>
      BY <3>1, <3>2
    <3>8. ASSUME NEW i \in 1 .. k PROVE f[i] = f[i - 1] \o seqs[i]
      <4>1. i \in 0 .. k /\ i - 1 \in 0 .. k /\ i - 1 # k
        BY <3>1
      <4>2. f[i - 1] = g[i - 1]
        BY <4>1
      <4>3. CASE i = k
        BY <4>1, <4>2, <4>3, <3>4
      <4>4. CASE i # k
        <5>1. i \in 1 .. k - 1
          BY <3>1, <4>4
        <5>2. g[i] = g[i - 1] \o seqs[i] /\ f[i] = g[i]
          BY <3>2, <4>1, <4>4, <5>1
        <5> QED
          BY <4>2, <5>2
      <4> QED
        BY <4>3, <4>4
    <3>9. Upto(f, k)
      BY <3>6, <3>7, <3>8
    <3> QED
      BY <2>4, <3>9
  <2> QED
    BY <2>5, <2>6
<1>3. n \in 0 .. n
  BY <1>1
<1>4. \E g : Upto(g, n)
  BY <1>2, <1>3
<1> QED
  BY <1>4 DEF Flat

\* g[i] is the characters of the first i of the messages.
Spells(ms, g) ==
  /\ g \in [0 .. Len(ms) -> Seq(Nat)]
  /\ g[0] = <<>>
  /\ \A i \in 1 .. Len(ms) : g[i] = g[i - 1] \o ms[i].c

\* Chars is the characters of all of them.
LEMMA Spelt ==
  ASSUME NEW ms \in Seq(Message)
  PROVE  /\ \A g : Spells(ms, g) => Chars(ms) = g[Len(ms)]
         /\ \E g : Spells(ms, g)
         /\ Chars(ms) \in Seq(Nat)
<1> DEFINE seqs == [i \in DOMAIN ms |-> ms[i].c]
<1>1. DOMAIN ms = 1 .. Len(ms) /\ Len(ms) \in Nat /\ \A i \in 1 .. Len(ms) : ms[i] \in Message
  OBVIOUS
<1>2. \A i \in 1 .. Len(ms) : ms[i].c \in Seq(Nat)
  BY <1>1, Characters
<1>3. seqs \in Seq(Seq(Nat)) /\ Len(seqs) = Len(ms) /\ \A i \in 1 .. Len(ms) : seqs[i] = ms[i].c
  BY <1>1, <1>2
<1>4. Chars(ms) = FlattenSeq(seqs)
  BY DEF Chars
<1> HIDE DEF seqs
<1>5. \A g : Spells(ms, g) <=> Flat(seqs, g)
  BY <1>3 DEF Spells, Flat
<1>6. PICK g : Flat(seqs, g)
  BY <1>3, Flattens
<1>7. \A f : Flat(seqs, f) => Chars(ms) = f[Len(ms)]
  BY <1>3, <1>4, Flattened
<1>8. Len(ms) \in 0 .. Len(seqs) /\ g \in [0 .. Len(seqs) -> Seq(Nat)]
  BY <1>1, <1>3, <1>6 DEF Flat
<1>9. Chars(ms) \in Seq(Nat)
  BY <1>6, <1>7, <1>8
<1> QED
  BY <1>5, <1>6, <1>7, <1>9

\* Concatenation of characters is associative.
LEMMA Associates ==
  ASSUME NEW s \in Seq(Nat), NEW t \in Seq(Nat), NEW u \in Seq(Nat)
  PROVE  (s \o t) \o u = s \o (t \o u)
BY SMTT(60), ConcatAssociative

\* A message put behind the others adds its characters behind theirs.
LEMMA CharsAppend ==
  ASSUME NEW ms \in Seq(Message), NEW m \in Message
  PROVE  Chars(Append(ms, m)) = Chars(ms) \o m.c
<1> DEFINE n == Len(ms)
<1>1. n \in Nat /\ m.c \in Seq(Nat)
  BY Characters
<1>2. PICK g : Spells(ms, g)
  BY Spelt
<1>3. n \in 0 .. n /\ g[n] \in Seq(Nat) /\ Chars(ms) = g[n]
  <2>1. n \in 0 .. n
    BY <1>1
  <2>2. g[n] \in Seq(Nat)
    BY <1>2, <2>1 DEF Spells
  <2> QED
    BY <1>2, <2>1, <2>2, Spelt
<1>4. PICK last \in Seq(Nat) : last = g[n] \o m.c
  BY <1>1, <1>3, ConcatProperties
<1>5. PICK ns \in Seq(Message) : ns = Append(ms, m)
  BY AppendProperties
<1>6. /\ Len(ns) = n + 1 /\ ns[n + 1] = m
      /\ \A i \in 1 .. n : ns[i] = ms[i]
  BY <1>5, AppendProperties
<1> DEFINE f == [i \in 0 .. n + 1 |-> IF i = n + 1 THEN last ELSE g[i]]
<1>7. \A i \in 0 .. n + 1 : i # n + 1 => i \in 0 .. n
  BY <1>1
<1>8. f \in [0 .. n + 1 -> Seq(Nat)]
  BY <1>2, <1>4, <1>7 DEF Spells
<1>9. f[0] = <<>> /\ f[n + 1] = last
  BY <1>1, <1>2 DEF Spells
<1>10. ASSUME NEW i \in 1 .. n + 1 PROVE f[i] = f[i - 1] \o ns[i].c
  <2>1. i \in 0 .. n + 1 /\ i - 1 \in 0 .. n + 1 /\ i - 1 # n + 1
    BY <1>1
  <2>2. f[i - 1] = g[i - 1]
    BY <2>1
  <2>3. CASE i = n + 1
    <3>1. i - 1 = n
      BY <1>1, <2>3
    <3> QED
      BY <1>4, <1>6, <1>9, <2>2, <2>3, <3>1
  <2>4. CASE i # n + 1
    <3>1. i \in 1 .. n /\ f[i] = g[i]
      BY <1>1, <2>1, <2>4
    <3>2. g[i] = g[i - 1] \o ms[i].c
      BY <1>2, <3>1 DEF Spells
    <3> QED
      BY <1>6, <2>2, <3>1, <3>2
  <2> QED
    BY <2>3, <2>4
<1> HIDE DEF f
<1>11. Spells(ns, f)
  BY <1>6, <1>8, <1>9, <1>10 DEF Spells
<1>12. Chars(ns) = f[n + 1]
  BY <1>6, <1>11, Spelt
<1> QED
  BY <1>3, <1>4, <1>5, <1>9, <1>12

\* One put before the others adds its characters before theirs.
LEMMA CharsBefore ==
  ASSUME NEW ms \in Seq(Message), NEW m \in Message
  PROVE  Chars(<<m>> \o ms) = m.c \o Chars(ms)
<1> DEFINE n == Len(ms)
<1>1. n \in Nat /\ m.c \in Seq(Nat)
  BY Characters
<1>2. PICK g : Spells(ms, g)
  BY Spelt
<1>3. Chars(ms) = g[n]
  BY <1>2, Spelt
<1>4. PICK ns \in Seq(Message) : ns = <<m>> \o ms
  <2>1. <<m>> \in Seq(Message)
    OBVIOUS
  <2> QED
    BY <2>1, ConcatProperties
<1>5. Len(ns) = n + 1 /\ ns[1] = m /\ \A i \in 2 .. n + 1 : ns[i] = ms[i - 1]
  BY <1>1, <1>4
<1> DEFINE f == [i \in 0 .. n + 1 |-> IF i = 0 THEN <<>> ELSE m.c \o g[i - 1]]
<1>6. \A i \in 0 .. n + 1 : i # 0 => i - 1 \in 0 .. n
  BY <1>1
<1>7. \A i \in 0 .. n : g[i] \in Seq(Nat) /\ m.c \o g[i] \in Seq(Nat)
  BY <1>1, <1>2, ConcatProperties DEF Spells
<1>8. f \in [0 .. n + 1 -> Seq(Nat)]
  <2>1. <<>> \in Seq(Nat)
    OBVIOUS
  <2>2. ASSUME NEW i \in 0 .. n + 1
        PROVE  (IF i = 0 THEN <<>> ELSE m.c \o g[i - 1]) \in Seq(Nat)
    BY <1>6, <1>7, <2>1
  <2> QED
    BY <2>2
<1>9. f[0] = <<>> /\ f[n + 1] = m.c \o g[n]
  <2>1. 0 \in 0 .. n + 1 /\ n + 1 \in 0 .. n + 1 /\ n + 1 # 0 /\ (n + 1) - 1 = n
    BY <1>1
  <2> QED
    BY <2>1
<1>10. ASSUME NEW i \in 1 .. n + 1 PROVE f[i] = f[i - 1] \o ns[i].c
  <2>1. i \in 0 .. n + 1 /\ i - 1 \in 0 .. n + 1 /\ i # 0
    BY <1>1
  <2>2. f[i] = m.c \o g[i - 1]
    BY <2>1
  <2>3. CASE i = 1
    <3>1. f[i - 1] = <<>> /\ g[i - 1] = <<>>
      BY <2>3, <1>2, <1>9 DEF Spells
    <3>2. m.c \o <<>> = m.c /\ <<>> \o m.c = m.c
      BY <1>1, ConcatEmptySeq
    <3> QED
      BY <1>5, <2>2, <2>3, <3>1, <3>2
  <2>4. CASE i # 1
    <3>1. i - 1 # 0 /\ i \in 2 .. n + 1 /\ i - 1 \in 1 .. n /\ i - 2 \in 0 .. n /\ (i - 1) - 1 = i - 2
      BY <1>1, <2>4
    <3>2. f[i - 1] = m.c \o g[i - 2]
      BY <2>1, <3>1
    <3>3. g[i - 1] = g[i - 2] \o ms[i - 1].c
      BY <1>2, <3>1 DEF Spells
    <3>4. ms[i - 1] \in Message
      BY <3>1
    <3>5. g[i - 2] \in Seq(Nat) /\ ms[i - 1].c \in Seq(Nat)
      BY <1>7, <3>1, <3>4, Characters
    <3>6. PICK a \in Seq(Nat), b \in Seq(Nat) : a = g[i - 2] /\ b = ms[i - 1].c
      BY <3>5
    <3>7. (m.c \o a) \o b = m.c \o (a \o b)
      <4>1. PICK x \in Seq(Nat) : x = m.c
        BY <1>1
      <4>2. (x \o a) \o b = x \o (a \o b)
        BY Associates
      <4> QED
        BY <4>1, <4>2
    <3> QED
      BY <1>5, <2>2, <3>1, <3>2, <3>3, <3>6, <3>7
  <2> QED
    BY <2>3, <2>4
<1> HIDE DEF f
<1>11. Spells(ns, f)
  BY <1>5, <1>8, <1>9, <1>10 DEF Spells
<1>12. Chars(ns) = f[n + 1]
  BY <1>5, <1>11, Spelt
<1> QED
  BY <1>3, <1>4, <1>9, <1>12

\* The head's are the first.
LEMMA CharsHead ==
  ASSUME NEW ms \in Seq(Message), ms # <<>>
  PROVE  Chars(ms) = Head(ms).c \o Chars(Tail(ms))
<1>1. Head(ms) \in Message /\ Tail(ms) \in Seq(Message)
  BY HeadTailProperties
<1>2. ms = <<Head(ms)>> \o Tail(ms)
  OBVIOUS
<1> QED
  BY <1>1, <1>2, CharsBefore

\* Delays have none.
LEMMA CharsNone ==
  ASSUME NEW ms \in Seq(Message), \A i \in 1 .. Len(ms) : ms[i].c = <<>>
  PROVE  Chars(ms) = <<>>
<1>1. Len(ms) \in Nat /\ <<>> \in Seq(Nat)
  OBVIOUS
<1>2. <<>> \o <<>> = <<>>
  BY <1>1, ConcatEmptySeq
<1> DEFINE f == [i \in 0 .. Len(ms) |-> <<>>]
<1>3. f \in [0 .. Len(ms) -> Seq(Nat)] /\ \A i \in 0 .. Len(ms) : f[i] = <<>>
  BY <1>1
<1> HIDE DEF f
<1>4. \A i \in 1 .. Len(ms) : i \in 0 .. Len(ms) /\ i - 1 \in 0 .. Len(ms)
  BY <1>1
<1>5. 0 \in 0 .. Len(ms) /\ Len(ms) \in 0 .. Len(ms)
  BY <1>1
<1>6. Spells(ms, f)
  BY <1>2, <1>3, <1>4, <1>5 DEF Spells
<1> QED
  BY <1>3, <1>5, <1>6, Spelt

-----------------------------------------------------------------------------
\* The positions of a \o b are those of a and, behind them, those of b.
LEMMA Positions ==
  ASSUME NEW a \in Seq(Nat), NEW b \in Seq(Nat)
  PROVE  /\ a \o b \in Seq(Nat) /\ Len(a \o b) = Len(a) + Len(b)
         /\ Len(a) \in Nat /\ Len(b) \in Nat
         /\ DOMAIN (a \o b) = 1 .. (Len(a) + Len(b))
         /\ \A i \in 1 .. Len(a) : (a \o b)[i] = a[i]
         /\ \A i \in 1 .. Len(b) : (a \o b)[Len(a) + i] = b[i]
<1>1. /\ a \o b \in Seq(Nat) /\ Len(a \o b) = Len(a) + Len(b)
      /\ \A i \in 1 .. Len(a) + Len(b) :
           (a \o b)[i] = IF i <= Len(a) THEN a[i] ELSE b[i - Len(a)]
  BY ConcatProperties
<1>2. Len(a) \in Nat /\ Len(b) \in Nat
  OBVIOUS
<1>3. PICK c \in Seq(Nat) : c = a \o b
  BY <1>1
<1>4. DOMAIN c = 1 .. Len(c)
  OBVIOUS
<1>5. \A i \in 1 .. Len(a) : (a \o b)[i] = a[i]
  <2>1. ASSUME NEW i \in 1 .. Len(a) PROVE i \in 1 .. Len(a) + Len(b) /\ i <= Len(a)
    BY <1>2
  <2> QED
    BY <1>1, <2>1
<1>6. \A i \in 1 .. Len(b) : (a \o b)[Len(a) + i] = b[i]
  <2>1. ASSUME NEW i \in 1 .. Len(b)
        PROVE  /\ Len(a) + i \in 1 .. Len(a) + Len(b) /\ ~(Len(a) + i <= Len(a))
               /\ (Len(a) + i) - Len(a) = i
    BY <1>2
  <2> QED
    BY <1>1, <2>1
<1> QED
  BY <1>1, <1>2, <1>3, <1>4, <1>5, <1>6

\* The members of a \o b, and when it ascends.
Ascends(s) == \A i, j \in DOMAIN s : i < j => s[i] < s[j]
Below(s, t) == \A x \in ToSet(s) : \A y \in ToSet(t) : x < y

LEMMA Members ==
  ASSUME NEW a \in Seq(Nat), NEW b \in Seq(Nat)
  PROVE  /\ ToSet(a \o b) = ToSet(a) \cup ToSet(b)
         /\ ToSet(a) \subseteq Nat
         /\ Ascends(a \o b) <=> Ascends(a) /\ Ascends(b) /\ Below(a, b)
<1>1. PICK c \in Seq(Nat), m \in Nat, n \in Nat : c = a \o b /\ m = Len(a) /\ n = Len(b)
  BY Positions
<1>2. /\ DOMAIN c = 1 .. (m + n) /\ DOMAIN a = 1 .. m /\ DOMAIN b = 1 .. n
      /\ \A i \in 1 .. m : c[i] = a[i] /\ i \in 1 .. (m + n) /\ a[i] \in Nat
      /\ \A i \in 1 .. n : c[m + i] = b[i] /\ m + i \in 1 .. (m + n) /\ b[i] \in Nat
  <2>1. DOMAIN a = 1 .. m /\ DOMAIN b = 1 .. n
    BY <1>1
  <2>2. DOMAIN c = 1 .. (m + n) /\ \A i \in 1 .. m : c[i] = a[i]
    BY <1>1, Positions
  <2>3. \A i \in 1 .. n : c[m + i] = b[i]
    BY <1>1, Positions
  <2>4. \A i \in 1 .. m : i \in 1 .. (m + n) /\ a[i] \in Nat
    BY <2>1
  <2>5. \A i \in 1 .. n : m + i \in 1 .. (m + n) /\ b[i] \in Nat
    BY <2>1
  <2> QED
    BY <2>1, <2>2, <2>3, <2>4, <2>5
<1>3. ASSUME NEW i \in 1 .. (m + n), ~(i \in 1 .. m) PROVE i - m \in 1 .. n /\ m + (i - m) = i
  BY <1>3
<1>4. ToSet(c) = ToSet(a) \cup ToSet(b)
  <2>1. ASSUME NEW i \in DOMAIN c PROVE c[i] \in ToSet(a) \cup ToSet(b)
    <3>1. CASE i \in 1 .. m
      BY <1>2, <3>1 DEF ToSet
    <3>2. CASE ~(i \in 1 .. m)
      <4>1. i - m \in 1 .. n /\ m + (i - m) = i
        BY <1>2, <1>3, <3>2
      <4>2. c[i] = b[i - m]
        BY <1>2, <4>1
      <4> QED
        BY <1>2, <4>1, <4>2 DEF ToSet
    <3> QED
      BY <3>1, <3>2
  <2>2. \A i \in DOMAIN a : a[i] \in ToSet(c)
    BY <1>2 DEF ToSet
  <2>3. \A i \in DOMAIN b : b[i] \in ToSet(c)
    BY <1>2 DEF ToSet
  <2> QED
    BY <2>1, <2>2, <2>3 DEF ToSet
<1>5. ASSUME Ascends(c) PROVE Ascends(a) /\ Ascends(b) /\ Below(a, b)
  <2>1. ASSUME NEW i \in 1 .. m, NEW j \in 1 .. m, i < j PROVE a[i] < a[j]
    BY <1>2, <1>5, <2>1 DEF Ascends
  <2>2. ASSUME NEW i \in 1 .. n, NEW j \in 1 .. n, i < j PROVE b[i] < b[j]
    <3>1. m + i < m + j /\ m + i \in DOMAIN c /\ m + j \in DOMAIN c
      BY <1>2, <2>2
    <3>2. c[m + i] < c[m + j]
      BY <1>5, <3>1 DEF Ascends
    <3> QED
      BY <1>2, <3>2
  <2>3. ASSUME NEW i \in 1 .. m, NEW j \in 1 .. n PROVE a[i] < b[j]
    <3>1. i < m + j /\ i \in DOMAIN c /\ m + j \in DOMAIN c
      BY <1>2
    <3>2. c[i] < c[m + j]
      BY <1>5, <3>1 DEF Ascends
    <3> QED
      BY <1>2, <3>2
  <2>4. Below(a, b)
    BY <1>2, <2>3 DEF Below, ToSet
  <2> QED
    BY <1>2, <2>1, <2>2, <2>4 DEF Ascends
<1>6. ASSUME Ascends(a), Ascends(b), Below(a, b) PROVE Ascends(c)
  <2>1. SUFFICES ASSUME NEW i \in 1 .. (m + n), NEW j \in 1 .. (m + n), i < j
                 PROVE  c[i] < c[j]
    BY <1>2 DEF Ascends
  <2>2. CASE j \in 1 .. m
    <3>1. i \in 1 .. m
      BY <2>1, <2>2
    <3> QED
      BY <1>2, <1>6, <2>1, <2>2, <3>1 DEF Ascends
  <2>3. CASE ~(j \in 1 .. m)
    <3>1. j - m \in 1 .. n /\ c[j] = b[j - m]
      BY <1>2, <1>3, <2>3
    <3>2. CASE i \in 1 .. m
      <4>1. c[i] = a[i] /\ a[i] \in ToSet(a) /\ b[j - m] \in ToSet(b)
        BY <1>2, <3>1, <3>2 DEF ToSet
      <4> QED
        BY <1>6, <3>1, <4>1 DEF Below
    <3>3. CASE ~(i \in 1 .. m)
      <4>1. i - m \in 1 .. n /\ c[i] = b[i - m] /\ i - m < j - m
        BY <1>2, <1>3, <2>1, <3>3
      <4> QED
        BY <1>2, <1>6, <3>1, <4>1 DEF Ascends
    <3> QED
      BY <3>2, <3>3
  <2> QED
    BY <2>2, <2>3
<1>7. ToSet(a) \subseteq Nat
  BY <1>2 DEF ToSet
<1> QED
  BY <1>1, <1>4, <1>5, <1>6, <1>7

\* What CharsKept says of the characters on their way.
Kept(way, put, flushed) ==
  /\ Ascends(way)
  /\ ToSet(way) = (1 .. put) \ flushed

\* The k after the first put.
After(put, k) == [i \in 1 .. k |-> put + i]

\* The next ones, put behind the others,
LEMMA KeptMore ==
  ASSUME NEW w \in Seq(Nat), NEW put \in Nat, NEW flushed \in SUBSET (1 .. put),
         NEW k \in Nat, Kept(w, put, flushed)
  PROVE  /\ After(put, k) \in Seq(Nat)
         /\ Kept(w \o After(put, k), put + k, flushed)
         /\ flushed \in SUBSET (1 .. put + k)
<1>1. After(put, k) \in Seq(Nat)
  BY DEF After
<1>2. PICK b \in Seq(Nat) : b = After(put, k)
  BY <1>1
<1>3. DOMAIN b = 1 .. k /\ \A i \in 1 .. k : b[i] = put + i
  BY <1>2 DEF After
<1>4. ToSet(b) = (put + 1) .. (put + k)
  <2>1. ASSUME NEW x \in (put + 1) .. (put + k) PROVE x - put \in 1 .. k /\ put + (x - put) = x
    OBVIOUS
  <2>2. \A x \in (put + 1) .. (put + k) : x \in ToSet(b)
    BY <1>3, <2>1 DEF ToSet
  <2>3. \A i \in 1 .. k : put + i \in (put + 1) .. (put + k)
    OBVIOUS
  <2>4. \A x \in ToSet(b) : x \in (put + 1) .. (put + k)
    BY <1>3, <2>3 DEF ToSet
  <2> QED
    BY <2>2, <2>4
<1>5. Ascends(b)
  BY <1>3 DEF Ascends
<1>6. ToSet(w) = (1 .. put) \ flushed
  BY DEF Kept
<1>7. Below(w, b)
  BY <1>4, <1>6 DEF Below
<1>8. Ascends(w \o b)
  BY <1>5, <1>7, Members DEF Kept
<1>9. ToSet(w \o b) = ((1 .. put) \ flushed) \cup ((put + 1) .. (put + k))
  BY <1>4, <1>6, Members
<1>10. /\ 1 .. (put + k) = (1 .. put) \cup ((put + 1) .. (put + k))
      /\ (1 .. put) \cap ((put + 1) .. (put + k)) = {}
  OBVIOUS
<1> QED
  BY <1>8, <1>9, <1>10, <1>1, <1>2 DEF Kept

\* and some of them flushed, in the middle.
LEMMA KeptLess ==
  ASSUME NEW a \in Seq(Nat), NEW b \in Seq(Nat), NEW c \in Seq(Nat), NEW put \in Nat,
         NEW flushed \in SUBSET (1 .. put), Kept((a \o b) \o c, put, flushed)
  PROVE  /\ Kept(a \o c, put, flushed \cup ToSet(b))
         /\ flushed \cup ToSet(b) \in SUBSET (1 .. put)
<1>1. PICK ab \in Seq(Nat) : ab = a \o b
  BY Positions
<1>2. /\ Ascends(ab) /\ Ascends(c) /\ Below(ab, c)
      /\ ToSet(ab) \cup ToSet(c) = (1 .. put) \ flushed
  BY <1>1, Members DEF Kept
<1>3. Ascends(a) /\ Ascends(b) /\ Below(a, b) /\ ToSet(ab) = ToSet(a) \cup ToSet(b)
  BY <1>1, <1>2, Members
<1>4. Below(a, c) /\ Below(b, c)
  BY <1>2, <1>3 DEF Below
<1>5. Ascends(a \o c) /\ ToSet(a \o c) = ToSet(a) \cup ToSet(c)
  BY <1>2, <1>3, <1>4, Members
<1>6. ToSet(a) \subseteq Nat /\ ToSet(b) \subseteq Nat
  BY Members
<1>7. \A x \in Nat : ~(x < x)
  OBVIOUS
<1>8. ToSet(a) \cap ToSet(b) = {} /\ ToSet(b) \cap ToSet(c) = {}
  BY <1>3, <1>4, <1>6, <1>7 DEF Below
<1> QED
  BY <1>2, <1>3, <1>5, <1>8 DEF Kept
-----------------------------------------------------------------------------
\* Concatenation, and all that the following needs to know of it.
Cat(s, t) == s \o t

LEMMA Cats ==
  /\ \A s, t \in Seq(Nat) : Cat(s, t) \in Seq(Nat)
  /\ \A s, t, u \in Seq(Nat) : Cat(Cat(s, t), u) = Cat(s, Cat(t, u))
  /\ \A s \in Seq(Nat) : Cat(s, <<>>) = s /\ Cat(<<>>, s) = s
<1>1. ASSUME NEW s \in Seq(Nat), NEW t \in Seq(Nat) PROVE Cat(s, t) \in Seq(Nat)
  BY Positions DEF Cat
<1>2. ASSUME NEW s \in Seq(Nat), NEW t \in Seq(Nat), NEW u \in Seq(Nat)
      PROVE  Cat(Cat(s, t), u) = Cat(s, Cat(t, u))
  BY Associates DEF Cat
<1>3. ASSUME NEW s \in Seq(Nat) PROVE Cat(s, <<>>) = s /\ Cat(<<>>, s) = s
  BY ConcatEmptySeq DEF Cat
<1> QED
  BY <1>1, <1>2, <1>3

\* The characters of the service procedure of q.
Hand(q) == IF srv.q = q THEN srv.m ELSE <<>>

\* From the screen back to the writers: printed, in ttx_wsrvc's hands, in t_xm,
\* on the driver's queue, in line_wsrvc's hands, on the line's queue.
Path(P, H, X, T, L, Q) == Cat(Cat(Cat(Cat(Cat(P, H), X), T), L), Q)

Way == Path(chars.printed, Hand("ttx"), tty.xm, Chars(queue["ttx"].msgs),
            Hand("line"), Chars(queue["line"].msgs))

\* A procedure that takes the next message has nothing in its hands, and what
\* the driver's has goes to a t_xm that is empty.
CharsInv ==
  /\ chars.printed \in Seq(Nat)
  /\ chars.flushed \in SUBSET (1 .. chars.put)
  /\ srv.at \in {"", "get", "output"} => srv.m = <<>>
  /\ In("ttx", "got") => tty.xm = <<>>
  /\ Kept(Way, chars.put, chars.flushed)

\* The characters are where they were.
Still ==
  /\ \A q \in {"line", "ttx"} : queue'[q].msgs = queue[q].msgs
  /\ Hand("line")' = Hand("line") /\ Hand("ttx")' = Hand("ttx")
  /\ tty'.xm = tty.xm
  /\ chars'.printed = chars.printed /\ chars'.put = chars.put /\ chars'.flushed = chars.flushed

\* Then only what the procedure does next matters.
LEMMA StillKept ==
  ASSUME CharsInv, Still,
         srv'.at \in {"", "get", "output"} => srv'.m = <<>>,
         In("ttx", "got")' => tty.xm = <<>>
  PROVE  CharsInv'
<1>1. Way' = Way
  BY DEF Still, Way
<1> QED
  BY <1>1 DEF Still, CharsInv

\* The places of the characters, and the path made of them.
Places(P, H, X, T, L, Q) ==
  /\ chars.printed = P /\ Hand("ttx") = H /\ tty.xm = X
  /\ Chars(queue["ttx"].msgs) = T
  /\ Hand("line") = L /\ Chars(queue["line"].msgs) = Q

LEMMA Placed ==
  ASSUME StreamInv, CharsInv
  PROVE  /\ \A q \in {"line", "ttx"} : queue[q].msgs \in Seq(Message)
         /\ \E P, H, X, T, L, Q \in Seq(Nat) :
              Places(P, H, X, T, L, Q) /\ Kept(Path(P, H, X, T, L, Q), chars.put, chars.flushed)
         /\ chars.put \in Nat /\ srv.m \in Seq(Nat)
<1>1. queue["line"].msgs \in Seq(Message) /\ queue["ttx"].msgs \in Seq(Message)
  BY Parts DEF StreamInv, Queue
<1>2. Chars(queue["line"].msgs) \in Seq(Nat) /\ Chars(queue["ttx"].msgs) \in Seq(Nat)
  BY <1>1, Spelt
<1>3. srv.m \in Seq(Nat) /\ tty.xm \in Seq(Nat)
  BY DEF StreamInv, Types, Procedure
<1>4. <<>> \in Seq(Nat)
  OBVIOUS
<1>5. Hand("line") \in Seq(Nat) /\ Hand("ttx") \in Seq(Nat)
  BY <1>3, <1>4 DEF Hand
<1>6. chars.printed \in Seq(Nat) /\ chars.put \in Nat
  BY DEF CharsInv, StreamInv, Types, Counts
<1>7. PICK P \in Seq(Nat), H \in Seq(Nat), X \in Seq(Nat), T \in Seq(Nat), L \in Seq(Nat), Q \in Seq(Nat) :
        Places(P, H, X, T, L, Q)
  BY <1>2, <1>3, <1>5, <1>6 DEF Places
<1>8. Way = Path(P, H, X, T, L, Q)
  BY <1>7 DEF Places, Way
<1>9. Kept(Path(P, H, X, T, L, Q), chars.put, chars.flushed)
  BY <1>8 DEF CharsInv
<1> QED
  BY <1>1, <1>3, <1>6, <1>7, <1>9

\* The path is kept when the places after a step are the same path.
LEMMA PlacesKept ==
  ASSUME NEW P, NEW H, NEW X, NEW T, NEW L, NEW Q,
         P \in Seq(Nat), Places(P, H, X, T, L, Q)',
         Kept(Path(P, H, X, T, L, Q), chars'.put, chars'.flushed),
         chars'.flushed \in SUBSET (1 .. chars'.put),
         srv'.at \in {"", "get", "output"} => srv'.m = <<>>,
         In("ttx", "got")' => X = <<>>
  PROVE  CharsInv'
<1>1. Way' = Path(P, H, X, T, L, Q)
  BY DEF Places, Way
<1> QED
  BY <1>1 DEF Places, CharsInv

\* The same path: line_wsrvc takes or puts back a message, sends a part of one,
\* ttx_wsrvc takes one, makes it the driver's block, takes the block, prints it;
\* and a longer one, with characters put on the line's queue.
Texts(P, H, X, T, L, Q, m, n) == \A s \in {P, H, X, T, L, Q, m, n} : s \in Seq(Nat)

LEMMA SamePath ==
  ASSUME NEW P, NEW H, NEW X, NEW T, NEW L, NEW Q, NEW m, NEW n, Texts(P, H, X, T, L, Q, m, n)
  PROVE  /\ Path(P, H, X, T, <<>>, Cat(m, n)) = Path(P, H, X, T, m, n)
         /\ Path(P, H, X, T, Cat(m, n), Q) = Path(P, H, X, Cat(T, m), n, Q)
         /\ Path(P, <<>>, <<>>, Cat(m, n), L, Q) = Path(P, m, <<>>, n, L, Q)
         /\ Path(P, m, <<>>, T, L, Q) = Path(P, <<>>, m, T, L, Q)
         /\ Path(Cat(P, m), <<>>, X, T, L, Q) = Path(P, m, X, T, L, Q)
         /\ Path(P, H, X, T, L, Cat(Q, m)) = Cat(Path(P, H, X, T, L, Q), m)
         /\ Path(P, H, X, T, L, Q) \in Seq(Nat)
<1>1. /\ P \in Seq(Nat) /\ H \in Seq(Nat) /\ X \in Seq(Nat) /\ T \in Seq(Nat)
      /\ L \in Seq(Nat) /\ Q \in Seq(Nat) /\ m \in Seq(Nat) /\ n \in Seq(Nat)
  BY DEF Texts
<1>2. PICK p \in Seq(Nat), a \in Seq(Nat), b \in Seq(Nat) :
        p = Cat(P, m) /\ a = Cat(Cat(Cat(P, H), X), T) /\ b = Cat(Cat(P, H), X)
  BY <1>1, Cats
<1>3. Path(P, H, X, T, <<>>, Cat(m, n)) = Path(P, H, X, T, m, n)
  BY <1>1, <1>2, Cats DEF Path
<1>4. Path(P, H, X, T, Cat(m, n), Q) = Path(P, H, X, Cat(T, m), n, Q)
  <2>1. Cat(Cat(b, T), Cat(m, n)) = Cat(Cat(b, Cat(T, m)), n)
    BY <1>1, Cats
  <2> QED
    BY <1>2, <2>1 DEF Path
<1>5. Path(P, <<>>, <<>>, Cat(m, n), L, Q) = Path(P, m, <<>>, n, L, Q)
  <2>1. Cat(Cat(Cat(P, <<>>), <<>>), Cat(m, n)) = Cat(Cat(Cat(P, m), <<>>), n)
    BY <1>1, <1>2, Cats
  <2> QED
    BY <2>1 DEF Path
<1>6. Path(P, m, <<>>, T, L, Q) = Path(P, <<>>, m, T, L, Q)
  BY <1>1, <1>2, Cats DEF Path
<1>7. Path(Cat(P, m), <<>>, X, T, L, Q) = Path(P, m, X, T, L, Q)
  BY <1>1, <1>2, Cats DEF Path
<1>8. PICK d \in Seq(Nat) : d = Cat(a, L)
  BY <1>1, Cats
<1>9. Path(P, H, X, T, L, Q) = Cat(d, Q) /\ Path(P, H, X, T, L, Cat(Q, m)) = Cat(d, Cat(Q, m))
  BY <1>2, <1>8 DEF Path
<1>10. /\ Path(P, H, X, T, L, Cat(Q, m)) = Cat(Path(P, H, X, T, L, Q), m)
       /\ Path(P, H, X, T, L, Q) \in Seq(Nat)
  BY <1>1, <1>9, Cats
<1> QED
  BY <1>3, <1>4, <1>5, <1>6, <1>7, <1>10
-----------------------------------------------------------------------------
\* A flag set on a queue, or a queue enabled, moves no message.
LEMMA Unmoved ==
  ASSUME StreamInv
  PROVE  /\ \A q \in {"line", "ttx"} : Becomes(qenable(Now, q, TRUE)) => queue' = queue
         /\ \A q \in {"line", "ttx"} : Wants(q) =>
              \A r \in {"line", "ttx"} : queue'[r].msgs = queue[r].msgs
<1>1. ASSUME NEW q \in {"line", "ttx"}, Becomes(qenable(Now, q, TRUE)) PROVE queue' = queue
  BY <1>1, Parts, Enabled DEF StreamInv, Becomes, Qname
<1>2. ASSUME NEW q \in {"line", "ttx"}, Wants(q), NEW r \in {"line", "ttx"}
      PROVE  queue'[r].msgs = queue[r].msgs
  BY <1>2, Parts DEF StreamInv, Wants, Queue
<1> QED
  BY <1>1, <1>2

\* A step that leaves the procedure and the characters alone.
LEMMA QuietKept ==
  ASSUME CharsInv, UNCHANGED srv, tty'.xm = tty.xm,
         \A q \in {"line", "ttx"} : queue'[q].msgs = queue[q].msgs,
         chars'.printed = chars.printed, chars'.put = chars.put, chars'.flushed = chars.flushed
  PROVE  CharsInv'
<1>1. Still
  BY DEF Still, Hand
<1> QED
  BY <1>1, StillKept DEF CharsInv, In

LEMMA StrwriteTryKept ==
  ASSUME StreamInv, CharsInv, NEW p, NEW n, StrwriteTry(p, n)
  PROVE  CharsInv'
<1>1. UNCHANGED <<srv, tty>>
  BY DEF StrwriteTry
<1>2. \A q \in {"line", "ttx"} : queue'[q].msgs = queue[q].msgs
  BY Unmoved DEF StrwriteTry
<1>3. chars'.printed = chars.printed /\ chars'.put = chars.put /\ chars'.flushed = chars.flushed
  BY DEF StrwriteTry, StreamInv, Types, Counts
<1> QED
  BY <1>1, <1>2, <1>3, QuietKept

LEMMA WriterKept ==
  ASSUME StreamInv, CharsInv, NEW p,
         \/ StrwriteFails(p) \/ StrwriteInterrupt(p) \/ \E n \in Chunks : Strwrite(p, n)
  PROVE  CharsInv'
<1>1. UNCHANGED <<srv, tty, queue>>
  BY DEF StrwriteFails, StrwriteInterrupt, Strwrite
<1>2. chars'.printed = chars.printed /\ chars'.put = chars.put /\ chars'.flushed = chars.flushed
  BY DEF StrwriteFails, StrwriteInterrupt, Strwrite, StreamInv, Types, Counts
<1> QED
  BY <1>1, <1>2, QuietKept

\* The timers, the start and stop of the output, and the start of the queues.
LEMMA QuietStepsKept ==
  ASSUME StreamInv, CharsInv, RunQueues \/ LineTimer \/ DelayTimer \/ Suspend \/ Resume
  PROVE  CharsInv'
<1>1. UNCHANGED <<srv, queue, chars>>
  BY Unmoved DEF RunQueues, LineTimer, DelayTimer, Suspend, Resume
<1>2. tty'.xm = tty.xm
  BY DEF RunQueues, LineTimer, DelayTimer, Suspend, Resume, StreamInv, Types
<1> QED
  BY <1>1, <1>2, QuietKept

\* A procedure begins with empty hands, and the stream head's has no other.
LEMMA QueuerunKept ==
  ASSUME StreamInv, CharsInv, Queuerun \/ Strwsrv
  PROVE  CharsInv'
<1>1. srv.m = <<>> /\ srv'.m = <<>> /\ srv'.at # "got"
  <2>1. CASE Queuerun
    <3>1. srv = [q |-> "none", at |-> "", m |-> <<>>]
      BY <2>1 DEF Queuerun, NoSrv
    <3>2. srv' = [q |-> Head(qhead), at |-> "get", m |-> <<>>]
      BY <2>1 DEF Queuerun, NoSrv
    <3> QED
      BY <3>1, <3>2
  <2>2. CASE Strwsrv
    <3>1. srv.at = "get" /\ srv' = [q |-> "none", at |-> "", m |-> <<>>]
      BY <2>2 DEF Strwsrv, In, NoSrv
    <3> QED
      BY <3>1 DEF CharsInv
  <2> QED
    BY <2>1, <2>2
<1>2. UNCHANGED <<queue, tty, chars>>
  BY DEF Queuerun, Strwsrv
<1>3. Still
  BY <1>1, <1>2 DEF Still, Hand
<1> QED
  BY <1>1, <1>3, StillKept DEF In
-----------------------------------------------------------------------------
\* The characters on the queues after putq and putbq.
LEMMA PutChars ==
  ASSUME NEW S \in Store, NEW q \in {"line", "ttx"}, NEW r \in {"line", "ttx"}, r # q,
         NEW m \in Message
  PROVE  /\ putq(S, q, m) \in Store /\ putbq(S, q, m) \in Store
         /\ Chars(putq(S, q, m).queue[q].msgs) = Cat(Chars(S.queue[q].msgs), m.c)
         /\ Chars(putbq(S, q, m).queue[q].msgs) = Cat(m.c, Chars(S.queue[q].msgs))
         /\ putq(S, q, m).queue[r] = S.queue[r]
         /\ putbq(S, q, m).queue[r] = S.queue[r]
<1> DEFINE msgs == S.queue[q].msgs
<1>1. msgs \in Seq(Message)
  BY DEF Store, Queue
<1>2. Append(msgs, m) \in Seq(Message) /\ Append(msgs, m) # <<>>
  BY <1>1, AppendProperties
<1>3. <<m>> \o msgs \in Seq(Message) /\ <<m>> \o msgs # <<>>
  <2>1. <<m>> \o msgs \in Seq(Message)
    BY <1>1
  <2>2. <<m>> \o msgs # <<>>
    BY <1>1
  <2> QED
    BY <2>1, <2>2
<1> HIDE DEF msgs
<1>4. Holds(S, q, Append(msgs, m)).queue[q].msgs = Append(msgs, m)
  BY <1>2, HoldsPuts
<1>5. Holds(S, q, <<m>> \o msgs).queue[q].msgs = <<m>> \o msgs
  BY <1>3, HoldsPuts
<1>6. putq(S, q, m) = Holds(S, q, Append(msgs, m))
  BY DEF putq, msgs
<1>7. putbq(S, q, m) = Holds(S, q, <<m>> \o msgs)
  BY DEF putbq, msgs
<1>8. Chars(Append(msgs, m)) = Cat(Chars(msgs), m.c)
  BY <1>1, CharsAppend DEF Cat
<1>9. Chars(<<m>> \o msgs) = Cat(m.c, Chars(msgs))
  BY <1>1, CharsBefore DEF Cat
<1>10. Puts(S, putq(S, q, m), q) /\ Puts(S, putbq(S, q, m), q)
  BY PutPuts
<1>11. /\ putq(S, q, m) \in Store /\ putbq(S, q, m) \in Store
       /\ putq(S, q, m).queue[r] = S.queue[r] /\ putbq(S, q, m).queue[r] = S.queue[r]
  BY <1>10 DEF Puts, Elsewhere
<1> QED
  BY <1>4, <1>5, <1>6, <1>7, <1>8, <1>9, <1>11 DEF msgs

\* The next characters go behind the others.
LEMMA MoreKept ==
  ASSUME StreamInv, CharsInv, NEW k \in Nat, Becomes(putq(Now, "line", Data(Next1(k)))),
         UNCHANGED <<srv, tty>>, chars'.printed = chars.printed,
         chars'.put = chars.put + k, chars'.flushed = chars.flushed
  PROVE  CharsInv'
<1>1. PICK P, H, X, T, L, Q \in Seq(Nat) :
        Places(P, H, X, T, L, Q) /\ Kept(Path(P, H, X, T, L, Q), chars.put, chars.flushed)
  BY Placed
<1>2. Data(Next1(k)) \in Message /\ chars.put \in Nat
  BY Puttable, Placed DEF StreamInv
<1>3. PICK put \in Nat, flushed \in SUBSET (1 .. chars.put) : put = chars.put /\ flushed = chars.flushed
  BY <1>2 DEF CharsInv
<1>4. Next1(k) = After(put, k)
  BY <1>3 DEF Next1, After
<1>5. PICK w \in Seq(Nat) : w = Path(P, H, X, T, L, Q)
  <2>1. Texts(P, H, X, T, L, Q, P, P)
    BY DEF Texts
  <2> QED
    BY <2>1, SamePath
<1>6. /\ After(put, k) \in Seq(Nat) /\ Kept(w \o After(put, k), put + k, flushed)
       /\ flushed \in SUBSET (1 .. put + k)
  <2>1. Kept(w, put, flushed) /\ flushed \in SUBSET (1 .. put)
    BY <1>1, <1>5, <1>3
  <2> QED
    BY <2>1, KeptMore
<1>7. PICK b \in Seq(Nat) : b = After(put, k) /\ b = Next1(k)
  BY <1>6, <1>4
<1>8. Data(Next1(k)).c = b
  BY <1>7 DEF Data
<1>9. PICK m \in Message : m = Data(Next1(k))
  BY <1>2
<1>10. PICK S : S = Now
  OBVIOUS
<1>11. S \in Store /\ S.queue = queue
  BY <1>10, Parts DEF StreamInv
<1>12. PICK U : U = putq(S, "line", m)
  OBVIOUS
<1>13. /\ Chars(U.queue["line"].msgs) = Cat(Chars(queue["line"].msgs), b)
      /\ U.queue["ttx"] = queue["ttx"]
  BY <1>8, <1>9, <1>11, <1>12, PutChars
<1>14. queue' = U.queue
  BY <1>9, <1>10, <1>12 DEF Becomes
<1>15. chars'.printed = chars.printed /\ chars'.put = chars.put + k /\ chars'.flushed = chars.flushed
  OBVIOUS
<1>16. Places(P, H, X, T, L, Cat(Q, b))'
  BY <1>1, <1>13, <1>14, <1>15 DEF Places, Hand
<1>17. Path(P, H, X, T, L, Cat(Q, b)) = w \o b
  <2>1. Texts(P, H, X, T, L, Q, b, b)
    BY DEF Texts
  <2>2. Path(P, H, X, T, L, Cat(Q, b)) = Cat(Path(P, H, X, T, L, Q), b)
    BY <2>1, SamePath
  <2> QED
    BY <1>5, <2>2 DEF Cat
<1>18. Kept(Path(P, H, X, T, L, Cat(Q, b)), chars'.put, chars'.flushed)
  BY <1>7, <1>15, <1>17, <1>3, <1>6
<1>19. chars'.flushed \in SUBSET (1 .. chars'.put)
  BY <1>15, <1>3, <1>6
<1>20. /\ srv'.at \in {"", "get", "output"} => srv'.m = <<>>
       /\ In("ttx", "got")' => X = <<>>
  BY <1>1 DEF CharsInv, In, Places
<1> QED
  BY <1>1, <1>16, <1>18, <1>19, <1>20, PlacesKept

LEMMA StrwritePutKept ==
  ASSUME StreamInv, CharsInv, NEW p, StrwritePut(p)
  PROVE  CharsInv'
<1> DEFINE k == Min({writers[p].n, strmsgsz})
<1>1. writers[p].n \in Nat \ {0} /\ strmsgsz \in Nat
  BY StreamAssumption DEF StrwritePut, StreamInv, Types, StreamAssumption
<1>2. k \in Nat
  BY <1>1, Smaller
<1>3. /\ Becomes(putq(Now, "line", Data(Next1(k)))) /\ UNCHANGED <<srv, tty>>
      /\ chars' = [chars EXCEPT !.put = chars.put + k]
  BY DEF StrwritePut
<1> HIDE DEF k
<1>4. chars'.printed = chars.printed /\ chars'.put = chars.put + k /\ chars'.flushed = chars.flushed
  BY <1>3 DEF StreamInv, Types, Counts
<1> QED
  BY <1>2, <1>3, <1>4, MoreKept

LEMMA EchoKept ==
  ASSUME StreamInv, CharsInv, Echo
  PROVE  CharsInv'
<1>1. Becomes(putq(Now, "line", Data(Next1(1)))) /\ UNCHANGED <<srv, tty>>
  BY DEF Echo
<1>2. chars'.printed = chars.printed /\ chars'.put = chars.put + 1 /\ chars'.flushed = chars.flushed
  BY DEF Echo, StreamInv, Types, Counts
<1> QED
  BY <1>1, <1>2, MoreKept

\* And after getq, with the message it returns.
LEMMA GetChars ==
  ASSUME NEW S \in Store, NEW q \in {"line", "ttx"}, NEW r \in {"line", "ttx"}, r # q
  PROVE  /\ getq(S, q) \in Store /\ getq(S, q).queue[r] = S.queue[r]
         /\ S.queue[q].msgs = <<>> => getq(S, q).queue[q].msgs = S.queue[q].msgs
         /\ S.queue[q].msgs # <<>> =>
              /\ Head(S.queue[q].msgs) \in Message
              /\ Chars(getq(S, q).queue[q].msgs) \in Seq(Nat)
              /\ Chars(S.queue[q].msgs) =
                   Cat(Head(S.queue[q].msgs).c, Chars(getq(S, q).queue[q].msgs))
<1> DEFINE msgs == S.queue[q].msgs
           left == getq(S, q).queue[q].msgs
<1>1. msgs \in Seq(Message)
  BY DEF Store, Queue
<1>2. left = IF msgs = <<>> THEN <<>> ELSE Tail(msgs)
  BY GetqGets
<1>3. getq(S, q) \in Store /\ getq(S, q).queue[r] = S.queue[r]
  BY GetqGets DEF Gets, Elsewhere
<1> HIDE DEF msgs, left
<1>4. ASSUME msgs # <<>>
      PROVE  /\ Head(msgs) \in Message /\ Chars(left) \in Seq(Nat)
             /\ Chars(msgs) = Cat(Head(msgs).c, Chars(left))
  <2>1. Head(msgs) \in Message /\ Tail(msgs) \in Seq(Message)
    BY <1>1, <1>4, HeadTailProperties
  <2>2. Chars(Tail(msgs)) \in Seq(Nat)
    BY <2>1, Spelt
  <2>3. Chars(msgs) = Head(msgs).c \o Chars(Tail(msgs))
    BY <1>1, <1>4, CharsHead
  <2> QED
    BY <1>2, <1>4, <2>1, <2>2, <2>3 DEF Cat
<1> QED
  BY <1>2, <1>3, <1>4 DEF msgs, left
-----------------------------------------------------------------------------
\* The service procedure goes on.
LEMMA Goes ==
  ASSUME StreamInv, NEW at, NEW m, Goto(at, m)
  PROVE  srv'.q = srv.q /\ srv'.at = at /\ srv'.m = m
BY DEF StreamInv, Types, Goto, Procedure

\* The message taken from the line's queue is in line_wsrvc's hands.
LEMMA LineGetKept ==
  ASSUME StreamInv, CharsInv, LineGet
  PROVE  CharsInv'
<1>1. PICK P, H, X, T, L, Q \in Seq(Nat) :
        Places(P, H, X, T, L, Q) /\ Kept(Path(P, H, X, T, L, Q), chars.put, chars.flushed)
  BY Placed
<1>2. PICK S \in Store : S = Now /\ S.queue = queue
  BY Parts DEF StreamInv
<1>3. PICK U : U = getq(S, "line")
  OBVIOUS
<1>4. srv.q = "line" /\ srv.at = "get" /\ srv.m = <<>> /\ queue' = U.queue /\ UNCHANGED <<tty, chars>>
  BY <1>2, <1>3 DEF LineGet, In, Becomes, CharsInv
<1>5. H = <<>> /\ L = <<>>
  BY <1>1, <1>4 DEF Places, Hand
<1>6. U.queue["ttx"] = queue["ttx"]
  BY <1>2, <1>3, GetChars
<1>7. CASE queue["line"].msgs = <<>>
  <2>1. srv' = NoSrv
    BY <1>7 DEF LineGet
  <2>2. U.queue["line"].msgs = queue["line"].msgs
    BY <1>2, <1>3, <1>7, GetChars
  <2>3. Still
    BY <1>4, <1>6, <2>1, <2>2 DEF Still, Hand, NoSrv
  <2> QED
    BY <2>1, <2>3, StillKept DEF NoSrv, In
<1>8. CASE queue["line"].msgs # <<>>
  <2>1. PICK h \in Message : h = Head(queue["line"].msgs)
    BY <1>2, <1>8, GetChars
  <2>2. PICK m \in Seq(Nat), n \in Seq(Nat) : m = h.c /\ n = Chars(U.queue["line"].msgs)
    BY <1>2, <1>3, <1>8, <2>1, GetChars, Characters
  <2>3. Q = Cat(m, n)
    BY <1>1, <1>2, <1>3, <1>8, <2>1, <2>2, GetChars DEF Places
  <2>4. Goto("canput", m)
    BY <1>8, <2>1, <2>2 DEF LineGet
  <2>5. srv'.q = "line" /\ srv'.at = "canput" /\ srv'.m = m
    BY <1>4, <2>4, Goes
  <2>6. Places(P, H, X, T, m, n)'
    BY <1>1, <1>4, <1>6, <2>2, <2>5 DEF Places, Hand
  <2>7. Path(P, H, X, T, m, n) = Path(P, H, X, T, L, Q)
    <3>1. Texts(P, H, X, T, L, Q, m, n)
      BY DEF Texts
    <3>2. Path(P, H, X, T, <<>>, Cat(m, n)) = Path(P, H, X, T, m, n)
      BY <3>1, SamePath
    <3> QED
      BY <1>5, <2>3, <3>2
  <2>8. /\ Kept(Path(P, H, X, T, m, n), chars'.put, chars'.flushed)
        /\ chars'.flushed \in SUBSET (1 .. chars'.put)
    BY <1>1, <1>4, <2>7 DEF CharsInv
  <2> QED
    BY <2>5, <2>6, <2>8, PlacesKept DEF In
<1> QED
  BY <1>7, <1>8

\* The procedure goes on with what it has.
LEMMA HeldKept ==
  ASSUME StreamInv, CharsInv, NEW at \in At, srv.q = "line", Goto(at, srv.m),
         at = "get" => srv.m = <<>>, at \notin {"", "output"},
         UNCHANGED <<tty, chars>>,
         \A q \in {"line", "ttx"} : queue'[q].msgs = queue[q].msgs
  PROVE  CharsInv'
<1>1. srv'.q = "line" /\ srv'.at = at /\ srv'.m = srv.m
  BY Goes
<1>2. Still
  BY <1>1 DEF Still, Hand
<1> QED
  BY <1>1, <1>2, StillKept DEF In

LEMMA LineHeldKept ==
  ASSUME StreamInv, CharsInv, LineCanput \/ LineFull \/ LineNoMemory
  PROVE  CharsInv'
<1>1. CASE LineCanput
  <2> DEFINE at == IF queue["ttx"].full THEN "full" ELSE IF srv.m = <<>> THEN "get" ELSE "send"
  <2>1. srv.q = "line" /\ Goto(at, srv.m) /\ UNCHANGED <<tty, chars, queue>>
    BY <1>1 DEF LineCanput, In
  <2>2. at \in At /\ (at = "get" => srv.m = <<>>) /\ at \notin {"", "output"}
    BY DEF At
  <2> HIDE DEF at
  <2> QED
    BY <2>1, <2>2, HeldKept
<1>2. CASE LineFull
  <2>1. srv.q = "line" /\ Goto("back", srv.m) /\ UNCHANGED <<tty, chars>>
    BY <1>2 DEF LineFull, In
  <2>2. \A q \in {"line", "ttx"} : queue'[q].msgs = queue[q].msgs
    BY <1>2, Unmoved DEF LineFull
  <2> QED
    BY <2>1, <2>2, HeldKept DEF At
<1>3. CASE LineNoMemory
  <2>1. srv.q = "line" /\ Goto("back", srv.m) /\ UNCHANGED <<tty, chars, queue>>
    BY <1>3 DEF LineNoMemory, In
  <2> QED
    BY <2>1, HeldKept DEF At
<1> QED
  BY <1>1, <1>2, <1>3

\* The message put back is the first of the line's queue again.
LEMMA LineBackKept ==
  ASSUME StreamInv, CharsInv, LineBack
  PROVE  CharsInv'
<1>1. PICK P, H, X, T, L, Q \in Seq(Nat) :
        Places(P, H, X, T, L, Q) /\ Kept(Path(P, H, X, T, L, Q), chars.put, chars.flushed)
  BY Placed
<1>2. PICK S \in Store : S = Now /\ S.queue = queue
  BY Parts DEF StreamInv
<1>3. srv.q = "line" /\ srv' = NoSrv /\ UNCHANGED <<tty, chars>>
  BY DEF LineBack, In
<1>4. PICK m \in Message : m = Data(srv.m) /\ m.c = srv.m
  <2>1. srv.m \in Seq(Nat)
    BY Placed
  <2>2. Data(srv.m) \in Message /\ Data(srv.m).c = srv.m
    BY <2>1 DEF Data, Message
  <2> QED
    BY <2>2
<1>5. PICK U : U = putbq(S, "line", m)
  OBVIOUS
<1>6. queue' = U.queue
  BY <1>2, <1>4, <1>5 DEF LineBack, Becomes
<1>7. L = srv.m /\ H = <<>>
  BY <1>1, <1>3 DEF Places, Hand
<1>8. Chars(U.queue["line"].msgs) = Cat(L, Q) /\ U.queue["ttx"] = queue["ttx"]
  <2>1. /\ Chars(putbq(S, "line", m).queue["line"].msgs) = Cat(m.c, Chars(S.queue["line"].msgs))
        /\ putbq(S, "line", m).queue["ttx"] = S.queue["ttx"]
    BY PutChars
  <2>2. Q = Chars(queue["line"].msgs)
    BY <1>1 DEF Places
  <2> QED
    BY <1>2, <1>4, <1>5, <1>7, <2>1, <2>2
<1>9. Places(P, H, X, T, <<>>, Cat(L, Q))'
  BY <1>1, <1>3, <1>6, <1>7, <1>8 DEF Places, Hand, NoSrv
<1>10. Path(P, H, X, T, <<>>, Cat(L, Q)) = Path(P, H, X, T, L, Q)
  <2>1. Texts(P, H, X, T, L, Q, L, Q)
    BY DEF Texts
  <2> QED
    BY <2>1, SamePath
<1>11. /\ Kept(Path(P, H, X, T, <<>>, Cat(L, Q)), chars'.put, chars'.flushed)
       /\ chars'.flushed \in SUBSET (1 .. chars'.put)
  BY <1>1, <1>3, <1>10 DEF CharsInv
<1>12. srv'.m = <<>> /\ ~In("ttx", "got")'
  BY <1>3 DEF NoSrv, In
<1> QED
  BY <1>9, <1>11, <1>12, PlacesKept

\* A sequence is cut in two.
LEMMA Cut ==
  ASSUME NEW s \in Seq(Nat), NEW k \in Nat, k >= 1, k <= Len(s)
  PROVE  /\ SubSeq(s, 1, k) \in Seq(Nat) /\ SubSeq(s, k + 1, Len(s)) \in Seq(Nat)
         /\ s = SubSeq(s, 1, k) \o SubSeq(s, k + 1, Len(s))
<1>1. PICK l \in Nat : l = Len(s)
  OBVIOUS
<1>2. 1 \in 1 .. l + 1 /\ k \in 0 .. l /\ l \in k .. l
  BY <1>1
<1>3. SubSeq(s, 1, k) \o SubSeq(s, k + 1, l) = SubSeq(s, 1, l)
  BY <1>1, <1>2, ConcatAdjacentSubSeq
<1>4. SubSeq(s, 1, l) = s
  BY <1>1, SubSeqFull
<1>5. SubSeq(s, 1, k) \in Seq(Nat)
  BY <1>1
<1>6. SubSeq(s, k + 1, l) \in Seq(Nat)
  BY <1>1
<1> QED
  BY <1>1, <1>3, <1>4, <1>5, <1>6

\* What line_transmit sends goes from its hands to the driver's queue.
LEMMA LineSendKept ==
  ASSUME StreamInv, CharsInv, NEW k \in 1 .. strmsgsz, NEW delay \in BOOLEAN, LineSend(k, delay)
  PROVE  CharsInv'
<1> DEFINE sent == SubSeq(srv.m, 1, k)
           rest == SubSeq(srv.m, k + 1, Len(srv.m))
<1>1. PICK P, H, X, T, L, Q \in Seq(Nat) :
        Places(P, H, X, T, L, Q) /\ Kept(Path(P, H, X, T, L, Q), chars.put, chars.flushed)
  BY Placed
<1>2. PICK S \in Store : S = Now /\ S.queue = queue
  BY Parts DEF StreamInv
<1>3. srv.m \in Seq(Nat) /\ k \in Nat /\ k <= Len(srv.m) /\ k >= 1
  <2>1. srv.m \in Seq(Nat)
    BY Placed
  <2>2. k \in Nat /\ k >= 1
    BY StreamAssumption DEF StreamAssumption
  <2> QED
    BY <2>1, <2>2 DEF LineSend
<1>4. sent \in Seq(Nat) /\ rest \in Seq(Nat) /\ srv.m = sent \o rest
  BY <1>3, Cut
<1> HIDE DEF sent, rest
<1>5. PICK a \in Seq(Nat), b \in Seq(Nat) : a = sent /\ b = rest /\ srv.m = Cat(a, b)
  BY <1>4 DEF Cat
<1>6. PICK m \in Message : m = Data(sent) /\ m.c = a
  <2>1. Data(a) \in Message /\ Data(a).c = a
    BY DEF Data, Message
  <2> QED
    BY <1>5, <2>1
<1>7. PICK U : U = putq(S, "ttx", m)
  OBVIOUS
<1>8. PICK V : V = IF delay THEN putq(U, "ttx", Delay) ELSE U
  OBVIOUS
<1>9. queue' = V.queue /\ srv.q = "line" /\ UNCHANGED <<tty, chars>>
  BY <1>2, <1>6, <1>7, <1>8 DEF LineSend, Becomes, In, sent
<1>10. /\ U \in Store /\ Chars(U.queue["ttx"].msgs) = Cat(T, a)
       /\ U.queue["line"] = queue["line"]
  <2>1. /\ putq(S, "ttx", m) \in Store
        /\ Chars(putq(S, "ttx", m).queue["ttx"].msgs) = Cat(Chars(S.queue["ttx"].msgs), m.c)
        /\ putq(S, "ttx", m).queue["line"] = S.queue["line"]
    BY PutChars
  <2>2. T = Chars(queue["ttx"].msgs)
    BY <1>1 DEF Places
  <2> QED
    BY <1>2, <1>6, <1>7, <2>1, <2>2
<1>11. Chars(V.queue["ttx"].msgs) = Cat(T, a) /\ V.queue["line"] = queue["line"]
  <2>1. CASE delay
    <3>1. Delay \in Message /\ Delay.c = <<>>
      BY DEF Delay, Message
    <3>2. /\ Chars(putq(U, "ttx", Delay).queue["ttx"].msgs) = Cat(Chars(U.queue["ttx"].msgs), Delay.c)
          /\ putq(U, "ttx", Delay).queue["line"] = U.queue["line"]
      <4>1. PICK W \in Store, d \in Message : W = U /\ d = Delay
        BY <1>10, <3>1
      <4>2. /\ Chars(putq(W, "ttx", d).queue["ttx"].msgs) = Cat(Chars(W.queue["ttx"].msgs), d.c)
            /\ putq(W, "ttx", d).queue["line"] = W.queue["line"]
        BY PutChars
      <4> QED
        BY <4>1, <4>2
    <3>3. Cat(Cat(T, a), <<>>) = Cat(T, a)
      <4>1. PICK t \in Seq(Nat) : t = Cat(T, a)
        BY Cats
      <4>2. Cat(t, <<>>) = t
        BY Cats
      <4> QED
        BY <4>1, <4>2
    <3> QED
      BY <1>8, <1>10, <2>1, <3>1, <3>2, <3>3
  <2>2. CASE ~delay
    BY <1>8, <1>10, <2>2
  <2> QED
    BY <2>1, <2>2
<1>12. PICK at \in {"get", "canput"} : Goto(at, b) /\ (at = "get" => b = <<>>)
  BY <1>5 DEF LineSend, rest
<1>13. srv'.q = "line" /\ srv'.at = at /\ srv'.m = b
  BY <1>9, <1>12, Goes
<1>14. L = Cat(a, b)
  BY <1>1, <1>5, <1>9 DEF Places, Hand
<1>15. Places(P, H, X, Cat(T, a), b, Q)'
  BY <1>1, <1>9, <1>11, <1>13 DEF Places, Hand
<1>16. Path(P, H, X, Cat(T, a), b, Q) = Path(P, H, X, T, L, Q)
  <2>1. Texts(P, H, X, T, L, Q, a, b)
    BY DEF Texts
  <2>2. Path(P, H, X, T, Cat(a, b), Q) = Path(P, H, X, Cat(T, a), b, Q)
    BY <2>1, SamePath
  <2> QED
    BY <1>14, <2>2
<1>17. /\ Kept(Path(P, H, X, Cat(T, a), b, Q), chars'.put, chars'.flushed)
       /\ chars'.flushed \in SUBSET (1 .. chars'.put)
  BY <1>1, <1>9, <1>16 DEF CharsInv
<1>18. /\ srv'.at \in {"", "get", "output"} => srv'.m = <<>>
       /\ ~In("ttx", "got")'
  BY <1>12, <1>13 DEF In
<1> QED
  BY <1>15, <1>17, <1>18, PlacesKept
-----------------------------------------------------------------------------
\* A message goes to ttx_wsrvc's hands, which are empty, as is the driver's block.
LEMMA TtxGetKept ==
  ASSUME StreamInv, CharsInv, TtxGet
  PROVE  CharsInv'
<1>1. PICK P, H, X, T, L, Q \in Seq(Nat) :
        Places(P, H, X, T, L, Q) /\ Kept(Path(P, H, X, T, L, Q), chars.put, chars.flushed)
  BY Placed
<1>2. PICK S \in Store : S = Now /\ S.queue = queue
  BY Parts DEF StreamInv
<1>3. PICK U : U = getq(S, "ttx")
  OBVIOUS
<1>4. srv.q = "ttx" /\ srv.at = "get" /\ srv.m = <<>> /\ UNCHANGED chars
  BY DEF TtxGet, In, CharsInv
<1>5. H = <<>> /\ L = <<>>
  BY <1>1, <1>4 DEF Places, Hand
<1>6. U.queue["line"] = queue["line"]
  BY <1>2, <1>3, GetChars
<1>7. PICK msgs \in Seq(Message) : msgs = queue["ttx"].msgs
  BY Placed
<1>8. CASE tty.xm # <<>> /\ Goto("output", <<>>) /\ UNCHANGED <<queue, qhead, tty>>
  <2>1. srv'.q = "ttx" /\ srv'.at = "output" /\ srv'.m = <<>>
    BY <1>4, <1>8, Goes
  <2>2. Still
    BY <1>4, <1>8, <2>1 DEF Still, Hand
  <2> QED
    BY <2>1, <2>2, StillKept DEF In
<1>9. CASE tty.xm = <<>> /\ tty.delay /\ srv' = NoSrv /\ UNCHANGED <<queue, qhead, tty>>
  <2>1. Still
    BY <1>4, <1>9 DEF Still, Hand, NoSrv
  <2> QED
    BY <1>9, <2>1, StillKept DEF In, NoSrv
<1>10. CASE msgs = <<>> /\ srv' = NoSrv /\ UNCHANGED tty /\ Becomes(getq(Now, "ttx"))
  <2>1. queue' = U.queue
    BY <1>2, <1>3, <1>10 DEF Becomes
  <2>2. U.queue["ttx"].msgs = queue["ttx"].msgs
    <3>1. S.queue["ttx"].msgs = <<>>
      BY <1>2, <1>7, <1>10
    <3>2. getq(S, "ttx").queue["ttx"].msgs = S.queue["ttx"].msgs
      BY <3>1, GetChars
    <3> QED
      BY <1>2, <1>3, <3>2
  <2>3. Still
    BY <1>4, <1>6, <1>10, <2>1, <2>2 DEF Still, Hand, NoSrv
  <2> QED
    BY <1>10, <2>3, StillKept DEF NoSrv, In
<1>11. CASE /\ msgs # <<>> /\ tty.xm = <<>> /\ Becomes(getq(Now, "ttx"))
            /\ \/ IsDelay(msgs[1]) /\ srv' = NoSrv /\ tty' = [tty EXCEPT !.delay = TRUE]
               \/ Goto("got", msgs[1].c) /\ UNCHANGED tty
  <2>1. queue' = U.queue
    BY <1>2, <1>3, <1>11 DEF Becomes
  <2>2. PICK h \in Message : h = msgs[1] /\ h = Head(msgs)
    BY <1>11
  <2>3. PICK m \in Seq(Nat), n \in Seq(Nat) : m = h.c /\ n = Chars(U.queue["ttx"].msgs)
    BY <1>2, <1>3, <1>7, <1>11, <2>2, GetChars, Characters
  <2>4. T = Cat(m, n)
    BY <1>1, <1>2, <1>3, <1>7, <1>11, <2>2, <2>3, GetChars DEF Places
  <2>5. CASE IsDelay(h) /\ srv' = NoSrv /\ tty' = [tty EXCEPT !.delay = TRUE]
    <3>1. m = <<>> /\ tty'.xm = X
      BY <1>1, <2>3, <2>5, Characters DEF Places, StreamInv, Types
    <3>2. T = n
      BY <2>4, <3>1, Cats
    <3>3. Places(P, H, X, T, L, Q)'
      BY <1>1, <1>4, <1>5, <1>6, <2>1, <2>3, <2>5, <3>1, <3>2 DEF Places, Hand, NoSrv
    <3>4. /\ Kept(Path(P, H, X, T, L, Q), chars'.put, chars'.flushed)
          /\ chars'.flushed \in SUBSET (1 .. chars'.put)
      BY <1>1, <1>4 DEF CharsInv
    <3>5. srv'.m = <<>> /\ ~In("ttx", "got")'
      BY <2>5 DEF NoSrv, In
    <3> QED
      BY <3>3, <3>4, <3>5, PlacesKept
  <2>6. CASE Goto("got", h.c) /\ UNCHANGED tty
    <3>1. srv'.q = "ttx" /\ srv'.at = "got" /\ srv'.m = m
      BY <1>4, <2>3, <2>6, Goes
    <3>2. X = <<>>
      BY <1>1, <1>11 DEF Places
    <3>3. Places(P, m, <<>>, n, L, Q)'
      BY <1>1, <1>4, <1>5, <1>6, <2>1, <2>3, <2>6, <3>1, <3>2 DEF Places, Hand
    <3>4. Path(P, m, <<>>, n, L, Q) = Path(P, H, X, T, L, Q)
      <4>1. Texts(P, H, X, T, L, Q, m, n)
        BY DEF Texts
      <4>2. Path(P, <<>>, <<>>, Cat(m, n), L, Q) = Path(P, m, <<>>, n, L, Q)
        BY <4>1, SamePath
      <4> QED
        BY <1>5, <2>4, <3>2, <4>2
    <3>5. /\ Kept(Path(P, m, <<>>, n, L, Q), chars'.put, chars'.flushed)
          /\ chars'.flushed \in SUBSET (1 .. chars'.put)
      BY <1>1, <1>4, <3>4 DEF CharsInv
    <3>6. srv'.at \in {"", "get", "output"} => srv'.m = <<>>
      BY <3>1
    <3> QED
      BY <3>3, <3>5, <3>6, PlacesKept
  <2> QED
    BY <1>11, <2>2, <2>5, <2>6
<1> QED
  BY <1>7, <1>8, <1>9, <1>10, <1>11 DEF TtxGet

\* What ttx_wsrvc has becomes the driver's block, which was empty.
LEMMA TtxGotKept ==
  ASSUME StreamInv, CharsInv, TtxGot
  PROVE  CharsInv'
<1>1. PICK P, H, X, T, L, Q \in Seq(Nat) :
        Places(P, H, X, T, L, Q) /\ Kept(Path(P, H, X, T, L, Q), chars.put, chars.flushed)
  BY Placed
<1>2. srv.q = "ttx" /\ tty.xm = <<>> /\ UNCHANGED <<queue, chars>>
  BY DEF TtxGot, In, CharsInv
<1>3. tty'.xm = srv.m
  BY DEF TtxGot, StreamInv, Types
<1>4. srv'.q = "ttx" /\ srv'.at = "output" /\ srv'.m = <<>>
  BY <1>2, Goes DEF TtxGot
<1>5. H = srv.m /\ X = <<>> /\ L = <<>>
  BY <1>1, <1>2 DEF Places, Hand
<1>6. Places(P, <<>>, H, T, L, Q)'
  BY <1>1, <1>2, <1>3, <1>4, <1>5 DEF Places, Hand
<1>7. Path(P, <<>>, H, T, L, Q) = Path(P, H, X, T, L, Q)
  <2>1. Texts(P, H, X, T, L, Q, H, H)
    BY DEF Texts
  <2>2. Path(P, H, <<>>, T, L, Q) = Path(P, <<>>, H, T, L, Q)
    BY <2>1, SamePath
  <2> QED
    BY <1>5, <2>2
<1>8. /\ Kept(Path(P, <<>>, H, T, L, Q), chars'.put, chars'.flushed)
      /\ chars'.flushed \in SUBSET (1 .. chars'.put)
  BY <1>1, <1>2, <1>7 DEF CharsInv
<1>9. ~In("ttx", "got")'
  BY <1>4 DEF In
<1> QED
  BY <1>4, <1>6, <1>8, <1>9, PlacesKept

\* disp_proc takes the block for printing, with nothing else in its hands.
LEMMA TtxOutputKept ==
  ASSUME StreamInv, CharsInv, TtxOutput
  PROVE  CharsInv'
<1>1. PICK P, H, X, T, L, Q \in Seq(Nat) :
        Places(P, H, X, T, L, Q) /\ Kept(Path(P, H, X, T, L, Q), chars.put, chars.flushed)
  BY Placed
<1>2. srv.q = "ttx" /\ srv.m = <<>> /\ queue' = queue /\ UNCHANGED chars
  BY Unmoved DEF TtxOutput, In, CharsInv
<1>3. CASE srv' = NoSrv /\ UNCHANGED tty
  <2>1. Still
    BY <1>2, <1>3 DEF Still, Hand, NoSrv
  <2> QED
    BY <1>3, <2>1, StillKept DEF In, NoSrv
<1>4. CASE Goto("print", tty.xm) /\ tty' = [tty EXCEPT !.xm = <<>>]
  <2>1. srv'.q = "ttx" /\ srv'.at = "print" /\ srv'.m = tty.xm
    BY <1>2, <1>4, Goes
  <2>2. tty'.xm = <<>>
    BY <1>4 DEF StreamInv, Types
  <2>3. H = <<>> /\ X = tty.xm /\ L = <<>>
    BY <1>1, <1>2 DEF Places, Hand
  <2>4. Places(P, X, <<>>, T, L, Q)'
    BY <1>1, <1>2, <2>1, <2>2, <2>3 DEF Places, Hand
  <2>5. Path(P, X, <<>>, T, L, Q) = Path(P, H, X, T, L, Q)
    <3>1. Texts(P, H, X, T, L, Q, X, X)
      BY DEF Texts
    <3>2. Path(P, X, <<>>, T, L, Q) = Path(P, <<>>, X, T, L, Q)
      BY <3>1, SamePath
    <3> QED
      BY <2>3, <3>2
  <2>6. /\ Kept(Path(P, X, <<>>, T, L, Q), chars'.put, chars'.flushed)
        /\ chars'.flushed \in SUBSET (1 .. chars'.put)
    BY <1>1, <1>2, <2>5 DEF CharsInv
  <2>7. /\ srv'.at \in {"", "get", "output"} => srv'.m = <<>>
        /\ ~In("ttx", "got")'
    BY <2>1 DEF In
  <2> QED
    BY <2>4, <2>6, <2>7, PlacesKept
<1> QED
  BY <1>3, <1>4 DEF TtxOutput

\* And prints it.
LEMMA TtxPrintKept ==
  ASSUME StreamInv, CharsInv, TtxPrint
  PROVE  CharsInv'
<1>1. PICK P, H, X, T, L, Q \in Seq(Nat) :
        Places(P, H, X, T, L, Q) /\ Kept(Path(P, H, X, T, L, Q), chars.put, chars.flushed)
  BY Placed
<1>2. srv.q = "ttx" /\ srv' = NoSrv /\ queue' = queue /\ UNCHANGED tty
  BY Unmoved DEF TtxPrint, In
<1>3. PICK v : v = chars.printed \o srv.m /\ chars' = [chars EXCEPT !.printed = v]
  BY DEF TtxPrint
<1>4. chars'.printed = v /\ chars'.put = chars.put /\ chars'.flushed = chars.flushed
  BY <1>3 DEF StreamInv, Types, Counts
<1>5. H = srv.m /\ L = <<>> /\ P = chars.printed
  BY <1>1, <1>2 DEF Places, Hand
<1>6. v = Cat(P, H) /\ v \in Seq(Nat)
  BY <1>3, <1>5, Positions DEF Cat
<1>7. Places(v, <<>>, X, T, L, Q)'
  BY <1>1, <1>2, <1>4, <1>5 DEF Places, Hand, NoSrv
<1>8. Path(v, <<>>, X, T, L, Q) = Path(P, H, X, T, L, Q)
  <2>1. Texts(P, H, X, T, L, Q, H, H)
    BY DEF Texts
  <2>2. Path(Cat(P, H), <<>>, X, T, L, Q) = Path(P, H, X, T, L, Q)
    BY <2>1, SamePath
  <2> QED
    BY <1>6, <2>2
<1>9. /\ Kept(Path(v, <<>>, X, T, L, Q), chars'.put, chars'.flushed)
      /\ chars'.flushed \in SUBSET (1 .. chars'.put)
  BY <1>1, <1>4, <1>8 DEF CharsInv
<1>10. srv'.m = <<>> /\ ~In("ttx", "got")'
  BY <1>2 DEF NoSrv, In
<1> QED
  BY <1>6, <1>7, <1>9, <1>10, PlacesKept
-----------------------------------------------------------------------------
\* A path with the block and the queues emptied, and what they held.
LEMMA PathFlushed ==
  ASSUME NEW P \in Seq(Nat), NEW H \in Seq(Nat), NEW X \in Seq(Nat), NEW T \in Seq(Nat),
         NEW L \in Seq(Nat), NEW Q \in Seq(Nat), NEW put \in Nat, NEW flushed,
         flushed \in SUBSET (1 .. put), Kept(Path(P, H, X, T, L, Q), put, flushed)
  PROVE  LET gone == flushed \cup ToSet(X) \cup ToSet(Q) \cup ToSet(T)
         IN Kept(Path(P, H, <<>>, <<>>, L, <<>>), put, gone) /\ gone \in SUBSET (1 .. put)
<1>1. <<>> \in Seq(Nat)
  OBVIOUS
<1>2. PICK a \in Seq(Nat), b \in Seq(Nat), c \in Seq(Nat) :
        a = Cat(P, H) /\ b = Cat(X, T) /\ c = Cat(L, Q)
  BY Cats
<1>3. Path(P, H, X, T, L, Q) = Cat(Cat(a, b), c)
  <2>1. PICK d \in Seq(Nat) : d = Cat(a, b)
    BY Cats
  <2>2. Cat(Cat(a, X), T) = d
    BY <1>2, <2>1, Cats
  <2>3. Cat(Cat(d, L), Q) = Cat(d, c)
    BY <1>2, Cats
  <2> QED
    BY <1>2, <2>1, <2>2, <2>3 DEF Path
<1>4. /\ Kept(Cat(a, c), put, flushed \cup ToSet(b))
      /\ flushed \cup ToSet(b) \in SUBSET (1 .. put)
  <2>1. Kept((a \o b) \o c, put, flushed)
    BY <1>3 DEF Cat
  <2> QED
    BY <2>1, KeptLess DEF Cat
<1>5. PICK e \in Seq(Nat) : e = Cat(a, L)
  BY Cats
<1>6. Cat(a, c) = Cat(Cat(e, Q), <<>>)
  BY <1>2, <1>5, Cats
<1>7. PICK f \in SUBSET (1 .. put) : f = flushed \cup ToSet(b)
  BY <1>4
<1>8. Kept(Cat(e, <<>>), put, f \cup ToSet(Q)) /\ f \cup ToSet(Q) \in SUBSET (1 .. put)
  <2>1. Kept((e \o Q) \o <<>>, put, f)
    BY <1>4, <1>6, <1>7 DEF Cat
  <2> QED
    BY <1>1, <2>1, KeptLess DEF Cat
<1>9. Path(P, H, <<>>, <<>>, L, <<>>) = Cat(e, <<>>)
  BY <1>2, <1>5, Cats DEF Path
<1>10. ToSet(b) = ToSet(X) \cup ToSet(T)
  BY <1>2, Members DEF Cat
<1>11. f \cup ToSet(Q) = flushed \cup ToSet(X) \cup ToSet(Q) \cup ToSet(T)
  BY <1>7, <1>10
<1> QED
  BY <1>8, <1>9, <1>11

\* The keyboard's flush forgets the block and what is on the queues, and nothing
\* that a service procedure has in its hands.
LEMMA FlushKept ==
  ASSUME StreamInv, CharsInv, Flush
  PROVE  CharsInv'
<1>1. PICK P, H, X, T, L, Q \in Seq(Nat) :
        Places(P, H, X, T, L, Q) /\ Kept(Path(P, H, X, T, L, Q), chars.put, chars.flushed)
  BY Placed
<1>2. PICK S \in Store : S = Now /\ S.queue = queue
  BY Parts DEF StreamInv
<1>3. PICK U \in Store :
        /\ U = flushq(S, "line") /\ U.queue["ttx"] = S.queue["ttx"]
        /\ \A i \in 1 .. Len(U.queue["line"].msgs) : U.queue["line"].msgs[i] = Delay
  BY FlushqFlushes DEF Flushes, Elsewhere
<1>4. PICK V \in Store :
        /\ V = flushq(U, "ttx") /\ V.queue["line"] = U.queue["line"]
        /\ \A i \in 1 .. Len(V.queue["ttx"].msgs) : V.queue["ttx"].msgs[i] = Delay
  BY FlushqFlushes DEF Flushes, Elsewhere
<1>5. queue' = V.queue /\ UNCHANGED srv
  <2>1. qenable(V, "ttx", TRUE).queue = V.queue
    BY Enabled DEF Qname
  <2> QED
    BY <1>2, <1>3, <1>4, <2>1 DEF Flush, Becomes
<1>6. \A q \in {"line", "ttx"} : V.queue[q].msgs \in Seq(Message)
  BY DEF Store, Queue
<1>7. Delay.c = <<>>
  BY DEF Delay
<1>8. Chars(V.queue["line"].msgs) = <<>> /\ Chars(V.queue["ttx"].msgs) = <<>>
  <2>1. PICK a \in Seq(Message), b \in Seq(Message) :
          a = V.queue["line"].msgs /\ b = V.queue["ttx"].msgs
    BY <1>6
  <2>2. \A i \in 1 .. Len(a) : a[i].c = <<>>
    BY <1>3, <1>4, <1>7, <2>1
  <2>3. \A i \in 1 .. Len(b) : b[i].c = <<>>
    BY <1>4, <1>7, <2>1
  <2>4. Chars(a) = <<>>
    BY <2>2, CharsNone
  <2>5. Chars(b) = <<>>
    BY <2>3, CharsNone
  <2> QED
    BY <2>1, <2>4, <2>5
<1>9. tty'.xm = <<>>
  BY DEF Flush, StreamInv, Types
<1>10. PICK gone : gone = chars.flushed \cup ToSet(X) \cup ToSet(Q) \cup ToSet(T)
  OBVIOUS
<1>11. chars' = [chars EXCEPT !.flushed = gone]
  BY <1>1, <1>10 DEF Flush, Places
<1>12. chars'.printed = chars.printed /\ chars'.put = chars.put /\ chars'.flushed = gone
  BY <1>11 DEF StreamInv, Types, Counts
<1>13. Places(P, H, <<>>, <<>>, L, <<>>)'
  BY <1>1, <1>5, <1>8, <1>9, <1>12 DEF Places, Hand
<1>14. PICK put \in Nat, flushed \in SUBSET (1 .. chars.put) : put = chars.put /\ flushed = chars.flushed
  BY Placed DEF CharsInv
<1>15. Kept(Path(P, H, X, T, L, Q), put, flushed)
  BY <1>1, <1>14
<1>16. Kept(Path(P, H, <<>>, <<>>, L, <<>>), put, gone) /\ gone \in SUBSET (1 .. put)
  BY <1>10, <1>14, <1>15, PathFlushed
<1>17. srv'.at \in {"", "get", "output"} => srv'.m = <<>>
  BY <1>5 DEF CharsInv
<1> QED
  BY <1>12, <1>13, <1>14, <1>16, <1>17, PlacesKept
-----------------------------------------------------------------------------
\* Nothing is put and nothing on its way at first.
LEMMA CharsInitially == StreamInit => CharsInv
<1> SUFFICES ASSUME StreamInit PROVE CharsInv
  OBVIOUS
<1>1. <<>> \in Seq(Message) /\ <<>> \in Seq(Nat) /\ Len(<<>>) = 0
  OBVIOUS
<1>2. Chars(<<>>) = <<>>
  <2>1. PICK ms \in Seq(Message) : ms = <<>> /\ Len(ms) = 0
    BY <1>1
  <2>2. \A i \in 1 .. Len(ms) : ms[i].c = <<>>
    BY <2>1
  <2> QED
    BY <2>1, <2>2, CharsNone
<1>3. /\ queue["line"].msgs = <<>> /\ queue["ttx"].msgs = <<>> /\ tty.xm = <<>> /\ srv = NoSrv
      /\ chars.printed = <<>> /\ chars.flushed = {} /\ chars.put = 0
  BY DEF StreamInit
<1>4. Hand("ttx") = <<>> /\ Hand("line") = <<>>
  BY <1>3 DEF Hand, NoSrv
<1>5. Cat(<<>>, <<>>) = <<>>
  BY <1>1, Cats
<1>6. Way = <<>>
  BY <1>2, <1>3, <1>4, <1>5 DEF Way, Path
<1>7. Kept(<<>>, 0, {})
  <2>1. DOMAIN <<>> = {} /\ 1 .. 0 = {}
    OBVIOUS
  <2> QED
    BY <2>1 DEF Kept, Ascends, ToSet
<1> QED
  BY <1>1, <1>3, <1>6, <1>7 DEF CharsInv, NoSrv, In

\* Every step takes the characters on their way, adds to them or flushes them.
LEMMA CharsStep == StreamInv /\ CharsInv /\ [StreamNext]_streamVars => CharsInv'
<1> SUFFICES ASSUME StreamInv, CharsInv, [StreamNext]_streamVars PROVE CharsInv'
  OBVIOUS
<1>1. ASSUME NEW p \in Procs,
             \/ StrwriteResume(p) \/ StrwritePut(p) \/ StrwriteFails(p)
             \/ StrwriteInterrupt(p) \/ \E n \in Chunks : Strwrite(p, n)
      PROVE  CharsInv'
  <2>1. CASE StrwriteResume(p)
    BY <2>1, StrwriteTryKept DEF StrwriteResume
  <2> QED
    BY <1>1, <2>1, StrwritePutKept, WriterKept
<1>2. CASE RunQueues \/ Queuerun \/ Strwsrv
  BY <1>2, QuietStepsKept, QueuerunKept
<1>3. CASE LineGet \/ LineCanput \/ LineFull \/ LineNoMemory \/ LineBack
  BY <1>3, LineGetKept, LineHeldKept, LineBackKept
<1>4. CASE \E k \in 1 .. strmsgsz, delay \in BOOLEAN : LineSend(k, delay)
  BY <1>4, LineSendKept
<1>5. CASE TtxGet \/ TtxGot \/ TtxOutput \/ TtxPrint
  BY <1>5, TtxGetKept, TtxGotKept, TtxOutputKept, TtxPrintKept
<1>6. CASE LineTimer \/ DelayTimer \/ Echo \/ Flush \/ Suspend \/ Resume
  BY <1>6, QuietStepsKept, EchoKept, FlushKept
<1>7. CASE UNCHANGED streamVars
  <2>1. UNCHANGED <<srv, tty, queue, chars>>
    BY <1>7 DEF streamVars
  <2> QED
    BY <2>1, QuietKept
<1> QED
  BY <1>1, <1>2, <1>3, <1>4, <1>5, <1>6, <1>7 DEF StreamNext

\* What was put down a terminal's stream is printed, flushed or on its way, once,
\* and never overtaken, for all the orders in which strwrite, the service
\* procedures, timeouts and the keyboard's echo, flush, stop and start follow
\* each other, whatever is put back on a queue, sent in part, delayed or flushed
\* in the middle; all marks, message sizes and numbers of processes.
THEOREM NothingLostOnTheWay == StreamSpec => []CharsKept
<1>1. StreamSpec => []StreamInv
  BY StreamInitially, StreamStep, PTL DEF StreamSpec
<1>2. StreamInv /\ CharsInv /\ StreamInv' /\ [StreamNext]_streamVars => CharsInv'
  BY CharsStep
<1>3. StreamSpec => []CharsInv
  BY <1>1, <1>2, CharsInitially, PTL DEF StreamSpec
<1>4. CharsInv => CharsKept
  <2>1. Way = chars.printed \o Hand("ttx") \o tty.xm \o Chars(queue["ttx"].msgs)
              \o Hand("line") \o Chars(queue["line"].msgs)
    BY DEF Way, Path, Cat
  <2> QED
    BY <2>1 DEF CharsInv, Kept, Ascends, CharsKept, Hand
<1> QED
  BY <1>3, <1>4, PTL
=============================================================================
