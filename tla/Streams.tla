------------------------------ MODULE Streams ------------------------------
(***************************************************************************)
(* The write side of a terminal's stream: the queues, their flow control   *)
(* and scheduling (COMMON/os/stream.c), the stream head (streamio.c), the  *)
(* line discipline (COMMON/io/line.c) and the display driver (ttx.c and    *)
(* psn/io/keyboard.c).  A service procedure runs at base priority: other   *)
(* processes and timers wait, but the keyboard interrupts it anywhere, to  *)
(* echo, to flush, to stop and start the output.  A message is an M_DELAY  *)
(* or one block of data; each counts 1 against the marks.                  *)
(***************************************************************************)
EXTENDS Kernel

CONSTANTS
  HIWAT,      \* high and low water mark of the two queues
  strmsgsz,   \* characters of a message
  Chunks,     \* bound: lengths of the writes
  MaxChars,   \* bound: characters written and echoed
  MaxAllocs   \* bound: blocks line_send asks for in vain

ASSUME StreamAssumption ==
  /\ HIWAT \in Nat \ {0} /\ strmsgsz \in Nat \ {0} /\ Chunks \subseteq Nat \ {0}
  /\ MaxChars \in Nat /\ MaxAllocs \in Nat

VARIABLES
  queue,      \* of "line" and "ttx": messages, QFULL, QWANTR, QWANTW
  qhead,      \* queues with QENAB: the run list
  queueflag,  \* the queues are being run
  srv,        \* the service procedure that runs, where, and the characters it has
  tty,        \* t_xm, TTSTOP and XMT_DELAY of the driver
  callouts,   \* of line_send: pending, and blocks it may still ask for in vain
  writers,    \* processes in strwrite and the characters they have still to write
  WSLEEP,     \* of the stream head
  chars       \* history: characters still to come, put, printed and flushed;
              \* an interrupted writer reset WSLEEP for others (reset)

streamVars == <<queue, qhead, queueflag, srv, tty, callouts, writers, WSLEEP, chars>>

-----------------------------------------------------------------------------
Wrq == <<"sd_wrq">>  \* the address writers sleep on
NoSrv == [q |-> "none", at |-> "", m |-> <<>>]
Data(c) == [type |-> "data", c |-> c]
Delay == [type |-> "delay", c |-> <<>>]
IsDelay(m) == m.type = "delay"

\* The nearest queue before q with a service procedure.
Back(q) == IF q = "ttx" THEN "line" ELSE "head"

\* Queues and run list together, as stream.c changes them.
Now == [queue |-> queue, run |-> qhead]

\* qenable, if on.
qenable(S, q, on) == IF on /\ q \notin ToSet(S.run) THEN [S EXCEPT !.run = Append(@, q)] ELSE S

Holds(S, q, msgs) ==
  qenable([S EXCEPT !.queue[q].msgs = msgs, !.queue[q].full = @ \/ Len(msgs) >= HIWAT],
          q, S.queue[q].wantr)
putq(S, q, m) == Holds(S, q, Append(S.queue[q].msgs, m))

\* Faulty: behind the others.
putbqLast(S, q, m) == putq(S, q, m)
putbq(S, q, m) == Holds(S, q, <<m>> \o S.queue[q].msgs)

getq(S, q) ==
  LET Q == S.queue[q]
      left == IF Q.msgs = <<>> THEN <<>> ELSE Tail(Q.msgs)
      low == Len(left) <= HIWAT
  IN qenable([S EXCEPT !.queue[q] =
                [msgs |-> left, wantr |-> Q.msgs = <<>>, wantw |-> Q.wantw /\ ~low,
                 full |-> Q.full /\ (Q.msgs = <<>> \/ Len(left) >= HIWAT)]],
             Back(q), Q.wantw /\ low)

\* flushq(q, 0): what is not data is put back on the empty queue.
flushq(S, q) ==
  LET Q == S.queue[q]
      kept == [i \in 1 .. Cardinality({j \in DOMAIN Q.msgs : IsDelay(Q.msgs[j])}) |-> Delay]
      T == [S EXCEPT !.queue[q].msgs = kept, !.queue[q].full = Len(kept) >= HIWAT]
  IN qenable(qenable(T, q, Q.wantr /\ kept # <<>>), Back(q), Q.wantw /\ Len(kept) <= HIWAT)

Becomes(S) == queue' = S.queue /\ qhead' = S.run
Wants(q) == queue' = [queue EXCEPT ![q].wantw = TRUE] /\ qhead' = qhead

Chars(msgs) == FlattenSeq([i \in DOMAIN msgs |-> msgs[i].c])
Next1(n) == [i \in 1 .. n |-> chars.put + i]  \* the next n characters
-----------------------------------------------------------------------------
\* strwrite: canput and the sleep, with interrupts off.
StrwriteTry(p, n) ==
  /\ ~queueflag
  /\ \/ /\ ~queue["line"].full
        /\ writers' = Put(writers, p, [chan |-> Run, n |-> n, may |-> TRUE])
        /\ UNCHANGED <<queue, qhead, WSLEEP, chars>>
     \/ /\ queue["line"].full /\ Wants("line")
        /\ WSLEEP' = TRUE /\ chars' = [chars EXCEPT !.reset = FALSE]
        /\ writers' = sleep(writers, p, [chan |-> Wrq, n |-> n, may |-> FALSE])
     \/ /\ queue["line"].full /\ Wants("line")  \* FNDELAY, STR_NBIO
        /\ writers' = Drop(writers, p) /\ UNCHANGED <<WSLEEP, chars>>
  /\ UNCHANGED <<queueflag, srv, tty, callouts>>

Strwrite(p, n) ==
  /\ p \notin DOMAIN writers /\ n <= chars.left
  /\ ~queueflag /\ writers' = Put(writers, p, [chan |-> Run, n |-> n, may |-> FALSE])
  /\ chars' = [chars EXCEPT !.left = @ - n]
  /\ UNCHANGED <<queue, qhead, queueflag, srv, tty, callouts, WSLEEP>>

StrwriteResume(p) ==
  /\ p \in DOMAIN writers \ Asleep(writers) /\ ~writers[p].may
  /\ StrwriteTry(p, writers[p].n)

\* The message is put, after allocb and uiomove, which may have slept; if it
\* makes the line's queue run, the queues are run (runqueues).
StrwritePut(p) ==
  /\ p \in DOMAIN writers /\ writers[p].may /\ ~queueflag
  /\ LET k == Min({writers[p].n, strmsgsz})
         S == putq(Now, "line", Data(Next1(k)))
     IN /\ Becomes(S) /\ queueflag' = (S.run # <<>>)
        /\ writers' = IF k < writers[p].n
                      THEN [writers EXCEPT ![p].n = @ - k, ![p].may = FALSE]
                      ELSE Drop(writers, p)
        /\ chars' = [chars EXCEPT !.put = @ + k]
  /\ UNCHANGED <<srv, tty, callouts, WSLEEP>>

\* allocb's sleep is interrupted, or uiomove fails.
StrwriteFails(p) ==
  /\ p \in DOMAIN writers /\ writers[p].may /\ ~queueflag
  /\ writers' = Drop(writers, p)
  /\ UNCHANGED <<queue, qhead, queueflag, srv, tty, callouts, WSLEEP, chars>>

\* A signal ends the sleep.
StrwriteInterrupt(p) ==
  /\ p \in Asleep(writers) /\ ~queueflag
  /\ writers' = unsleep(writers, p) /\ WSLEEP' = FALSE
  /\ chars' = [chars EXCEPT !.reset = @ \/ Asleep(writers) # {p}]
  /\ UNCHANGED <<queue, qhead, queueflag, srv, tty, callouts>>
-----------------------------------------------------------------------------
\* runqueues on the way back to user mode, and the end of queuerun.
RunQueues ==
  /\ srv = NoSrv /\ queueflag' = (qhead # <<>>) /\ queueflag' # queueflag
  /\ UNCHANGED <<queue, qhead, srv, tty, callouts, writers, WSLEEP, chars>>

\* queuerun calls the next service procedure.
Queuerun ==
  /\ queueflag /\ srv = NoSrv /\ qhead # <<>>
  /\ srv' = [NoSrv EXCEPT !.q = Head(qhead), !.at = "get"]
  /\ qhead' = Tail(qhead)
  /\ UNCHANGED <<queue, queueflag, tty, callouts, writers, WSLEEP, chars>>

In(q, at) == srv.q = q /\ srv.at = at
Goto(at, m) == srv' = [srv EXCEPT !.at = at, !.m = m]

Strwsrv ==
  /\ In("head", "get") /\ srv' = NoSrv
  /\ writers' = IF WSLEEP THEN wakeup(writers, {Wrq}) ELSE writers
  /\ WSLEEP' = FALSE
  /\ UNCHANGED <<queue, qhead, queueflag, tty, callouts, chars>>

LineGet ==
  /\ In("line", "get")
  /\ Becomes(getq(Now, "line"))
  /\ IF queue["line"].msgs = <<>> THEN srv' = NoSrv
     ELSE Goto("canput", Head(queue["line"].msgs).c)
  /\ UNCHANGED <<queueflag, tty, callouts, writers, WSLEEP, chars>>

\* canput(q->q_next), without splstr: QFULL is read first.
LineCanput ==
  /\ In("line", "canput")
  /\ Goto(IF queue["ttx"].full THEN "full" ELSE IF srv.m = <<>> THEN "get" ELSE "send", srv.m)
  /\ UNCHANGED <<queue, qhead, queueflag, tty, callouts, writers, WSLEEP, chars>>

\* Faulty: QWANTW is not set.
LineFullQuiet ==
  /\ In("line", "full") /\ Goto("back", srv.m)
  /\ UNCHANGED <<queue, qhead, queueflag, tty, callouts, writers, WSLEEP, chars>>

LineFull ==
  /\ In("line", "full") /\ Wants("ttx") /\ Goto("back", srv.m)
  /\ UNCHANGED <<queueflag, tty, callouts, writers, WSLEEP, chars>>

\* line_transmit sends k characters, all it has or as many as its block takes,
\* or up to one that wants a delay; canput is asked again before the next.
LineSend(k, delay) ==
  /\ In("line", "send") /\ k <= Len(srv.m)
  /\ LET rest == SubSeq(srv.m, k + 1, Len(srv.m))
         S == putq(Now, "ttx", Data(SubSeq(srv.m, 1, k)))
     IN /\ Becomes(IF delay THEN putq(S, "ttx", Delay) ELSE S)
        /\ IF rest = <<>> /\ ~delay THEN Goto("get", <<>>) ELSE Goto("canput", rest)
  /\ UNCHANGED <<queueflag, tty, callouts, writers, WSLEEP, chars>>

\* line_send finds no memory and has the queue enabled later.
LineNoMemory ==
  /\ In("line", "send") /\ callouts.vain > 0
  /\ callouts' = [callouts EXCEPT !.line = @ + 1, !.vain = @ - 1]
  /\ Goto("back", srv.m)
  /\ UNCHANGED <<queue, qhead, queueflag, tty, writers, WSLEEP, chars>>

LineBack ==
  /\ In("line", "back") /\ srv' = NoSrv
  /\ Becomes(putbq(Now, "line", Data(srv.m)))
  /\ UNCHANGED <<queueflag, tty, callouts, writers, WSLEEP, chars>>

\* ttx_wsrvc: a message left over is poked; with a delay running none is taken.
TtxGet ==
  /\ In("ttx", "get")
  /\ \/ /\ tty.xm # <<>> /\ Goto("output", <<>>) /\ UNCHANGED <<queue, qhead, tty>>
     \/ /\ tty.xm = <<>> /\ tty.delay /\ srv' = NoSrv /\ UNCHANGED <<queue, qhead, tty>>
     \/ /\ tty.xm = <<>> /\ ~tty.delay /\ Becomes(getq(Now, "ttx"))
        /\ LET msgs == queue["ttx"].msgs
           IN \/ msgs = <<>> /\ srv' = NoSrv /\ UNCHANGED tty
              \/ msgs # <<>> /\ IsDelay(msgs[1]) /\ srv' = NoSrv /\ tty' = [tty EXCEPT !.delay = TRUE]
              \/ msgs # <<>> /\ ~IsDelay(msgs[1]) /\ Goto("got", msgs[1].c) /\ UNCHANGED tty
  /\ UNCHANGED <<queueflag, callouts, writers, WSLEEP, chars>>

TtxGot ==
  /\ In("ttx", "got") /\ tty' = [tty EXCEPT !.xm = srv.m] /\ Goto("output", <<>>)
  /\ UNCHANGED <<queue, qhead, queueflag, callouts, writers, WSLEEP, chars>>

\* disp_proc(T_OUTPUT), at spl1 but for the printing.
TtxOutput ==
  /\ In("ttx", "output")
  /\ \/ (tty.stop \/ tty.delay) /\ srv' = NoSrv /\ UNCHANGED <<queue, qhead, tty>>
     \/ /\ ~tty.stop /\ ~tty.delay /\ tty.xm = <<>> /\ srv' = NoSrv
        /\ Becomes(qenable(Now, "ttx", TRUE)) /\ UNCHANGED tty
     \/ /\ ~tty.stop /\ ~tty.delay /\ tty.xm # <<>> /\ Goto("print", tty.xm)
        /\ tty' = [tty EXCEPT !.xm = <<>>] /\ UNCHANGED <<queue, qhead>>
  /\ UNCHANGED <<queueflag, callouts, writers, WSLEEP, chars>>

TtxPrint ==
  /\ In("ttx", "print") /\ srv' = NoSrv
  /\ chars' = [chars EXCEPT !.printed = @ \o srv.m]
  /\ Becomes(qenable(Now, "ttx", TRUE))
  /\ UNCHANGED <<queueflag, tty, callouts, writers, WSLEEP>>

\* Callouts: qenable for line_send, and ttx_delaytimer.
LineTimer ==
  /\ ~queueflag /\ callouts.line > 0
  /\ callouts' = [callouts EXCEPT !.line = @ - 1]
  /\ Becomes(qenable(Now, "line", TRUE))
  /\ UNCHANGED <<queueflag, srv, tty, writers, WSLEEP, chars>>

DelayTimer ==
  /\ ~queueflag /\ tty.delay
  /\ tty' = [tty EXCEPT !.delay = FALSE]
  /\ Becomes(qenable(Now, "ttx", TRUE))
  /\ UNCHANGED <<queueflag, srv, callouts, writers, WSLEEP, chars>>
-----------------------------------------------------------------------------
\* The keyboard interrupts: a character is echoed,
Echo ==
  /\ chars.left > 0
  /\ Becomes(putq(Now, "line", Data(Next1(1))))
  /\ chars' = [chars EXCEPT !.put = @ + 1, !.left = @ - 1]
  /\ UNCHANGED <<queueflag, srv, tty, callouts, writers, WSLEEP>>

\* or is the interrupt character (line_flush, and M_FLUSH on its way through
\* strrput, line_wput, ttx_wputp and T_WFLUSH),
Flush ==
  /\ Becomes(qenable(flushq(flushq(Now, "line"), "ttx"), "ttx", TRUE))
  /\ tty' = [tty EXCEPT !.xm = <<>>, !.stop = FALSE]
  /\ chars' = [chars EXCEPT !.flushed = @ \cup ToSet(tty.xm)
                 \cup ToSet(Chars(queue["line"].msgs)) \cup ToSet(Chars(queue["ttx"].msgs))]
  /\ UNCHANGED <<queueflag, srv, callouts, writers, WSLEEP>>

\* or stops (T_SUSPEND) or starts (T_RESUME) the output.
Suspend ==
  /\ ~tty.stop /\ tty' = [tty EXCEPT !.stop = TRUE]
  /\ UNCHANGED <<queue, qhead, queueflag, srv, callouts, writers, WSLEEP, chars>>
Resume ==
  /\ tty.stop /\ tty' = [tty EXCEPT !.stop = FALSE]
  /\ Becomes(qenable(Now, "ttx", TRUE))
  /\ UNCHANGED <<queueflag, srv, callouts, writers, WSLEEP, chars>>
-----------------------------------------------------------------------------
StreamInit ==
  /\ queue = [q \in {"line", "ttx"} |->
               [msgs |-> <<>>, full |-> FALSE, wantr |-> TRUE, wantw |-> FALSE]]
  /\ qhead = <<>> /\ queueflag = FALSE /\ srv = NoSrv
  /\ tty = [xm |-> <<>>, stop |-> FALSE, delay |-> FALSE]
  /\ callouts = [line |-> 0, vain |-> MaxAllocs]
  /\ writers = <<>> /\ WSLEEP = FALSE
  /\ chars = [left |-> MaxChars, put |-> 0, printed |-> <<>>, flushed |-> {}, reset |-> FALSE]

StreamNext ==
  \/ \E p \in Procs : \/ StrwriteResume(p) \/ StrwritePut(p) \/ StrwriteFails(p)
                      \/ StrwriteInterrupt(p) \/ \E n \in Chunks : Strwrite(p, n)
  \/ RunQueues \/ Queuerun \/ Strwsrv
  \/ LineGet \/ LineCanput \/ LineFull \/ LineNoMemory \/ LineBack
  \/ \E k \in 1 .. strmsgsz, delay \in BOOLEAN : LineSend(k, delay)
  \/ TtxGet \/ TtxGot \/ TtxOutput \/ TtxPrint \/ LineTimer \/ DelayTimer
  \/ Echo \/ Flush \/ Suspend \/ Resume

StreamSpec == StreamInit /\ [][StreamNext]_streamVars
-----------------------------------------------------------------------------
\* What was put down the stream is printed, flushed or on its way, once, and
\* what was not flushed is printed in the order it was put, whatever is put
\* back, sent in part, delayed, echoed or flushed in the middle.
CharsKept ==
  LET hand(q) == IF srv.q = q THEN srv.m ELSE <<>>
      way == chars.printed \o hand("ttx") \o tty.xm \o Chars(queue["ttx"].msgs)
             \o hand("line") \o Chars(queue["line"].msgs)
  IN /\ \A i, j \in DOMAIN way : i < j => way[i] < way[j]
     /\ ToSet(way) = (1 .. chars.put) \ chars.flushed

\* When nothing is left that would run by itself, no queue, procedure or timer,
\* and the output is not stopped, then everything has been printed and no
\* writer sleeps, but for those whose WSLEEP an interrupted writer has reset.
NothingStuck ==
  (qhead = <<>> /\ srv = NoSrv /\ callouts.line = 0 /\ ~tty.delay /\ ~tty.stop) =>
    /\ queue["line"].msgs = <<>> /\ queue["ttx"].msgs = <<>> /\ tty.xm = <<>>
    /\ Asleep(writers) = {} \/ chars.reset
=============================================================================
