----------------------------- MODULE PipeProofs -----------------------------
(***************************************************************************)
(* Theorems about Pipes, for any sizes of a pipe and of its blocks, any    *)
(* processes and any reads and writes: bytes come out in the order they    *)
(* went in, and nobody sleeps while his call could go on, but for what     *)
(* failures and a last close that sleeps do to a pipe, until it recovers.  *)
(***************************************************************************)
EXTENDS Pipes, FiniteSetTheorems, TLAPS

Modes == {"R", "W"}
Chans == {Run, Frcnt, Fwcnt}
Waits ==
  [op : {"open"}, mode : Modes, chan : Chans]
  \cup [op : Modes, n : Nat \ {0}, chan : Chans]
Places == 0 .. PIPSIZ - 1
Inode ==
  [size : Int, frptr : Places, fwptr : Places, frcnt : Nat, fwcnt : Nat,
   rwait : BOOLEAN, wwait : BOOLEAN]
Doing ==
  [p : Procs, op : {"R", "W", "floop"}, n : Int, resid : Nat \ {0}, usave : Nat,
   off : Places, began : BOOLEAN]
States == Modes \cup {"none", "closing"}
Numbers == [w : 0 .. PIPSIZ, r : 0 .. PIPSIZ]

Types ==
  /\ ip \in Inode
  /\ ring \in [Places -> -1 .. PIPSIZ]
  /\ moved \in Numbers
  /\ odds \in {"no", "bytes", "wiped"}
  /\ fd \in [Procs -> States]
  /\ DOMAIN pipewait \subseteq Procs
  /\ \A p \in DOMAIN pipewait : pipewait[p] \in Waits

\* A read or write is under way; and has moved a block.
During(op) == rw.p # "nobody" /\ rw.op = op
Running(op) == During(op) /\ rw.began

\* Who has the inode locked has the pipe open and is not asleep; a block ends
\* within the pipe; in a pipe not at odds a read reads what is there, and
\* a write has room for what is left of it, and a call that has moved nothing is
\* where the inode says.
Locked ==
  \/ rw = Idle
  \/ /\ rw \in Doing
     /\ rw.p \notin DOMAIN pipewait
     /\ fd[rw.p] = IF rw.op = "R" THEN "R" ELSE "W"
     /\ rw.op # "floop" => rw.n <= rw.resid /\ rw.off + rw.n <= PIPSIZ
     /\ rw.op = "W" => rw.n > 0
     /\ rw.op = "R" /\ odds = "no" => 0 <= rw.n /\ rw.n <= ip.size
     /\ rw.op = "W" /\ odds = "no" => ip.size + rw.resid <= PIPSIZ
     /\ rw.op = "R" /\ odds = "no" /\ ~rw.began => rw.off = ip.frptr
     /\ rw.op = "W" /\ odds = "no" /\ ~rw.began => rw.off = ip.fwptr

\* i_frcnt and i_fwcnt are the numbers of processes that have the pipe open
\* for reading and for writing, or wait in open.
Openers(mode) ==
  {p \in Procs : fd[p] = mode}
  \cup {p \in DOMAIN pipewait : pipewait[p].op = "open" /\ pipewait[p].mode = mode}

Counted ==
  \A mode \in Modes :
    IsFiniteSet(Openers(mode)) /\ ip[Count(mode)] = Cardinality(Openers(mode))

\* What a sleeper sleeps for has not come, and the flag is set that makes
\* whoever brings it wake him.
Blocked(c) ==
  \/ c.op = "open" /\ c.chan = <<Other(c.mode)>> /\ ip[Other(c.mode)] = 0
  \/ /\ c.op = "R" /\ c.chan = Frcnt
     /\ odds # "wiped" => /\ ip.fwcnt > 0 /\ ip.rwait
                          /\ ip.size = 0 \/ Running("W") \/ odds = "bytes"
  \/ /\ c.op = "W" /\ c.chan = Fwcnt
     /\ odds # "wiped" => /\ ip.frcnt > 0 /\ ip.wwait
                          /\ \/ c.n + ip.size > PIPSIZ /\ ~(c.n > PIPSIZ /\ ip.size < PIPSIZ)
                             \/ Running("R") \/ odds = "bytes"

Waiter(p) ==
  LET c == pipewait[p]
  IN /\ fd[p] = IF c.op = "open" THEN "none" ELSE c.op
     /\ c.chan # Run => Blocked(c)

\* The ring has its s bytes from place R on; the next byte, of number w, goes
\* to W, and the first has number r.
RingAs(R, W, s, w, r, f) ==
  /\ Mod(w - r) = s
  /\ (R + s) % PIPSIZ = W
  /\ \A i \in 0 .. s - 1 : f[(R + i) % PIPSIZ] = Mod(r + i)

\* PipeFifo, and that the place of the next write follows the last byte in a
\* full pipe too.
Ring ==
  odds = "no" =>
    /\ ip.size \in 0 .. PIPSIZ
    /\ RingAs(Where("R", ip.frptr), Where("W", ip.fwptr), ip.size, moved.w, moved.r, ring)

PipeInv ==
  /\ Types /\ Locked /\ Counted /\ Ring
  /\ \A p \in DOMAIN pipewait : Waiter(p)
-----------------------------------------------------------------------------
\* Places and numbers never go round more than once, so that their remainders
\* are found by one subtraction or addition.
Round(x) == IF x < PIPSIZ THEN x ELSE x - PIPSIZ
Up(x) == IF x < 0 THEN x + (PIPSIZ + 1) ELSE IF x <= PIPSIZ THEN x ELSE x - (PIPSIZ + 1)

\* Where and Mod are found without division.
LEMMA Rounds ==
  /\ \A x \in 0 .. 2 * PIPSIZ - 1 : x % PIPSIZ = Round(x)
  /\ \A x \in -(PIPSIZ + 1) .. 2 * PIPSIZ + 1 : Mod(x) = Up(x)
<1> DEFINE P == PIPSIZ
           N == PIPSIZ + 1
<1>1. P \in Nat \ {0} /\ N \in Nat \ {0}
  BY PipeAssumption DEF PipeAssumption
<1>2. \A x \in 0 .. 2 * PIPSIZ - 1 : x % P = Round(x)
  <2> HIDE DEF P
  <2>1. \A x \in 0 .. P - 1 : x % P = x
    BY <1>1
  <2>2. \A x \in P .. 2 * P - 1 : x % P = x - P
    BY <1>1
  <2> QED BY <1>1, <2>1, <2>2 DEF P, Round
<1>3. \A x \in -N .. 2 * N - 1 : x % N = IF x < 0 THEN x + N ELSE IF x < N THEN x ELSE x - N
  <2> HIDE DEF N
  <2>1. \A x \in 0 .. N - 1 : x % N = x
    BY <1>1
  <2>2. \A x \in N .. 2 * N - 1 : x % N = x - N
    BY <1>1
  <2>3. \A x \in Int : x < 0 /\ x >= -N => x % N = x + N
    BY <1>1
  <2> QED BY <1>1, <2>1, <2>2, <2>3
<1>4. \A x \in -(PIPSIZ + 1) .. 2 * PIPSIZ + 1 : Mod(x) = Up(x)
  BY SMTT(30), <1>1, <1>3 DEF Mod, Up
<1> QED
  BY <1>2, <1>4

\* A block ends within the pipe.
LEMMA BlockEnd ==
  ASSUME NEW x \in Places
  PROVE  /\ BSIZE - (x % BSIZE) \in Nat \ {0}
         /\ x + (BSIZE - (x % BSIZE)) <= PIPSIZ
<1> DEFINE B == BSIZE
           a == x \div B
           b == PIPSIZ \div B
           r == x % B
<1>1. B \in Nat \ {0} /\ PIPSIZ \in Nat \ {0} /\ PIPSIZ % B = 0 /\ x \in Int /\ x < PIPSIZ
  BY PipeAssumption DEF PipeAssumption, Places
<1>2. x = B * a + r /\ a \in Int /\ r \in 0 .. B - 1
  BY <1>1
<1>3. PIPSIZ = B * b + (PIPSIZ % B) /\ b \in Int
  BY <1>1
<1>4. PIPSIZ = B * b
  BY <1>1, <1>3
<1> HIDE DEF B, a, b, r
<1>5. B * a < B * b
  BY <1>1, <1>2, <1>4
<1>6. a < b
  BY <1>1, <1>2, <1>3, <1>5
<1>7. B * a + B <= B * b
  BY <1>1, <1>2, <1>3, <1>6
<1>8. B - r \in Nat \ {0} /\ x + (B - r) <= PIPSIZ
  BY <1>1, <1>2, <1>4, <1>7
<1> QED
  BY <1>8 DEF B, r

\* Least is one of the numbers and not greater than the others.
LEMMA LeastOf ==
  ASSUME NEW a \in Int, NEW b \in Int, NEW c \in Int
  PROVE  /\ Least({a, b, c}) \in {a, b, c}
         /\ Least({a, b, c}) <= a /\ Least({a, b, c}) <= b /\ Least({a, b, c}) <= c
<1>1. \E n \in {a, b, c} : \A m \in {a, b, c} : n <= m
  <2>1. CASE a <= b /\ a <= c
    BY <2>1
  <2>2. CASE b <= a /\ b <= c
    BY <2>2
  <2>3. CASE c <= a /\ c <= b
    BY <2>3
  <2> QED BY <2>1, <2>2, <2>3
<1> QED
  BY <1>1 DEF Least

\* A block of a call ends within the pipe and is no longer than what is asked
\* for, and what there is to read.
LEMMA BlockIs ==
  ASSUME NEW op \in {"R", "W"}, NEW off \in Places, NEW resid \in Nat \ {0}, NEW size \in Int
  PROVE  /\ Block(op, off, resid, size) \in Int
         /\ Block(op, off, resid, size) <= resid
         /\ off + Block(op, off, resid, size) <= PIPSIZ
         /\ op = "W" => Block(op, off, resid, size) > 0
         /\ op = "R" => /\ Block(op, off, resid, size) <= size
                        /\ size >= 0 => Block(op, off, resid, size) >= 0
<1> DEFINE b == BSIZE - (off % BSIZE)
           c == IF op = "R" THEN size ELSE resid
           n == Least({b, resid, c})
<1>1. b \in Nat \ {0} /\ off + b <= PIPSIZ /\ PIPSIZ \in Nat /\ off \in Int
  <2>1. b \in Nat \ {0} /\ off + b <= PIPSIZ
    BY BlockEnd
  <2> QED BY <2>1, PipeAssumption DEF PipeAssumption, Places
<1>2. Block(op, off, resid, size) = n
  <2>1. {b, resid} \cup (IF op = "R" THEN {size} ELSE {}) = {b, resid, c}
    OBVIOUS
  <2> QED BY <2>1 DEF Block
<1> HIDE DEF b
<1>3. c \in Int /\ (op = "R" => c = size) /\ (op = "W" => c = resid)
  OBVIOUS
<1> HIDE DEF c
<1>4. n \in {b, resid, c} /\ n <= b /\ n <= resid /\ n <= c
  BY <1>1, <1>3, LeastOf
<1> HIDE DEF n
<1>5. n \in Int /\ n <= resid /\ off + n <= PIPSIZ
  BY <1>1, <1>3, <1>4
<1>6. op = "W" => n > 0
  BY <1>1, <1>3, <1>4
<1>7. op = "R" => n <= size /\ (size >= 0 => n >= 0)
  BY <1>1, <1>3, <1>4
<1> QED
  BY <1>2, <1>5, <1>6, <1>7

\* The inode's two counts and two flags are not mixed up.
LEMMA Fields ==
  /\ Count("R") = "frcnt" /\ Count("W") = "fwcnt"
  /\ Other("R") = "fwcnt" /\ Other("W") = "frcnt"
  /\ Frcnt = <<"frcnt">> /\ Fwcnt = <<"fwcnt">> /\ Frcnt # Fwcnt
  /\ Run # Frcnt /\ Run # Fwcnt
BY DEF Count, Other, Frcnt, Fwcnt, Run
-----------------------------------------------------------------------------
\* Sleepers.

\* All but p are still asleep, or were woken on one of the addresses chans.
Apart(p, v, chans) ==
  /\ DOMAIN v \ {p} = DOMAIN pipewait \ {p}
  /\ \A q \in DOMAIN pipewait \ {p} :
       v[q] = IF pipewait[q].chan \in chans THEN [pipewait[q] EXCEPT !.chan = Run]
              ELSE pipewait[q]

\* What keeps a sleeper asleep still holds, unless he is woken.
Steady(chans) ==
  \A c \in Waits : c.chan # Run /\ c.chan \notin chans /\ Blocked(c) => Blocked(c)'

\* unsleep takes p out alone, and wakeup then wakes those on its addresses.
LEMMA WakeupApart ==
  ASSUME Types, NEW p, NEW chans
  PROVE  /\ Apart(p, pipewait, {}) /\ Apart(p, unsleep(pipewait, p), {})
         /\ p \notin DOMAIN unsleep(pipewait, p)
         /\ \A v : Apart(p, v, {}) =>
              Apart(p, wakeup(v, chans), chans) /\ DOMAIN wakeup(v, chans) = DOMAIN v
BY DEF Apart, unsleep, Drop, wakeup

\* sleep adds p and leaves the others asleep.
LEMMA SleepApart ==
  ASSUME NEW p, NEW v, NEW chans, NEW c, Apart(p, v, chans)
  PROVE  /\ Apart(p, sleep(v, p, c), chans) /\ sleep(v, p, c)[p] = c
         /\ DOMAIN sleep(v, p, c) = DOMAIN v \cup {p}
BY DEF Apart, sleep, Put

\* The others wait as they should, if the step is steady.
LEMMA OthersWait ==
  ASSUME PipeInv, NEW p, NEW chans, Apart(p, pipewait', chans), Steady(chans),
         \A q \in Procs \ {p} : fd'[q] = fd[q]
  PROVE  \A q \in DOMAIN pipewait' \ {p} :
           /\ q \in DOMAIN pipewait /\ pipewait'[q] \in Waits /\ Waiter(q)'
           /\ pipewait'[q].op = pipewait[q].op
           /\ pipewait[q].op = "open" => pipewait'[q].mode = pipewait[q].mode
<1> SUFFICES ASSUME NEW q \in DOMAIN pipewait' \ {p}
             PROVE  /\ q \in DOMAIN pipewait /\ pipewait'[q] \in Waits /\ Waiter(q)'
                    /\ pipewait'[q].op = pipewait[q].op
                    /\ pipewait[q].op = "open" => pipewait'[q].mode = pipewait[q].mode
  OBVIOUS
<1>1. /\ q \in DOMAIN pipewait /\ q \in Procs /\ pipewait[q] \in Waits /\ Waiter(q)
      /\ fd'[q] = fd[q]
      /\ pipewait'[q] = IF pipewait[q].chan \in chans THEN [pipewait[q] EXCEPT !.chan = Run]
                        ELSE pipewait[q]
  BY DEF PipeInv, Types, Apart
<1>2. CASE pipewait[q].chan \in chans
  BY <1>1, <1>2 DEF Waits, Waiter, Chans
<1>3. CASE pipewait[q].chan \notin chans
  <2>1. pipewait'[q] = pipewait[q]
    BY <1>1, <1>3
  <2>2. pipewait[q].chan # Run => Blocked(pipewait[q])
    BY <1>1 DEF Waiter
  <2>3. pipewait[q].chan # Run => Blocked(pipewait'[q])
    BY <2>1, <2>2
  <2>4. pipewait[q].chan # Run => Blocked(pipewait[q])'
    BY <1>1, <1>3, <2>1, <2>3 DEF Steady
  <2> QED
    BY <1>1, <2>1, <2>4 DEF Waiter
<1> QED
  BY <1>2, <1>3

\* Nobody but p opens or closes the pipe.
LEMMA OthersOpen ==
  ASSUME PipeInv, NEW p, NEW chans, Apart(p, pipewait', chans), DOMAIN pipewait' \subseteq Procs,
         \A q \in Procs \ {p} : fd'[q] = fd[q]
  PROVE  \A mode \in Modes : Openers(mode)' \ {p} = Openers(mode) \ {p}
<1> SUFFICES ASSUME NEW mode \in Modes, NEW q, q # p
             PROVE  q \in Openers(mode)' <=> q \in Openers(mode)
  OBVIOUS
<1>1. q \in DOMAIN pipewait' <=> q \in DOMAIN pipewait
  BY DEF Apart
<1>2. ASSUME q \in DOMAIN pipewait
      PROVE  /\ pipewait'[q].op = pipewait[q].op
             /\ pipewait[q].op = "open" => pipewait'[q].mode = pipewait[q].mode
  <2>1. /\ pipewait[q] \in Waits
        /\ pipewait'[q] = IF pipewait[q].chan \in chans THEN [pipewait[q] EXCEPT !.chan = Run]
                          ELSE pipewait[q]
    BY <1>2 DEF PipeInv, Types, Apart
  <2> QED BY <2>1 DEF Waits
<1> QED
  BY <1>1, <1>2 DEF Openers

\* The counts stay, if p neither opens nor closes the pipe.
LEMMA SameCounts ==
  ASSUME PipeInv, NEW p, NEW chans, Apart(p, pipewait', chans), DOMAIN pipewait' \subseteq Procs,
         fd' = fd, UNCHANGED <<ip.frcnt, ip.fwcnt>>, ip' \in Inode,
         p \in DOMAIN pipewait => pipewait[p].op # "open",
         p \in DOMAIN pipewait' => pipewait'[p].op # "open"
  PROVE  Counted'
<1>1. ASSUME NEW mode \in Modes PROVE Openers(mode)' = Openers(mode)
  <2>1. Openers(mode)' \ {p} = Openers(mode) \ {p}
    BY OthersOpen
  <2>2. p \in Openers(mode)' <=> p \in Openers(mode)
    BY DEF Openers
  <2> QED BY <2>1, <2>2
<1>2. ASSUME NEW mode \in Modes PROVE ip'[Count(mode)] = ip[Count(mode)]
  BY DEF PipeInv, Types, Inode, Count, Modes
<1> QED
  BY <1>1, <1>2 DEF PipeInv, Counted
-----------------------------------------------------------------------------
\* rwip up to its loop: the call starts, returns at once or waits.
LEMMA CallTryOk ==
  ASSUME PipeInv, NEW p \in Procs, NEW op \in Modes, NEW n \in Nat \ {0}, NEW w,
         rw = Idle \/ (rw.p = p /\ rw.op = "floop"),
         fd[p] = op, Apart(p, w, {}), p \notin DOMAIN w,
         p \in DOMAIN pipewait => pipewait[p].op # "open",
         CallTry(p, op, n, w)
  PROVE  PipeInv'
<1>1. /\ ip \in Inode /\ PIPSIZ \in Nat /\ PIPSIZ > 0 /\ op \in {"R", "W"}
      /\ ip.size \in Int /\ (odds = "no" => ip.size \in 0 .. PIPSIZ)
      /\ ip.frptr \in Places /\ ip.fwptr \in Places /\ p # "nobody"
      /\ DOMAIN pipewait \subseteq Procs
  BY PipeAssumption DEF PipeAssumption, PipeInv, Types, Inode, Ring, Modes
<1>2. /\ ~During("R") /\ ~During("W") /\ ~Running("R") /\ ~Running("W")
      /\ Where("R", ip.frptr) = ip.frptr /\ Where("W", ip.fwptr) = ip.fwptr
  BY <1>1 DEF During, Running, Idle, Where
<1>3. DOMAIN w = DOMAIN pipewait \ {p}
  BY DEF Apart
<1>4. ASSUME NEW k \in Nat \ {0}, NEW u \in Nat, Start(p, op, k, u, w),
             op = "W" => ip.size + k <= PIPSIZ
      PROVE  PipeInv'
  <2> DEFINE off == IF op = "R" THEN ip.frptr ELSE ip.fwptr
             b == Block(op, off, k, ip.size)
  <2>1. /\ rw' = [p |-> p, op |-> op, n |-> b, resid |-> k, usave |-> u, off |-> off,
                  began |-> FALSE]
        /\ pipewait' = w /\ UNCHANGED <<ip, ring, moved, odds, fd>>
    BY <1>4 DEF Start
  <2>2. off \in Places
    BY <1>1
  <2>10. /\ b \in Int /\ b <= k /\ off + b <= PIPSIZ
         /\ op = "W" => b > 0
         /\ op = "R" => b <= ip.size /\ (ip.size >= 0 => b >= 0)
    BY <1>1, <2>2, BlockIs
  <2> HIDE DEF b
  <2>3. Steady({})
    BY <1>2, <2>1 DEF Steady, Blocked, Running, During
  <2>4. \A q \in DOMAIN pipewait' : pipewait'[q] \in Waits /\ Waiter(q)'
    BY <1>3, <2>1, <2>3, OthersWait
  <2>5. Types'
    BY <1>1, <1>3, <2>1, <2>4 DEF PipeInv, Types
  <2>6. Locked'
    <3>1. odds = "no" => ip.size >= 0
      BY <1>1
    <3>2. rw' \in Doing
      BY <1>1, <2>1, <2>2, <2>10 DEF Doing
    <3>3. /\ rw'.p = p /\ rw'.op = op /\ rw'.n = b /\ rw'.resid = k /\ rw'.off = off
      BY <2>1
    <3>4. (op = "R" => off = ip.frptr) /\ (op = "W" => off = ip.fwptr)
      OBVIOUS
    <3> HIDE DEF off
    <3> QED BY <1>1, <1>4, <2>1, <2>10, <3>1, <3>2, <3>3, <3>4 DEF Locked
  <2>7. Counted'
    BY <1>1, <1>3, <2>1, SameCounts
  <2>8. Where("R", ip.frptr)' = ip.frptr /\ Where("W", ip.fwptr)' = ip.fwptr
    BY <1>1, <2>1 DEF Where
  <2>9. Ring'
    BY <1>2, <2>1, <2>8 DEF PipeInv, Ring, RingAs
  <2> QED BY <2>4, <2>5, <2>6, <2>7, <2>9 DEF PipeInv
<1>5. CASE Return(w)
  <2>1. rw' = Idle /\ pipewait' = w /\ UNCHANGED <<ip, ring, moved, odds, fd>>
    BY <1>5 DEF Return
  <2>2. Steady({})
    BY <1>2, <2>1 DEF Steady, Blocked, Running, During
  <2>3. \A q \in DOMAIN pipewait' : pipewait'[q] \in Waits /\ Waiter(q)'
    BY <1>3, <2>1, <2>2, OthersWait
  <2>4. Types'
    BY <1>1, <1>3, <2>1, <2>3 DEF PipeInv, Types
  <2>5. Locked'
    BY <2>1 DEF Locked
  <2>6. Counted'
    BY <1>1, <1>3, <2>1, SameCounts
  <2>7. Where("R", ip.frptr)' = ip.frptr /\ Where("W", ip.fwptr)' = ip.fwptr
    BY <2>1 DEF Where, Idle
  <2>8. Ring'
    BY <1>2, <2>1, <2>7 DEF PipeInv, Ring, RingAs
  <2> QED BY <2>3, <2>4, <2>5, <2>6, <2>8 DEF PipeInv
<1>6. CASE /\ Wait(p, op, n, w)
           /\ op = "R" => ip.size = 0 /\ ip.fwcnt # 0
           /\ op = "W" => /\ ip.frcnt # 0 /\ n + ip.size > PIPSIZ
                          /\ ~(n > PIPSIZ /\ ip.size < PIPSIZ)
  <2> DEFINE c == [op |-> op, n |-> n, chan |-> IF op = "R" THEN Frcnt ELSE Fwcnt]
  <2>1. /\ ip' = [ip EXCEPT ![IF op = "R" THEN "rwait" ELSE "wwait"] = TRUE]
        /\ rw' = Idle /\ pipewait' = sleep(w, p, c) /\ UNCHANGED <<ring, moved, odds, fd>>
    BY <1>6 DEF Wait
  <2>2. /\ ip' \in Inode /\ UNCHANGED <<ip.size, ip.frptr, ip.fwptr, ip.frcnt, ip.fwcnt>>
        /\ (op = "R" \/ ip.rwait) => ip'.rwait
        /\ (op = "W" \/ ip.wwait) => ip'.wwait
    BY <1>1, <2>1 DEF Inode
  <2>14. /\ c \in Waits /\ c.op = op /\ c.n = n
         /\ op = "R" => c.chan = Frcnt
         /\ op = "W" => c.chan = Fwcnt
    BY <1>1 DEF Waits, Chans, Modes
  <2> HIDE DEF c
  <2>3. /\ Apart(p, pipewait', {}) /\ DOMAIN pipewait' = DOMAIN w \cup {p} /\ pipewait'[p] = c
    <3>1. /\ Apart(p, sleep(w, p, c), {}) /\ sleep(w, p, c)[p] = c
          /\ DOMAIN sleep(w, p, c) = DOMAIN w \cup {p}
      BY SleepApart
    <3> QED BY <2>1, <3>1
  <2>4. Steady({})
    <3> SUFFICES ASSUME NEW d \in Waits, d.chan # Run, Blocked(d) PROVE Blocked(d)'
      BY DEF Steady
    <3>1. CASE d.op = "open"
      <4>1. ip'[Other(d.mode)] = ip[Other(d.mode)]
        BY <1>1, <2>2 DEF Inode, Other
      <4> QED BY <3>1, <4>1 DEF Blocked
    <3>2. CASE d.op # "open"
      BY <1>2, <2>1, <2>2, <3>2 DEF Blocked
    <3> QED BY <3>1, <3>2
  <2>5. \A q \in DOMAIN pipewait' \ {p} : pipewait'[q] \in Waits /\ Waiter(q)'
    BY <2>1, <2>3, <2>4, OthersWait
  <2>6. c \in Waits /\ c.op = op
    BY <2>14
  <2>7. ip'.frcnt \in Nat /\ ip'.fwcnt \in Nat
    BY <2>2 DEF Inode
  <2>8. Waiter(p)'
    <3>1. c.op \in {"R", "W"} /\ fd'[p] = c.op
      BY <1>1, <2>1, <2>6
    <3>2. Blocked(c)'
      <4>1. CASE op = "R"
        BY <1>1, <1>6, <2>2, <2>7, <2>14, <4>1 DEF Blocked
      <4>2. CASE op = "W"
        <5>1. c.op = "W" /\ c.chan = Fwcnt /\ ip'.frcnt > 0 /\ ip'.wwait
          BY <1>1, <1>6, <2>2, <2>7, <2>14, <4>2
        <5>2. c.n + ip'.size > PIPSIZ /\ ~(c.n > PIPSIZ /\ ip'.size < PIPSIZ)
          BY <1>6, <2>2, <2>14, <4>2
        <5> QED BY <2>2, <2>14, <5>1, <5>2, <4>2 DEF Blocked
      <4> QED BY <1>1, <4>1, <4>2
    <3>3. Blocked(pipewait[p])'
      BY <2>3, <3>2
    <3> QED BY <2>3, <3>1, <3>3 DEF Waiter
  <2>9. Types'
    BY <1>1, <1>3, <2>1, <2>2, <2>3, <2>5, <2>6 DEF PipeInv, Types
  <2>10. Locked'
    BY <2>1 DEF Locked
  <2>11. Counted'
    <3>1. op # "open"
      BY <1>1
    <3> QED BY <1>1, <1>3, <2>1, <2>2, <2>3, <2>6, <3>1, SameCounts
  <2>12. Where("R", ip.frptr)' = ip.frptr /\ Where("W", ip.fwptr)' = ip.fwptr
    BY <2>1, <2>2 DEF Where, Idle
  <2>13. Ring'
    BY <1>2, <2>1, <2>2, <2>12 DEF PipeInv, Ring, RingAs
  <2> QED BY <2>3, <2>5, <2>8, <2>9, <2>10, <2>11, <2>13 DEF PipeInv
<1>7. CASE op = "R"
  <2>1. ReadTry(p, n, w)
    BY <1>7 DEF CallTry
  <2>2. CASE ip.size # 0
    BY <1>1, <1>4, <1>7, <2>1, <2>2 DEF ReadTry
  <2>3. CASE ip.size = 0
    BY <1>1, <1>5, <1>6, <1>7, <2>1, <2>3 DEF ReadTry
  <2> QED BY <2>2, <2>3
<1>8. CASE op = "W"
  <2>1. WriteTry(p, n, w)
    BY <1>8 DEF CallTry
  <2>2. CASE Start(p, "W", n, 0, w) /\ n + ip.size <= PIPSIZ
    BY <1>1, <1>4, <1>8, <2>2
  <2>3. CASE Start(p, "W", PIPSIZ - ip.size, n - (PIPSIZ - ip.size), w)
             /\ n > PIPSIZ /\ ip.size < PIPSIZ /\ ~(n + ip.size <= PIPSIZ)
    <3>1. PIPSIZ - ip.size \in Nat \ {0} /\ n - (PIPSIZ - ip.size) \in Nat
      BY <1>1, <2>3
    <3> QED BY <1>1, <1>4, <1>8, <2>3, <3>1
  <2>4. CASE Return(w) \/ /\ Wait(p, "W", n, w) /\ ip.frcnt # 0 /\ ~(n + ip.size <= PIPSIZ)
                          /\ ~(n > PIPSIZ /\ ip.size < PIPSIZ)
    <3>1. ~(n + ip.size <= PIPSIZ) => n + ip.size > PIPSIZ
      BY <1>1
    <3> QED BY <1>5, <1>6, <1>8, <2>4, <3>1
  <2> QED BY <2>1, <2>2, <2>3, <2>4 DEF WriteTry
<1> QED
  BY <1>1, <1>7, <1>8
-----------------------------------------------------------------------------
\* openp: the process is counted, and sleeps or has the pipe open.
LEMMA OpenTryOk ==
  ASSUME PipeInv, NEW p \in Procs, NEW mode \in Modes, NEW I, NEW w, NEW chans,
         fd[p] = "none", Apart(p, w, chans), p \notin DOMAIN w,
         \/ /\ p \in DOMAIN pipewait /\ I = ip /\ chans = {}
            /\ pipewait[p].op = "open" /\ pipewait[p].mode = mode
         \/ /\ p \notin DOMAIN pipewait
            /\ I = [ip EXCEPT ![Count(mode)] = @ + 1]
            /\ ip[Count(mode)] = 0 => <<Count(mode)>> \in chans,
         OpenTry(p, mode, I, w), odds' = odds \/ odds' = "wiped"
  PROVE  PipeInv'
<1> DEFINE c == [op |-> "open", mode |-> mode, chan |-> <<Other(mode)>>]
<1>1. /\ ip \in Inode /\ mode \in {"R", "W"} /\ p # "nobody"
      /\ DOMAIN pipewait \subseteq Procs
  BY PipeAssumption DEF PipeAssumption, PipeInv, Types, Modes
<1>2. /\ I \in Inode /\ ip' = I /\ UNCHANGED <<ring, moved, rw>>
      /\ I.size = ip.size /\ I.frptr = ip.frptr /\ I.fwptr = ip.fwptr
      /\ I.rwait = ip.rwait /\ I.wwait = ip.wwait
      /\ I[Other(mode)] = ip[Other(mode)]
      /\ I[Count(mode)] = ip[Count(mode)] + (IF p \in DOMAIN pipewait THEN 0 ELSE 1)
  <2>1. ip' = I /\ UNCHANGED <<ring, moved, rw>>
    BY DEF OpenTry
  <2>2. CASE p \in DOMAIN pipewait
    <3>1. I = ip
      BY <2>2
    <3>2. ip[Count(mode)] \in Nat
      BY <1>1 DEF Inode, Count
    <3> QED BY <1>1, <2>1, <2>2, <3>1, <3>2
  <2>3. CASE p \notin DOMAIN pipewait
    BY <1>1, <2>1, <2>3, Fields DEF Inode
  <2> QED BY <2>2, <2>3
<1>3. /\ c \in Waits /\ c.op = "open" /\ c.mode = mode /\ c.chan = <<Other(mode)>>
  BY <1>1, Fields DEF Waits, Chans, Modes
<1> HIDE DEF c
<1>4. /\ DOMAIN w = DOMAIN pipewait \ {p}
      /\ \/ /\ I[Other(mode)] > 0 \/ (mode = "R" /\ I.size # 0)
            /\ fd' = [fd EXCEPT ![p] = mode] /\ pipewait' = w
         \/ /\ I[Other(mode)] = 0
            /\ fd' = fd /\ pipewait' = sleep(w, p, c)
  BY DEF OpenTry, Apart, c
<1>5. /\ Apart(p, pipewait', chans) /\ DOMAIN pipewait' \subseteq Procs
      /\ p \in DOMAIN pipewait' => pipewait'[p] = c /\ fd'[p] = "none" /\ I[Other(mode)] = 0
      /\ p \notin DOMAIN pipewait' => fd'[p] = mode
      /\ fd' \in [Procs -> States]
      /\ \A q \in Procs \ {p} : fd'[q] = fd[q]
  <2>1. fd \in [Procs -> States]
    BY DEF PipeInv, Types
  <2>4. mode \in States
    BY <1>1 DEF States, Modes
  <2>2. CASE pipewait' = w /\ fd' = [fd EXCEPT ![p] = mode]
    BY <1>1, <1>4, <2>1, <2>2, <2>4
  <2>3. CASE pipewait' = sleep(w, p, c) /\ fd' = fd /\ I[Other(mode)] = 0
    <3>1. /\ Apart(p, pipewait', chans) /\ pipewait'[p] = c
          /\ DOMAIN pipewait' = DOMAIN w \cup {p}
      <4>1. /\ Apart(p, sleep(w, p, c), chans) /\ sleep(w, p, c)[p] = c
            /\ DOMAIN sleep(w, p, c) = DOMAIN w \cup {p}
        BY SleepApart
      <4> QED BY <2>3, <4>1
    <3> QED BY <1>1, <1>4, <2>1, <2>3, <3>1
  <2> QED BY <1>4, <2>2, <2>3
<1>6. Steady(chans)
  <2> SUFFICES ASSUME NEW d \in Waits, d.chan # Run, d.chan \notin chans, Blocked(d)
               PROVE  Blocked(d)'
    BY DEF Steady
  <2>1. ip'.frcnt >= ip.frcnt /\ ip'.fwcnt >= ip.fwcnt
    BY <1>1, <1>2, Fields DEF Inode
  <2>2. CASE d.op = "open"
    <3>1. d.mode \in {"R", "W"} /\ d.chan = <<Other(d.mode)>> /\ ip[Other(d.mode)] = 0
      BY <2>2, Fields DEF Blocked, Waits, Modes
    <3>2. CASE Other(d.mode) = Other(mode)
      BY <1>2, <2>2, <3>1, <3>2 DEF Blocked
    <3>3. CASE Other(d.mode) = Count(mode)
      <4>1. p \in DOMAIN pipewait
        BY <3>1, <3>3
      <4> QED BY <1>2, <2>2, <3>1, <3>3, <4>1 DEF Blocked
    <3> QED BY <1>1, <3>1, <3>2, <3>3, Fields
  <2>3. CASE d.op # "open"
    <3>1. Running("R")' = Running("R") /\ Running("W")' = Running("W")
      BY <1>2 DEF During, Running
    <3>2. /\ ip'.size = ip.size /\ ip'.rwait = ip.rwait /\ ip'.wwait = ip.wwait
          /\ ip.frcnt > 0 => ip'.frcnt > 0
          /\ ip.fwcnt > 0 => ip'.fwcnt > 0
      BY <1>1, <1>2, <2>1 DEF Inode
    <3> QED BY <2>3, <3>1, <3>2 DEF Blocked
  <2> QED BY <2>2, <2>3
<1>7. \A q \in DOMAIN pipewait' \ {p} : pipewait'[q] \in Waits /\ Waiter(q)'
  BY <1>5, <1>6, OthersWait
<1>8. ASSUME p \in DOMAIN pipewait' PROVE Waiter(p)'
  <2>1. Blocked(c)'
    BY <1>2, <1>3, <1>5, <1>8 DEF Blocked
  <2>2. Blocked(pipewait[p])'
    BY <1>5, <1>8, <2>1
  <2> QED BY <1>3, <1>5, <1>8, <2>2 DEF Waiter
<1>9. Types'
  BY <1>2, <1>3, <1>5, <1>7 DEF PipeInv, Types
<1>10. Locked'
  <2>1. CASE rw = Idle
    BY <1>2, <2>1 DEF Locked
  <2>2. CASE rw # Idle
    <3>1. /\ rw \in Doing /\ rw.p \notin DOMAIN pipewait
          /\ fd[rw.p] = IF rw.op = "R" THEN "R" ELSE "W"
      BY <2>2 DEF PipeInv, Locked
    <3>2. rw.p \in Procs /\ rw.p # p
      BY <3>1 DEF Doing
    <3>3. rw.p \notin DOMAIN pipewait' /\ fd'[rw.p] = fd[rw.p]
      BY <1>5, <3>1, <3>2 DEF Apart
    <3> QED BY <1>2, <2>2, <3>1, <3>3 DEF PipeInv, Locked
  <2> QED BY <2>1, <2>2
<1>11. Counted'
  <2> SUFFICES ASSUME NEW m \in Modes
               PROVE  /\ IsFiniteSet(Openers(m)')
                      /\ ip'[Count(m)] = Cardinality(Openers(m)')
    BY DEF Counted
  <2>1. Openers(m)' \ {p} = Openers(m) \ {p}
    BY <1>5, OthersOpen
  <2>2. /\ IsFiniteSet(Openers(m)) /\ ip[Count(m)] = Cardinality(Openers(m))
    BY DEF PipeInv, Counted
  <2>3. CASE m # mode
    <3>1. p \notin Openers(m) /\ p \notin Openers(m)'
      BY <1>3, <1>5, <2>3 DEF Openers, Modes
    <3>2. ip'[Count(m)] = ip[Count(m)]
      BY <1>1, <1>2, <2>3, Fields DEF Modes
    <3> QED BY <2>1, <2>2, <3>1, <3>2
  <2>4. CASE m = mode
    <3>1. p \in Openers(m)' /\ (p \in Openers(m) <=> p \in DOMAIN pipewait)
      BY <1>1, <1>3, <1>5, <2>4 DEF Openers, Modes
    <3>2. Openers(m)' = Openers(m) \cup {p}
      BY <2>1, <3>1
    <3>3. /\ IsFiniteSet(Openers(m) \cup {p})
          /\ Cardinality(Openers(m) \cup {p}) =
               IF p \in Openers(m) THEN Cardinality(Openers(m)) ELSE Cardinality(Openers(m)) + 1
      BY <2>2, FS_AddElement
    <3>4. Cardinality(Openers(m)) \in Nat
      BY <2>2, FS_CardinalityType
    <3> QED BY <1>2, <2>2, <2>4, <3>1, <3>2, <3>3, <3>4
  <2> QED BY <2>3, <2>4
<1>12. Ring'
  <2>1. Where("R", ip.frptr)' = Where("R", ip.frptr) /\ Where("W", ip.fwptr)' = Where("W", ip.fwptr)
    BY <1>2 DEF Where
  <2> QED BY <1>2, <2>1 DEF PipeInv, Ring, RingAs
<1> QED
  BY <1>7, <1>8, <1>9, <1>10, <1>11, <1>12 DEF PipeInv

\* closep: the last of a side wakes those of the other side that wait for it.
LEMMA CloseOk ==
  ASSUME PipeInv, NEW p \in Procs, NEW mode \in Modes, NEW w,
         p \in Openers(mode), rw.p # p, Apart(p, w, {}), p \notin DOMAIN w,
         Close(p, mode, w)
  PROVE  PipeInv'
<1> DEFINE left == ip[Count(mode)] - 1
           wake == left = 0 /\ ip[IF mode = "R" THEN "wwait" ELSE "rwait"]
           chans == IF wake THEN {<<Other(mode)>>} ELSE {}
<1>1. /\ ip \in Inode /\ mode \in {"R", "W"} /\ p # "nobody"
      /\ DOMAIN pipewait \subseteq Procs /\ PIPSIZ \in Nat /\ PIPSIZ > 0
      /\ fd \in [Procs -> States]
  BY PipeAssumption DEF PipeAssumption, PipeInv, Types, Modes
<1>2. \A m \in Modes : /\ IsFiniteSet(Openers(m)) /\ ip[Count(m)] = Cardinality(Openers(m))
                       /\ ip[Count(m)] \in Nat
  BY FS_CardinalityType DEF PipeInv, Counted
<1>3. /\ IsFiniteSet(Openers(mode) \ {p})
      /\ Cardinality(Openers(mode) \ {p}) = left /\ left \in Nat
  <2>1. /\ IsFiniteSet(Openers(mode) \ {p})
        /\ Cardinality(Openers(mode) \ {p}) = Cardinality(Openers(mode)) - 1
    BY <1>2, FS_RemoveElement
  <2>2. Cardinality(Openers(mode) \ {p}) \in Nat
    BY <2>1, FS_CardinalityType
  <2> QED BY <1>2, <2>1, <2>2
<1>4. \A m \in Modes : m # mode => p \notin Openers(m)
  <2>1. p \in DOMAIN pipewait /\ pipewait[p].op = "open" => fd[p] = "none"
    BY DEF PipeInv, Waiter
  <2> QED BY <1>1, <2>1 DEF Openers, Modes
<1>5. /\ ip' \in Inode /\ ip'[Count(mode)] = left /\ ip'[Other(mode)] = ip[Other(mode)]
      /\ ip'.size = ip.size /\ ip'.frptr = ip.frptr /\ ip'.fwptr = ip.fwptr
      /\ ip.rwait /\ ~(mode = "W" /\ wake) => ip'.rwait
      /\ ip.wwait /\ ~(mode = "R" /\ wake) => ip'.wwait
      /\ pipewait' = wakeup(w, chans) /\ UNCHANGED <<ring, moved, odds, rw>>
      /\ \E x \in {"none", "closing"} : fd' = [fd EXCEPT ![p] = x]
  <2> DEFINE flag == IF mode = "R" THEN "wwait" ELSE "rwait"
             bit == ip[flag] /\ ~wake
             I == [ip EXCEPT ![Count(mode)] = left, ![flag] = bit]
  <2>1. /\ ip' = I /\ pipewait' = wakeup(w, chans) /\ UNCHANGED <<ring, moved, odds, rw>>
        /\ \E x \in {"none", "closing"} : fd' = [fd EXCEPT ![p] = x]
    BY DEF Close, ClosePipe
  <2>2. bit \in BOOLEAN /\ (bit <=> ip[flag] /\ ~wake)
    BY <1>1 DEF Inode
  <2> HIDE DEF bit, wake, left
  <2>3. /\ I \in Inode /\ I.size = ip.size /\ I.frptr = ip.frptr /\ I.fwptr = ip.fwptr
        /\ I[Count(mode)] = left /\ I[Other(mode)] = ip[Other(mode)]
        /\ mode = "R" => I.rwait = ip.rwait /\ I.wwait = bit
        /\ mode = "W" => I.wwait = ip.wwait /\ I.rwait = bit
    <3>1. CASE mode = "R"
      BY <1>1, <1>3, <2>2, <3>1, Fields DEF Inode
    <3>2. CASE mode = "W"
      BY <1>1, <1>3, <2>2, <3>2, Fields DEF Inode
    <3> QED BY <1>1, <3>1, <3>2
  <2> HIDE DEF I
  <2>4. /\ ip.rwait /\ ~(mode = "W" /\ wake) => I.rwait
        /\ ip.wwait /\ ~(mode = "R" /\ wake) => I.wwait
    BY <1>1, <2>2, <2>3
  <2> QED BY <2>1, <2>3, <2>4
<1>6. left = 0 /\ mode = "R" /\ ip.wwait => <<Other(mode)>> \in chans
  BY <1>1
<1>7. left = 0 /\ mode = "W" /\ ip.rwait => <<Other(mode)>> \in chans
  BY <1>1
<1>8. wake => left = 0
  OBVIOUS
<1> HIDE DEF left, wake, chans
<1>9. /\ Apart(p, pipewait', chans) /\ DOMAIN pipewait' = DOMAIN pipewait \ {p}
      /\ DOMAIN pipewait' \subseteq Procs
      /\ fd' \in [Procs -> States] /\ fd'[p] \in {"none", "closing"}
      /\ \A q \in Procs \ {p} : fd'[q] = fd[q]
  <2>1. Types
    BY DEF PipeInv
  <2>2. Apart(p, wakeup(w, chans), chans) /\ DOMAIN wakeup(w, chans) = DOMAIN w
    BY <2>1, WakeupApart
  <2>3. DOMAIN w = DOMAIN pipewait \ {p}
    BY DEF Apart
  <2>4. PICK x \in {"none", "closing"} : fd' = [fd EXCEPT ![p] = x]
    BY <1>5
  <2>5. x \in States
    BY DEF States
  <2> QED BY <1>1, <1>5, <2>2, <2>3, <2>4, <2>5
<1>10. ip.frcnt \in Nat /\ ip.fwcnt \in Nat /\ ip'.frcnt \in Nat /\ ip'.fwcnt \in Nat
  BY <1>1, <1>5 DEF Inode
<1>11. Steady(chans)
  <2> SUFFICES ASSUME NEW d \in Waits, d.chan # Run, d.chan \notin chans, Blocked(d)
               PROVE  Blocked(d)'
    BY DEF Steady
  <2>1. /\ Running("R")' = Running("R") /\ Running("W")' = Running("W")
        /\ odds' = odds /\ ip'.size = ip.size
    BY <1>5 DEF During, Running
  <2>2. CASE d.op = "open"
    <3>1. d.mode \in {"R", "W"} /\ d.chan = <<Other(d.mode)>> /\ ip[Other(d.mode)] = 0
      BY <2>2, Fields DEF Blocked, Waits, Modes
    <3>2. Other(d.mode) # Count(mode)
      <4>1. ip[Count(mode)] # 0
        BY <1>2, <1>3 DEF left, Modes
      <4> QED BY <3>1, <4>1
    <3>3. Other(d.mode) = Other(mode)
      BY <1>1, <3>1, <3>2, Fields
    <3> QED BY <1>5, <2>2, <3>1, <3>3 DEF Blocked
  <2>3. ASSUME d.op = "R", odds # "wiped" PROVE ip'.fwcnt > 0 /\ ip'.rwait
    <3>1. d.chan = Frcnt /\ ip.fwcnt > 0 /\ ip.rwait
      BY <2>3 DEF Blocked
    <3>2. CASE mode = "R"
      BY <1>5, <3>1, <3>2, Fields
    <3>3. CASE mode = "W"
      <4>1. left # 0
        BY <1>7, <3>1, <3>3, Fields
      <4> QED BY <1>5, <1>8, <1>10, <3>1, <3>3, <4>1, Fields
    <3> QED BY <1>1, <3>2, <3>3
  <2>4. ASSUME d.op = "W", odds # "wiped" PROVE ip'.frcnt > 0 /\ ip'.wwait
    <3>1. d.chan = Fwcnt /\ ip.frcnt > 0 /\ ip.wwait
      BY <2>4 DEF Blocked
    <3>2. CASE mode = "W"
      BY <1>5, <3>1, <3>2, Fields
    <3>3. CASE mode = "R"
      <4>1. left # 0
        BY <1>6, <3>1, <3>3, Fields
      <4> QED BY <1>5, <1>8, <1>10, <3>1, <3>3, <4>1, Fields
    <3> QED BY <1>1, <3>2, <3>3
  <2>5. CASE d.op = "R"
    BY <2>1, <2>3, <2>5 DEF Blocked
  <2>6. CASE d.op = "W"
    BY <2>1, <2>4, <2>6 DEF Blocked
  <2> QED BY <2>2, <2>5, <2>6 DEF Blocked
<1>12. \A q \in DOMAIN pipewait' : pipewait'[q] \in Waits /\ Waiter(q)'
  BY <1>9, <1>11, OthersWait
<1>14. Types'
  BY <1>5, <1>9, <1>12 DEF PipeInv, Types
<1>15. ASSUME NEW m \in Modes
       PROVE  /\ IsFiniteSet(Openers(m)') /\ ip'[Count(m)] = Cardinality(Openers(m)')
              /\ Openers(m)' = Openers(m) \ {p}
  <2>1. Openers(m)' \ {p} = Openers(m) \ {p}
    BY <1>9, OthersOpen
  <2>2. p \notin Openers(m)'
    BY <1>9 DEF Openers, Modes
  <2>3. Openers(m)' = Openers(m) \ {p}
    BY <2>1, <2>2
  <2>4. CASE m # mode
    <3>1. Openers(m)' = Openers(m)
      BY <1>4, <2>3, <2>4
    <3>2. ip'[Count(m)] = ip[Count(m)]
      BY <1>1, <1>5, <2>4, Fields DEF Modes
    <3> QED BY <1>2, <2>3, <3>1, <3>2
  <2>5. CASE m = mode
    BY <1>3, <1>5, <2>3, <2>5
  <2> QED BY <2>4, <2>5
<1>18. Counted'
  BY <1>15 DEF Counted
<1>16. Locked'
  <2>1. CASE rw = Idle
    BY <1>5, <2>1 DEF Locked
  <2>2. CASE rw # Idle
    <3>1. /\ rw \in Doing /\ rw.p \notin DOMAIN pipewait
      BY <2>2 DEF PipeInv, Locked
    <3>2. rw.p \in Procs /\ rw.p # p
      BY <3>1 DEF Doing
    <3>3. rw.p \notin DOMAIN pipewait' /\ fd'[rw.p] = fd[rw.p]
      BY <1>9, <3>1, <3>2
    <3> QED BY <1>5, <2>2, <3>1, <3>3 DEF PipeInv, Locked
  <2> QED BY <2>1, <2>2
<1>17. Ring'
  <2>1. Where("R", ip.frptr)' = Where("R", ip.frptr) /\ Where("W", ip.fwptr)' = Where("W", ip.fwptr)
    BY <1>5 DEF Where
  <2> QED BY <1>5, <2>1 DEF PipeInv, Ring, RingAs
<1> QED
  BY <1>12, <1>14, <1>16, <1>17, <1>18 DEF PipeInv

\* The ring of an empty pipe.
LEMMA EmptyRing == RingAs(0, 0, 0, 0, 0, Empty)
<1>1. PIPSIZ \in Nat /\ PIPSIZ > 0
  BY PipeAssumption DEF PipeAssumption
<1>2. 0 % PIPSIZ = 0 /\ Mod(0) = 0
  BY <1>1, Rounds DEF Round, Up
<1> QED
  BY <1>1, <1>2 DEF RingAs

\* The history of an empty pipe.
LEMMA Restarted ==
  /\ Empty \in [Places -> -1 .. PIPSIZ]
  /\ [w |-> 0, r |-> 0] \in Numbers
BY PipeAssumption DEF PipeAssumption, Empty, Places, Numbers
-----------------------------------------------------------------------------
\* Every step keeps the invariant.

\* openp: the count is raised, the first of a side wakes the other side.
LEMMA PipeOpenOk ==
  ASSUME PipeInv, NEW p \in Procs, NEW mode \in {"R", "W"}, PipeOpen(p, mode)
  PROVE  PipeInv'
<1> DEFINE w == IF ip[Count(mode)] = 0 THEN wakeup(pipewait, {<<Count(mode)>>}) ELSE pipewait
           chans == IF ip[Count(mode)] = 0 THEN {<<Count(mode)>>} ELSE {}
<1>1. /\ fd[p] = "none" /\ p \notin DOMAIN pipewait
      /\ OpenTry(p, mode, [ip EXCEPT ![Count(mode)] = @ + 1], w)
      /\ odds' = odds \/ odds' = "wiped"
  BY DEF PipeOpen
<1>2. Apart(p, w, chans) /\ DOMAIN w = DOMAIN pipewait
  BY WakeupApart DEF PipeInv
<1>3. ip[Count(mode)] = 0 => <<Count(mode)>> \in chans
  OBVIOUS
<1> HIDE DEF w, chans
<1> QED
  BY <1>1, <1>2, <1>3, OpenTryOk DEF Modes

\* A read or write is called.
LEMMA PipeCallOk ==
  ASSUME PipeInv, NEW p \in Procs, NEW n \in Amounts, PipeCall(p, n)
  PROVE  PipeInv'
<1>1. /\ rw = Idle /\ fd[p] \in Modes /\ p \notin DOMAIN pipewait
      /\ CallTry(p, fd[p], n, pipewait)
  BY DEF PipeCall, Modes
<1>2. n \in Nat \ {0}
  BY PipeAssumption DEF PipeAssumption
<1>3. Apart(p, pipewait, {})
  BY WakeupApart DEF PipeInv
<1> QED
  BY <1>1, <1>2, <1>3, CallTryOk

\* A descriptor is closed, possibly while others read and write.
LEMMA PipeCloseOk ==
  ASSUME PipeInv, NEW p \in Procs, PipeClose(p)
  PROVE  PipeInv'
<1>1. /\ fd[p] \in Modes /\ p \notin DOMAIN pipewait /\ rw.p # p
      /\ Close(p, fd[p], pipewait)
  BY DEF PipeClose, Modes
<1>2. p \in Openers(fd[p])
  BY <1>1 DEF Openers
<1>3. Apart(p, pipewait, {})
  BY WakeupApart DEF PipeInv
<1> QED
  BY <1>1, <1>2, <1>3, CloseOk

\* The last close resets the inode: nobody uses the pipe, or it is wiped.
LEMMA PipeResetOk ==
  ASSUME PipeInv, NEW p \in Procs, PipeReset(p)
  PROVE  PipeInv'
<1>1. /\ fd[p] = "closing" /\ ip' = ResetPipe(ip) /\ fd' = [fd EXCEPT ![p] = "none"]
      /\ ring' = Empty /\ moved' = [w |-> 0, r |-> 0] /\ UNCHANGED <<rw, pipewait>>
      /\ odds' = (IF ip.frcnt = 0 /\ ip.fwcnt = 0 /\ Closing = {p} THEN "no" ELSE "wiped")
  BY DEF PipeReset, Restart, Closing
<1>2. ip \in Inode /\ PIPSIZ \in Nat /\ PIPSIZ > 0 /\ fd \in [Procs -> States]
  BY PipeAssumption DEF PipeAssumption, PipeInv, Types
<1>3. /\ ip' \in Inode /\ ip'.size = 0 /\ ip'.frptr = 0 /\ ip'.fwptr = 0
      /\ ip'.frcnt = ip.frcnt /\ ip'.fwcnt = ip.fwcnt
  <2>1. 0 \in Int /\ 0 \in Places /\ FALSE \in BOOLEAN
    BY <1>2 DEF Places
  <2> QED BY <1>1, <1>2, <2>1 DEF ResetPipe, Inode
<1>4. /\ fd' \in [Procs -> States] /\ fd'[p] = "none" /\ \A q \in Procs \ {p} : fd'[q] = fd[q]
  BY <1>1, <1>2 DEF States
<1>5. p \notin DOMAIN pipewait
  <2> SUFFICES ASSUME p \in DOMAIN pipewait PROVE FALSE
    OBVIOUS
  <2>1. pipewait[p] \in Waits /\ Waiter(p)
    BY DEF PipeInv, Types
  <2> QED BY <1>1, <2>1 DEF Waiter, Waits, Modes
<1>6. Types'
  BY <1>1, <1>3, <1>4, Restarted DEF PipeInv, Types
<1>7. \A mode \in Modes : Openers(mode)' = Openers(mode)
  BY <1>1, <1>4, <1>5 DEF Openers, Modes
<1>8. Counted'
  BY <1>3, <1>7, Fields DEF PipeInv, Counted, Modes
<1>9. \A q \in DOMAIN pipewait : fd'[q] = fd[q]
  BY <1>4, <1>5 DEF PipeInv, Types
<1>10. CASE ip.frcnt = 0 /\ ip.fwcnt = 0 /\ Closing = {p}
  <2>1. \A mode \in Modes : Openers(mode) = {}
    <3> SUFFICES ASSUME NEW mode \in Modes PROVE Openers(mode) = {}
      OBVIOUS
    <3>1. IsFiniteSet(Openers(mode)) /\ Cardinality(Openers(mode)) = 0
      BY <1>10, Fields DEF PipeInv, Counted, Modes
    <3> QED BY <3>1, FS_EmptySet
  <2>2. DOMAIN pipewait = {}
    <3> SUFFICES ASSUME NEW q \in DOMAIN pipewait PROVE FALSE
      OBVIOUS
    <3>1. q \in Procs /\ pipewait[q] \in Waits /\ Waiter(q)
      BY DEF PipeInv, Types
    <3>2. CASE pipewait[q].op = "open"
      <4>1. pipewait[q].mode \in Modes
        BY <3>1, <3>2 DEF Waits, Modes
      <4>2. q \in Openers(pipewait[q].mode)
        BY <3>2 DEF Openers
      <4> QED BY <2>1, <4>1, <4>2
    <3>3. CASE pipewait[q].op # "open"
      <4>1. fd[q] \in Modes
        BY <3>1, <3>3 DEF Waiter, Waits, Modes
      <4>2. q \in Openers(fd[q])
        BY <3>1 DEF Openers
      <4> QED BY <2>1, <4>1, <4>2
    <3> QED BY <3>2, <3>3
  <2>3. rw = Idle
    <3> SUFFICES ASSUME rw # Idle PROVE FALSE
      OBVIOUS
    <3>1. rw.p \in Procs /\ fd[rw.p] \in Modes
      BY DEF PipeInv, Locked, Doing, Modes
    <3>2. rw.p \in Openers(fd[rw.p])
      BY <3>1 DEF Openers
    <3> QED BY <2>1, <3>1, <3>2
  <2>4. Locked'
    BY <1>1, <2>3 DEF Locked
  <2>5. Ring'
    <3>1. rw' = Idle
      BY <1>1, <2>3
    <3>2. Where("R", ip.frptr)' = 0 /\ Where("W", ip.fwptr)' = 0
      BY <1>3, <3>1 DEF Where, Idle
    <3> QED BY <1>1, <1>2, <1>3, <3>2, EmptyRing DEF Ring
  <2> QED BY <1>1, <1>6, <1>8, <2>2, <2>4, <2>5 DEF PipeInv
<1>11. CASE ~(ip.frcnt = 0 /\ ip.fwcnt = 0 /\ Closing = {p})
  <2>1. odds' = "wiped"
    BY <1>1, <1>11
  <2>2. Locked'
    <3>1. CASE rw = Idle
      BY <1>1, <3>1 DEF Locked
    <3>2. CASE rw # Idle
      <4>1. rw.p \in Procs /\ fd[rw.p] # "closing"
        BY <3>2 DEF PipeInv, Locked, Doing
      <4>2. fd'[rw.p] = fd[rw.p]
        BY <1>1, <1>4, <4>1
      <4> QED BY <1>1, <2>1, <3>2, <4>2 DEF PipeInv, Locked
    <3> QED BY <3>1, <3>2
  <2>3. Ring'
    BY <2>1 DEF Ring
  <2>4. ASSUME NEW q \in DOMAIN pipewait PROVE Waiter(q)'
    <3>1. Waiter(q) /\ pipewait[q] \in Waits
      BY DEF PipeInv, Types
    <3>2. ip'[Other(pipewait[q].mode)] = ip[Other(pipewait[q].mode)]
      BY <1>3 DEF Other
    <3>3. Blocked(pipewait[q]) => Blocked(pipewait[q])'
      BY <1>1, <2>1, <3>2 DEF Blocked
    <3> QED BY <1>1, <1>9, <3>1, <3>3 DEF Waiter
  <2> QED BY <1>1, <1>6, <1>8, <2>2, <2>3, <2>4 DEF PipeInv
<1> QED
  BY <1>10, <1>11

\* A sleeper's own entry, and what it leaves when it is taken out.
LEMMA Sleeper ==
  ASSUME PipeInv, NEW p \in DOMAIN pipewait
  PROVE  /\ p \in Procs /\ pipewait[p] \in Waits /\ rw.p # p
         /\ fd[p] = IF pipewait[p].op = "open" THEN "none" ELSE pipewait[p].op
         /\ Apart(p, unsleep(pipewait, p), {}) /\ p \notin DOMAIN unsleep(pipewait, p)
<1>1. p \in Procs /\ pipewait[p] \in Waits
  BY DEF PipeInv, Types
<1>2. rw.p # p
  BY <1>1, PipeAssumption DEF PipeAssumption, PipeInv, Locked, Idle
<1>3. Apart(p, unsleep(pipewait, p), {}) /\ p \notin DOMAIN unsleep(pipewait, p)
  BY WakeupApart DEF PipeInv
<1> QED
  BY <1>1, <1>2, <1>3 DEF PipeInv, Waiter

\* A signal takes an open back, or ends a read or write that sleeps.
LEMMA PipeInterruptOk ==
  ASSUME PipeInv, NEW p \in Procs, PipeInterrupt(p)
  PROVE  PipeInv'
<1> DEFINE call == pipewait[p]
           w == unsleep(pipewait, p)
<1>1. /\ p \in DOMAIN pipewait
      /\ IF call.op = "open" THEN Close(p, call.mode, w)
         ELSE pipewait' = w /\ UNCHANGED <<ip, ring, moved, odds, fd, rw>>
  BY DEF PipeInterrupt
<1>2. /\ call \in Waits /\ rw.p # p /\ fd[p] = IF call.op = "open" THEN "none" ELSE call.op
      /\ Apart(p, w, {}) /\ p \notin DOMAIN w
  BY <1>1, Sleeper
<1> HIDE DEF w
<1>3. CASE call.op = "open"
  <2>1. call.mode \in Modes /\ p \in Openers(call.mode)
    BY <1>1, <1>2, <1>3 DEF Waits, Modes, Openers
  <2> HIDE DEF call
  <2> QED BY <1>1, <1>2, <1>3, <2>1, CloseOk
<1>4. CASE call.op # "open"
  <2>1. pipewait' = w /\ UNCHANGED <<ip, ring, moved, odds, fd, rw>>
    BY <1>1, <1>4
  <2>2. DOMAIN w = DOMAIN pipewait \ {p} /\ DOMAIN w \subseteq Procs
    BY <1>2 DEF Apart, PipeInv, Types
  <2>3. Steady({})
    BY <2>1 DEF Steady, Blocked, Running, During
  <2>4. \A q \in DOMAIN pipewait' : pipewait'[q] \in Waits /\ Waiter(q)'
    BY <1>2, <2>1, <2>2, <2>3, OthersWait
  <2>5. Types'
    BY <2>1, <2>2, <2>4 DEF PipeInv, Types
  <2>6. Locked'
    BY <2>1, <2>2 DEF PipeInv, Locked
  <2>7. Counted'
    <3>1. ip' \in Inode
      BY <2>1 DEF PipeInv, Types
    <3> QED BY <1>2, <1>4, <2>1, <2>2, <3>1, SameCounts
  <2>8. Ring'
    BY <2>1 DEF PipeInv, Ring, RingAs, Where
  <2> QED BY <2>4, <2>5, <2>6, <2>7, <2>8 DEF PipeInv
<1> QED
  BY <1>3, <1>4

\* A woken process tries its call again.
LEMMA PipeResumeOk ==
  ASSUME PipeInv, NEW p \in Procs, PipeResume(p)
  PROVE  PipeInv'
<1> DEFINE call == pipewait[p]
           w == unsleep(pipewait, p)
<1>1. /\ p \in DOMAIN pipewait
      /\ IF call.op = "open" THEN OpenTry(p, call.mode, ip, w) /\ odds' = odds
         ELSE rw = Idle /\ CallTry(p, call.op, call.n, w)
  BY DEF PipeResume
<1>2. /\ call \in Waits /\ fd[p] = IF call.op = "open" THEN "none" ELSE call.op
      /\ Apart(p, w, {}) /\ p \notin DOMAIN w
  BY <1>1, Sleeper
<1> HIDE DEF w
<1>3. CASE call.op = "open"
  <2>1. call.mode \in Modes
    BY <1>2, <1>3 DEF Waits, Modes
  <2> QED BY <1>1, <1>2, <1>3, <2>1, OpenTryOk
<1>4. CASE call.op # "open"
  <2>1. call.op \in Modes /\ call.n \in Nat \ {0}
    BY <1>2, <1>4 DEF Waits, Modes
  <2> QED BY <1>1, <1>2, <1>4, <2>1, CallTryOk
<1> QED
  BY <1>3, <1>4

\* rwip goes back to floop with what a long write has left.
LEMMA WriteRestOk ==
  ASSUME PipeInv, WriteRest
  PROVE  PipeInv'
<1>1. rw.p # "nobody" /\ rw.op = "floop" /\ WriteTry(rw.p, rw.resid, pipewait)
  BY DEF WriteRest
<1>2. /\ rw.p \in Procs /\ rw.resid \in Nat \ {0} /\ fd[rw.p] = "W"
      /\ rw.p \notin DOMAIN pipewait
  BY <1>1 DEF PipeInv, Locked, Idle, Doing
<1>3. Apart(rw.p, pipewait, {})
  BY WakeupApart DEF PipeInv
<1>4. CallTry(rw.p, "W", rw.resid, pipewait)
  BY <1>1 DEF CallTry
<1> QED
  BY <1>1, <1>2, <1>3, <1>4, CallTryOk DEF Modes
-----------------------------------------------------------------------------
\* The ring after n of its s bytes have been read from place R on.
LEMMA RingRead ==
  ASSUME NEW R \in Places, NEW W \in Places, NEW s \in 0 .. PIPSIZ, NEW n \in 0 .. PIPSIZ,
         n <= s, R + n <= PIPSIZ, NEW w \in 0 .. PIPSIZ, NEW r \in 0 .. PIPSIZ,
         NEW f \in [Places -> -1 .. PIPSIZ], RingAs(R, W, s, w, r, f),
         NEW off, off = IF R + n >= PIPSIZ THEN 0 ELSE R + n,
         NEW g, g = [i \in DOMAIN f |-> IF i \in R .. R + n - 1 THEN -1 ELSE f[i]]
  PROVE  /\ off \in Places /\ Mod(r + n) \in 0 .. PIPSIZ /\ g \in [Places -> -1 .. PIPSIZ]
         /\ RingAs(off, W, s - n, w, Mod(r + n), g)
<1>1. /\ PIPSIZ \in Nat /\ PIPSIZ > 0 /\ R \in Nat /\ R < PIPSIZ
      /\ s \in Nat /\ s <= PIPSIZ /\ n \in Nat
  BY PipeAssumption DEF PipeAssumption, Places
<1>2. /\ (R + s) % PIPSIZ = W /\ Mod(w - r) = s
      /\ \A i \in 0 .. s - 1 : f[(R + i) % PIPSIZ] = Mod(r + i)
  BY DEF RingAs
<1>3. \A x \in 0 .. 2 * PIPSIZ - 1 : x % PIPSIZ = Round(x)
  BY Rounds
<1>4. Round(R + s) = W
  <2>1. R + s \in 0 .. 2 * PIPSIZ - 1
    BY <1>1
  <2> QED BY ONLY <1>2, <1>3, <2>1
<1>5. Up(w - r) = s
  BY <1>1, <1>2, Rounds
<1>6. off \in Places /\ off = Round(R + n) /\ off \in Nat /\ off < PIPSIZ
  BY <1>1 DEF Places, Round
<1>7. Mod(r + n) = Up(r + n) /\ Up(r + n) \in 0 .. PIPSIZ
  BY <1>1, Rounds DEF Up
<1>8. Mod(w - Mod(r + n)) = s - n
  <2>1. Mod(w - Up(r + n)) = Up(w - Up(r + n))
    BY <1>1, <1>7, Rounds
  <2>2. Up(w - Up(r + n)) = s - n
    BY <1>1, <1>5 DEF Up
  <2> QED BY <1>7, <2>1, <2>2
<1>9. (off + (s - n)) % PIPSIZ = W
  <2>1. off + (s - n) \in 0 .. 2 * PIPSIZ - 1
    BY <1>1, <1>6
  <2>2. Round(off + (s - n)) = W
    BY <1>1, <1>4, <1>6 DEF Round
  <2> QED BY ONLY <1>3, <2>1, <2>2
<1>10. ASSUME NEW i \in 0 .. s - n - 1
       PROVE  g[(off + i) % PIPSIZ] = Mod(Mod(r + n) + i)
  <2>1. n + i \in 0 .. s - 1 /\ n + i \in Nat
    BY <1>1
  <2>2. (off + i) % PIPSIZ = Round(off + i) /\ (R + (n + i)) % PIPSIZ = Round(R + (n + i))
    <3>1. off + i \in 0 .. 2 * PIPSIZ - 1 /\ R + (n + i) \in 0 .. 2 * PIPSIZ - 1
      BY <1>1, <1>6, <2>1
    <3> QED BY ONLY <1>3, <3>1
  <2>3. /\ Round(off + i) = Round(R + (n + i)) /\ Round(off + i) \in Places
        /\ Round(off + i) \notin R .. R + n - 1
    BY <1>1, <1>6, <2>1 DEF Round, Places
  <2>4. g[Round(off + i)] = f[Round(R + (n + i))]
    BY <2>3
  <2>5. f[Round(R + (n + i))] = Mod(r + (n + i))
    BY <1>2, <2>1, <2>2
  <2>6. Mod(r + (n + i)) = Up(r + (n + i)) /\ Mod(Up(r + n) + i) = Up(Up(r + n) + i)
    BY <1>1, <1>7, <2>1, Rounds
  <2>7. Up(r + (n + i)) = Up(Up(r + n) + i)
    BY <1>1, <1>7, <2>1 DEF Up
  <2> QED BY <1>7, <2>2, <2>4, <2>5, <2>6, <2>7
<1>11. g \in [Places -> -1 .. PIPSIZ]
  BY <1>1
<1>12. RingAs(off, W, s - n, w, Mod(r + n), g)
  BY <1>8, <1>9, <1>10 DEF RingAs
<1> QED
  BY <1>6, <1>7, <1>11, <1>12

\* The ring after n bytes have been written behind its s bytes.
LEMMA RingWritten ==
  ASSUME NEW R \in Places, NEW W \in Places, NEW s \in 0 .. PIPSIZ, NEW n \in 1 .. PIPSIZ,
         s + n <= PIPSIZ, W + n <= PIPSIZ, NEW w \in 0 .. PIPSIZ, NEW r \in 0 .. PIPSIZ,
         NEW f \in [Places -> -1 .. PIPSIZ], RingAs(R, W, s, w, r, f),
         NEW off, off = IF W + n = PIPSIZ THEN 0 ELSE W + n,
         NEW g, g = [i \in DOMAIN f |-> IF i \in W .. W + n - 1 THEN Mod(w + i - W) ELSE f[i]]
  PROVE  /\ off \in Places /\ Mod(w + n) \in 0 .. PIPSIZ /\ g \in [Places -> -1 .. PIPSIZ]
         /\ RingAs(R, off, s + n, Mod(w + n), r, g)
<1>1. /\ PIPSIZ \in Nat /\ PIPSIZ > 0 /\ R \in Nat /\ R < PIPSIZ /\ W \in Nat /\ W < PIPSIZ
      /\ s \in Nat /\ s <= PIPSIZ /\ n \in Nat /\ n > 0
  BY PipeAssumption DEF PipeAssumption, Places
<1>2. /\ (R + s) % PIPSIZ = W /\ Mod(w - r) = s
      /\ \A i \in 0 .. s - 1 : f[(R + i) % PIPSIZ] = Mod(r + i)
  BY DEF RingAs
<1>3. \A x \in 0 .. 2 * PIPSIZ - 1 : x % PIPSIZ = Round(x)
  BY Rounds
<1>4. Round(R + s) = W
  <2>1. R + s \in 0 .. 2 * PIPSIZ - 1
    BY <1>1
  <2> QED BY ONLY <1>2, <1>3, <2>1
<1>5. Up(w - r) = s
  BY <1>1, <1>2, Rounds
<1>6. off \in Places /\ off = Round(W + n)
  BY <1>1 DEF Places, Round
<1>7. Mod(w + n) = Up(w + n) /\ Up(w + n) \in 0 .. PIPSIZ
  BY <1>1, Rounds DEF Up
<1>8. Mod(Mod(w + n) - r) = s + n
  <2>1. Mod(Up(w + n) - r) = Up(Up(w + n) - r)
    BY <1>1, <1>7, Rounds
  <2>2. Up(Up(w + n) - r) = s + n
    BY <1>1, <1>5 DEF Up
  <2> QED BY <1>7, <2>1, <2>2
<1>9. (R + (s + n)) % PIPSIZ = off
  <2>1. R + (s + n) \in 0 .. 2 * PIPSIZ - 1
    BY <1>1
  <2>2. Round(R + (s + n)) = off
    BY <1>1, <1>4, <1>6 DEF Round
  <2> QED BY ONLY <1>3, <2>1, <2>2
<1>10. ASSUME NEW i \in 0 .. s + n - 1
       PROVE  g[(R + i) % PIPSIZ] = Mod(r + i)
  <2>1. (R + i) % PIPSIZ = Round(R + i) /\ Round(R + i) \in Places
    <3>1. R + i \in 0 .. 2 * PIPSIZ - 1 /\ Round(R + i) \in Places
      BY <1>1 DEF Places, Round
    <3> QED BY ONLY <1>3, <3>1
  <2>2. CASE i < s
    <3>1. i \in 0 .. s - 1 /\ Round(R + i) \notin W .. W + n - 1
      BY <1>1, <1>4, <2>2 DEF Round
    <3>2. g[Round(R + i)] = f[Round(R + i)]
      BY <2>1, <3>1
    <3> QED BY <1>2, <2>1, <3>1, <3>2
  <2>3. CASE i >= s
    <3>1. Round(R + i) = W + (i - s) /\ W + (i - s) \in W .. W + n - 1
      BY <1>1, <1>4, <2>3 DEF Round
    <3>2. g[W + (i - s)] = Mod(w + (W + (i - s)) - W)
      BY <2>1, <3>1
    <3>3. w + (W + (i - s)) - W = w + (i - s)
      BY <1>1, <2>3
    <3>4. Mod(w + (i - s)) = Up(w + (i - s)) /\ Mod(r + i) = Up(r + i)
      BY <1>1, <2>3, Rounds
    <3>5. Up(w + (i - s)) = Up(r + i)
      BY <1>1, <1>5, <2>3 DEF Up
    <3> QED BY <2>1, <3>1, <3>2, <3>3, <3>4, <3>5
  <2> QED BY <1>1, <2>2, <2>3
<1>11. ASSUME NEW i \in W .. W + n - 1 PROVE Mod(w + i - W) \in 0 .. PIPSIZ
  <2>1. w + i - W \in 0 .. 2 * PIPSIZ
    BY <1>1, <1>11
  <2>2. Mod(w + i - W) = Up(w + i - W)
    BY <1>1, <2>1, Rounds
  <2>3. Up(w + i - W) \in 0 .. PIPSIZ
    BY <1>1, <2>1 DEF Up
  <2> QED BY <2>2, <2>3
<1>12. g \in [Places -> -1 .. PIPSIZ]
  BY <1>1, <1>11
<1>13. RingAs(R, off, s + n, Mod(w + n), r, g)
  BY <1>8, <1>9, <1>10 DEF RingAs
<1> QED
  BY <1>6, <1>7, <1>12, <1>13

\* The bytes n of a block, m of them moved, and the size after it.
Sizes(n, m, resid, off, s) ==
  /\ m \in Nat /\ m <= resid /\ off + m <= PIPSIZ /\ off + m \in Nat
  /\ s - n \in Int /\ s + n \in Int
  /\ n > 0 => n \in 1 .. PIPSIZ
  /\ 0 <= n => m = n
  /\ 0 <= n /\ n <= s /\ s \in 0 .. PIPSIZ => s - n \in 0 .. PIPSIZ
  /\ n > 0 /\ s + resid <= PIPSIZ /\ s \in 0 .. PIPSIZ =>
       s + n <= PIPSIZ /\ s + n \in 0 .. PIPSIZ

LEMMA BlockSizes ==
  ASSUME NEW n \in Int, NEW m \in Int, NEW resid \in Nat \ {0}, NEW off \in Places,
         NEW s \in Int, n <= resid, off + n <= PIPSIZ,
         m = IF n > 0 THEN n ELSE 0
  PROVE  Sizes(n, m, resid, off, s)
<1>1. PIPSIZ \in Nat /\ PIPSIZ > 0 /\ off \in Nat /\ off < PIPSIZ
  BY PipeAssumption DEF PipeAssumption, Places
<1> QED BY <1>1 DEF Sizes

\* A block is read, and the writers are woken at the end.
LEMMA ReadBlockOk ==
  ASSUME PipeInv, ReadBlock
  PROVE  PipeInv'
<1> DEFINE n == IF rw.n > 0 THEN rw.n ELSE 0
           off == IF rw.off + n >= PIPSIZ THEN 0 ELSE rw.off + n
           size == ip.size - rw.n
           more == rw.resid > n /\ rw.n # 0
           b == Block("R", off, rw.resid - n, size)
           block == [i \in DOMAIN ring |-> IF i \in rw.off .. rw.off + n - 1 THEN -1 ELSE ring[i]]
           chans == IF more \/ ~ip.wwait THEN {} ELSE {Fwcnt}
<1>1. /\ rw.p # "nobody" /\ rw.op = "R"
      /\ \/ /\ more
            /\ rw' = [rw EXCEPT !.n = b, !.resid = rw.resid - n, !.off = off, !.began = TRUE]
            /\ ip' = [ip EXCEPT !.size = size] /\ UNCHANGED pipewait
            /\ TakeBytes(n)
         \/ /\ ~more /\ rw' = Idle
            /\ ip' = ReadEnd(size, off) /\ pipewait' = p_wakeup("wwait", Fwcnt)
            /\ IF size = 0 THEN Restart /\ Mend ELSE TakeBytes(n)
      /\ UNCHANGED fd
  BY DEF ReadBlock, NextBlock
<1>2. /\ rw \in Doing /\ rw.p \notin DOMAIN pipewait /\ fd[rw.p] = "R"
      /\ rw.off \in Places /\ rw.resid \in Nat \ {0} /\ rw.n \in Int
      /\ rw.n <= rw.resid /\ rw.off + rw.n <= PIPSIZ
      /\ odds = "no" => 0 <= rw.n /\ rw.n <= ip.size
  BY <1>1 DEF PipeInv, Locked, Idle, Doing
<1>3. /\ ip \in Inode /\ ip.size \in Int /\ PIPSIZ \in Nat /\ PIPSIZ > 0
      /\ ip.fwptr \in Places /\ ip.frptr \in Places
      /\ moved.w \in 0 .. PIPSIZ /\ moved.r \in 0 .. PIPSIZ
      /\ moved \in Numbers /\ ring \in [Places -> -1 .. PIPSIZ]
      /\ DOMAIN pipewait \subseteq Procs /\ odds \in {"no", "bytes", "wiped"}
      /\ odds = "no" => ip.size \in 0 .. PIPSIZ
  BY PipeAssumption DEF PipeAssumption, PipeInv, Types, Inode, Ring, Numbers
<1>4. /\ n \in Nat /\ n <= rw.resid /\ rw.off + n <= PIPSIZ /\ size \in Int
      /\ odds = "no" => n = rw.n /\ size \in 0 .. PIPSIZ
  <2>1. /\ rw.off \in Places /\ rw.resid \in Nat \ {0} /\ rw.n \in Int
        /\ rw.n <= rw.resid /\ rw.off + rw.n <= PIPSIZ /\ ip.size \in Int /\ n \in Int
    BY <1>2, <1>3
  <2>2. n = IF rw.n > 0 THEN rw.n ELSE 0
    OBVIOUS
  <2>3. odds = "no" => 0 <= rw.n /\ rw.n <= ip.size /\ ip.size \in 0 .. PIPSIZ
    BY <1>2, <1>3
  <2> HIDE DEF n
  <2>4. /\ n \in Nat /\ n <= rw.resid /\ rw.off + n <= PIPSIZ /\ size \in Int
        /\ 0 <= rw.n => n = rw.n
        /\ 0 <= rw.n /\ rw.n <= ip.size /\ ip.size \in 0 .. PIPSIZ => size \in 0 .. PIPSIZ
    <3>1. Sizes(rw.n, n, rw.resid, rw.off, ip.size)
      BY <2>1, <2>2, BlockSizes
    <3> QED BY <3>1 DEF Sizes
  <2> QED BY <2>3, <2>4
<1>5. off \in Places
  <2>1. rw.off + n \in Nat
    BY <1>2, <1>3, <1>4 DEF Places
  <2> HIDE DEF n
  <2> QED BY <1>3, <2>1 DEF Places
<1>6. /\ more => odds' = odds
      /\ odds' = odds \/ (odds = "bytes" /\ odds' = "no" /\ size = 0)
      /\ ~more /\ size = 0 => ring' = Empty /\ moved' = [w |-> 0, r |-> 0]
      /\ more \/ size # 0 =>
           /\ odds' = odds
           /\ IF odds = "no" THEN ring' = block /\ moved' = [moved EXCEPT !.r = Mod(moved.r + n)]
              ELSE UNCHANGED <<ring, moved>>
  <2>1. TakeBytes(n) =>
           /\ odds' = odds
           /\ IF odds = "no" THEN ring' = block /\ moved' = [moved EXCEPT !.r = Mod(moved.r + n)]
              ELSE UNCHANGED <<ring, moved>>
    BY DEF TakeBytes
  <2> HIDE DEF n, size, more, block, b
  <2> QED BY <1>1, <1>3, <2>1 DEF Restart, Mend
<1>7. more \in BOOLEAN /\ (more => rw.resid > n /\ rw.n # 0)
  OBVIOUS
<1>8. more => rw.resid - n \in Nat \ {0}
  BY <1>2, <1>4, <1>7
<1>9. more => /\ b \in Int /\ b <= rw.resid - n /\ off + b <= PIPSIZ
              /\ b <= size /\ (size >= 0 => b >= 0)
  <2> HIDE DEF off, size, n, more
  <2> QED BY <1>4, <1>5, <1>8, BlockIs
<1> HIDE DEF n, b
<1>10. /\ ip' \in Inode /\ UNCHANGED <<ip.frcnt, ip.fwcnt, ip.rwait>> /\ ip'.size = size
       /\ more => ip'.frptr = ip.frptr /\ ip'.fwptr = ip.fwptr /\ ip'.wwait = ip.wwait
       /\ ~more => /\ ip'.frptr = IF size # 0 THEN off ELSE 0
                   /\ ip'.fwptr = IF size # 0 THEN ip.fwptr ELSE 0
  <2> DEFINE fr == IF size # 0 THEN off ELSE 0
             fw == IF size # 0 THEN ip.fwptr ELSE 0
  <2>1. fr \in Places /\ fw \in Places
    BY <1>3, <1>5 DEF Places
  <2>2. CASE more
    <3>1. ip' = [ip EXCEPT !.size = size]
      BY <1>1, <2>2
    <3> HIDE DEF size, off, more
    <3> QED BY <1>3, <1>4, <2>2, <3>1 DEF Inode
  <2>3. CASE ~more
    <3>1. ip' = [ip EXCEPT !.size = size, !.wwait = FALSE, !.frptr = fr, !.fwptr = fw]
      BY <1>1, <2>3 DEF ReadEnd
    <3>2. FALSE \in BOOLEAN
      OBVIOUS
    <3> HIDE DEF size, off, more, fr, fw
    <3>3. /\ ip' \in Inode /\ UNCHANGED <<ip.frcnt, ip.fwcnt, ip.rwait>> /\ ip'.size = size
          /\ ip'.fwptr = fw /\ ip'.frptr = fr
      BY <1>3, <1>4, <2>1, <3>1, <3>2 DEF Inode
    <3> QED BY <2>3, <3>3 DEF fr, fw
  <2> QED BY <2>2, <2>3
<1>11. /\ Apart(rw.p, pipewait', chans) /\ DOMAIN pipewait' = DOMAIN pipewait
       /\ ~more /\ ip.wwait => Fwcnt \in chans
  <2>1. /\ Apart(rw.p, pipewait, {})
        /\ Apart(rw.p, wakeup(pipewait, {Fwcnt}), {Fwcnt})
        /\ DOMAIN wakeup(pipewait, {Fwcnt}) = DOMAIN pipewait
    BY WakeupApart DEF PipeInv
  <2> QED BY <1>1, <2>1 DEF p_wakeup
<1> HIDE DEF chans
<1>12. /\ more => /\ rw' \in Doing /\ rw'.p = rw.p /\ rw'.op = "R" /\ rw'.off = off /\ rw'.n = b
                  /\ rw'.resid = rw.resid - n /\ rw'.began
       /\ ~more => rw' = Idle
  <2> HIDE DEF more, off, size
  <2>1. ASSUME more
        PROVE  /\ rw' \in Doing /\ rw'.p = rw.p /\ rw'.op = "R" /\ rw'.off = off /\ rw'.n = b
               /\ rw'.resid = rw.resid - n /\ rw'.began
    <3>1. rw' = [rw EXCEPT !.n = b, !.resid = rw.resid - n, !.off = off, !.began = TRUE]
      BY <1>1, <2>1
    <3>2. b \in Int /\ TRUE \in BOOLEAN
      BY <1>9, <2>1
    <3> QED BY <1>1, <1>2, <1>5, <1>8, <2>1, <3>1, <3>2 DEF Doing
  <2> QED BY <1>1, <2>1
<1> HIDE DEF more, size, off, block
<1>13. ~Running("W") /\ (more => Running("R")')
  BY <1>1, <1>12 DEF During, Running
<1>14. Steady(chans)
  <2> SUFFICES ASSUME NEW d \in Waits, d.chan # Run, d.chan \notin chans, Blocked(d)
               PROVE  Blocked(d)'
    BY DEF Steady
  <2>1. CASE d.op = "open"
    <3>1. d.mode \in {"R", "W"}
      BY <2>1 DEF Waits, Modes
    <3>2. ip'[Other(d.mode)] = ip[Other(d.mode)]
      BY <1>10, <3>1, Fields
    <3> QED BY <2>1, <3>2 DEF Blocked
  <2>2. CASE d.op = "R"
    <3>1. odds' # "wiped" => odds # "wiped"
      BY <1>6
    <3>2. ASSUME odds' # "wiped"
          PROVE  /\ ip'.fwcnt > 0 /\ ip'.rwait
                 /\ ip'.size = 0 \/ odds' = "bytes"
      <4>1. ip.fwcnt > 0 /\ ip.rwait /\ (ip.size = 0 \/ odds = "bytes")
        BY <1>13, <2>2, <3>1, <3>2 DEF Blocked
      <4>2. CASE odds = "bytes"
        BY <1>6, <1>10, <4>1, <4>2
      <4>3. CASE odds # "bytes"
        <5>1. odds = "no" /\ ip.size = 0
          BY <1>3, <3>1, <3>2, <4>1, <4>3
        <5>2. size = 0
          BY <1>2, <5>1 DEF size
        <5> QED BY <1>10, <4>1, <5>2
      <4> QED BY <4>2, <4>3
    <3>3. d.chan = Frcnt
      BY <2>2 DEF Blocked
    <3> QED BY <2>2, <3>2, <3>3 DEF Blocked
  <2>3. CASE d.op = "W"
    <3>1. d.chan = Fwcnt /\ (odds' # "wiped" => odds # "wiped")
      BY <1>6, <2>3 DEF Blocked
    <3>2. odds # "wiped" => ip.frcnt > 0 /\ ip.wwait
      BY <2>3 DEF Blocked
    <3>3. odds # "wiped" => more
      BY <1>11, <3>1, <3>2
    <3> QED BY <1>10, <1>13, <2>3, <3>1, <3>2, <3>3 DEF Blocked
  <2> QED BY <2>1, <2>2, <2>3 DEF Blocked
<1>15. \A q \in DOMAIN pipewait' : pipewait'[q] \in Waits /\ Waiter(q)'
  BY <1>1, <1>2, <1>11, <1>14, OthersWait
<1>16. Counted'
  BY <1>1, <1>2, <1>3, <1>10, <1>11, SameCounts
<1>17. Locked'
  <2>1. CASE more
    <3>1. odds' = "no" => size >= 0
      BY <1>3, <1>4, <1>6, <2>1
    <3>2. /\ rw' \in Doing /\ rw'.p = rw.p /\ rw'.op = "R" /\ rw'.off = off /\ rw'.n = b
          /\ rw'.resid = rw.resid - n /\ rw'.began
      BY <1>12, <2>1
    <3>3. b <= rw.resid - n /\ off + b <= PIPSIZ /\ b <= size /\ (size >= 0 => b >= 0)
      BY <1>9, <2>1
    <3> QED BY <1>1, <1>2, <1>3, <1>4, <1>9, <1>10, <1>11, <2>1, <3>1, <3>2, <3>3 DEF Locked
  <2>2. CASE ~more
    BY <1>12, <2>2 DEF Locked
  <2> QED BY <1>7, <2>1, <2>2
<1>18. /\ ring' \in [Places -> -1 .. PIPSIZ] /\ moved' \in Numbers /\ Ring'
  <2>1. CASE ~more /\ size = 0
    <3>1. /\ ip'.size = 0 /\ ip'.frptr = 0 /\ ip'.fwptr = 0 /\ rw' = Idle
          /\ ring' = Empty /\ moved' = [w |-> 0, r |-> 0]
      BY <1>6, <1>10, <1>12, <2>1
    <3>2. Where("R", ip.frptr)' = 0 /\ Where("W", ip.fwptr)' = 0
      BY <3>1 DEF Where, Idle
    <3> QED BY <1>3, <3>1, <3>2, EmptyRing, Restarted DEF Ring
  <2>2. CASE (more \/ size # 0) /\ odds # "no"
    BY <1>3, <1>6, <2>2 DEF Ring
  <2>3. CASE (more \/ size # 0) /\ odds = "no"
    <3>1. /\ n = rw.n /\ n <= ip.size /\ n \in 0 .. PIPSIZ /\ size = ip.size - n /\ size \in 0 .. PIPSIZ
          /\ ip.size \in 0 .. PIPSIZ
      BY <1>2, <1>3, <1>4, <2>3 DEF size
    <3>2. Where("R", ip.frptr) = rw.off /\ Where("W", ip.fwptr) = ip.fwptr
      BY <1>1 DEF Where
    <3>3. RingAs(rw.off, ip.fwptr, ip.size, moved.w, moved.r, ring)
      BY <2>3, <3>2 DEF PipeInv, Ring
    <3>4. /\ off = IF rw.off + n >= PIPSIZ THEN 0 ELSE rw.off + n
          /\ block = [i \in DOMAIN ring |->
                        IF i \in rw.off .. rw.off + n - 1 THEN -1 ELSE ring[i]]
      BY DEF off, block
    <3>5. /\ Mod(moved.r + n) \in 0 .. PIPSIZ /\ block \in [Places -> -1 .. PIPSIZ]
          /\ RingAs(off, ip.fwptr, ip.size - n, moved.w, Mod(moved.r + n), block)
      <4> DEFINE R == rw.off
                 W == ip.fwptr
                 s == ip.size
                 w == moved.w
                 r == moved.r
      <4>1. /\ R \in Places /\ W \in Places /\ s \in 0 .. PIPSIZ /\ n \in 0 .. PIPSIZ
            /\ n <= s /\ R + n <= PIPSIZ /\ w \in 0 .. PIPSIZ /\ r \in 0 .. PIPSIZ
            /\ ring \in [Places -> -1 .. PIPSIZ] /\ RingAs(R, W, s, w, r, ring)
            /\ off = IF R + n >= PIPSIZ THEN 0 ELSE R + n
            /\ block = [i \in DOMAIN ring |-> IF i \in R .. R + n - 1 THEN -1 ELSE ring[i]]
        BY <1>2, <1>3, <1>4, <3>1, <3>3, <3>4
      <4> HIDE DEF R, W, s, w, r
      <4>2. /\ Mod(r + n) \in 0 .. PIPSIZ /\ block \in [Places -> -1 .. PIPSIZ]
            /\ RingAs(off, W, s - n, w, Mod(r + n), block)
        BY ONLY SMTT(30), <4>1, RingRead
      <4> QED BY <4>2 DEF R, W, s, w, r
    <3>6. ring' = block /\ moved' = [moved EXCEPT !.r = Mod(moved.r + n)] /\ odds' = "no"
      BY <1>6, <2>3
    <3>7. /\ moved' \in Numbers /\ moved'.w = moved.w /\ moved'.r = Mod(moved.r + n)
      BY <1>3, <3>5, <3>6 DEF Numbers
    <3>8. Where("R", ip.frptr)' = off /\ Where("W", ip.fwptr)' = ip.fwptr
      <4>1. CASE more
        BY <1>1, <1>10, <1>12, <4>1 DEF Where
      <4>2. CASE ~more
        BY <1>10, <1>12, <2>3, <4>2 DEF Where, Idle
      <4> QED BY <1>7, <4>1, <4>2
    <3>9. ip'.size = ip.size - n /\ ip'.size \in 0 .. PIPSIZ
      BY <1>10, <3>1
    <3> QED BY <3>5, <3>6, <3>7, <3>8, <3>9 DEF Ring
  <2> QED BY <1>7, <2>1, <2>2, <2>3
<1>19. Types'
  <2>1. odds' \in {"no", "bytes", "wiped"}
    BY <1>3, <1>6
  <2> QED BY <1>1, <1>3, <1>10, <1>11, <1>15, <1>18, <2>1 DEF PipeInv, Types
<1> QED
  BY <1>15, <1>16, <1>17, <1>18, <1>19 DEF PipeInv

\* A block is written, and the readers are woken at the end.
LEMMA WriteBlockOk ==
  ASSUME PipeInv, WriteBlock
  PROVE  PipeInv'
<1> DEFINE n == rw.n
           off == IF rw.off + n = PIPSIZ THEN 0 ELSE rw.off + n
           size == ip.size + n
           b == Block("W", off, rw.resid - n, size)
           rest == IF rw.usave = 0 THEN Idle ELSE [rw EXCEPT !.op = "floop", !.resid = rw.usave]
           block == [i \in DOMAIN ring |-> IF i \in rw.off .. rw.off + n - 1
                                           THEN Mod(moved.w + i - rw.off) ELSE ring[i]]
           chans == IF rw.resid > n \/ ~ip.rwait THEN {} ELSE {Frcnt}
<1>1. /\ rw.p # "nobody" /\ rw.op = "W"
      /\ IF odds # "no" THEN UNCHANGED <<ring, moved>>
         ELSE moved' = [moved EXCEPT !.w = Mod(moved.w + n)] /\ ring' = block
      /\ \/ /\ rw.resid > n
            /\ rw' = [rw EXCEPT !.n = b, !.resid = rw.resid - n, !.off = off, !.began = TRUE]
            /\ ip' = [ip EXCEPT !.size = size] /\ UNCHANGED pipewait
         \/ /\ rw.resid = n /\ rw' = rest
            /\ ip' = [ip EXCEPT !.size = size, !.fwptr = off, !.rwait = FALSE]
            /\ pipewait' = p_wakeup("rwait", Frcnt)
      /\ UNCHANGED <<odds, fd>>
  BY DEF WriteBlock, PutBytes, NextBlock
<1>2. /\ rw \in Doing /\ rw.p \notin DOMAIN pipewait /\ fd[rw.p] = "W"
      /\ rw.off \in Places /\ rw.resid \in Nat \ {0} /\ rw.usave \in Nat /\ rw.n \in Int
      /\ rw.n > 0 /\ rw.n <= rw.resid /\ rw.off + rw.n <= PIPSIZ
      /\ odds = "no" => ip.size + rw.resid <= PIPSIZ
  BY <1>1 DEF PipeInv, Locked, Idle, Doing
<1>3. /\ ip \in Inode /\ ip.size \in Int /\ PIPSIZ \in Nat /\ PIPSIZ > 0
      /\ ip.fwptr \in Places /\ ip.frptr \in Places
      /\ moved.w \in 0 .. PIPSIZ /\ moved.r \in 0 .. PIPSIZ
      /\ moved \in Numbers /\ ring \in [Places -> -1 .. PIPSIZ]
      /\ DOMAIN pipewait \subseteq Procs
      /\ odds = "no" => ip.size \in 0 .. PIPSIZ
  BY PipeAssumption DEF PipeAssumption, PipeInv, Types, Inode, Ring, Numbers
<1>4. /\ n \in 1 .. PIPSIZ /\ n <= rw.resid /\ rw.off + n <= PIPSIZ /\ size \in Int
      /\ rw.off + n \in Nat
      /\ odds = "no" => ip.size + n <= PIPSIZ /\ size \in 0 .. PIPSIZ
  <2>1. /\ rw.off \in Places /\ rw.resid \in Nat \ {0} /\ n \in Int /\ n > 0
        /\ n <= rw.resid /\ rw.off + n <= PIPSIZ /\ ip.size \in Int
        /\ odds = "no" => ip.size + rw.resid <= PIPSIZ /\ ip.size \in 0 .. PIPSIZ
    BY <1>2, <1>3
  <2> HIDE DEF n
  <2>2. n = IF n > 0 THEN n ELSE 0
    BY <2>1
  <2>3. /\ n > 0 => n \in 1 .. PIPSIZ
        /\ rw.off + n \in Nat /\ size \in Int
        /\ n > 0 /\ ip.size + rw.resid <= PIPSIZ /\ ip.size \in 0 .. PIPSIZ =>
             ip.size + n <= PIPSIZ /\ size \in 0 .. PIPSIZ
    <3>1. Sizes(n, n, rw.resid, rw.off, ip.size)
      BY <2>1, <2>2, BlockSizes
    <3> QED BY <3>1 DEF Sizes
  <2> QED BY <2>1, <2>3
<1>5. off \in Places
  <2>1. rw.off + n \in Nat /\ rw.off + n <= PIPSIZ
    BY <1>4
  <2> HIDE DEF n
  <2> QED BY <1>3, <2>1 DEF Places
<1> HIDE DEF n
<1>6. rw.resid > n => /\ rw.resid - n \in Nat \ {0}
                      /\ odds = "no" => size + (rw.resid - n) <= PIPSIZ
  BY <1>2, <1>3, <1>4
<1>7. rw.resid > n => b \in Int /\ b <= rw.resid - n /\ off + b <= PIPSIZ /\ b > 0
  <2> HIDE DEF off, size
  <2> QED BY <1>4, <1>5, <1>6, BlockIs
<1> HIDE DEF b
<1>8. odds = "no" =>
        /\ Mod(moved.w + n) \in 0 .. PIPSIZ /\ block \in [Places -> -1 .. PIPSIZ]
        /\ RingAs(ip.frptr, off, size, Mod(moved.w + n), moved.r, block)
  <2> SUFFICES ASSUME odds = "no"
               PROVE  /\ Mod(moved.w + n) \in 0 .. PIPSIZ /\ block \in [Places -> -1 .. PIPSIZ]
                      /\ RingAs(ip.frptr, off, size, Mod(moved.w + n), moved.r, block)
    OBVIOUS
  <2> DEFINE R == ip.frptr
             W == rw.off
             s == ip.size
             w == moved.w
             r == moved.r
  <2>1. RingAs(R, W, s, w, r, ring)
    BY <1>1 DEF PipeInv, Ring, Where
  <2>2. /\ R \in Places /\ W \in Places /\ s \in 0 .. PIPSIZ /\ n \in 1 .. PIPSIZ
        /\ s + n <= PIPSIZ /\ W + n <= PIPSIZ /\ w \in 0 .. PIPSIZ /\ r \in 0 .. PIPSIZ
        /\ ring \in [Places -> -1 .. PIPSIZ] /\ RingAs(R, W, s, w, r, ring)
        /\ off = IF W + n = PIPSIZ THEN 0 ELSE W + n
        /\ block = [i \in DOMAIN ring |-> IF i \in W .. W + n - 1 THEN Mod(w + i - W) ELSE ring[i]]
    BY <1>2, <1>3, <1>4, <2>1
  <2> HIDE DEF off, block, R, W, s, w, r
  <2>3. /\ off \in Places /\ Mod(w + n) \in 0 .. PIPSIZ /\ block \in [Places -> -1 .. PIPSIZ]
        /\ RingAs(R, off, s + n, Mod(w + n), r, block)
    BY ONLY <2>2, RingWritten
  <2> QED BY <2>3 DEF R, s, w, r
<1> HIDE DEF off, size, block
<1>9. /\ ip' \in Inode /\ UNCHANGED <<ip.frcnt, ip.fwcnt, ip.wwait, ip.frptr>> /\ ip'.size = size
      /\ rw.resid > n => ip'.fwptr = ip.fwptr /\ ip'.rwait = ip.rwait
      /\ ~(rw.resid > n) => ip'.fwptr = off
  <2>1. CASE rw.resid > n
    <3>1. ip' = [ip EXCEPT !.size = size]
      BY <1>1, <1>2, <1>4, <2>1
    <3> QED BY <1>3, <1>4, <2>1, <3>1 DEF Inode
  <2>2. CASE ~(rw.resid > n)
    <3>1. ip' = [ip EXCEPT !.size = size, !.fwptr = off, !.rwait = FALSE]
      BY <1>1, <2>2
    <3>2. FALSE \in BOOLEAN
      OBVIOUS
    <3> QED BY <1>3, <1>4, <1>5, <2>2, <3>1, <3>2 DEF Inode
  <2> QED BY <2>1, <2>2
<1>10. /\ Apart(rw.p, pipewait', chans) /\ DOMAIN pipewait' = DOMAIN pipewait
       /\ ~(rw.resid > n) /\ ip.rwait => Frcnt \in chans
  <2>1. /\ Apart(rw.p, pipewait, {})
        /\ Apart(rw.p, wakeup(pipewait, {Frcnt}), {Frcnt})
        /\ DOMAIN wakeup(pipewait, {Frcnt}) = DOMAIN pipewait
    BY WakeupApart DEF PipeInv
  <2>2. rw.resid = n => ~(rw.resid > n)
    BY <1>2
  <2> QED BY <1>1, <2>1, <2>2 DEF p_wakeup
<1> HIDE DEF chans
<1>11. /\ rw.resid > n =>
            /\ rw' \in Doing /\ rw'.p = rw.p /\ rw'.op = "W" /\ rw'.off = off /\ rw'.n = b
            /\ rw'.resid = rw.resid - n /\ rw'.began
       /\ ~(rw.resid > n) => rw' = Idle \/ (rw' \in Doing /\ rw'.p = rw.p /\ rw'.op = "floop")
  <2>1. CASE rw.resid > n
    <3>1. rw' = [rw EXCEPT !.n = b, !.resid = rw.resid - n, !.off = off, !.began = TRUE]
      BY <1>1, <1>2, <1>4, <2>1
    <3>2. b \in Int /\ TRUE \in BOOLEAN
      BY <1>7, <2>1
    <3> QED BY <1>1, <1>2, <1>5, <1>6, <2>1, <3>1, <3>2 DEF Doing
  <2>2. CASE ~(rw.resid > n)
    <3>1. rw' = rest
      BY <1>1, <2>2
    <3> QED BY <1>2, <2>2, <3>1 DEF Doing
  <2> QED BY <2>1, <2>2
<1> HIDE DEF rest
<1>12. ~Running("R") /\ (rw.resid > n => Running("W")')
  BY <1>1, <1>11 DEF During, Running
<1>13. Steady(chans)
  <2> SUFFICES ASSUME NEW d \in Waits, d.chan # Run, d.chan \notin chans, Blocked(d)
               PROVE  Blocked(d)'
    BY DEF Steady
  <2>1. CASE d.op = "open"
    <3>1. d.mode \in {"R", "W"}
      BY <2>1 DEF Waits, Modes
    <3>2. ip'[Other(d.mode)] = ip[Other(d.mode)]
      BY <1>9, <3>1, Fields
    <3> QED BY <2>1, <3>2 DEF Blocked
  <2>2. CASE d.op = "R"
    <3>1. d.chan = Frcnt /\ (odds # "wiped" => ip.fwcnt > 0 /\ ip.rwait)
      BY <2>2 DEF Blocked
    <3>2. odds # "wiped" => rw.resid > n
      BY <1>10, <3>1
    <3> QED BY <1>1, <1>9, <1>12, <2>2, <3>1, <3>2 DEF Blocked
  <2>3. CASE d.op = "W"
    <3>1. d.n \in Nat
      BY <2>3 DEF Waits, Modes
    <3>2. odds # "wiped" => \/ d.n + ip.size > PIPSIZ /\ ~(d.n > PIPSIZ /\ ip.size < PIPSIZ)
                            \/ odds = "bytes"
      BY <1>12, <2>3 DEF Blocked
    <3>3. odds # "wiped" => \/ d.n + size > PIPSIZ /\ ~(d.n > PIPSIZ /\ size < PIPSIZ)
                            \/ odds = "bytes"
      BY <1>3, <1>4, <3>1, <3>2 DEF size
    <3>4. d.chan = Fwcnt /\ (odds # "wiped" => ip.frcnt > 0 /\ ip.wwait)
      BY <2>3 DEF Blocked
    <3> QED BY <1>1, <1>9, <2>3, <3>3, <3>4 DEF Blocked
  <2> QED BY <2>1, <2>2, <2>3 DEF Blocked
<1>14. \A q \in DOMAIN pipewait' : pipewait'[q] \in Waits /\ Waiter(q)'
  BY <1>1, <1>2, <1>10, <1>13, OthersWait
<1>15. Counted'
  BY <1>1, <1>2, <1>3, <1>9, <1>10, SameCounts
<1>16. Locked'
  <2>1. CASE rw.resid > n
    <3>1. /\ rw' \in Doing /\ rw'.p = rw.p /\ rw'.op = "W" /\ rw'.off = off /\ rw'.n = b
          /\ rw'.resid = rw.resid - n /\ rw'.began
      BY <1>11, <2>1
    <3>2. /\ b <= rw.resid - n /\ off + b <= PIPSIZ /\ b > 0
          /\ odds = "no" => size + (rw.resid - n) <= PIPSIZ
      BY <1>6, <1>7, <2>1
    <3> QED BY <1>1, <1>2, <1>9, <1>10, <3>1, <3>2 DEF Locked
  <2>2. CASE ~(rw.resid > n)
    <3>1. rw' = Idle \/ (rw' \in Doing /\ rw'.p = rw.p /\ rw'.op = "floop")
      BY <1>11, <2>2
    <3> QED BY <1>1, <1>2, <1>10, <3>1 DEF Locked
  <2> QED BY <2>1, <2>2
<1>17. ring' \in [Places -> -1 .. PIPSIZ] /\ moved' \in Numbers
  <2>1. CASE odds # "no"
    BY <1>1, <1>3, <2>1
  <2>2. CASE odds = "no"
    BY <1>1, <1>3, <1>8, <2>2 DEF Numbers
  <2> QED BY <2>1, <2>2
<1>18. Ring'
  <2> SUFFICES ASSUME odds' = "no"
               PROVE  /\ ip'.size \in 0 .. PIPSIZ
                      /\ RingAs(Where("R", ip.frptr)', Where("W", ip.fwptr)', ip'.size,
                                moved'.w, moved'.r, ring')
    BY DEF Ring
  <2>1. odds = "no" /\ size \in 0 .. PIPSIZ
    BY <1>1, <1>4
  <2>2. ring' = block /\ moved'.w = Mod(moved.w + n) /\ moved'.r = moved.r
    BY <1>1, <1>3, <2>1 DEF Numbers
  <2>3. Where("R", ip.frptr)' = ip.frptr /\ Where("W", ip.fwptr)' = off
    <3>1. CASE rw.resid > n
      BY <1>1, <1>9, <1>11, <3>1 DEF Where
    <3>2. CASE ~(rw.resid > n)
      BY <1>9, <1>11, <3>2 DEF Where, Idle
    <3> QED BY <3>1, <3>2
  <2> QED BY <1>8, <1>9, <2>1, <2>2, <2>3
<1>19. Types'
  BY <1>1, <1>3, <1>9, <1>10, <1>14, <1>17 DEF PipeInv, Types
<1> QED
  BY <1>14, <1>15, <1>16, <1>18, <1>19 DEF PipeInv

\* A call ends in a failure, the pipe at odds unless a read has emptied it: who
\* is woken by what is left of the end of the call still has his flag.
LEMMA FailOk ==
  ASSUME PipeInv, NEW chans, rw.p # "nobody", rw' = Idle, fd' = fd,
         Apart(rw.p, pipewait', chans), DOMAIN pipewait' = DOMAIN pipewait,
         ip' \in Inode, UNCHANGED <<ip.frcnt, ip.fwcnt>>,
         ring' \in [Places -> -1 .. PIPSIZ], moved' \in Numbers,
         odds' = "wiped" \/ (odds # "wiped" /\ odds' = "bytes")
           \/ (odds # "wiped" /\ odds' = "no" /\ ip'.size = 0),
         odds # "wiped" /\ ip.rwait /\ ~ip'.rwait => Frcnt \in chans,
         odds # "wiped" /\ ip.wwait /\ (~ip'.wwait \/ odds' = "no") => Fwcnt \in chans,
         Ring'
  PROVE  PipeInv'
<1>1. rw.p \notin DOMAIN pipewait /\ DOMAIN pipewait \subseteq Procs /\ odds \in {"no", "bytes", "wiped"}
  BY DEF PipeInv, Locked, Idle, Types
<1>2. Steady(chans)
  <2> SUFFICES ASSUME NEW d \in Waits, d.chan # Run, d.chan \notin chans, Blocked(d)
               PROVE  Blocked(d)'
    BY DEF Steady
  <2>1. CASE d.op = "open"
    <3>1. d.mode \in {"R", "W"}
      BY <2>1 DEF Waits, Modes
    <3>2. ip'[Other(d.mode)] = ip[Other(d.mode)]
      BY <3>1, Fields
    <3> QED BY <2>1, <3>2 DEF Blocked
  <2>2. CASE d.op = "R"
    <3>1. d.chan = Frcnt /\ (odds # "wiped" => ip.fwcnt > 0 /\ ip.rwait)
      BY <2>2 DEF Blocked
    <3>2. odds # "wiped" => ip'.fwcnt > 0 /\ ip'.rwait
      BY <3>1
    <3> QED BY <2>2, <3>1, <3>2 DEF Blocked
  <2>3. CASE d.op = "W"
    <3>1. d.chan = Fwcnt /\ (odds # "wiped" => ip.frcnt > 0 /\ ip.wwait)
      BY <2>3 DEF Blocked
    <3>2. odds # "wiped" => ip'.frcnt > 0 /\ ip'.wwait /\ odds' # "no"
      BY <3>1
    <3> QED BY <2>3, <3>1, <3>2 DEF Blocked
  <2> QED BY <2>1, <2>2, <2>3 DEF Blocked
<1>3. \A q \in DOMAIN pipewait' : pipewait'[q] \in Waits /\ Waiter(q)'
  BY <1>1, <1>2, OthersWait
<1>4. Counted'
  BY <1>1, SameCounts
<1>5. Types'
  BY <1>1, <1>3 DEF PipeInv, Types
<1>6. Locked'
  BY DEF Locked
<1> QED
  BY <1>3, <1>4, <1>5, <1>6 DEF PipeInv

\* A block fails: before the first has been moved the pipe is as it was.
LEMMA BlockFailsOk ==
  ASSUME PipeInv, BlockFails
  PROVE  PipeInv'
<1>1. /\ rw.p # "nobody" /\ rw' = Idle /\ UNCHANGED <<ip, fd, pipewait>>
      /\ IF rw.began THEN Break ELSE UNCHANGED <<ring, moved, odds>>
  BY DEF BlockFails
<1>2. /\ rw \in Doing /\ rw.p \notin DOMAIN pipewait /\ ip \in Inode
      /\ DOMAIN pipewait \subseteq Procs /\ odds \in {"no", "bytes", "wiped"}
  BY <1>1 DEF PipeInv, Types, Locked, Idle
<1>3. Apart(rw.p, pipewait', {})
  BY <1>1, WakeupApart DEF PipeInv
<1>4. CASE rw.began
  <2>1. /\ ring' = Empty /\ moved' = [w |-> 0, r |-> 0]
        /\ odds' = IF odds = "wiped" THEN odds ELSE "bytes"
    BY <1>1, <1>4 DEF Break, Restart
  <2>2. Ring'
    BY <2>1 DEF Ring
  <2>3. ring' \in [Places -> -1 .. PIPSIZ] /\ moved' \in Numbers
    BY <2>1, Restarted
  <2>4. /\ odds' = "wiped" \/ (odds # "wiped" /\ odds' = "bytes")
        /\ odds # "wiped" => odds' = "bytes"
    BY <2>1
  <2> QED BY <1>1, <1>2, <1>3, <2>2, <2>3, <2>4, FailOk
<1>5. CASE ~rw.began
  <2>1. UNCHANGED <<ring, moved, odds>>
    BY <1>1, <1>5
  <2>2. ~Running("R") /\ ~Running("W")
    BY <1>5 DEF Running
  <2>3. Steady({})
    BY <1>1, <2>1, <2>2 DEF Steady, Blocked
  <2>4. \A q \in DOMAIN pipewait' : pipewait'[q] \in Waits /\ Waiter(q)'
    BY <1>1, <1>2, <1>3, <2>3, OthersWait
  <2>5. Types'
    BY <1>1, <2>1, <2>4 DEF PipeInv, Types
  <2>6. Locked'
    BY <1>1 DEF Locked
  <2>7. Counted'
    BY <1>1, <1>2, <1>3, SameCounts
  <2>8. Ring'
    <3> SUFFICES ASSUME odds = "no"
                 PROVE  /\ ip.size \in 0 .. PIPSIZ
                        /\ RingAs(Where("R", ip.frptr)', Where("W", ip.fwptr)', ip.size,
                                  moved.w, moved.r, ring)
      BY <1>1, <2>1 DEF Ring
    <3>1. /\ rw.op = "R" => rw.off = ip.frptr
          /\ rw.op = "W" => rw.off = ip.fwptr
      BY <1>1, <1>5 DEF PipeInv, Locked, Idle
    <3>2. Where("R", ip.frptr) = ip.frptr /\ Where("W", ip.fwptr) = ip.fwptr
      BY <3>1 DEF Where
    <3>3. Where("R", ip.frptr)' = ip.frptr /\ Where("W", ip.fwptr)' = ip.fwptr
      BY <1>1 DEF Where, Idle
    <3> QED BY <3>2, <3>3 DEF PipeInv, Ring
  <2> QED BY <2>4, <2>5, <2>6, <2>7, <2>8 DEF PipeInv
<1> QED
  BY <1>4, <1>5

\* A copy fails: the call ends as usual, but the place does not move with the
\* size.
LEMMA CopyFailsOk ==
  ASSUME PipeInv, CopyFails
  PROVE  PipeInv'
<1>1. /\ rw.p # "nobody" /\ rw' = Idle /\ fd' = fd
      /\ \E k \in 0 .. rw.n - 1 :
           \/ /\ rw.op = "R"
              /\ ip' = ReadEnd(ip.size - rw.n, rw.off + k)
              /\ IF ip.size = rw.n THEN Restart /\ Mend ELSE Break
              /\ pipewait' = p_wakeup("wwait", Fwcnt)
           \/ /\ rw.op = "W"
              /\ ip' = [ip EXCEPT !.size = ip.size + rw.n, !.fwptr = rw.off + k, !.rwait = FALSE]
              /\ Break
              /\ pipewait' = p_wakeup("rwait", Frcnt)
  BY DEF CopyFails
<1>2. PICK k \in 0 .. rw.n - 1 :
           \/ /\ rw.op = "R"
              /\ ip' = ReadEnd(ip.size - rw.n, rw.off + k)
              /\ IF ip.size = rw.n THEN Restart /\ Mend ELSE Break
              /\ pipewait' = p_wakeup("wwait", Fwcnt)
           \/ /\ rw.op = "W"
              /\ ip' = [ip EXCEPT !.size = ip.size + rw.n, !.fwptr = rw.off + k, !.rwait = FALSE]
              /\ Break
              /\ pipewait' = p_wakeup("rwait", Frcnt)
  BY <1>1
<1>3. /\ rw \in Doing /\ rw.p \notin DOMAIN pipewait /\ ip \in Inode /\ ip.size \in Int
      /\ rw.off \in Places /\ rw.n \in Int /\ ip.fwptr \in Places
      /\ rw.op # "floop" => rw.off + rw.n <= PIPSIZ
      /\ DOMAIN pipewait \subseteq Procs /\ odds \in {"no", "bytes", "wiped"}
      /\ PIPSIZ \in Nat /\ PIPSIZ > 0
  BY <1>1, PipeAssumption DEF PipeAssumption, PipeInv, Types, Locked, Idle, Doing, Inode
<1>4. rw.off + k \in Places
  BY <1>2, <1>3 DEF Places
<1>5. /\ Apart(rw.p, pipewait, {})
      /\ \A x : /\ Apart(rw.p, wakeup(pipewait, {x}), {x})
                /\ DOMAIN wakeup(pipewait, {x}) = DOMAIN pipewait
  BY WakeupApart DEF PipeInv
<1>6. CASE rw.op = "R"
  <2> DEFINE size == ip.size - rw.n
             fr == IF size # 0 THEN rw.off + k ELSE 0
             fw == IF size # 0 THEN ip.fwptr ELSE 0
             chans == IF ip.wwait THEN {Fwcnt} ELSE {}
  <2>1. /\ ip' = [ip EXCEPT !.size = size, !.wwait = FALSE, !.frptr = fr, !.fwptr = fw]
        /\ pipewait' = IF ip.wwait THEN wakeup(pipewait, {Fwcnt}) ELSE pipewait
        /\ ring' = Empty /\ moved' = [w |-> 0, r |-> 0]
        /\ \/ size = 0 /\ odds' = IF odds = "wiped" THEN odds ELSE "no"
           \/ odds' = IF odds = "wiped" THEN odds ELSE "bytes"
    BY <1>2, <1>3, <1>6 DEF ReadEnd, p_wakeup, Restart, Mend, Break
  <2>2. size \in Int /\ fr \in Places /\ fw \in Places
    BY <1>3, <1>4 DEF Places
  <2>3. (size = 0 => fr = 0 /\ fw = 0) /\ FALSE \in BOOLEAN
    OBVIOUS
  <2> HIDE DEF size, fr, fw
  <2>4. /\ ip' \in Inode /\ UNCHANGED <<ip.frcnt, ip.fwcnt, ip.rwait>> /\ ip'.size = size
        /\ ip'.frptr = fr /\ ip'.fwptr = fw
    BY <1>3, <2>1, <2>2, <2>3 DEF Inode
  <2>5. /\ Apart(rw.p, pipewait', chans) /\ DOMAIN pipewait' = DOMAIN pipewait
        /\ ip.wwait => Fwcnt \in chans
    BY <1>5, <2>1
  <2> HIDE DEF chans
  <2>6. Ring'
    <3> SUFFICES ASSUME odds' = "no"
                 PROVE  /\ ip'.size \in 0 .. PIPSIZ
                        /\ RingAs(Where("R", ip.frptr)', Where("W", ip.fwptr)', ip'.size,
                                  moved'.w, moved'.r, ring')
      BY DEF Ring
    <3>1. size = 0
      BY <2>1
    <3>2. Where("R", ip.frptr)' = 0 /\ Where("W", ip.fwptr)' = 0
      BY <1>1, <2>3, <2>4, <3>1 DEF Where, Idle
    <3> QED BY <1>3, <2>1, <2>4, <3>1, <3>2, EmptyRing
  <2>7. ring' \in [Places -> -1 .. PIPSIZ] /\ moved' \in Numbers
    BY <2>1, Restarted
  <2>8. odds' = "wiped" \/ (odds # "wiped" /\ odds' = "bytes")
          \/ (odds # "wiped" /\ odds' = "no" /\ ip'.size = 0)
    BY <2>1, <2>4
  <2> QED BY <1>1, <1>3, <2>4, <2>5, <2>6, <2>7, <2>8, FailOk
<1>7. CASE rw.op = "W"
  <2> DEFINE chans == IF ip.rwait THEN {Frcnt} ELSE {}
  <2>1. /\ ip' = [ip EXCEPT !.size = ip.size + rw.n, !.fwptr = rw.off + k, !.rwait = FALSE]
        /\ pipewait' = IF ip.rwait THEN wakeup(pipewait, {Frcnt}) ELSE pipewait
        /\ ring' = Empty /\ moved' = [w |-> 0, r |-> 0]
        /\ odds' = IF odds = "wiped" THEN odds ELSE "bytes"
    BY <1>2, <1>7 DEF p_wakeup, Restart, Break
  <2>2. /\ ip' \in Inode /\ UNCHANGED <<ip.frcnt, ip.fwcnt, ip.wwait>>
    <3>1. ip.size + rw.n \in Int /\ FALSE \in BOOLEAN
      BY <1>3
    <3> QED BY <1>3, <1>4, <2>1, <3>1 DEF Inode
  <2>3. /\ Apart(rw.p, pipewait', chans) /\ DOMAIN pipewait' = DOMAIN pipewait
        /\ ip.rwait => Frcnt \in chans
    BY <1>5, <2>1
  <2> HIDE DEF chans
  <2>4. odds' = "wiped" \/ (odds # "wiped" /\ odds' = "bytes")
    BY <2>1
  <2>5. Ring'
    BY <2>4 DEF Ring
  <2>6. ring' \in [Places -> -1 .. PIPSIZ] /\ moved' \in Numbers
    BY <2>1, Restarted
  <2>7. odds # "wiped" => odds' = "bytes"
    BY <2>1
  <2> QED BY <1>1, <1>3, <2>2, <2>3, <2>4, <2>5, <2>6, <2>7, FailOk
<1> QED
  BY <1>2, <1>6, <1>7

\* A new pipe: nobody has it open, it is empty.
LEMMA PipeInitOk == PipeInit => PipeInv
<1> SUFFICES ASSUME PipeInit PROVE PipeInv
  OBVIOUS
<1>1. /\ ip.size = 0 /\ ip.frptr = 0 /\ ip.fwptr = 0 /\ ip.frcnt = 0 /\ ip.fwcnt = 0
      /\ ring = Empty /\ moved = [w |-> 0, r |-> 0] /\ odds = "no"
      /\ fd = [p \in Procs |-> "none"]
      /\ rw = Idle /\ pipewait = <<>> /\ PIPSIZ \in Nat /\ PIPSIZ > 0
  BY PipeAssumption DEF PipeAssumption, PipeInit
<1>2. DOMAIN pipewait = {}
  BY <1>1
<1>3. Types
  <2>1. ip \in Inode
    BY <1>1 DEF PipeInit, Inode, Places
  <2>2. fd \in [Procs -> States]
    BY <1>1 DEF States
  <2> QED BY <1>1, <1>2, <2>1, <2>2, Restarted DEF Types
<1>4. Locked
  BY <1>1 DEF Locked
<1>5. \A mode \in Modes : Openers(mode) = {}
  BY <1>1, <1>2 DEF Openers, Modes
<1>6. Counted
  BY <1>1, <1>5, FS_EmptySet, Fields DEF Counted, Modes
<1>7. Where("R", ip.frptr) = 0 /\ Where("W", ip.fwptr) = 0
  BY <1>1 DEF Where, Idle
<1>9. Ring
  BY <1>1, <1>7, EmptyRing DEF Ring
<1> QED
  BY <1>2, <1>3, <1>4, <1>6, <1>9 DEF PipeInv

\* PipeInv is inductive.
LEMMA PipeStep == PipeInv /\ [PipeNext]_pipeVars => PipeInv'
<1> SUFFICES ASSUME PipeInv, [PipeNext]_pipeVars PROVE PipeInv'
  OBVIOUS
<1>1. ASSUME NEW p \in Procs, NEW mode \in {"R", "W"}, PipeOpen(p, mode) PROVE PipeInv'
  BY <1>1, PipeOpenOk
<1>2. ASSUME NEW p \in Procs, NEW n \in Amounts, PipeCall(p, n) PROVE PipeInv'
  BY <1>2, PipeCallOk
<1>3. ASSUME NEW p \in Procs, PipeClose(p) PROVE PipeInv'
  BY <1>3, PipeCloseOk
<1>4. ASSUME NEW p \in Procs, PipeInterrupt(p) PROVE PipeInv'
  BY <1>4, PipeInterruptOk
<1>5. ASSUME NEW p \in Procs, PipeResume(p) PROVE PipeInv'
  BY <1>5, PipeResumeOk
<1>6. CASE ReadBlock
  BY <1>6, ReadBlockOk
<1>7. CASE WriteBlock
  BY <1>7, WriteBlockOk
<1>8. CASE WriteRest
  BY <1>8, WriteRestOk
<1>9. CASE BlockFails
  BY <1>9, BlockFailsOk
<1>10. CASE CopyFails
  BY <1>10, CopyFailsOk
<1>11. ASSUME NEW p \in Procs, PipeReset(p) PROVE PipeInv'
  BY <1>11, PipeResetOk
<1>12. CASE UNCHANGED pipeVars
  BY <1>12 DEF pipeVars, PipeInv, Types, Locked, Counted, Openers, Ring, Where, Waiter,
               Blocked, Running, During
<1> QED
  BY <1>1, <1>2, <1>3, <1>4, <1>5, <1>6, <1>7, <1>8, <1>9, <1>10, <1>11, <1>12 DEF PipeNext

\* A pipe's bytes come out in the order they went in: PipeFifo holds although
\* opens and closes do not lock the inode, a read or write keeps its place in
\* a local variable while it waits for a buffer, and places wrap around.  What
\* a failure tears is whole again once a read has emptied the pipe, what a
\* last close wipes once nobody has the pipe open.
THEOREM BytesInOrder == PipeSpec => []PipeFifo
<1>1. PipeInv => PipeFifo
  <2> SUFFICES ASSUME PipeInv, odds = "no"
               PROVE  /\ ip.size \in 0 .. PIPSIZ
                      /\ Mod(moved.w - moved.r) = ip.size
                      /\ ip.size < PIPSIZ =>
                           (Where("R", ip.frptr) + ip.size) % PIPSIZ
                             = Where("W", ip.fwptr) % PIPSIZ
                      /\ \A i \in 0 .. ip.size - 1 :
                           ring[(Where("R", ip.frptr) + i) % PIPSIZ] = Mod(moved.r + i)
    BY DEF PipeFifo
  <2>1. /\ ip.size \in 0 .. PIPSIZ /\ Where("W", ip.fwptr) \in Places
        /\ PIPSIZ \in Nat /\ PIPSIZ > 0
    BY PipeAssumption DEF PipeAssumption, PipeInv, Types, Inode, Ring, Locked, Where, Idle, Doing
  <2>2. Where("W", ip.fwptr) % PIPSIZ = Where("W", ip.fwptr)
    <3> DEFINE W == Where("W", ip.fwptr)
    <3>1. W \in 0 .. 2 * PIPSIZ - 1 /\ Round(W) = W
      BY <2>1 DEF Places, Round
    <3> HIDE DEF W
    <3>2. W % PIPSIZ = W
      BY <3>1, Rounds
    <3> QED BY <3>2 DEF W
  <2>3. RingAs(Where("R", ip.frptr), Where("W", ip.fwptr), ip.size, moved.w, moved.r, ring)
    BY DEF PipeInv, Ring
  <2> QED BY <2>1, <2>2, <2>3 DEF RingAs
<1> QED
  BY <1>1, PipeInitOk, PipeStep, PTL DEF PipeSpec

\* Nobody sleeps on a pipe while his call could go on: the flag or count that
\* makes another process wake him is kept, whatever closes, signals, blocks,
\* failures and returns come between, but for a pipe opened while its last
\* close sleeps (PipeSleeperBlocked).
THEOREM PipeWakesAll == PipeSpec => []PipeSleeperBlocked
<1>1. PipeInv => PipeSleeperBlocked
  <2> SUFFICES ASSUME PipeInv, NEW p \in Asleep(pipewait)
               PROVE  LET c == pipewait[p]
                      IN CASE c.op = "open" -> ip[Other(c.mode)] = 0
                           [] c.op = "R" -> odds # "wiped" =>
                                /\ ip.fwcnt > 0 /\ ip.rwait
                                /\ ip.size = 0 \/ Running("W") \/ odds = "bytes"
                           [] c.op = "W" -> odds # "wiped" =>
                                /\ ip.frcnt > 0 /\ ip.wwait
                                /\ \/ /\ c.n + ip.size > PIPSIZ
                                      /\ ~(c.n > PIPSIZ /\ ip.size < PIPSIZ)
                                   \/ Running("R") \/ odds = "bytes"
    BY DEF PipeSleeperBlocked, Running, During
  <2> DEFINE c == pipewait[p]
  <2>1. Blocked(c) /\ c \in Waits
    BY DEF PipeInv, Types, Waiter, Asleep
  <2> HIDE DEF c
  <2>2. CASE c.op = "open"
    <3>1. ip[Other(c.mode)] = 0
      BY <2>1, <2>2 DEF Blocked
    <3> QED BY <2>2, <3>1 DEF c
  <2>3. CASE c.op = "R"
    <3>1. odds # "wiped" => /\ ip.fwcnt > 0 /\ ip.rwait
                            /\ ip.size = 0 \/ Running("W") \/ odds = "bytes"
      BY <2>1, <2>3 DEF Blocked
    <3> QED BY <2>3, <3>1 DEF c
  <2>4. CASE c.op = "W"
    <3>1. odds # "wiped" => /\ ip.frcnt > 0 /\ ip.wwait
                            /\ \/ /\ c.n + ip.size > PIPSIZ
                                  /\ ~(c.n > PIPSIZ /\ ip.size < PIPSIZ)
                               \/ Running("R") \/ odds = "bytes"
      BY <2>1, <2>4 DEF Blocked
    <3> QED BY <2>4, <3>1 DEF c
  <2> QED BY <2>1, <2>2, <2>3, <2>4 DEF Waits, Modes
<1> QED
  BY <1>1, PipeInitOk, PipeStep, PTL DEF PipeSpec
=============================================================================
