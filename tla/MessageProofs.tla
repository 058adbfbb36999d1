--------------------------- MODULE MessageProofs ---------------------------
(***************************************************************************)
(* Theorems about Messages, for any queues, pool, headers and processes:   *)
(* who shares what, who sleeps and in which order messages leave.          *)
(***************************************************************************)
EXTENDS Messages, FiniteSetTheorems, SequenceTheorems, WellFoundedInduction, TLAPS

Message == [type : Nat \ {0}, text : SUBSET (1 .. msgseg), h : 1 .. msgtql]
Slot == [alloc : BOOLEAN, seq : Nat, rwait : BOOLEAN, wwait : BOOLEAN, cbytes : Nat,
         msgs : Seq(Message)]
Chans == {Run, Pool} \cup {Room(q) : q \in Queues} \cup {Qnum(q) : q \in Queues}
Sends == [op : {"snd"}, chan : Chans, on : Chans, id : Queues \X Nat, type : Nat \ {0},
          size : Nat]
Receives == [op : {"rcv"}, chan : Chans, on : Chans, id : Queues \X Nat, msgtyp : Int]
Calls == Sends \cup Receives

\* A call sleeps where it says, on an address of its queue or on the pool.
Waits ==
  {c \in Calls : /\ c.chan \in {Run, c.on}
                 /\ c.on \in {Run} \cup (IF c.op = "snd" THEN {Pool, Room(c.id[1])}
                                         ELSE {Qnum(c.id[1])})}

Types ==
  /\ msgque \in [Queues -> Slot]
  /\ msgmap \subseteq 1 .. msgseg /\ msgfp \subseteq 1 .. msgtql
  /\ mapwant \in BOOLEAN
  /\ \A p \in DOMAIN msgwait : msgwait[p] \in Waits

Text(q, i) == msgque[q].msgs[i].text
Header(q, i) == msgque[q].msgs[i].h
Places(q) == DOMAIN msgque[q].msgs
Segments(q) == UNION {m.text : m \in InUse(q)}

\* No two places have a header or a segment in common, nor one with what is free,
\* and a queue's bytes are counted right.
Apartness ==
  /\ \A q, r \in Queues : \A i \in Places(q), j \in Places(r) :
       q # r \/ i # j => Header(q, i) # Header(r, j) /\ Text(q, i) \cap Text(r, j) = {}
  /\ \A q \in Queues : \A i \in Places(q) :
       Text(q, i) \cap msgmap = {} /\ Header(q, i) \notin msgfp
  /\ \A q \in Queues : msgque[q].cbytes = Cardinality(Segments(q))

MsgInv == Types /\ Apartness

Texts == \A q \in Queues : \A i \in Places(q) : Text(q, i) # {}

\* Segments and headers that are somewhere; none of them gets lost in a step.
HasSegment(x) == x \in msgmap \/ \E q \in Queues : \E i \in Places(q) : x \in Text(q, i)
HasHeader(h) == h \in msgfp \/ \E q \in Queues : \E i \in Places(q) : h = Header(q, i)
Kept == /\ \A x : HasSegment(x) => HasSegment(x)'
        /\ \A h : HasHeader(h) => HasHeader(h)'
-----------------------------------------------------------------------------
\* Numbers.

\* The least of a set of naturals.
LEMMA LeastNat ==
  ASSUME NEW S \in SUBSET Nat, S # {}
  PROVE  \E x \in S : \A y \in S : x <= y
<1> DEFINE R == OpToRel(<, Nat)
<1>1. IsWellFoundedOn(R, Nat)
  BY NatLessThanWellFounded
<1>2. PICK x \in S : \A y \in S : ~(<<y, x>> \in R)
  BY <1>1, WFMin
<1>3. \A y \in S : <<y, x>> \in R <=> y < x
  BY DEF OpToRel
<1>4. \A y \in S : ~(y < x)
  BY <1>2, <1>3
<1> QED
  BY <1>4

\* What Min returns.
LEMMA MinNat ==
  ASSUME NEW S \in SUBSET Nat, S # {}
  PROVE  Min(S) \in S /\ \A y \in S : Min(S) <= y
BY LeastNat DEF Min

\* The segments malloc finds are free, and as many as asked for.
LEMMA Malloc ==
  ASSUME Types, NEW n \in Nat \ {0}, Fits(n) # {}
  PROVE  malloc(n) \subseteq msgmap /\ Cardinality(malloc(n)) = n /\ malloc(n) # {}
<1> DEFINE s == Min(Fits(n))
<1>1. s \in Fits(n) /\ s \in Nat
  <2>1. Fits(n) \in SUBSET Nat
    <3>1. 1 .. msgseg \subseteq Nat
      BY MsgAssumption
    <3>2. msgmap \subseteq Nat
      BY <3>1 DEF Types
    <3> QED
      BY <3>2 DEF Fits
  <2> QED
    BY <2>1, MinNat
<1>2. s .. s + n - 1 \subseteq msgmap
  BY <1>1 DEF Fits
<1>3. Cardinality(s .. s + n - 1) = n
  BY <1>1, FS_Interval
<1>4. malloc(n) = s .. s + n - 1
  BY DEF malloc
<1>5. s \in s .. s + n - 1
  BY <1>1
<1> QED
  BY <1>2, <1>3, <1>4, <1>5

\* The messages a receiver may take.
Suits(m, msgtyp) ==
  msgtyp = 0 \/ (msgtyp > 0 /\ m.type = msgtyp) \/ (msgtyp < 0 /\ m.type <= -msgtyp)

\* What findmsg returns is 0 if no message suits, otherwise the place of one that
\* does, before which there is none of its type.
LEMMA Found ==
  ASSUME NEW msgs \in Seq(Message), NEW msgtyp \in Int
  PROVE  IF \A i \in DOMAIN msgs : ~Suits(msgs[i], msgtyp)
         THEN findmsg(msgs, msgtyp) = 0
         ELSE /\ findmsg(msgs, msgtyp) \in DOMAIN msgs
              /\ \A j \in 1 .. findmsg(msgs, msgtyp) - 1 :
                   msgs[j].type # msgs[findmsg(msgs, msgtyp)].type
<1> DEFINE f == findmsg(msgs, msgtyp)
           I == {i \in DOMAIN msgs : Suits(msgs[i], msgtyp)}
<1>1. \A i \in DOMAIN msgs : msgs[i] \in Message /\ msgs[i].type \in Nat
  <2>1. \A i \in DOMAIN msgs : msgs[i] \in Message
    OBVIOUS
  <2> QED
    BY <2>1 DEF Message
<1>2. I \in SUBSET Nat /\ I \subseteq DOMAIN msgs
  OBVIOUS
<1>3. CASE msgtyp > 0
  <2>1. I = {i \in 1 .. Len(msgs) : msgs[i].type = msgtyp}
    BY <1>3 DEF Suits
  <2>2. f = IF I # {} THEN Min(I) ELSE 0
    BY <1>3, <2>1 DEF findmsg, SelectInSeq
  <2>3. CASE I = {}
    BY <2>2, <2>3
  <2>4. CASE I # {}
    <3>1. f \in I /\ \A y \in I : f <= y
      <4> HIDE DEF I, f
      <4> QED
        BY <1>2, <2>2, <2>4, MinNat
    <3>2. \A j \in 1 .. f - 1 : j \notin I
      BY <1>2, <3>1
    <3>3. f \in DOMAIN msgs /\ msgs[f].type = msgtyp
      BY <2>1, <3>1
    <3>4. \A j \in 1 .. f - 1 : msgs[j].type # msgtyp
      BY <2>1, <3>2, <3>3
    <3> QED
      BY <2>4, <3>3, <3>4
  <2> QED
    BY <2>3, <2>4
<1>4. CASE msgtyp = 0
  BY <1>4 DEF findmsg, Suits
<1>5. CASE msgtyp < 0
  <2>0. ~(msgtyp > 0) /\ msgtyp # 0
    BY <1>5
  <2>1. I = {i \in DOMAIN msgs : msgs[i].type <= -msgtyp}
    BY <1>5 DEF Suits
  <2>2. f = IF I = {} THEN 0 ELSE CHOOSE i \in I : \A j \in I : Better(msgs, i, j)
    <3> DEFINE K == {i \in DOMAIN msgs : msgs[i].type <= -msgtyp}
    <3>1. f = IF K = {} THEN 0 ELSE CHOOSE i \in K : \A j \in K : Better(msgs, i, j)
      BY Zenon, <2>0 DEF findmsg
    <3> QED
      BY Zenon, <2>1, <3>1
  <2>3. CASE I = {}
    BY <2>2, <2>3
  <2>4. CASE I # {}
    <3> DEFINE T == {msgs[i].type : i \in I}
    <3>1. T \in SUBSET Nat /\ T # {}
      BY <1>1, <2>4
    <3>2. PICK t \in T : \A y \in T : t <= y
      BY <3>1, LeastNat
    <3> DEFINE J == {i \in I : msgs[i].type = t}
    <3>3. J \in SUBSET Nat /\ J # {}
      BY <3>2
    <3>4. PICK i \in J : \A y \in J : i <= y
      BY <3>3, LeastNat
    <3>5. ASSUME NEW j \in I PROVE Better(msgs, i, j)
      <4>1. /\ i \in I /\ msgs[i].type = t /\ t <= msgs[j].type
            /\ t \in Nat /\ msgs[j].type \in Nat
        BY <1>1, <3>2, <3>4
      <4>2. msgs[j].type = t => i <= j
        BY <3>4
      <4> QED
        BY <4>1, <4>2 DEF Better
    <3>6. f \in I /\ \A j \in I : Better(msgs, f, j)
      <4> HIDE DEF I, f
      <4>1. \E k \in I : \A j \in I : Better(msgs, k, j)
        BY <3>4, <3>5
      <4> QED
        BY Zenon, <2>2, <2>4, <4>1
    <3>7. f \in DOMAIN msgs /\ msgs[f].type <= -msgtyp /\ msgs[f].type \in Nat
      BY <1>1, <2>1, <3>6
    <3>8. ASSUME NEW j \in 1 .. f - 1, msgs[j].type = msgs[f].type PROVE FALSE
      <4>1. j \in I /\ j < f
        BY <2>1, <3>7, <3>8
      <4> QED
        BY <1>1, <3>6, <3>7, <3>8, <4>1 DEF Better
    <3> QED
      BY <2>4, <3>7, <3>8
  <2> QED
    BY <2>3, <2>4
<1> QED
  BY <1>3, <1>4, <1>5

\* RemoveAt takes out one element.
LEMMA Removed ==
  ASSUME NEW T, NEW s \in Seq(T), NEW i \in DOMAIN s
  PROVE  /\ RemoveAt(s, i) \in Seq(T) /\ Len(RemoveAt(s, i)) = Len(s) - 1
         /\ \A j \in 1 .. Len(s) - 1 :
              RemoveAt(s, i)[j] = IF j < i THEN s[j] ELSE s[j + 1]
<1> DEFINE a == SubSeq(s, 1, i - 1)
           b == SubSeq(s, i + 1, Len(s))
<1>1. /\ a \in Seq(T) /\ Len(a) = i - 1
      /\ \A j \in 1 .. i - 1 : a[j] = s[j]
  OBVIOUS
<1>2. /\ b \in Seq(T) /\ Len(b) = Len(s) - i
      /\ \A j \in 1 .. Len(s) - i : b[j] = s[i + j]
  OBVIOUS
<1> HIDE DEF a, b
<1>3. /\ a \o b \in Seq(T) /\ Len(a \o b) = Len(s) - 1
      /\ \A j \in 1 .. Len(s) - 1 : (a \o b)[j] = IF j < i THEN a[j] ELSE b[j - i + 1]
  <2>1. /\ a \o b \in Seq(T) /\ Len(a \o b) = Len(a) + Len(b)
        /\ \A j \in 1 .. Len(a) + Len(b) :
             (a \o b)[j] = IF j <= Len(a) THEN a[j] ELSE b[j - Len(a)]
    BY <1>1, <1>2, ConcatProperties
  <2>2. Len(a) + Len(b) = Len(s) - 1
    BY <1>1, <1>2
  <2>3. \A j \in Nat : (j <= Len(a) <=> j < i) /\ j - Len(a) = j - i + 1
    BY <1>1
  <2>4. \A j \in 1 .. Len(s) - 1 : (a \o b)[j] = IF j <= Len(a) THEN a[j] ELSE b[j - Len(a)]
    BY <2>1, <2>2
  <2>5. ASSUME NEW j \in 1 .. Len(s) - 1
        PROVE  (a \o b)[j] = IF j < i THEN a[j] ELSE b[j - i + 1]
    <3>0. j \in Nat
      OBVIOUS
    <3>1. (j <= Len(a) <=> j < i) /\ j - Len(a) = j - i + 1
      BY <2>3, <3>0
    <3> QED
      BY <2>4, <3>1
  <2> QED
    BY <2>1, <2>2, <2>5
<1>4. \A j \in 1 .. Len(s) - 1 : (a \o b)[j] = IF j < i THEN s[j] ELSE s[j + 1]
  <2> SUFFICES ASSUME NEW j \in 1 .. Len(s) - 1
               PROVE (a \o b)[j] = IF j < i THEN s[j] ELSE s[j + 1]
    OBVIOUS
  <2>1. CASE j < i
    BY <1>1, <1>3, <2>1
  <2>2. CASE ~(j < i)
    <3>1. j - i + 1 \in 1 .. Len(s) - i /\ i + (j - i + 1) = j + 1
      BY <2>2
    <3> QED
      BY <1>2, <1>3, <2>2, <3>1
  <2> QED
    BY <2>1, <2>2
<1> QED
  BY <1>3, <1>4 DEF RemoveAt, a, b
-----------------------------------------------------------------------------
\* Who has what.

\* The fields of a queue and of a message.
LEMMA Fields ==
  ASSUME Types, NEW q \in Queues
  PROVE  /\ msgque[q] \in Slot /\ msgque[q].msgs \in Seq(Message) /\ msgque[q].cbytes \in Nat
         /\ Places(q) = 1 .. Len(msgque[q].msgs) /\ Len(msgque[q].msgs) \in Nat
         /\ \A i \in Places(q) :
              /\ msgque[q].msgs[i] \in Message
              /\ Text(q, i) \subseteq 1 .. msgseg /\ Header(q, i) \in 1 .. msgtql
<1>1. msgque[q] \in Slot /\ msgque[q].msgs \in Seq(Message) /\ msgque[q].cbytes \in Nat
  BY DEF Types, Slot
<1>2. \A i \in Places(q) : msgque[q].msgs[i] \in Message
  BY <1>1 DEF Places
<1> QED
  BY <1>1, <1>2 DEF Places, Text, Header, Message

\* The segments of a queue are those at its places.
LEMMA SegmentsAre ==
  ASSUME NEW q
  PROVE  /\ \A x : x \in Segments(q) <=> \E i \in Places(q) : x \in Text(q, i)
         /\ \A x : x \in Segments(q)' <=> \E i \in Places(q)' : x \in Text(q, i)'
BY DEF Segments, InUse, ToSet, Places, Text

\* They are finitely many.
LEMMA SegmentsOf ==
  ASSUME Types, NEW q \in Queues
  PROVE  Segments(q) \subseteq 1 .. msgseg /\ IsFiniteSet(Segments(q))
<1>2. Segments(q) \subseteq 1 .. msgseg
  BY SegmentsAre, Fields
<1>3. IsFiniteSet(1 .. msgseg)
  BY FS_Interval, MsgAssumption
<1> QED
  BY <1>2, <1>3, FS_Subset

\* A queue that keeps its messages keeps what they have.
LEMMA SameMessages ==
  ASSUME NEW q, msgque'[q].msgs = msgque[q].msgs
  PROVE  /\ Places(q)' = Places(q) /\ Segments(q)' = Segments(q)
         /\ \A i : Text(q, i)' = Text(q, i) /\ Header(q, i)' = Header(q, i)
BY DEF Places, Segments, InUse, Text, Header

\* A message put on a queue has what was free.
Arrives(q, m) ==
  /\ m \in Message /\ m.text \subseteq msgmap /\ m.h \in msgfp
  /\ msgque' = [msgque EXCEPT ![q].msgs = Append(@, m),
                              ![q].cbytes = @ + Cardinality(m.text), ![q].rwait = FALSE]
  /\ msgmap' = msgmap \ m.text /\ msgfp' = msgfp \ {m.h}

LEMMA ArrivesApart ==
  ASSUME MsgInv, NEW q \in Queues, NEW m, Arrives(q, m)
  PROVE  /\ msgque' \in [Queues -> Slot] /\ Apartness' /\ Kept
         /\ Texts /\ m.text # {} => Texts'
<1> PICK n : n = Len(msgque[q].msgs)
  OBVIOUS
<1> DEFINE Q == [msgque[q] EXCEPT !.msgs = Append(@, m), !.cbytes = @ + Cardinality(m.text),
                                  !.rwait = FALSE]
<1>1. Types /\ Apartness /\ m \in Message /\ m.text \subseteq msgmap /\ m.h \in msgfp
  BY DEF MsgInv, Arrives
<1>2. /\ msgque[q] \in Slot /\ msgque[q].msgs \in Seq(Message) /\ n \in Nat
      /\ msgque[q].cbytes \in Nat
  BY <1>1, Fields
<1>3. IsFiniteSet(m.text) /\ Cardinality(m.text) \in Nat
  <2>1. m.text \subseteq 1 .. msgseg
    BY <1>1 DEF Message
  <2>2. IsFiniteSet(1 .. msgseg)
    BY FS_Interval, MsgAssumption
  <2> QED
    BY <2>1, <2>2, FS_Subset, FS_CardinalityType
<1>4. msgque' = [msgque EXCEPT ![q] = Q]
  BY <1>1 DEF Arrives, Types
<1>5. /\ Q \in Slot /\ Q.msgs = Append(msgque[q].msgs, m)
      /\ Q.cbytes = msgque[q].cbytes + Cardinality(m.text)
  <2>1. Append(msgque[q].msgs, m) \in Seq(Message)
    BY <1>1, <1>2
  <2>2. msgque[q].cbytes + Cardinality(m.text) \in Nat
    BY <1>2, <1>3
  <2> QED
    BY <1>2, <2>1, <2>2 DEF Slot
<1> HIDE DEF Q
<1>6. msgque' \in [Queues -> Slot]
  BY <1>1, <1>4, <1>5 DEF Types
<1>7. /\ msgque'[q].msgs = Append(msgque[q].msgs, m)
      /\ msgque'[q].cbytes = msgque[q].cbytes + Cardinality(m.text)
      /\ \A r \in Queues \ {q} : msgque'[r] = msgque[r]
  BY <1>1, <1>4, <1>5 DEF Types
<1>8. /\ Places(q)' = Places(q) \cup {n + 1} /\ n + 1 \notin Places(q)
      /\ \A i \in Places(q) : Text(q, i)' = Text(q, i) /\ Header(q, i)' = Header(q, i)
      /\ Text(q, n + 1)' = m.text /\ Header(q, n + 1)' = m.h
  <2>1. /\ DOMAIN msgque[q].msgs = 1 .. n /\ DOMAIN Append(msgque[q].msgs, m) = 1 .. n + 1
        /\ \A i \in 1 .. n : Append(msgque[q].msgs, m)[i] = msgque[q].msgs[i]
        /\ Append(msgque[q].msgs, m)[n + 1] = m
    <3> PICK s \in Seq(Message) : s = msgque[q].msgs
      BY <1>2
    <3>1. DOMAIN s = 1 .. n
      BY <1>2
    <3>2. DOMAIN Append(s, m) = 1 .. n + 1 /\ Append(s, m)[n + 1] = m
      BY <1>1, <1>2
    <3>3. \A i \in 1 .. n : Append(s, m)[i] = s[i]
      BY <1>1, <1>2
    <3> QED
      BY Zenon, <3>1, <3>2, <3>3
  <2>2. 1 .. n + 1 = (1 .. n) \cup {n + 1} /\ n + 1 \notin 1 .. n
    BY <1>2
  <2> QED
    BY <1>7, <2>1, <2>2 DEF Places, Text, Header
<1>9. \A r \in Queues \ {q} :
        /\ Places(r)' = Places(r) /\ Segments(r)' = Segments(r) /\ msgque'[r].cbytes = msgque[r].cbytes
        /\ \A i : Text(r, i)' = Text(r, i) /\ Header(r, i)' = Header(r, i)
  BY <1>7, SameMessages
<1>10. msgmap' = msgmap \ m.text /\ msgfp' = msgfp \ {m.h}
  BY DEF Arrives
<1>11. ASSUME NEW a \in Queues, NEW b \in Queues, NEW i \in Places(a)', NEW j \in Places(b)',
              a # b \/ i # j
       PROVE  Header(a, i)' # Header(b, j)' /\ (Text(a, i)' \cap Text(b, j)') = {}
  <2>1. CASE a = q /\ i = n + 1
    <3>1. j \in Places(b) /\ Text(b, j)' = Text(b, j) /\ Header(b, j)' = Header(b, j)
      BY <1>8, <1>9, <1>11, <2>1
    <3>2. Text(b, j) \cap msgmap = {} /\ Header(b, j) \notin msgfp
      BY <1>1, <3>1 DEF Apartness
    <3> QED
      <4>1. Text(a, i)' = m.text /\ Header(a, i)' = m.h
        BY <1>8, <2>1
      <4> QED
        BY <1>1, <3>1, <3>2, <4>1
  <2>2. CASE b = q /\ j = n + 1
    <3>1. i \in Places(a) /\ Text(a, i)' = Text(a, i) /\ Header(a, i)' = Header(a, i)
      BY <1>8, <1>9, <1>11, <2>2
    <3>2. Text(a, i) \cap msgmap = {} /\ Header(a, i) \notin msgfp
      BY <1>1, <3>1 DEF Apartness
    <3> QED
      <4>1. Text(b, j)' = m.text /\ Header(b, j)' = m.h
        BY <1>8, <2>2
      <4> QED
        BY <1>1, <3>1, <3>2, <4>1
  <2>3. CASE ~(a = q /\ i = n + 1) /\ ~(b = q /\ j = n + 1)
    <3>1. i \in Places(a) /\ Text(a, i)' = Text(a, i) /\ Header(a, i)' = Header(a, i)
      BY <1>8, <1>9, <2>3
    <3>2. j \in Places(b) /\ Text(b, j)' = Text(b, j) /\ Header(b, j)' = Header(b, j)
      BY <1>8, <1>9, <2>3
    <3> QED
      BY <1>1, <1>11, <3>1, <3>2 DEF Apartness
  <2> QED
    BY <2>1, <2>2, <2>3
<1>12. ASSUME NEW a \in Queues, NEW i \in Places(a)'
       PROVE  (Text(a, i)' \cap msgmap') = {} /\ Header(a, i)' \notin msgfp'
  <2>1. CASE a = q /\ i = n + 1
    <3>1. Text(a, i)' = m.text /\ Header(a, i)' = m.h
      BY <1>8, <2>1
    <3> QED
      BY <1>10, <3>1
  <2>2. CASE ~(a = q /\ i = n + 1)
    <3>1. i \in Places(a) /\ Text(a, i)' = Text(a, i) /\ Header(a, i)' = Header(a, i)
      BY <1>8, <1>9, <2>2
    <3> QED
      BY <1>1, <1>10, <3>1 DEF Apartness
  <2> QED
    BY <2>1, <2>2
<1>13. ASSUME NEW a \in Queues PROVE msgque'[a].cbytes = Cardinality(Segments(a)')
  <2>1. CASE a = q
    <3>1. Segments(q)' = Segments(q) \cup m.text
      <4>1. \A x : x \in Segments(q)' <=> \E i \in Places(q)' : x \in Text(q, i)'
        BY SegmentsAre
      <4> QED
        BY <1>8, <4>1, SegmentsAre
    <3>2. Segments(q) \cap m.text = {}
      BY <1>1, SegmentsAre DEF Apartness
    <3>3. IsFiniteSet(Segments(q))
      BY <1>1, SegmentsOf
    <3>4. Cardinality(Segments(q) \cup m.text) = Cardinality(Segments(q)) + Cardinality(m.text) - 0
      BY <1>3, <3>2, <3>3, FS_Union, FS_EmptySet
    <3>5. Cardinality(Segments(q)) = msgque[q].cbytes
      BY <1>1 DEF Apartness
    <3> QED
      BY <1>2, <1>3, <1>7, <2>1, <3>1, <3>4, <3>5
  <2>2. CASE a # q
    BY <1>1, <1>9, <2>2 DEF Apartness
  <2> QED
    BY <2>1, <2>2
<1>14. ASSUME NEW x, HasSegment(x) PROVE HasSegment(x)'
  <2>1. CASE x \in msgmap
    BY <1>8, <1>10, <2>1 DEF HasSegment
  <2>2. CASE \E r \in Queues : \E i \in Places(r) : x \in Text(r, i)
    <3>1. PICK r \in Queues : \E i \in Places(r) : x \in Text(r, i)
      BY <2>2
    <3>2. PICK i \in Places(r) : x \in Text(r, i)
      BY <3>1
    <3>3. i \in Places(r)' /\ x \in Text(r, i)'
      BY <1>8, <1>9, <3>2
    <3> QED
      BY <3>3 DEF HasSegment
  <2> QED
    BY <1>14, <2>1, <2>2 DEF HasSegment
<1>15. ASSUME NEW h, HasHeader(h) PROVE HasHeader(h)'
  <2>1. CASE h \in msgfp
    BY <1>8, <1>10, <2>1 DEF HasHeader
  <2>2. CASE \E r \in Queues : \E i \in Places(r) : h = Header(r, i)
    <3>1. PICK r \in Queues : \E i \in Places(r) : h = Header(r, i)
      BY <2>2
    <3>2. PICK i \in Places(r) : h = Header(r, i)
      BY <3>1
    <3>3. i \in Places(r)' /\ h = Header(r, i)'
      BY <1>8, <1>9, <3>2
    <3> QED
      BY <3>3 DEF HasHeader
  <2> QED
    BY <1>15, <2>1, <2>2 DEF HasHeader
<1>16. ASSUME Texts, m.text # {}, NEW a \in Queues, NEW i \in Places(a)' PROVE Text(a, i)' # {}
  <2>1. CASE a = q /\ i = n + 1
    BY <1>8, <1>16, <2>1
  <2>2. CASE ~(a = q /\ i = n + 1)
    <3>1. i \in Places(a) /\ Text(a, i)' = Text(a, i)
      BY <1>8, <1>9, <2>2
    <3> QED
      BY <1>16, <3>1 DEF Texts
  <2> QED
    BY <2>1, <2>2
<1> QED
  BY <1>6, <1>11, <1>12, <1>13, <1>14, <1>15, <1>16 DEF Apartness, Kept, Texts

\* A message taken off a queue gives back what it has.
Leaves(q, i) ==
  /\ i \in Places(q)
  /\ msgque' = [msgque EXCEPT ![q].msgs = RemoveAt(@, i), ![q].wwait = FALSE,
                              ![q].cbytes = @ - Cardinality(Text(q, i))]
  /\ msgmap' = msgmap \cup Text(q, i) /\ msgfp' = msgfp \cup {Header(q, i)}

\* Where a message that stays was, before the one at i left.
Was(i, j) == IF j < i THEN j ELSE j + 1

\* The fields of the queues when a message has left.
LEMMA LeavesFields ==
  ASSUME Types, NEW q \in Queues, NEW i, Leaves(q, i)
  PROVE  /\ msgque'[q].alloc = msgque[q].alloc /\ msgque'[q].seq = msgque[q].seq
         /\ msgque'[q].rwait = msgque[q].rwait
         /\ msgque'[q].msgs = RemoveAt(msgque[q].msgs, i)
         /\ \A r \in Queues \ {q} : msgque'[r] = msgque[r]
<1> PICK s : s = RemoveAt(msgque[q].msgs, i)
  OBVIOUS
<1> PICK n : n = msgque[q].cbytes - Cardinality(Text(q, i))
  OBVIOUS
<1> PICK Q : Q = [msgque[q] EXCEPT !.msgs = s, !.wwait = FALSE, !.cbytes = n]
  OBVIOUS
<1>1. msgque \in [Queues -> Slot] /\ msgque[q] \in Slot
  BY Fields DEF Types
<1>2. msgque' = [msgque EXCEPT ![q].msgs = RemoveAt(@, i), ![q].wwait = FALSE,
                               ![q].cbytes = @ - Cardinality(Text(q, i))]
  BY DEF Leaves
<1>3. msgque' = [msgque EXCEPT ![q] = Q]
  BY <1>1, <1>2
<1>4. /\ Q.msgs = s /\ Q.alloc = msgque[q].alloc /\ Q.seq = msgque[q].seq
      /\ Q.rwait = msgque[q].rwait
  BY <1>1 DEF Slot
<1> QED
  BY <1>1, <1>3, <1>4

LEMMA LeavesApart ==
  ASSUME MsgInv, NEW q \in Queues, NEW i, Leaves(q, i)
  PROVE  /\ msgque' \in [Queues -> Slot] /\ Apartness'
         /\ msgmap' \subseteq 1 .. msgseg /\ msgfp' \subseteq 1 .. msgtql
         /\ Kept /\ (Texts => Texts')
<1> PICK n : n = Len(msgque[q].msgs)
  OBVIOUS
<1> PICK text : text = Text(q, i)
  OBVIOUS
<1> PICK h : h = Header(q, i)
  OBVIOUS
<1> DEFINE Q == [msgque[q] EXCEPT !.msgs = RemoveAt(@, i), !.wwait = FALSE,
                                  !.cbytes = @ - Cardinality(text)]
<1>1. Types /\ Apartness /\ i \in Places(q)
  BY DEF MsgInv, Leaves
<1>2. /\ msgque[q] \in Slot /\ msgque[q].msgs \in Seq(Message) /\ n \in Nat
      /\ msgque[q].cbytes \in Nat /\ i \in 1 .. n /\ Places(q) = 1 .. n
      /\ text \subseteq 1 .. msgseg /\ h \in 1 .. msgtql
  BY <1>1, Fields
<1>3. /\ \A j \in Places(q) \ {i} : Text(q, j) \cap text = {} /\ Header(q, j) # h
      /\ \A r \in Queues \ {q} : \A j \in Places(r) : Text(r, j) \cap text = {} /\ Header(r, j) # h
  BY <1>1 DEF Apartness
<1>4. IsFiniteSet(text) /\ Cardinality(text) \in Nat
  <2>1. IsFiniteSet(1 .. msgseg)
    BY FS_Interval, MsgAssumption
  <2> QED
    BY <1>2, <2>1, FS_Subset, FS_CardinalityType
<1>5. /\ text \subseteq Segments(q) /\ IsFiniteSet(Segments(q) \ text)
      /\ Cardinality(Segments(q) \ text) = msgque[q].cbytes - Cardinality(text)
      /\ Cardinality(Segments(q) \ text) \in Nat
  <2>1. text \subseteq Segments(q)
    BY <1>1, SegmentsAre
  <2>2. IsFiniteSet(Segments(q))
    BY <1>1, SegmentsOf
  <2>3. Segments(q) \cap text = text
    BY <2>1
  <2>4. Cardinality(Segments(q) \ text) = Cardinality(Segments(q)) - Cardinality(text)
    <3>1. Cardinality(Segments(q) \ text)
          = Cardinality(Segments(q)) - Cardinality(Segments(q) \cap text)
      BY <2>2, FS_Difference
    <3> QED
      BY <2>3, <3>1
  <2>5. IsFiniteSet(Segments(q) \ text)
    BY <2>2, FS_Difference
  <2>6. Cardinality(Segments(q)) = msgque[q].cbytes
    BY <1>1 DEF Apartness
  <2> QED
    BY <2>1, <2>4, <2>5, <2>6, FS_CardinalityType
<1>6. /\ RemoveAt(msgque[q].msgs, i) \in Seq(Message)
      /\ Len(RemoveAt(msgque[q].msgs, i)) = n - 1
      /\ \A j \in 1 .. n - 1 : RemoveAt(msgque[q].msgs, i)[j] = msgque[q].msgs[Was(i, j)]
  <2> PICK s : s = msgque[q].msgs
    OBVIOUS
  <2>1. s \in Seq(Message) /\ i \in DOMAIN s /\ Len(s) = n
    BY <1>2
  <2>2. /\ RemoveAt(s, i) \in Seq(Message) /\ Len(RemoveAt(s, i)) = Len(s) - 1
        /\ \A j \in 1 .. Len(s) - 1 : RemoveAt(s, i)[j] = IF j < i THEN s[j] ELSE s[j + 1]
    BY <2>1, Removed
  <2>3. \A j \in 1 .. n - 1 : RemoveAt(s, i)[j] = s[Was(i, j)]
    BY <2>1, <2>2 DEF Was
  <2> QED
    BY <2>1, <2>2, <2>3
<1>7. msgque' = [msgque EXCEPT ![q] = Q]
  BY <1>1 DEF Leaves, Types
<1>8. Q \in Slot /\ Q.msgs = RemoveAt(msgque[q].msgs, i) /\ Q.cbytes = msgque[q].cbytes - Cardinality(text)
  <2>1. msgque[q].cbytes - Cardinality(text) \in Nat
    BY <1>5
  <2> QED
    BY <1>2, <1>6, <2>1 DEF Slot
<1> HIDE DEF Q
<1>9. msgque' \in [Queues -> Slot]
  BY <1>1, <1>7, <1>8 DEF Types
<1>10. /\ msgque'[q].msgs = RemoveAt(msgque[q].msgs, i)
       /\ msgque'[q].cbytes = msgque[q].cbytes - Cardinality(text)
       /\ \A r \in Queues \ {q} : msgque'[r] = msgque[r]
  BY <1>1, <1>7, <1>8 DEF Types
<1>11. /\ Places(q)' = 1 .. n - 1
       /\ \A j \in 1 .. n - 1 : Text(q, j)' = Text(q, Was(i, j)) /\ Header(q, j)' = Header(q, Was(i, j))
  <2> PICK s : s = RemoveAt(msgque[q].msgs, i)
    OBVIOUS
  <2>1. s \in Seq(Message) /\ Len(s) = n - 1 /\ msgque'[q].msgs = s
    BY <1>6, <1>10
  <2>2. Places(q)' = 1 .. n - 1
    BY <2>1 DEF Places
  <2>3. \A j \in 1 .. n - 1 : msgque'[q].msgs[j] = msgque[q].msgs[Was(i, j)]
    BY <1>6, <2>1
  <2> QED
    BY Zenon, <2>2, <2>3 DEF Text, Header
<1>12. /\ \A j \in 1 .. n - 1 : Was(i, j) \in Places(q) \ {i}
       /\ \A j, k \in 1 .. n - 1 : j # k => Was(i, j) # Was(i, k)
       /\ \A k \in Places(q) \ {i} : \E j \in 1 .. n - 1 : k = Was(i, j)
  <2>1. \A j \in 1 .. n - 1 : Was(i, j) \in Places(q) \ {i}
    BY <1>2 DEF Was
  <2>2. \A j, k \in 1 .. n - 1 : j # k => Was(i, j) # Was(i, k)
    BY <1>2 DEF Was
  <2>3. ASSUME NEW k \in Places(q) \ {i} PROVE \E j \in 1 .. n - 1 : k = Was(i, j)
    <3>1. CASE k < i
      <4>1. k \in 1 .. n - 1 /\ Was(i, k) = k
        BY <1>2, <3>1 DEF Was
      <4> QED
        BY <4>1
    <3>2. CASE ~(k < i)
      <4>1. k - 1 \in 1 .. n - 1 /\ Was(i, k - 1) = k
        BY <1>2, <3>2 DEF Was
      <4> QED
        BY <4>1
    <3> QED
      BY <3>1, <3>2
  <2> QED
    BY <2>1, <2>2, <2>3
<1>13. \A r \in Queues \ {q} :
         /\ Places(r)' = Places(r) /\ Segments(r)' = Segments(r) /\ msgque'[r].cbytes = msgque[r].cbytes
         /\ \A j : Text(r, j)' = Text(r, j) /\ Header(r, j)' = Header(r, j)
  BY <1>10, SameMessages
<1>14. msgmap' = msgmap \cup text /\ msgfp' = msgfp \cup {h}
  BY DEF Leaves
\* Every message now on a queue was on it, and none of them is the one taken.
<1>15. \A r \in Queues : \A j \in Places(r)' : \E k \in Places(r) :
         /\ Text(r, j)' = Text(r, k) /\ Header(r, j)' = Header(r, k)
         /\ Text(r, k) \cap text = {} /\ Header(r, k) # h
         /\ k = IF r = q THEN Was(i, j) ELSE j
  BY <1>3, <1>11, <1>12, <1>13
<1>16. ASSUME NEW a \in Queues, NEW b \in Queues, NEW x \in Places(a)', NEW y \in Places(b)',
              a # b \/ x # y
       PROVE  Header(a, x)' # Header(b, y)' /\ (Text(a, x)' \cap Text(b, y)') = {}
  <2>1. PICK k \in Places(a) : /\ Text(a, x)' = Text(a, k) /\ Header(a, x)' = Header(a, k)
                               /\ k = IF a = q THEN Was(i, x) ELSE x
    BY <1>15
  <2>2. PICK l \in Places(b) : /\ Text(b, y)' = Text(b, l) /\ Header(b, y)' = Header(b, l)
                               /\ l = IF b = q THEN Was(i, y) ELSE y
    BY <1>15
  <2>3. a # b \/ k # l
    BY <1>11, <1>12, <1>16, <2>1, <2>2
  <2> QED
    BY <1>1, <2>1, <2>2, <2>3 DEF Apartness
<1>17. ASSUME NEW a \in Queues, NEW x \in Places(a)'
       PROVE  (Text(a, x)' \cap msgmap') = {} /\ Header(a, x)' \notin msgfp'
  <2>1. PICK k \in Places(a) : /\ Text(a, x)' = Text(a, k) /\ Header(a, x)' = Header(a, k)
                               /\ Text(a, k) \cap text = {} /\ Header(a, k) # h
    BY <1>15
  <2>2. Text(a, k) \cap msgmap = {} /\ Header(a, k) \notin msgfp
    BY <1>1 DEF Apartness
  <2> QED
    BY <1>14, <2>1, <2>2
<1>18. ASSUME NEW a \in Queues PROVE msgque'[a].cbytes = Cardinality(Segments(a)')
  <2>1. CASE a = q
    <3>1. Segments(q)' = Segments(q) \ text
      <4>1. \A z : z \in Segments(q)' <=> \E j \in 1 .. n - 1 : z \in Text(q, Was(i, j))
        BY <1>11, SegmentsAre
      <4>2. \A z : z \in Segments(q)' <=> \E k \in Places(q) \ {i} : z \in Text(q, k)
        BY <1>12, <4>1
      <4>3. \A z : z \in Segments(q) <=> \E k \in Places(q) : z \in Text(q, k)
        BY SegmentsAre
      <4> QED
        BY <1>1, <1>3, <4>2, <4>3
    <3> QED
      BY <1>5, <1>10, <2>1, <3>1
  <2>2. CASE a # q
    BY <1>1, <1>13, <2>2 DEF Apartness
  <2> QED
    BY <2>1, <2>2
<1>19. msgmap' \subseteq 1 .. msgseg /\ msgfp' \subseteq 1 .. msgtql
  BY <1>1, <1>2, <1>14 DEF Types
<1>20. \A r \in Queues : \A k \in Places(r) :
         \/ r = q /\ k = i
         \/ \E j \in Places(r)' : Text(r, j)' = Text(r, k) /\ Header(r, j)' = Header(r, k)
  <2> SUFFICES ASSUME NEW r \in Queues, NEW k \in Places(r), ~(r = q /\ k = i)
               PROVE \E j \in Places(r)' : Text(r, j)' = Text(r, k) /\ Header(r, j)' = Header(r, k)
    OBVIOUS
  <2>1. CASE r = q
    BY <1>11, <1>12, <2>1
  <2>2. CASE r # q
    BY <1>13, <2>2
  <2> QED
    BY <2>1, <2>2
<1>21. ASSUME NEW x, HasSegment(x) PROVE HasSegment(x)'
  <2>1. CASE x \in msgmap \cup text
    BY <1>14, <2>1 DEF HasSegment
  <2>2. CASE x \notin msgmap \cup text
    <3>1. PICK r \in Queues : \E k \in Places(r) : x \in Text(r, k)
      BY <1>21, <2>2 DEF HasSegment
    <3>2. PICK k \in Places(r) : x \in Text(r, k)
      BY <3>1
    <3>3. PICK j \in Places(r)' : Text(r, j)' = Text(r, k)
      BY <1>20, <2>2, <3>2
    <3>4. x \in Text(r, j)'
      BY <3>2, <3>3
    <3> QED
      BY <3>4 DEF HasSegment
  <2> QED
    BY <2>1, <2>2
<1>22. ASSUME NEW x, HasHeader(x) PROVE HasHeader(x)'
  <2>1. CASE x \in msgfp \cup {h}
    BY <1>14, <2>1 DEF HasHeader
  <2>2. CASE x \notin msgfp \cup {h}
    <3>1. PICK r \in Queues : \E k \in Places(r) : x = Header(r, k)
      BY <1>22, <2>2 DEF HasHeader
    <3>2. PICK k \in Places(r) : x = Header(r, k)
      BY <3>1
    <3>3. PICK j \in Places(r)' : Header(r, j)' = Header(r, k)
      BY <1>20, <2>2, <3>2
    <3>4. x = Header(r, j)'
      BY <3>2, <3>3
    <3> QED
      BY <3>4 DEF HasHeader
  <2> QED
    BY <2>1, <2>2
<1>23. Texts => \A r \in Queues : \A j \in Places(r)' : Text(r, j)' # {}
  BY <1>15 DEF Texts
<1> QED
  BY <1>9, <1>16, <1>17, <1>18, <1>19, <1>21, <1>22, <1>23 DEF Apartness, Kept, Texts

\* A queue removed gives back what its messages have.
Empties(q) ==
  /\ msgque' = [msgque EXCEPT ![q] =
       [alloc |-> FALSE, seq |-> @.seq + 1, rwait |-> FALSE, wwait |-> FALSE,
        cbytes |-> 0, msgs |-> <<>>]]
  /\ msgmap' = msgmap \cup Segments(q)
  /\ msgfp' = msgfp \cup {Header(q, i) : i \in Places(q)}

LEMMA EmptiesApart ==
  ASSUME MsgInv, NEW q \in Queues, Empties(q)
  PROVE  /\ msgque' \in [Queues -> Slot] /\ Apartness'
         /\ msgmap' \subseteq 1 .. msgseg /\ msgfp' \subseteq 1 .. msgtql
         /\ Kept /\ (Texts => Texts')
<1>1. Types /\ Apartness
  BY DEF MsgInv
<1>2. msgque[q] \in Slot /\ msgque[q].seq + 1 \in Nat
  BY <1>1, Fields DEF Slot
<1>3. /\ msgque' \in [Queues -> Slot]
      /\ msgque'[q].msgs = <<>> /\ msgque'[q].cbytes = 0
      /\ \A r \in Queues \ {q} : msgque'[r] = msgque[r]
  <2>1. [alloc |-> FALSE, seq |-> msgque[q].seq + 1, rwait |-> FALSE, wwait |-> FALSE,
         cbytes |-> 0, msgs |-> <<>>] \in Slot
    BY <1>2 DEF Slot
  <2> QED
    BY <1>1, <2>1 DEF Empties, Types
<1>4. Places(q)' = {} /\ Segments(q)' = {}
  BY <1>3, SegmentsAre DEF Places
<1>5. \A r \in Queues \ {q} :
        /\ Places(r)' = Places(r) /\ Segments(r)' = Segments(r) /\ msgque'[r].cbytes = msgque[r].cbytes
        /\ \A j : Text(r, j)' = Text(r, j) /\ Header(r, j)' = Header(r, j)
  BY <1>3, SameMessages
<1>6. /\ msgmap' = msgmap \cup Segments(q) /\ msgfp' = msgfp \cup {Header(q, i) : i \in Places(q)}
      /\ \A z \in Segments(q) : \E i \in Places(q) : z \in Text(q, i)
  BY SegmentsAre DEF Empties
<1>7. ASSUME NEW a \in Queues, NEW b \in Queues, NEW x \in Places(a)', NEW y \in Places(b)',
             a # b \/ x # y
      PROVE  Header(a, x)' # Header(b, y)' /\ (Text(a, x)' \cap Text(b, y)') = {}
  <2>1. a # q /\ b # q
    BY <1>4
  <2> QED
    BY <1>1, <1>5, <1>7, <2>1 DEF Apartness
<1>8. ASSUME NEW a \in Queues, NEW x \in Places(a)'
      PROVE  (Text(a, x)' \cap msgmap') = {} /\ Header(a, x)' \notin msgfp'
  <2>1. a # q
    BY <1>4
  <2>2. x \in Places(a) /\ Text(a, x)' = Text(a, x) /\ Header(a, x)' = Header(a, x)
    BY <1>5, <2>1
  <2>3. Text(a, x) \cap msgmap = {} /\ Header(a, x) \notin msgfp
    BY <1>1, <2>2 DEF Apartness
  <2>4. \A i \in Places(q) : Text(a, x) \cap Text(q, i) = {} /\ Header(a, x) # Header(q, i)
    BY <1>1, <2>1, <2>2 DEF Apartness
  <2> QED
    BY <1>6, <2>2, <2>3, <2>4
<1>9. ASSUME NEW a \in Queues PROVE msgque'[a].cbytes = Cardinality(Segments(a)')
  <2>1. CASE a = q
    BY <1>3, <1>4, <2>1, FS_EmptySet
  <2>2. CASE a # q
    BY <1>1, <1>5, <2>2 DEF Apartness
  <2> QED
    BY <2>1, <2>2
<1>10. msgmap' \subseteq 1 .. msgseg /\ msgfp' \subseteq 1 .. msgtql
  <2>1. Segments(q) \subseteq 1 .. msgseg
    BY <1>1, SegmentsOf
  <2>2. \A i \in Places(q) : Header(q, i) \in 1 .. msgtql
    BY <1>1, Fields
  <2> QED
    BY <1>1, <1>6, <2>1, <2>2 DEF Types
<1>11. ASSUME NEW x, HasSegment(x) PROVE HasSegment(x)'
  <2>1. CASE x \in msgmap \cup Segments(q)
    BY <1>6, <2>1 DEF HasSegment
  <2>2. CASE x \notin msgmap \cup Segments(q)
    <3>1. PICK r \in Queues : \E k \in Places(r) : x \in Text(r, k)
      BY <1>11, <2>2 DEF HasSegment
    <3>2. r # q
      BY <2>2, <3>1, SegmentsAre
    <3>3. \E k \in Places(r)' : x \in Text(r, k)'
      BY <1>5, <3>1, <3>2
    <3> QED
      BY <3>3 DEF HasSegment
  <2> QED
    BY <2>1, <2>2
<1>12. ASSUME NEW h, HasHeader(h) PROVE HasHeader(h)'
  <2>1. CASE h \in msgfp'
    BY <2>1 DEF HasHeader
  <2>2. CASE h \notin msgfp'
    <3>1. PICK r \in Queues : \E k \in Places(r) : h = Header(r, k)
      BY <1>6, <1>12, <2>2 DEF HasHeader
    <3>2. r # q
      BY <1>6, <2>2, <3>1
    <3>3. \E k \in Places(r)' : h = Header(r, k)'
      BY <1>5, <3>1, <3>2
    <3> QED
      BY <3>3 DEF HasHeader
  <2> QED
    BY <2>1, <2>2
<1>13. Texts => \A r \in Queues : \A j \in Places(r)' : Text(r, j)' # {}
  BY <1>4, <1>5 DEF Texts
<1> QED
  BY <1>3, <1>7, <1>8, <1>9, <1>10, <1>11, <1>12, <1>13 DEF Apartness, Kept, Texts
-----------------------------------------------------------------------------
\* Who waits where.

\* The addresses are not mixed up.
LEMMA Addresses ==
  /\ Run # Pool
  /\ \A q, r : /\ Room(q) # Qnum(r) /\ Room(q) # Pool /\ Qnum(q) # Pool
               /\ Room(q) # Run /\ Qnum(q) # Run
               /\ (Room(q) = Room(r) => q = r) /\ (Qnum(q) = Qnum(r) => q = r)
BY DEF Run, Pool, Room, Qnum

Waiting(w) == \A p \in DOMAIN w : w[p] \in Waits

\* What a waiting call may look like.
LEMMA WaitFields ==
  ASSUME NEW c \in Waits
  PROVE  /\ c \in Calls /\ c.op \in {"snd", "rcv"} /\ c.id[1] \in Queues /\ c.id \in Queues \X Nat
         /\ c.chan \in {Run, c.on}
         /\ c.op = "snd" => /\ c.on \in {Run, Pool, Room(c.id[1])} /\ c.size \in Nat
                            /\ c.type \in Nat \ {0} /\ c \in Sends
         /\ c.op = "rcv" => /\ c.on \in {Run, Qnum(c.id[1])} /\ c.msgtyp \in Int /\ c \in Receives
BY DEF Waits, Calls, Sends, Receives

\* The call as it sleeps on a.
SleepOn(c, a) == [c EXCEPT !.chan = a, !.on = a]

\* A call may be woken, and go to sleep on an address of its own.
LEMMA WaitSteps ==
  ASSUME NEW c \in Waits
  PROVE  [c EXCEPT !.chan = Run] \in Waits
<1>1. CASE c.op = "snd"
  BY <1>1, WaitFields DEF Waits, Calls, Sends, Chans
<1>2. CASE c.op = "rcv"
  BY <1>2, WaitFields DEF Waits, Calls, Receives, Chans
<1> QED
  BY <1>1, <1>2, WaitFields

LEMMA SleepCall ==
  ASSUME NEW c \in Waits, NEW a,
         \/ c.op = "snd" /\ a \in {Pool, Room(c.id[1])}
         \/ c.op = "rcv" /\ a = Qnum(c.id[1])
  PROVE  /\ SleepOn(c, a) \in Waits /\ SleepOn(c, a).chan = a
         /\ SleepOn(c, a).id = c.id /\ SleepOn(c, a).op = c.op
         /\ c.op = "snd" => SleepOn(c, a).size = c.size
         /\ c.op = "rcv" => SleepOn(c, a).msgtyp = c.msgtyp
<1> PICK d : d = SleepOn(c, a)
  OBVIOUS
<1>1. a \in Chans
  BY WaitFields DEF Chans
<1>2. CASE c.op = "snd"
  <2>1. c \in Sends
    BY <1>2, WaitFields
  <2>2. d \in Sends /\ d.chan = a /\ d.on = a /\ d.id = c.id /\ d.op = "snd" /\ d.size = c.size
    BY <1>1, <2>1 DEF Sends, SleepOn
  <2>3. d \in Waits
    BY <1>2, <2>2 DEF Waits, Calls
  <2> QED
    BY <1>2, <2>2, <2>3
<1>3. CASE c.op = "rcv"
  <2>1. c \in Receives
    BY <1>3, WaitFields
  <2>2. d \in Receives /\ d.chan = a /\ d.on = a /\ d.id = c.id /\ d.op = "rcv"
        /\ d.msgtyp = c.msgtyp
    BY <1>1, <2>1 DEF Receives, SleepOn
  <2>3. d \in Waits
    BY <1>3, <2>2 DEF Waits, Calls
  <2> QED
    BY <1>3, <2>2, <2>3
<1> QED
  BY <1>2, <1>3

LEMMA SleepingCall ==
  ASSUME NEW p, NEW c, NEW a, NEW w
  PROVE  MsgSleep(p, c, a, w) = sleep(w, p, SleepOn(c, a))
BY DEF MsgSleep, SleepOn

\* The calls that wait stay what they may be.
LEMMA WaitingKept ==
  ASSUME NEW w, Waiting(w), NEW p
  PROVE  /\ \A chans : Waiting(wakeup(w, chans))
         /\ Waiting(unsleep(w, p))
         /\ \A c \in Waits : Waiting(sleep(w, p, c))
<1>1. ASSUME NEW chans PROVE Waiting(wakeup(w, chans))
  BY WaitSteps DEF Waiting, wakeup
<1>2. Waiting(unsleep(w, p))
  BY DEF Waiting, unsleep, Drop
<1>3. ASSUME NEW c \in Waits PROVE Waiting(sleep(w, p, c))
  BY DEF Waiting, sleep, Put
<1> QED
  BY <1>1, <1>2, <1>3

LEMMA WokenKept ==
  ASSUME NEW w, Waiting(w), NEW chans
  PROVE  Waiting(wakeup(w, chans))
BY WaitingKept

\* Whoever goes to sleep waits where its call may.
LEMMA SleepKept ==
  ASSUME NEW w, Waiting(w), NEW p, NEW c \in Waits, NEW a,
         \/ c.op = "snd" /\ a \in {Pool, Room(c.id[1])}
         \/ c.op = "rcv" /\ a = Qnum(c.id[1])
  PROVE  Waiting(MsgSleep(p, c, a, w))
<1>1. SleepOn(c, a) \in Waits
  BY SleepCall
<1> QED
  BY <1>1, SleepingCall, WaitingKept

\* Messages stay where they are: flags may change, and free space get less.
LEMMA QuietApart ==
  ASSUME MsgInv, msgmap' \subseteq msgmap, msgfp' \subseteq msgfp,
         msgque' \in [Queues -> Slot],
         \A q \in Queues : msgque'[q].msgs = msgque[q].msgs /\ msgque'[q].cbytes = msgque[q].cbytes
  PROVE  Apartness'
<1>1. \A q \in Queues :
        /\ Places(q)' = Places(q) /\ Segments(q)' = Segments(q)
        /\ \A i : Text(q, i)' = Text(q, i) /\ Header(q, i)' = Header(q, i)
  BY SameMessages
<1>2. Apartness
  BY DEF MsgInv
<1>3. ASSUME NEW a \in Queues, NEW b \in Queues, NEW x \in Places(a)', NEW y \in Places(b)',
             a # b \/ x # y
      PROVE  Header(a, x)' # Header(b, y)' /\ (Text(a, x)' \cap Text(b, y)') = {}
  BY <1>1, <1>2, <1>3 DEF Apartness
<1>4. ASSUME NEW a \in Queues, NEW x \in Places(a)'
      PROVE  (Text(a, x)' \cap msgmap') = {} /\ Header(a, x)' \notin msgfp'
  <2>1. Text(a, x) \cap msgmap = {} /\ Header(a, x) \notin msgfp
    BY <1>1, <1>2 DEF Apartness
  <2> QED
    BY <1>1, <2>1
<1>5. \A a \in Queues : msgque'[a].cbytes = Cardinality(Segments(a)')
  BY <1>1, <1>2 DEF Apartness
<1> QED
  BY <1>3, <1>4, <1>5 DEF Apartness

\* If nothing free is taken either, nothing gets lost.
LEMMA QuietKept ==
  ASSUME \A q \in Queues : msgque'[q].msgs = msgque[q].msgs
  PROVE  /\ Texts => Texts'
         /\ \A h : msgfp' = msgfp /\ HasHeader(h) => HasHeader(h)'
         /\ msgmap' = msgmap /\ msgfp' = msgfp => Kept
<1>1. \A q \in Queues :
        /\ Places(q)' = Places(q)
        /\ \A i : Text(q, i)' = Text(q, i) /\ Header(q, i)' = Header(q, i)
  BY SameMessages
<1>2. Texts => Texts'
  BY <1>1 DEF Texts
<1>3. \A h : msgfp' = msgfp /\ HasHeader(h) => HasHeader(h)'
  BY <1>1 DEF HasHeader
<1>4. \A x : msgmap' = msgmap /\ HasSegment(x) => HasSegment(x)'
  BY <1>1 DEF HasSegment
<1> QED
  BY <1>2, <1>3, <1>4 DEF Kept

\* A queue's flag set or reset.
LEMMA FlagSlots ==
  ASSUME Types, NEW q \in Queues, NEW b \in BOOLEAN,
         \/ msgque' = [msgque EXCEPT ![q].wwait = b]
         \/ msgque' = [msgque EXCEPT ![q].rwait = b]
         \/ msgque' = [msgque EXCEPT ![q].alloc = b]
         \/ msgque' = msgque
  PROVE  /\ msgque' \in [Queues -> Slot]
         /\ \A r \in Queues : msgque'[r].msgs = msgque[r].msgs /\ msgque'[r].cbytes = msgque[r].cbytes
<1>1. msgque \in [Queues -> Slot] /\ msgque[q] \in Slot
  BY DEF Types
<1>2. CASE msgque' = msgque
  BY <1>1, <1>2
<1>3. CASE msgque' = [msgque EXCEPT ![q].wwait = b]
  <2>1. [msgque[q] EXCEPT !.wwait = b] \in Slot
    BY <1>1 DEF Slot
  <2> QED
    BY <1>1, <1>3, <2>1 DEF Slot
<1>4. CASE msgque' = [msgque EXCEPT ![q].rwait = b]
  <2>1. [msgque[q] EXCEPT !.rwait = b] \in Slot
    BY <1>1 DEF Slot
  <2> QED
    BY <1>1, <1>4, <2>1 DEF Slot
<1>5. CASE msgque' = [msgque EXCEPT ![q].alloc = b]
  <2>1. [msgque[q] EXCEPT !.alloc = b] \in Slot
    BY <1>1 DEF Slot
  <2> QED
    BY <1>1, <1>5, <2>1 DEF Slot
<1> QED
  BY <1>2, <1>3, <1>4, <1>5

\* What a call of msgsnd puts on its queue.
Sent(call) ==
  [type |-> call.type, text |-> IF call.size > 0 THEN malloc(call.size) ELSE {},
   h |-> Min(msgfp)]

\* The ways msgsnd ends or goes to sleep.
NoRoom(p, call, w) ==
  /\ call.size + msgque[call.id[1]].cbytes > msgmnb
  /\ \/ msgque' = msgque /\ msgwait' = w
     \/ /\ msgque' = [msgque EXCEPT ![call.id[1]].wwait = TRUE]
        /\ msgwait' = MsgSleep(p, call, Room(call.id[1]), w)
  /\ msgmap' = msgmap /\ msgfp' = msgfp /\ mapwant' = mapwant

NoPool(p, call, w) ==
  /\ (call.size > 0 /\ Fits(call.size) = {}) \/ msgfp = {}
  /\ msgmap' = IF call.size > 0 /\ Fits(call.size) # {} THEN msgmap \ malloc(call.size) ELSE msgmap
  /\ \/ mapwant' = mapwant /\ msgwait' = w
     \/ mapwant' = TRUE /\ msgwait' = MsgSleep(p, call, Pool, w)
  /\ msgque' = msgque /\ msgfp' = msgfp

Queued(call, w) ==
  /\ Arrives(call.id[1], Sent(call)) /\ Cardinality(Sent(call).text) = call.size
  /\ msgwait' = wakeup(w, IF msgque[call.id[1]].rwait THEN {Qnum(call.id[1])} ELSE {})
  /\ mapwant' = mapwant

Faulted(w) ==
  /\ mapwant' = FALSE /\ msgwait' = wakeup(w, IF mapwant THEN {Pool} ELSE {})
  /\ msgque' = msgque /\ msgfp' = msgfp /\ msgmap' = msgmap

\* What is sent is free, and as long as it should be.
LEMMA SentFree ==
  ASSUME Types, NEW call \in Waits, call.op = "snd", msgfp # {},
         call.size > 0 => Fits(call.size) # {}
  PROVE  /\ Sent(call) \in Message /\ Sent(call).text \subseteq msgmap /\ Sent(call).h \in msgfp
         /\ Cardinality(Sent(call).text) = call.size
         /\ call.size > 0 => Sent(call).text # {}
<1> DEFINE text == IF call.size > 0 THEN malloc(call.size) ELSE {}
<1>1. call.size \in Nat /\ call.type \in Nat \ {0}
  BY WaitFields
<1>2. /\ text \subseteq msgmap /\ Cardinality(text) = call.size
      /\ call.size > 0 => text # {}
  <2>1. CASE call.size > 0
    BY <1>1, <2>1, Malloc
  <2>2. CASE ~(call.size > 0)
    BY <1>1, <2>2, FS_EmptySet
  <2> QED
    BY <2>1, <2>2
<1>3. Min(msgfp) \in msgfp
  <2>1. msgfp \in SUBSET Nat
    BY MsgAssumption DEF Types
  <2> QED
    BY <2>1, MinNat
<1>4. text \in SUBSET (1 .. msgseg) /\ Min(msgfp) \in 1 .. msgtql
  BY <1>2, <1>3 DEF Types
<1>5. Sent(call) = [type |-> call.type, text |-> text, h |-> Min(msgfp)]
  BY DEF Sent
<1> HIDE DEF text
<1> QED
  BY <1>1, <1>2, <1>3, <1>4, <1>5 DEF Message

LEMMA SendCases ==
  ASSUME Types, NEW p, NEW call \in Waits, call.op = "snd", NEW w, SendTry(p, call, w)
  PROVE  NoRoom(p, call, w) \/ NoPool(p, call, w) \/ Queued(call, w) \/ Faulted(w)
<1> DEFINE q == call.id[1]
           Q == msgque[q]
           text == IF call.size > 0 THEN malloc(call.size) ELSE {}
<1>1. CASE /\ call.size + Q.cbytes > msgmnb
           /\ \/ UNCHANGED <<msgque>> /\ msgwait' = w
              \/ /\ msgque' = [msgque EXCEPT ![q].wwait = TRUE]
                 /\ msgwait' = MsgSleep(p, call, Room(q), w)
           /\ UNCHANGED <<msgmap, msgfp, mapwant>>
  BY <1>1 DEF NoRoom
<1>2. CASE /\ (call.size > 0 /\ Fits(call.size) = {}) \/ msgfp = {}
           /\ msgmap' = IF call.size > 0 /\ Fits(call.size) # {}
                        THEN msgmap \ malloc(call.size) ELSE msgmap
           /\ \/ UNCHANGED <<mapwant>> /\ msgwait' = w
              \/ mapwant' = TRUE /\ msgwait' = MsgSleep(p, call, Pool, w)
           /\ UNCHANGED <<msgque, msgfp>>
  BY <1>2 DEF NoPool
<1>3. CASE /\ call.size > 0 => Fits(call.size) # {}
           /\ msgfp # {}
           /\ Enqueue(call, text, w) /\ msgmap' = msgmap \ text
  <2>1. /\ Sent(call).text = text /\ Sent(call).h = Min(msgfp)
        /\ Sent(call) = [type |-> call.type, text |-> text, h |-> Min(msgfp)]
    BY DEF Sent
  <2>2. /\ Sent(call) \in Message /\ Sent(call).text \subseteq msgmap /\ Sent(call).h \in msgfp
        /\ Cardinality(Sent(call).text) = call.size
    BY <1>3, SentFree
  <2>3. /\ msgque' = [msgque EXCEPT ![q].msgs = Append(@, Sent(call)),
                                    ![q].cbytes = @ + call.size, ![q].rwait = FALSE]
        /\ msgfp' = msgfp \ {Min(msgfp)}
        /\ msgwait' = wakeup(w, IF msgque[q].rwait THEN {Qnum(q)} ELSE {})
        /\ mapwant' = mapwant
    BY <1>3, <2>1 DEF Enqueue
  <2>4. Arrives(q, Sent(call))
    BY <1>3, <2>1, <2>2, <2>3 DEF Arrives
  <2> QED
    BY <2>2, <2>3, <2>4 DEF Queued
<1>4. CASE /\ mapwant' = FALSE /\ msgwait' = wakeup(w, IF mapwant THEN {Pool} ELSE {})
           /\ UNCHANGED <<msgque, msgfp, msgmap>>
  BY <1>4 DEF Faulted
<1> QED
  BY <1>1, <1>2, <1>3, <1>4 DEF SendTry

\* Sending keeps the accounts.
LEMMA SendKeeps ==
  ASSUME MsgInv, NEW p, NEW call \in Waits, call.op = "snd", NEW w, Waiting(w),
         SendTry(p, call, w)
  PROVE  MsgInv'
<1> DEFINE q == call.id[1]
<1>1. Types /\ q \in Queues /\ msgque \in [Queues -> Slot]
  BY WaitFields DEF MsgInv, Types
<1>2. CASE NoRoom(p, call, w)
  <2>1. /\ msgque' \in [Queues -> Slot]
        /\ \A r \in Queues : msgque'[r].msgs = msgque[r].msgs /\ msgque'[r].cbytes = msgque[r].cbytes
    BY <1>1, <1>2, FlagSlots DEF NoRoom
  <2>2. Waiting(msgwait')
    BY <1>2, SleepKept DEF NoRoom
  <2>3. msgmap' = msgmap /\ msgfp' = msgfp /\ mapwant' = mapwant
    BY <1>2 DEF NoRoom
  <2>4. Apartness'
    BY <2>1, <2>3, QuietApart
  <2> QED
    BY <1>1, <2>1, <2>2, <2>3, <2>4 DEF MsgInv, Types, Waiting
<1>3. CASE NoPool(p, call, w)
  <2>1. msgmap' \subseteq msgmap /\ msgque' = msgque /\ msgfp' = msgfp /\ mapwant' \in BOOLEAN
    BY <1>1, <1>3 DEF NoPool, Types
  <2>2. Waiting(msgwait')
    BY <1>3, SleepKept DEF NoPool
  <2>3. Apartness'
    BY <1>1, <2>1, QuietApart
  <2> QED
    BY <1>1, <2>1, <2>2, <2>3 DEF MsgInv, Types, Waiting
<1>4. CASE Queued(call, w)
  <2>1. msgque' \in [Queues -> Slot] /\ Apartness'
    BY <1>1, <1>4, ArrivesApart DEF Queued
  <2>2. Waiting(msgwait')
    BY <1>4, WaitingKept DEF Queued
  <2>3. msgmap' \subseteq msgmap /\ msgfp' \subseteq msgfp /\ mapwant' = mapwant
    BY <1>4 DEF Queued, Arrives
  <2> QED
    BY <1>1, <2>1, <2>2, <2>3 DEF MsgInv, Types, Waiting
<1>5. CASE Faulted(w)
  <2>1. Waiting(msgwait')
    BY <1>5, WaitingKept DEF Faulted
  <2>2. msgque' = msgque /\ msgmap' = msgmap /\ msgfp' = msgfp /\ mapwant' \in BOOLEAN
    BY <1>5 DEF Faulted
  <2>3. Apartness'
    BY <1>1, <2>2, QuietApart
  <2> QED
    BY <1>1, <2>1, <2>2, <2>3 DEF MsgInv, Types, Waiting
<1> QED
  BY <1>1, <1>2, <1>3, <1>4, <1>5, SendCases

\* What msgfree does to the free space, the flag of the pool and the sleepers.
Freed(q, M, w) ==
  /\ mapwant' = (mapwant /\ ~\E m \in M : m.text # {})
  /\ msgwait' = wakeup(w, (IF mapwant /\ (\E m \in M : m.text # {}) THEN {Pool} ELSE {})
                          \cup (IF msgque[q].wwait /\ M # {} THEN {Room(q)} ELSE {}))

LEMMA FreeCases ==
  ASSUME NEW q, NEW M, NEW w, msgfree(q, M, w)
  PROVE  /\ Freed(q, M, w)
         /\ msgmap' = msgmap \cup UNION {m.text : m \in M}
         /\ msgfp' = msgfp \cup {m.h : m \in M}
BY DEF msgfree, Freed

LEMMA FreedKept ==
  ASSUME NEW q, NEW M, NEW w, Waiting(w), Freed(q, M, w)
  PROVE  Waiting(msgwait') /\ mapwant' \in BOOLEAN
BY WokenKept DEF Freed

\* The ways msgrcv ends or goes to sleep.
Taken(q, i, w) == Leaves(q, i) /\ Freed(q, {msgque[q].msgs[i]}, w)

LEMMA ReceiveCases ==
  ASSUME Types, NEW p, NEW call \in Waits, call.op = "rcv", NEW w, ReceiveTry(p, call, w),
         NEW i, i = findmsg(msgque[call.id[1]].msgs, call.msgtyp)
  PROVE  \/ i # 0 /\ Taken(call.id[1], i, w)
         \/ /\ i = 0 /\ msgwait' = w /\ msgque' = msgque /\ msgmap' = msgmap /\ msgfp' = msgfp
            /\ mapwant' = mapwant
         \/ /\ i = 0 /\ msgque' = [msgque EXCEPT ![call.id[1]].rwait = TRUE]
            /\ msgwait' = MsgSleep(p, call, Qnum(call.id[1]), w)
            /\ msgmap' = msgmap /\ msgfp' = msgfp /\ mapwant' = mapwant
<1> DEFINE q == call.id[1]
<1>1. CASE i # 0 /\ Take(q, i, w)
  <2>1. q \in Queues /\ call.msgtyp \in Int /\ msgque[q].msgs \in Seq(Message)
    BY WaitFields, Fields
  <2>2. i \in Places(q)
    BY <1>1, <2>1, Found DEF Places
  <2> DEFINE m == msgque[q].msgs[i]
  <2>3. /\ msgque' = [msgque EXCEPT ![q].msgs = RemoveAt(@, i), ![q].wwait = FALSE,
                                    ![q].cbytes = @ - Cardinality(m.text)]
        /\ msgfree(q, {m}, w)
    BY <1>1 DEF Take
  <2>4. /\ Freed(q, {m}, w)
        /\ msgmap' = msgmap \cup UNION {x.text : x \in {m}} /\ msgfp' = msgfp \cup {x.h : x \in {m}}
    BY <2>3, FreeCases
  <2>5. UNION {x.text : x \in {m}} = Text(q, i) /\ {x.h : x \in {m}} = {Header(q, i)}
    BY DEF Text, Header
  <2>6. Leaves(q, i)
    BY <2>2, <2>3, <2>4, <2>5 DEF Leaves, Text
  <2> QED
    BY <1>1, <2>4, <2>6 DEF Taken
<1>2. CASE i = 0 /\ msgwait' = w /\ UNCHANGED <<msgque, msgmap, msgfp, mapwant>>
  BY <1>2
<1>3. CASE /\ i = 0
           /\ msgque' = [msgque EXCEPT ![q].rwait = TRUE]
           /\ msgwait' = MsgSleep(p, call, Qnum(q), w)
           /\ UNCHANGED <<msgmap, msgfp, mapwant>>
  BY <1>3
<1> QED
  BY <1>1, <1>2, <1>3 DEF ReceiveTry

\* Receiving keeps the accounts.
LEMMA ReceiveKeeps ==
  ASSUME MsgInv, NEW p, NEW call \in Waits, call.op = "rcv", NEW w, Waiting(w),
         ReceiveTry(p, call, w)
  PROVE  MsgInv'
<1> DEFINE q == call.id[1]
<1> PICK i : i = findmsg(msgque[q].msgs, call.msgtyp)
  OBVIOUS
<1>1. Types /\ q \in Queues /\ msgque \in [Queues -> Slot]
  BY WaitFields DEF MsgInv, Types
<1>2. CASE Taken(q, i, w)
  <2>1. /\ msgque' \in [Queues -> Slot] /\ Apartness'
        /\ msgmap' \subseteq 1 .. msgseg /\ msgfp' \subseteq 1 .. msgtql
    BY <1>1, <1>2, LeavesApart DEF Taken
  <2>2. Waiting(msgwait') /\ mapwant' \in BOOLEAN
    BY <1>2, WaitingKept DEF Taken, Freed
  <2> QED
    BY <1>1, <2>1, <2>2 DEF MsgInv, Types, Waiting
<1>3. CASE /\ msgwait' = w /\ msgque' = msgque /\ msgmap' = msgmap /\ msgfp' = msgfp
           /\ mapwant' = mapwant
  <2>1. Apartness'
    BY <1>1, <1>3, QuietApart
  <2> QED
    BY <1>1, <1>3, <2>1 DEF MsgInv, Types, Waiting
<1>4. CASE /\ msgque' = [msgque EXCEPT ![q].rwait = TRUE]
           /\ msgwait' = MsgSleep(p, call, Qnum(q), w)
           /\ msgmap' = msgmap /\ msgfp' = msgfp /\ mapwant' = mapwant
  <2>1. /\ msgque' \in [Queues -> Slot]
        /\ \A r \in Queues : msgque'[r].msgs = msgque[r].msgs /\ msgque'[r].cbytes = msgque[r].cbytes
    BY <1>1, <1>4, FlagSlots
  <2>2. Waiting(msgwait')
    BY <1>4, SleepKept
  <2>3. Apartness'
    BY <1>4, <2>1, QuietApart
  <2> QED
    BY <1>1, <1>4, <2>1, <2>2, <2>3 DEF MsgInv, Types, Waiting
<1> QED
  BY <1>1, <1>2, <1>3, <1>4, ReceiveCases

\* IPC_RMID.
LEMMA RemoveCases ==
  ASSUME Types, NEW q \in Queues, MsgRemove(MsgId(q))
  PROVE  /\ msgque[q].alloc /\ Empties(q)
         /\ Freed(q, InUse(q), wakeup(msgwait, (IF msgque[q].rwait THEN {Qnum(q)} ELSE {})
                                               \cup (IF msgque[q].wwait THEN {Room(q)} ELSE {})))
<1> DEFINE w == wakeup(msgwait, (IF msgque[q].rwait THEN {Qnum(q)} ELSE {})
                                \cup (IF msgque[q].wwait THEN {Room(q)} ELSE {}))
<1>1. MsgId(q)[1] = q
  BY DEF MsgId
<1>2. /\ msgconv(MsgId(q)) /\ msgfree(q, ToSet(msgque[q].msgs), w)
      /\ msgque' = [msgque EXCEPT ![q] =
          [alloc |-> FALSE, seq |-> @.seq + 1, rwait |-> FALSE, wwait |-> FALSE,
           cbytes |-> 0, msgs |-> <<>>]]
  BY <1>1 DEF MsgRemove
<1>3. ToSet(msgque[q].msgs) = InUse(q)
  BY DEF InUse
<1> HIDE DEF w
<1>4. /\ Freed(q, InUse(q), w)
      /\ msgmap' = msgmap \cup UNION {m.text : m \in InUse(q)}
      /\ msgfp' = msgfp \cup {m.h : m \in InUse(q)}
  BY <1>2, <1>3, FreeCases
<1>5. {m.h : m \in InUse(q)} = {Header(q, i) : i \in Places(q)}
  BY DEF InUse, ToSet, Header, Places
<1>6. Empties(q)
  BY <1>2, <1>4, <1>5 DEF Empties, Segments
<1>7. msgque[q].alloc
  BY <1>1, <1>2 DEF msgconv
<1> QED
  BY <1>4, <1>6, <1>7 DEF w

\* A call begins awake.
LEMMA NewCalls ==
  ASSUME Types, NEW q \in Queues
  PROVE  /\ \A k \in MsgKinds :
              LET c == [op |-> "snd", chan |-> Run, on |-> Run, id |-> MsgId(q), type |-> k[1],
                        size |-> k[2]]
              IN c \in Waits /\ c.op = "snd" /\ c.size = k[2]
         /\ \A msgtyp \in Wanted :
              LET c == [op |-> "rcv", chan |-> Run, on |-> Run, id |-> MsgId(q), msgtyp |-> msgtyp]
              IN c \in Waits /\ c.op = "rcv"
<1>1. MsgId(q) \in Queues \X Nat /\ Run \in Chans
  BY Fields DEF MsgId, Slot, Chans
<1>2. ASSUME NEW k \in MsgKinds
      PROVE  [op |-> "snd", chan |-> Run, on |-> Run, id |-> MsgId(q), type |-> k[1],
              size |-> k[2]] \in Sends
  <2>1. k[1] \in Nat \ {0} /\ k[2] \in Nat
    BY MsgAssumption
  <2> QED
    BY <1>1, <2>1 DEF Sends
<1>3. ASSUME NEW msgtyp \in Wanted
      PROVE  [op |-> "rcv", chan |-> Run, on |-> Run, id |-> MsgId(q), msgtyp |-> msgtyp] \in Receives
  <2>1. msgtyp \in Int
    BY MsgAssumption
  <2> QED
    BY <1>1, <2>1 DEF Receives
<1> QED
  BY <1>2, <1>3 DEF Waits, Calls

\* A resumed call is one that waited, and looks at its queue again or is over.
LEMMA ResumeCases ==
  ASSUME Types, NEW p, MsgResume(p), NEW call, call = msgwait[p],
         NEW w, w = unsleep(msgwait, p)
  PROVE  /\ p \in DOMAIN msgwait /\ call \in Waits /\ Waiting(w)
         /\ \/ /\ msgwait' = w /\ msgque' = msgque /\ msgmap' = msgmap /\ msgfp' = msgfp
               /\ mapwant' = mapwant
            \/ msgconv(call.id) /\ call.op = "snd" /\ SendTry(p, call, w)
            \/ msgconv(call.id) /\ call.op = "rcv" /\ ReceiveTry(p, call, w)
<1>1. p \in DOMAIN msgwait /\ call \in Waits
  BY DEF MsgResume, Types
<1>2. Waiting(w)
  BY WaitingKept DEF Types, Waiting
<1>3. IF ~msgconv(call.id)
      THEN msgwait' = w /\ UNCHANGED <<msgque, msgmap, msgfp, mapwant>>
      ELSE IF call.op = "snd" THEN SendTry(p, call, w) ELSE ReceiveTry(p, call, w)
  BY DEF MsgResume
<1>4. call.op \in {"snd", "rcv"}
  BY <1>1, WaitFields
<1> QED
  BY <1>1, <1>2, <1>3, <1>4

\* A signal: the call is over, and other senders are woken if it waited for room.
LEMMA InterruptCases ==
  ASSUME Types, NEW p, MsgInterrupt(p), NEW w, w = unsleep(msgwait, p)
  PROVE  /\ msgmap' = msgmap /\ msgfp' = msgfp /\ mapwant' = mapwant /\ Waiting(w)
         /\ \/ msgque' = msgque /\ msgwait' = w
            \/ \E q \in Queues : /\ msgque' = [msgque EXCEPT ![q].wwait = FALSE]
                                 /\ msgwait' = wakeup(w, {Room(q)})
<1>1. p \in DOMAIN msgwait /\ msgwait[p].id[1] \in Queues
  BY WaitFields DEF MsgInterrupt, Types
<1>2. Waiting(w)
  BY WaitingKept DEF Types, Waiting
<1>3. CASE msgwait[p].on = Room(msgwait[p].id[1])
  BY <1>1, <1>2, <1>3 DEF MsgInterrupt
<1>4. CASE msgwait[p].on # Room(msgwait[p].id[1])
  BY <1>2, <1>4 DEF MsgInterrupt
<1> QED
  BY <1>3, <1>4

\* Every step keeps the accounts.
LEMMA MsgInvStep == MsgInv /\ [MsgNext]_msgVars => MsgInv'
<1> SUFFICES ASSUME MsgInv, [MsgNext]_msgVars PROVE MsgInv'
  OBVIOUS
<1>0. Types /\ Waiting(msgwait) /\ msgque \in [Queues -> Slot]
  BY DEF MsgInv, Types, Waiting
<1>1. ASSUME NEW q \in Queues, MsgGet(q) PROVE MsgInv'
  <2>1. /\ msgque' = [msgque EXCEPT ![q].alloc = TRUE]
        /\ msgmap' = msgmap /\ msgfp' = msgfp /\ mapwant' = mapwant /\ msgwait' = msgwait
    BY <1>1 DEF MsgGet
  <2>2. /\ msgque' \in [Queues -> Slot]
        /\ \A r \in Queues : msgque'[r].msgs = msgque[r].msgs /\ msgque'[r].cbytes = msgque[r].cbytes
    BY <1>0, <2>1, FlagSlots
  <2>3. Apartness'
    BY <2>1, <2>2, QuietApart
  <2> QED
    BY <1>0, <2>1, <2>2, <2>3 DEF MsgInv, Types, Waiting
<1>2. ASSUME NEW q \in Queues, MsgRemove(MsgId(q)) PROVE MsgInv'
  <2>1. /\ msgque' \in [Queues -> Slot] /\ Apartness'
        /\ msgmap' \subseteq 1 .. msgseg /\ msgfp' \subseteq 1 .. msgtql
    BY <1>0, <1>2, RemoveCases, EmptiesApart
  <2> DEFINE w == wakeup(msgwait, (IF msgque[q].rwait THEN {Qnum(q)} ELSE {})
                                  \cup (IF msgque[q].wwait THEN {Room(q)} ELSE {}))
  <2>3. Freed(q, InUse(q), w)
    BY <1>0, <1>2, RemoveCases
  <2>4. Waiting(w)
    BY <1>0, WokenKept
  <2> HIDE DEF w
  <2>2. Waiting(msgwait') /\ mapwant' \in BOOLEAN
    BY <2>3, <2>4, FreedKept
  <2> QED
    BY <2>1, <2>2 DEF MsgInv, Types, Waiting
<1>3. ASSUME NEW p \in Procs, NEW q \in Queues, NEW k \in MsgKinds, MsgSend(p, MsgId(q), k[1], k[2])
      PROVE  MsgInv'
  <2> DEFINE c == [op |-> "snd", chan |-> Run, on |-> Run, id |-> MsgId(q), type |-> k[1],
                   size |-> k[2]]
  <2>1. c \in Waits /\ c.op = "snd"
    BY <1>0, NewCalls
  <2>2. SendTry(p, c, msgwait)
    BY <1>3 DEF MsgSend
  <2> HIDE DEF c
  <2> QED
    BY <1>0, <2>1, <2>2, SendKeeps
<1>4. ASSUME NEW p \in Procs, NEW q \in Queues, NEW msgtyp \in Wanted, MsgReceive(p, MsgId(q), msgtyp)
      PROVE  MsgInv'
  <2> DEFINE c == [op |-> "rcv", chan |-> Run, on |-> Run, id |-> MsgId(q), msgtyp |-> msgtyp]
  <2>1. c \in Waits /\ c.op = "rcv"
    BY <1>0, NewCalls
  <2>2. ReceiveTry(p, c, msgwait)
    BY <1>4 DEF MsgReceive
  <2> HIDE DEF c
  <2> QED
    BY <1>0, <2>1, <2>2, ReceiveKeeps
<1>5. ASSUME msgmap' = msgmap, msgfp' = msgfp, mapwant' = mapwant, Waiting(msgwait'),
             \/ msgque' = msgque
             \/ \E q \in Queues : msgque' = [msgque EXCEPT ![q].wwait = FALSE]
      PROVE  MsgInv'
  <2>1. /\ msgque' \in [Queues -> Slot]
        /\ \A r \in Queues : msgque'[r].msgs = msgque[r].msgs /\ msgque'[r].cbytes = msgque[r].cbytes
    BY <1>0, <1>5, FlagSlots
  <2>2. Apartness'
    BY <1>5, <2>1, QuietApart
  <2> QED
    BY <1>0, <1>5, <2>1, <2>2 DEF MsgInv, Types, Waiting
<1>6. ASSUME NEW p \in Procs, MsgResume(p) PROVE MsgInv'
  <2> PICK call : call = msgwait[p]
    OBVIOUS
  <2> PICK w : w = unsleep(msgwait, p)
    OBVIOUS
  <2>1. /\ call \in Waits /\ Waiting(w)
        /\ \/ /\ msgwait' = w /\ msgque' = msgque /\ msgmap' = msgmap /\ msgfp' = msgfp
              /\ mapwant' = mapwant
           \/ call.op = "snd" /\ SendTry(p, call, w)
           \/ call.op = "rcv" /\ ReceiveTry(p, call, w)
    BY <1>0, <1>6, ResumeCases
  <2> QED
    BY <1>5, <2>1, SendKeeps, ReceiveKeeps
<1>7. ASSUME NEW p \in Procs, MsgInterrupt(p) PROVE MsgInv'
  <2> PICK w : w = unsleep(msgwait, p)
    OBVIOUS
  <2>1. /\ msgmap' = msgmap /\ msgfp' = msgfp /\ mapwant' = mapwant /\ Waiting(w)
        /\ \/ msgque' = msgque /\ msgwait' = w
           \/ \E q \in Queues : /\ msgque' = [msgque EXCEPT ![q].wwait = FALSE]
                                /\ msgwait' = wakeup(w, {Room(q)})
    BY <1>0, <1>7, InterruptCases
  <2>2. Waiting(msgwait')
    <3>1. ASSUME NEW q \in Queues PROVE Waiting(wakeup(w, {Room(q)}))
      BY <2>1, WokenKept
    <3>2. msgwait' = w \/ \E q \in Queues : msgwait' = wakeup(w, {Room(q)})
      BY <2>1
    <3> QED
      BY <2>1, <3>1, <3>2
  <2>3. \/ msgque' = msgque
        \/ \E q \in Queues : msgque' = [msgque EXCEPT ![q].wwait = FALSE]
    BY <2>1
  <2> QED
    BY <1>5, <2>1, <2>2, <2>3
<1>8. CASE UNCHANGED msgVars
  BY <1>0, <1>5, <1>8 DEF msgVars
<1> QED
  BY <1>1, <1>2, <1>3, <1>4, <1>6, <1>7, <1>8 DEF MsgNext

LEMMA MsgInvInit == MsgInit => MsgInv
<1> SUFFICES ASSUME MsgInit PROVE MsgInv
  OBVIOUS
<1>1. msgque \in [Queues -> Slot]
  <2>1. [alloc |-> FALSE, seq |-> 0, rwait |-> FALSE, wwait |-> FALSE, cbytes |-> 0,
         msgs |-> <<>>] \in Slot
    BY DEF Slot
  <2> QED
    BY <2>1 DEF MsgInit
<1>2. Types
  <2>1. DOMAIN msgwait = {}
    BY DEF MsgInit
  <2>2. mapwant \in BOOLEAN /\ msgmap = 1 .. msgseg /\ msgfp = 1 .. msgtql
    BY DEF MsgInit
  <2> QED
    BY <1>1, <2>1, <2>2 DEF Types
<1>3. \A q \in Queues : Places(q) = {} /\ msgque[q].cbytes = 0
  BY DEF MsgInit, Places
<1>4. \A q \in Queues : Segments(q) = {}
  BY <1>3, SegmentsAre
<1> QED
  BY <1>2, <1>3, <1>4, FS_EmptySet DEF MsgInv, Apartness

LEMMA MsgInvAlways == MsgSpec => []MsgInv
BY MsgInvInit, MsgInvStep, PTL DEF MsgSpec

\* Whatever the sizes of the pools, and although a segment may get lost: no two
\* messages, and no message and the free space, have a segment or a header in
\* common, and msg_cbytes is what a queue's messages hold.
SpaceApart ==
  /\ \A q \in Queues : msgque[q].cbytes = Cardinality(UNION {m.text : m \in InUse(q)})
  /\ LET M == UNION {InUse(q) : q \in Queues}
     IN /\ \A m, n \in M : m.h = n.h => m = n
        /\ \A m, n \in M : m # n => m.text \cap n.text = {}
        /\ \A m \in M : m.text \cap msgmap = {} /\ m.h \notin msgfp

LEMMA ApartMessages == MsgInv => SpaceApart
<1> SUFFICES ASSUME MsgInv PROVE SpaceApart
  OBVIOUS
<1> DEFINE M == UNION {InUse(q) : q \in Queues}
<1>1. Apartness
  BY DEF MsgInv
<1>2. \A m \in M : \E q \in Queues : \E i \in Places(q) :
        m = msgque[q].msgs[i] /\ m.text = Text(q, i) /\ m.h = Header(q, i)
  BY DEF InUse, ToSet, Places, Text, Header
<1>3. ASSUME NEW m \in M, NEW n \in M, m # n PROVE m.h # n.h /\ m.text \cap n.text = {}
  <2>1. PICK q \in Queues : \E i \in Places(q) :
          m = msgque[q].msgs[i] /\ m.text = Text(q, i) /\ m.h = Header(q, i)
    BY <1>2
  <2>5. PICK i \in Places(q) :
          m = msgque[q].msgs[i] /\ m.text = Text(q, i) /\ m.h = Header(q, i)
    BY <2>1
  <2>2. PICK r \in Queues : \E j \in Places(r) :
          n = msgque[r].msgs[j] /\ n.text = Text(r, j) /\ n.h = Header(r, j)
    BY <1>2
  <2>6. PICK j \in Places(r) :
          n = msgque[r].msgs[j] /\ n.text = Text(r, j) /\ n.h = Header(r, j)
    BY <2>2
  <2>3. q # r \/ i # j
    BY <1>3, <2>5, <2>6
  <2> QED
    BY <1>1, <2>5, <2>6, <2>3 DEF Apartness
<1>4. \A m \in M : m.text \cap msgmap = {} /\ m.h \notin msgfp
  BY <1>1, <1>2 DEF Apartness
<1>5. \A q \in Queues : msgque[q].cbytes = Cardinality(UNION {m.text : m \in InUse(q)})
  BY <1>1 DEF Apartness, Segments
<1> QED
  BY <1>3, <1>4, <1>5 DEF SpaceApart

\* No segment and no header is ever in two places.
THEOREM NothingShared == MsgSpec => []SpaceApart
BY MsgInvAlways, ApartMessages, PTL
-----------------------------------------------------------------------------
\* Nobody waits in vain.

\* Every message has some text.
NoEmptyMessage == \A k \in MsgKinds : k[2] > 0

\* What a call sends is not empty.
Sizes(w) == \A p \in DOMAIN w : w[p].op = "snd" => w[p].size > 0

Sized == Texts /\ Sizes(msgwait)

\* Why a sleeper must go on sleeping, and what gets him woken.
Blocked(c) ==
  IF c.chan = Pool THEN mapwant /\ ((c.size > 0 /\ Fits(c.size) = {}) \/ msgfp = {})
  ELSE /\ msgconv(c.id)
       /\ IF c.op = "snd"
          THEN msgque[c.id[1]].wwait /\ c.size + msgque[c.id[1]].cbytes > msgmnb
          ELSE msgque[c.id[1]].rwait /\ findmsg(msgque[c.id[1]].msgs, c.msgtyp) = 0

SleepInv == \A p \in Asleep(msgwait) : Blocked(msgwait[p])

\* All but those of P are still asleep, or were woken on one of the addresses chans.
Apart(P, v, chans) ==
  /\ DOMAIN v \ P = DOMAIN msgwait \ P
  /\ \A p \in DOMAIN msgwait \ P :
       v[p] = IF msgwait[p].chan \in chans THEN [msgwait[p] EXCEPT !.chan = Run]
              ELSE msgwait[p]

\* What keeps a sleeper asleep still holds, unless he is woken.
Steady(chans) ==
  \A c \in Waits : c.chan # Run /\ c.chan \notin chans /\ Blocked(c) => Blocked(c)'

LEMMA WakeupApart ==
  ASSUME Types, NEW P, NEW v, NEW chans, NEW more, Apart(P, v, chans)
  PROVE  Apart(P, wakeup(v, more), chans \cup more) /\ DOMAIN wakeup(v, more) = DOMAIN v
<1>1. DOMAIN wakeup(v, more) = DOMAIN v
  BY DEF wakeup
<1>2. ASSUME NEW p \in DOMAIN msgwait \ P
      PROVE  wakeup(v, more)[p] = IF msgwait[p].chan \in chans \cup more
                                  THEN [msgwait[p] EXCEPT !.chan = Run] ELSE msgwait[p]
  <2>1. p \in DOMAIN v /\ msgwait[p] \in Waits
    BY DEF Apart, Types
  <2>2. wakeup(v, more)[p] = IF v[p].chan \in more THEN [v[p] EXCEPT !.chan = Run] ELSE v[p]
    BY <2>1 DEF wakeup
  <2> PICK c \in Waits : c = msgwait[p]
    BY <2>1
  <2>3. v[p] = IF c.chan \in chans THEN [c EXCEPT !.chan = Run] ELSE c
    BY DEF Apart
  <2>4. [[c EXCEPT !.chan = Run] EXCEPT !.chan = Run] = [c EXCEPT !.chan = Run]
    BY WaitFields DEF Calls, Sends, Receives
  <2> QED
    BY <2>2, <2>3, <2>4
<1> QED
  BY <1>1, <1>2 DEF Apart

\* All but p are still asleep.
Others(p, v) ==
  /\ DOMAIN v \ {p} = DOMAIN msgwait \ {p}
  /\ \A r \in DOMAIN msgwait \ {p} : v[r] = msgwait[r]

LEMMA SleepOthers ==
  ASSUME NEW p, NEW v, NEW c, Others(p, v)
  PROVE  /\ Others(p, sleep(v, p, c))
         /\ sleep(v, p, c)[p] = c /\ DOMAIN sleep(v, p, c) = DOMAIN v \cup {p}
BY DEF Others, sleep, Put

LEMMA OthersApart ==
  ASSUME NEW p, NEW v, Others(p, v)
  PROVE  Apart({p}, v, {})
BY DEF Others, Apart

LEMMA WakeOthers ==
  ASSUME Types, NEW p, NEW v, NEW more, Others(p, v)
  PROVE  Apart({p}, wakeup(v, more), more) /\ DOMAIN wakeup(v, more) = DOMAIN v
<1>1. Apart({p}, wakeup(v, more), {} \cup more) /\ DOMAIN wakeup(v, more) = DOMAIN v
  BY OthersApart, WakeupApart
<1> QED
  BY <1>1 DEF Apart

LEMMA UnsleepOthers ==
  ASSUME NEW p
  PROVE  /\ Others(p, unsleep(msgwait, p)) /\ p \notin DOMAIN unsleep(msgwait, p)
         /\ Others(p, msgwait) /\ Apart({}, msgwait, {})
BY DEF Apart, Others, unsleep, Drop

\* A step that is steady for all but p, and after which p waits as he should.
LEMMA SleepersStay ==
  ASSUME MsgInv, MsgInv', SleepInv, NEW P, NEW chans, Apart(P, msgwait', chans), Steady(chans),
         \A p \in P : p \in DOMAIN msgwait' => msgwait'[p].chan = Run \/ Blocked(msgwait[p])'
  PROVE  SleepInv'
<1> SUFFICES ASSUME NEW p \in Asleep(msgwait)' PROVE Blocked(msgwait[p])'
  BY DEF SleepInv
<1>1. p \in DOMAIN msgwait' /\ msgwait'[p].chan # Run
  BY DEF Asleep
<1>2. CASE p \in P
  BY <1>1, <1>2
<1>3. CASE p \notin P
  <2>1. p \in DOMAIN msgwait \ P /\ msgwait[p] \in Waits
    BY <1>1, <1>3 DEF Apart, MsgInv, Types
  <2>2. msgwait[p].chan \notin chans
    <3>1. SUFFICES ASSUME msgwait[p].chan \in chans PROVE FALSE
      OBVIOUS
    <3>2. msgwait'[p] = [msgwait[p] EXCEPT !.chan = Run]
      BY <2>1, <3>1 DEF Apart
    <3> PICK c \in Waits : c = msgwait[p]
      BY <2>1
    <3>3. [c EXCEPT !.chan = Run].chan = Run
      BY WaitFields DEF Calls, Sends, Receives
    <3> QED
      BY <1>1, <3>2, <3>3
  <2>3. msgwait'[p] = msgwait[p]
    BY <2>1, <2>2 DEF Apart
  <2>4. Blocked(msgwait[p])
    BY <1>1, <2>1, <2>3 DEF SleepInv, Asleep
  <2> PICK c \in Waits : c = msgwait[p]
    BY <2>1
  <2>5. Blocked(c)'
    BY <1>1, <2>1, <2>2, <2>3, <2>4 DEF Steady
  <2>6. msgwait'[p] = c
    BY <2>3
  <2> QED
    BY <2>5, <2>6 DEF Blocked, msgconv
<1> QED
  BY <1>2, <1>3

LEMMA OthersStay ==
  ASSUME MsgInv, MsgInv', SleepInv, NEW p, Others(p, msgwait'), Steady({}),
         p \in DOMAIN msgwait' => msgwait'[p].chan = Run \/ Blocked(msgwait[p])'
  PROVE  SleepInv'
<1>1. Apart({p}, msgwait', {})
  BY DEF Others, Apart
<1> QED
  BY <1>1, SleepersStay

\* A step that takes nothing from the free space in vain, and for each flag that
\* a sleeper relies on keeps what it says, or wakes its sleepers.
LEMMA Steadies ==
  ASSUME Types, NEW chans,
         \/ Pool \in chans \/ ~mapwant
         \/ mapwant' /\ msgmap' \subseteq msgmap /\ msgfp' \subseteq msgfp,
         \A q \in Queues :
           \/ ~msgque[q].alloc
           \/ /\ Room(q) \in chans \/ ~msgque[q].wwait
              /\ Qnum(q) \in chans \/ ~msgque[q].rwait
           \/ /\ msgque'[q].alloc = msgque[q].alloc /\ msgque'[q].seq = msgque[q].seq
              /\ \/ Room(q) \in chans \/ ~msgque[q].wwait
                 \/ /\ msgque'[q].wwait /\ msgque'[q].cbytes \in Nat
                    /\ msgque'[q].cbytes >= msgque[q].cbytes
              /\ \/ Qnum(q) \in chans \/ ~msgque[q].rwait
                 \/ /\ msgque'[q].rwait
                    /\ \A t \in Int : findmsg(msgque[q].msgs, t) = 0 => findmsg(msgque'[q].msgs, t) = 0
  PROVE  Steady(chans)
<1> SUFFICES ASSUME NEW c \in Waits, c.chan # Run, c.chan \notin chans, Blocked(c)
             PROVE Blocked(c)'
  BY DEF Steady
<1> PICK q \in Queues : q = c.id[1]
  BY WaitFields
<1>1. CASE c.chan = Pool
  <2>1. mapwant' /\ msgmap' \subseteq msgmap /\ msgfp' \subseteq msgfp
    BY <1>1 DEF Blocked
  <2>2. Fits(c.size)' \subseteq Fits(c.size)
    BY <2>1 DEF Fits
  <2>3. (c.size > 0 /\ Fits(c.size) = {}) \/ msgfp = {}
    BY <1>1 DEF Blocked
  <2>4. (c.size > 0 /\ Fits(c.size)' = {}) \/ msgfp' = {}
    BY <2>1, <2>2, <2>3
  <2> QED
    BY <1>1, <2>1, <2>4 DEF Blocked
<1>2. CASE c.chan # Pool
  <2>1. msgconv(c.id) /\ msgque[q].alloc
    BY <1>2 DEF Blocked, msgconv
  <2>2. CASE c.op = "snd"
    <3>1. c.chan = Room(q) /\ c.size \in Nat
      BY <1>2, <2>2, WaitFields
    <3>2. msgque[q].wwait /\ c.size + msgque[q].cbytes > msgmnb
      BY <1>2, <2>2 DEF Blocked
    <3>3. /\ msgque'[q].alloc = msgque[q].alloc /\ msgque'[q].seq = msgque[q].seq
          /\ msgque'[q].wwait /\ msgque'[q].cbytes \in Nat /\ msgque'[q].cbytes >= msgque[q].cbytes
      BY <2>1, <3>1, <3>2
    <3>4. msgconv(c.id)'
      BY <2>1, <3>3 DEF msgconv, MsgId
    <3>5. c.size + msgque'[q].cbytes > msgmnb
      BY <3>1, <3>2, <3>3, MsgAssumption, Fields
    <3> QED
      BY <1>2, <2>2, <3>3, <3>4, <3>5 DEF Blocked
  <2>3. CASE c.op = "rcv"
    <3>1. c.chan = Qnum(q) /\ c.msgtyp \in Int
      BY <1>2, <2>3, WaitFields
    <3>2. msgque[q].rwait /\ findmsg(msgque[q].msgs, c.msgtyp) = 0
      BY <1>2, <2>3 DEF Blocked
    <3>3. /\ msgque'[q].alloc = msgque[q].alloc /\ msgque'[q].seq = msgque[q].seq
          /\ msgque'[q].rwait /\ findmsg(msgque'[q].msgs, c.msgtyp) = 0
      BY <2>1, <3>1, <3>2
    <3>4. msgconv(c.id)'
      BY <2>1, <3>3 DEF msgconv, MsgId
    <3> QED
      BY <1>2, <2>3, <3>3, <3>4 DEF Blocked
  <2> QED
    BY <2>2, <2>3, WaitFields
<1> QED
  BY <1>1, <1>2

\* Messages taken wake those who may want the space, the rest is as it was.
LEMMA FreedSteady ==
  ASSUME MsgInv, Sized, NEW q \in Queues, NEW M \in SUBSET InUse(q), NEW w, Freed(q, M, w),
         NEW chans, NEW P, Apart(P, w, chans),
         msgmap' = msgmap \cup UNION {m.text : m \in M},
         msgfp' = msgfp \cup {m.h : m \in M}
  PROVE  \E more : /\ Apart(P, msgwait', chans \cup more)
                   /\ \/ Pool \in more \/ ~mapwant
                      \/ mapwant' /\ msgmap' \subseteq msgmap /\ msgfp' \subseteq msgfp
                   /\ Room(q) \in more \/ ~msgque[q].wwait \/ M = {}
<1> DEFINE more == (IF mapwant /\ (\E m \in M : m.text # {}) THEN {Pool} ELSE {})
                   \cup (IF msgque[q].wwait /\ M # {} THEN {Room(q)} ELSE {})
<1>1. msgwait' = wakeup(w, more) /\ mapwant' = (mapwant /\ ~\E m \in M : m.text # {})
  BY DEF Freed
<1>2. Apart(P, msgwait', chans \cup more)
  BY <1>1, WakeupApart DEF MsgInv
<1>3. \A m \in M : m.text # {}
  BY DEF Sized, Texts, InUse, ToSet, Places, Text
<1>4. CASE M = {}
  <2>1. msgmap' = msgmap /\ msgfp' = msgfp /\ mapwant' = mapwant
    BY <1>1, <1>4 DEF MsgInv, Types
  <2> QED
    BY <1>2, <1>4, <2>1
<1>5. CASE M # {}
  <2>1. mapwant => Pool \in more
    BY <1>3, <1>5
  <2>2. msgque[q].wwait => Room(q) \in more
    BY <1>5
  <2> QED
    BY <1>2, <2>1, <2>2
<1> QED
  BY <1>4, <1>5

\* A step of msgsnd.
LEMMA SendSleeps ==
  ASSUME MsgInv, MsgInv', SleepInv, NEW p, NEW call \in Waits, call.op = "snd",
         msgconv(call.id), NEW w, Waiting(w), Others(p, w), p \notin DOMAIN w,
         SendTry(p, call, w)
  PROVE  SleepInv'
<1>0. \A d : Others(p, sleep(w, p, d)) /\ sleep(w, p, d)[p] = d
  BY SleepOthers
<1> PICK q \in Queues : q = call.id[1]
  BY WaitFields
<1>1. Types /\ msgque[q] \in Slot /\ msgque \in [Queues -> Slot]
  BY Fields DEF MsgInv, Types
<1>2. \A r \in Queues : msgque[r] \in Slot /\ msgque[r].cbytes \in Nat
  BY <1>1, Fields
<1>3. CASE NoRoom(p, call, w)
  <2>1. /\ msgmap' = msgmap /\ msgfp' = msgfp /\ mapwant' = mapwant
        /\ msgque' = msgque \/ msgque' = [msgque EXCEPT ![q].wwait = TRUE]
    BY <1>3 DEF NoRoom
  <2>2. \A r \in Queues : /\ msgque'[r].alloc = msgque[r].alloc /\ msgque'[r].seq = msgque[r].seq
                          /\ msgque'[r].cbytes = msgque[r].cbytes /\ msgque'[r].msgs = msgque[r].msgs
                          /\ msgque'[r].rwait = msgque[r].rwait
                          /\ msgque[r].wwait => msgque'[r].wwait
    <3>1. CASE msgque' = msgque
      BY <3>1
    <3>2. CASE msgque' = [msgque EXCEPT ![q].wwait = TRUE]
      BY <1>1, <3>2 DEF Slot
    <3> QED
      BY <2>1, <3>1, <3>2
  <2>3. Steady({})
    BY <1>1, <1>2, <2>1, <2>2, Steadies
  <2>4. CASE msgwait' = w
    BY <2>3, <2>4, OthersStay
  <2>5. CASE msgque' = [msgque EXCEPT ![q].wwait = TRUE] /\ msgwait' = MsgSleep(p, call, Room(q), w)
    <3> PICK d : d = SleepOn(call, Room(q))
      OBVIOUS
    <3>1. d \in Waits /\ d.chan = Room(q) /\ d.id = call.id /\ d.op = "snd" /\ d.size = call.size
      BY SleepCall
    <3>2. msgwait' = sleep(w, p, d)
      BY <2>5, SleepingCall
    <3>3. Others(p, msgwait') /\ msgwait'[p] = d
      BY <1>0, <3>2
    <3>4. msgconv(d.id)' /\ msgque'[q].wwait /\ d.size + msgque'[q].cbytes > msgmnb
      <4>1. msgque'[q].wwait
        BY <1>1, <2>5 DEF Slot
      <4>2. call.size + msgque[q].cbytes > msgmnb
        BY <1>3 DEF NoRoom
      <4> QED
        BY <2>2, <3>1, <4>1, <4>2 DEF msgconv, MsgId
    <3>5. Blocked(d)'
      BY <3>1, <3>4, Addresses DEF Blocked
    <3>6. Blocked(msgwait[p])'
      BY <3>3, <3>5 DEF Blocked, msgconv
    <3> QED
      BY <2>3, <3>3, <3>6, OthersStay
  <2> QED
    BY <1>3, <2>4, <2>5 DEF NoRoom
<1>4. CASE NoPool(p, call, w)
  <2>1. /\ msgmap' \subseteq msgmap /\ msgfp' = msgfp /\ msgque' = msgque
        /\ mapwant => mapwant'
    BY <1>1, <1>4 DEF NoPool, Types
  <2>3. Steady({})
    BY <1>1, <1>2, <2>1, Steadies
  <2>4. CASE msgwait' = w
    BY <2>3, <2>4, OthersStay
  <2>5. CASE mapwant' = TRUE /\ msgwait' = MsgSleep(p, call, Pool, w)
    <3> PICK d : d = SleepOn(call, Pool)
      OBVIOUS
    <3>1. d \in Waits /\ d.chan = Pool /\ d.id = call.id /\ d.op = "snd" /\ d.size = call.size
      BY SleepCall
    <3>2. msgwait' = sleep(w, p, d)
      BY <2>5, SleepingCall
    <3>3. Others(p, msgwait') /\ msgwait'[p] = d
      BY <1>0, <3>2
    <3>4. (call.size > 0 /\ Fits(call.size) = {}) \/ msgfp = {}
      BY <1>4 DEF NoPool
    <3>5. Fits(call.size)' \subseteq Fits(call.size)
      BY <2>1 DEF Fits
    <3>6. Blocked(d)'
      BY <2>1, <2>5, <3>1, <3>4, <3>5 DEF Blocked
    <3>7. Blocked(msgwait[p])'
      BY <3>3, <3>6 DEF Blocked, msgconv
    <3> QED
      BY <2>3, <3>3, <3>7, OthersStay
  <2> QED
    BY <1>4, <2>4, <2>5 DEF NoPool
<1>5. CASE Queued(call, w)
  <2> DEFINE chans == IF msgque[q].rwait THEN {Qnum(q)} ELSE {}
  <2>1. Apart({p}, msgwait', chans) /\ p \notin DOMAIN msgwait'
    BY <1>1, <1>5, WakeOthers DEF Queued
  <2> PICK m : m = Append(msgque[q].msgs, Sent(call))
    OBVIOUS
  <2> PICK n \in Nat : n = Cardinality(Sent(call).text)
    BY <1>5, WaitFields DEF Queued
  <2>2. /\ msgmap' \subseteq msgmap /\ msgfp' \subseteq msgfp /\ mapwant' = mapwant
        /\ msgque' = [msgque EXCEPT ![q].msgs = Append(@, Sent(call)),
                              ![q].cbytes = @ + Cardinality(Sent(call).text), ![q].rwait = FALSE]
    BY <1>5 DEF Queued, Arrives
  <2>3. msgque' = [msgque EXCEPT ![q] =
          [msgque[q] EXCEPT !.msgs = m, !.cbytes = @ + n, !.rwait = FALSE]]
    BY <1>1, <2>2
  <2>4. \A r \in Queues :
          /\ msgque'[r].alloc = msgque[r].alloc /\ msgque'[r].seq = msgque[r].seq
          /\ msgque'[r].wwait = msgque[r].wwait
          /\ msgque'[r].cbytes \in Nat /\ msgque'[r].cbytes >= msgque[r].cbytes
          /\ r # q => msgque'[r] = msgque[r]
    <3>1. \A r \in Queues \ {q} : msgque'[r] = msgque[r]
      BY <1>1, <2>3
    <3>2. msgque'[q] = [msgque[q] EXCEPT !.msgs = m, !.cbytes = @ + n, !.rwait = FALSE]
      BY <1>1, <2>3
    <3>3. /\ msgque'[q].alloc = msgque[q].alloc /\ msgque'[q].seq = msgque[q].seq
          /\ msgque'[q].wwait = msgque[q].wwait /\ msgque'[q].cbytes = msgque[q].cbytes + n
      BY <1>1, <3>2 DEF Slot
    <3> QED
      BY <1>2, <3>1, <3>3
  <2>5. Steady(chans)
    <3> PICK C : C = chans
      OBVIOUS
    <3>1. mapwant => mapwant' /\ msgmap' \subseteq msgmap /\ msgfp' \subseteq msgfp
      BY <2>2
    <3>2. \A r \in Queues :
            \/ Qnum(r) \in C \/ ~msgque[r].rwait
            \/ msgque'[r] = msgque[r]
      BY <2>4
    <3>3. Steady(C)
      BY <1>1, <1>2, <2>4, <3>1, <3>2, Steadies
    <3> QED
      BY <3>3
  <2> QED
    BY <2>1, <2>5, SleepersStay
<1>6. CASE Faulted(w)
  <2> DEFINE chans == IF mapwant THEN {Pool} ELSE {}
  <2>1. Apart({p}, msgwait', chans) /\ p \notin DOMAIN msgwait'
    BY <1>1, <1>6, WakeOthers DEF Faulted
  <2>2. msgque' = msgque
    BY <1>6 DEF Faulted
  <2>3. Steady(chans)
    BY <1>1, <1>2, <2>2, Steadies
  <2> QED
    BY <2>1, <2>3, SleepersStay
<1> QED
  BY <1>1, <1>3, <1>4, <1>5, <1>6, SendCases

\* What stays when a message leaves was there before.
LEMMA StillNothing ==
  ASSUME Types, NEW q \in Queues, NEW i, Leaves(q, i)
  PROVE  \A t \in Int : findmsg(msgque[q].msgs, t) = 0 => findmsg(msgque'[q].msgs, t) = 0
<1> PICK s : s = msgque[q].msgs
  OBVIOUS
<1>1. msgque[q] \in Slot /\ msgque \in [Queues -> Slot] /\ s \in Seq(Message) /\ i \in DOMAIN s
  BY Fields DEF Types, Leaves, Places
<1>2. msgque'[q].msgs = RemoveAt(s, i)
  BY LeavesFields
<1>3. /\ RemoveAt(s, i) \in Seq(Message) /\ Len(RemoveAt(s, i)) = Len(s) - 1
      /\ \A j \in 1 .. Len(s) - 1 : RemoveAt(s, i)[j] = IF j < i THEN s[j] ELSE s[j + 1]
  BY <1>1, Removed
<1>4. \A j \in DOMAIN RemoveAt(s, i) : \E k \in DOMAIN s : RemoveAt(s, i)[j] = s[k]
  <2> SUFFICES ASSUME NEW j \in DOMAIN RemoveAt(s, i)
               PROVE \E k \in DOMAIN s : RemoveAt(s, i)[j] = s[k]
    OBVIOUS
  <2>1. j \in 1 .. Len(s) - 1 /\ j \in DOMAIN s /\ j + 1 \in DOMAIN s
    BY <1>1, <1>3
  <2> QED
    BY <1>3, <2>1
<1>5. ASSUME NEW t \in Int, findmsg(s, t) = 0 PROVE findmsg(RemoveAt(s, i), t) = 0
  <2>1. \A k \in DOMAIN s : ~Suits(s[k], t)
    <3>1. 0 \notin DOMAIN s
      BY <1>1
    <3> QED
      BY <1>1, <1>5, <3>1, Found
  <2>2. \A j \in DOMAIN RemoveAt(s, i) : ~Suits(RemoveAt(s, i)[j], t)
    BY <1>4, <2>1
  <2> QED
    BY <1>3, <2>2, Found
<1> QED
  BY <1>2, <1>5

\* A step of msgrcv.
LEMMA ReceiveSleeps ==
  ASSUME MsgInv, MsgInv', SleepInv, Sized, NEW p, NEW call \in Waits, call.op = "rcv",
         msgconv(call.id), NEW w, Waiting(w), Others(p, w), p \notin DOMAIN w,
         ReceiveTry(p, call, w)
  PROVE  SleepInv'
<1>0. \A d : Others(p, sleep(w, p, d)) /\ sleep(w, p, d)[p] = d
  BY SleepOthers
<1> PICK q \in Queues : q = call.id[1]
  BY WaitFields
<1> PICK i : i = findmsg(msgque[q].msgs, call.msgtyp)
  OBVIOUS
<1>1. Types /\ msgque[q] \in Slot /\ msgque \in [Queues -> Slot]
  BY Fields DEF MsgInv, Types
<1>2. \A r \in Queues : msgque[r] \in Slot /\ msgque[r].cbytes \in Nat
  BY <1>1, Fields
<1>3. CASE Taken(q, i, w)
  <2> PICK M : M = {msgque[q].msgs[i]}
    OBVIOUS
  <2>1. Leaves(q, i) /\ Freed(q, M, w) /\ M \in SUBSET InUse(q) /\ M # {}
    BY <1>3 DEF Taken, Leaves, InUse, ToSet, Places
  <2>2. /\ msgmap' = msgmap \cup UNION {m.text : m \in M}
        /\ msgfp' = msgfp \cup {m.h : m \in M}
    <3>1. UNION {m.text : m \in M} = Text(q, i) /\ {m.h : m \in M} = {Header(q, i)}
      BY DEF Text, Header
    <3> QED
      BY <2>1, <3>1 DEF Leaves
  <2>3. Apart({p}, w, {})
    BY OthersApart
  <2>4. PICK more : /\ Apart({p}, msgwait', {} \cup more)
                    /\ \/ Pool \in more \/ ~mapwant
                       \/ mapwant' /\ msgmap' \subseteq msgmap /\ msgfp' \subseteq msgfp
                    /\ Room(q) \in more \/ ~msgque[q].wwait \/ M = {}
    BY <2>1, <2>2, <2>3, FreedSteady
  <2>5. \A r \in Queues :
          /\ msgque'[r].alloc = msgque[r].alloc /\ msgque'[r].seq = msgque[r].seq
          /\ msgque'[r].rwait = msgque[r].rwait
          /\ r # q => msgque'[r] = msgque[r]
    BY <1>1, <2>1, LeavesFields
  <2>6. \A t \in Int : findmsg(msgque[q].msgs, t) = 0 => findmsg(msgque'[q].msgs, t) = 0
    BY <1>1, <2>1, StillNothing
  <2>7. Steady(more)
    <3>1. /\ Room(q) \in more \/ ~msgque[q].wwait
          /\ Qnum(q) \in more \/ ~msgque[q].rwait \/ msgque'[q].rwait
          /\ msgque'[q].alloc = msgque[q].alloc /\ msgque'[q].seq = msgque[q].seq
      BY <2>1, <2>4, <2>5
    <3>2. \A r \in Queues \ {q} : msgque'[r] = msgque[r]
      BY <2>5
    <3>3. \A r \in Queues \ {q} :
            /\ msgque'[r].alloc = msgque[r].alloc /\ msgque'[r].seq = msgque[r].seq
            /\ ~msgque[r].wwait \/ (msgque'[r].wwait /\ msgque'[r].cbytes \in Nat
                                    /\ msgque'[r].cbytes >= msgque[r].cbytes)
            /\ msgque'[r].rwait = msgque[r].rwait /\ msgque'[r].msgs = msgque[r].msgs
      BY <1>2, <3>2
    <3>4. \A r \in Queues :
            /\ msgque'[r].alloc = msgque[r].alloc /\ msgque'[r].seq = msgque[r].seq
            /\ \/ Room(r) \in more \/ ~msgque[r].wwait
               \/ /\ msgque'[r].wwait /\ msgque'[r].cbytes \in Nat
                  /\ msgque'[r].cbytes >= msgque[r].cbytes
            /\ \/ Qnum(r) \in more \/ ~msgque[r].rwait
               \/ /\ msgque'[r].rwait
                  /\ \A t \in Int : findmsg(msgque[r].msgs, t) = 0 => findmsg(msgque'[r].msgs, t) = 0
      BY <2>6, <3>1, <3>3
    <3>5. \/ Pool \in more \/ ~mapwant
          \/ mapwant' /\ msgmap' \subseteq msgmap /\ msgfp' \subseteq msgfp
      BY <2>4
    <3> QED
      BY <1>1, <3>4, <3>5, Steadies
  <2>8. p \notin DOMAIN msgwait' /\ Apart({p}, msgwait', more)
    BY <2>1, <2>4 DEF Freed, wakeup, Apart
  <2> QED
    BY <2>7, <2>8, SleepersStay
<1>4. CASE /\ msgwait' = w /\ msgque' = msgque /\ msgmap' = msgmap /\ msgfp' = msgfp
           /\ mapwant' = mapwant
  <2>1. Steady({})
    BY <1>1, <1>2, <1>4, Steadies
  <2> QED
    BY <1>4, <2>1, OthersStay
<1>5. CASE /\ i = 0 /\ msgque' = [msgque EXCEPT ![q].rwait = TRUE]
           /\ msgwait' = MsgSleep(p, call, Qnum(q), w)
           /\ msgmap' = msgmap /\ msgfp' = msgfp /\ mapwant' = mapwant
  <2>1. \A r \in Queues : /\ msgque'[r].alloc = msgque[r].alloc /\ msgque'[r].seq = msgque[r].seq
                          /\ msgque'[r].cbytes = msgque[r].cbytes /\ msgque'[r].msgs = msgque[r].msgs
                          /\ msgque'[r].wwait = msgque[r].wwait
                          /\ msgque[r].rwait => msgque'[r].rwait
    <3>1. \A r \in Queues \ {q} : msgque'[r] = msgque[r]
      BY <1>1, <1>5
    <3>2. msgque'[q] = [msgque[q] EXCEPT !.rwait = TRUE]
      BY <1>1, <1>5
    <3>3. /\ msgque'[q].alloc = msgque[q].alloc /\ msgque'[q].seq = msgque[q].seq
          /\ msgque'[q].cbytes = msgque[q].cbytes /\ msgque'[q].msgs = msgque[q].msgs
          /\ msgque'[q].wwait = msgque[q].wwait /\ msgque'[q].rwait
      BY <1>1, <3>2 DEF Slot
    <3> QED
      BY <3>1, <3>3
  <2>2. Steady({})
    BY <1>1, <1>2, <1>5, <2>1, Steadies
  <2> PICK d : d = SleepOn(call, Qnum(q))
    OBVIOUS
  <2>3. d \in Waits /\ d.chan = Qnum(q) /\ d.id = call.id /\ d.op = "rcv" /\ d.msgtyp = call.msgtyp
    BY SleepCall
  <2>4. msgwait' = sleep(w, p, d)
    BY <1>5, SleepingCall
  <2>5. Others(p, msgwait') /\ msgwait'[p] = d
    BY <1>0, <2>4
  <2>6. msgque'[q].rwait
    BY <1>1, <1>5 DEF Slot
  <2>7. msgconv(d.id)' /\ findmsg(msgque'[q].msgs, d.msgtyp) = 0
    <3>1. msgque'[q].alloc = msgque[q].alloc /\ MsgId(q)' = MsgId(q)
      BY <2>1 DEF MsgId
    <3>2. msgque[q].alloc /\ d.id = MsgId(q)
      BY <2>3 DEF msgconv
    <3>3. msgconv(d.id)'
      BY <2>3, <3>1, <3>2 DEF msgconv
    <3>4. findmsg(msgque'[q].msgs, d.msgtyp) = 0
      BY <1>5, <2>1, <2>3
    <3> QED
      BY <3>3, <3>4
  <2>8. Blocked(d)'
    BY <2>3, <2>6, <2>7, Addresses DEF Blocked
  <2>9. Blocked(msgwait[p])'
    BY <2>5, <2>8 DEF Blocked, msgconv
  <2> QED
    BY <2>2, <2>5, <2>9, OthersStay
<1> QED
  BY <1>1, <1>3, <1>4, <1>5, ReceiveCases

\* A queue removed wakes whoever waits for it.
LEMMA RemoveSleeps ==
  ASSUME MsgInv, MsgInv', SleepInv, Sized, NEW q \in Queues, MsgRemove(MsgId(q))
  PROVE  SleepInv'
<1> PICK first : first = (IF msgque[q].rwait THEN {Qnum(q)} ELSE {})
                         \cup (IF msgque[q].wwait THEN {Room(q)} ELSE {})
  OBVIOUS
<1> PICK M : M = InUse(q)
  OBVIOUS
<1> PICK w : w = wakeup(msgwait, first)
  OBVIOUS
<1>1. Types /\ \A r \in Queues : msgque[r].cbytes \in Nat
  BY Fields DEF MsgInv
<1>2. Empties(q) /\ Freed(q, M, w)
  BY <1>1, RemoveCases
<1>3. Apart({}, w, {} \cup first)
  BY <1>1, UnsleepOthers, WakeupApart
<1>4. /\ msgmap' = msgmap \cup UNION {m.text : m \in M}
      /\ msgfp' = msgfp \cup {m.h : m \in M}
  <2>1. {m.h : m \in InUse(q)} = {Header(q, i) : i \in Places(q)}
    BY DEF InUse, ToSet, Header, Places
  <2> QED
    BY <1>2, <2>1 DEF Empties, Segments
<1>5. PICK more : /\ Apart({}, msgwait', ({} \cup first) \cup more)
                  /\ \/ Pool \in more \/ ~mapwant
                     \/ mapwant' /\ msgmap' \subseteq msgmap /\ msgfp' \subseteq msgfp
  BY <1>2, <1>3, <1>4, FreedSteady
<1>6. \A r \in Queues \ {q} : msgque'[r] = msgque[r]
  BY <1>1, <1>2 DEF Empties, Types
<1> PICK chans : chans = ({} \cup first) \cup more
  OBVIOUS
<1>7. Apart({}, msgwait', chans)
  BY <1>5
<1>8. /\ Room(q) \in chans \/ ~msgque[q].wwait
      /\ Qnum(q) \in chans \/ ~msgque[q].rwait
      /\ \/ Pool \in chans \/ ~mapwant
         \/ mapwant' /\ msgmap' \subseteq msgmap /\ msgfp' \subseteq msgfp
  BY <1>5
<1>9. Steady(chans)
  BY <1>1, <1>6, <1>8, Steadies
<1> QED
  BY <1>7, <1>9, SleepersStay
-----------------------------------------------------------------------------
\* Messages have text, and nothing gets lost.

LEMMA WokenCall ==
  ASSUME NEW c \in Waits
  PROVE  /\ [c EXCEPT !.chan = Run].op = c.op
         /\ c.op = "snd" => [c EXCEPT !.chan = Run].size = c.size
BY WaitFields DEF Calls, Sends, Receives

\* The calls that wait keep what they send.
LEMMA WokenSizes ==
  ASSUME NEW w, Waiting(w), Sizes(w), NEW chans
  PROVE  Sizes(wakeup(w, chans))
<1> SUFFICES ASSUME NEW p \in DOMAIN w, wakeup(w, chans)[p].op = "snd"
             PROVE wakeup(w, chans)[p].size > 0
  BY DEF Sizes, wakeup
<1> PICK c \in Waits : c = w[p]
  BY DEF Waiting
<1>1. wakeup(w, chans)[p] = IF c.chan \in chans THEN [c EXCEPT !.chan = Run] ELSE c
  BY DEF wakeup
<1>2. c.op = "snd" => c.size > 0
  BY DEF Sizes
<1> QED
  BY <1>1, <1>2, WokenCall

LEMMA UnsleepSizes ==
  ASSUME NEW w, Sizes(w), NEW p
  PROVE  Sizes(unsleep(w, p))
BY DEF Sizes, unsleep, Drop

LEMMA SleepSizes ==
  ASSUME NEW w, Sizes(w), NEW p, NEW c \in Waits, NEW a,
         \/ c.op = "snd" /\ c.size > 0 /\ a \in {Pool, Room(c.id[1])}
         \/ c.op = "rcv" /\ a = Qnum(c.id[1])
  PROVE  Sizes(MsgSleep(p, c, a, w))
<1> PICK d : d = SleepOn(c, a)
  OBVIOUS
<1>1. d.op = "snd" => d.size > 0
  BY SleepCall
<1>2. Sizes(sleep(w, p, d))
  BY <1>1 DEF Sizes, sleep, Put
<1> QED
  BY <1>2, SleepingCall

\* The space that malloc finds is only lost when there is some and no header.
LEMMA SendSized ==
  ASSUME MsgInv, Sized, NEW p, NEW call \in Waits, call.op = "snd", call.size > 0,
         NEW w, Waiting(w), Sizes(w), SendTry(p, call, w)
  PROVE  Sized' /\ (msgfp # {} \/ msgmap = {} => Kept)
<1> PICK q \in Queues : q = call.id[1]
  BY WaitFields
<1>1. Types /\ msgque \in [Queues -> Slot] /\ Texts
  BY DEF MsgInv, Types, Sized
<1>2. CASE NoRoom(p, call, w)
  <2>1. \A r \in Queues : msgque'[r].msgs = msgque[r].msgs
    BY <1>1, <1>2, FlagSlots DEF NoRoom
  <2>2. Sizes(msgwait')
    BY <1>2, SleepSizes DEF NoRoom
  <2>3. msgmap' = msgmap /\ msgfp' = msgfp
    BY <1>2 DEF NoRoom
  <2>4. Texts' /\ Kept
    BY <1>1, <2>1, <2>3, QuietKept
  <2> QED
    BY <2>2, <2>4 DEF Sized, Sizes
<1>3. CASE NoPool(p, call, w)
  <2>1. msgque' = msgque /\ msgfp' = msgfp
    BY <1>3 DEF NoPool
  <2>2. Sizes(msgwait')
    BY <1>3, SleepSizes DEF NoPool
  <2>3. msgfp # {} \/ msgmap = {} => msgmap' = msgmap
    <3>1. Fits(call.size) \subseteq msgmap
      BY DEF Fits
    <3> QED
      BY <1>3, <3>1 DEF NoPool
  <2>4. Texts' /\ (msgmap' = msgmap => Kept)
    BY <1>1, <2>1, QuietKept
  <2> QED
    BY <2>2, <2>3, <2>4 DEF Sized, Sizes
<1>4. CASE Queued(call, w)
  <2>1. Sent(call).text # {}
    <3>1. Cardinality(Sent(call).text) = call.size
      BY <1>4 DEF Queued
    <3>2. call.size # 0
      BY WaitFields
    <3> QED
      BY <3>1, <3>2, FS_EmptySet
  <2>2. Texts' /\ Kept
    BY <1>1, <1>4, <2>1, ArrivesApart DEF Queued
  <2>3. Sizes(msgwait')
    BY <1>4, WokenSizes DEF Queued
  <2> QED
    BY <2>2, <2>3 DEF Sized, Sizes
<1>5. CASE Faulted(w)
  <2>1. Sizes(msgwait')
    BY <1>5, WokenSizes DEF Faulted
  <2>2. msgque' = msgque /\ msgmap' = msgmap /\ msgfp' = msgfp
    BY <1>5 DEF Faulted
  <2>3. Texts' /\ Kept
    BY <1>1, <2>2, QuietKept
  <2> QED
    BY <2>1, <2>3 DEF Sized, Sizes
<1> QED
  BY <1>1, <1>2, <1>3, <1>4, <1>5, SendCases

LEMMA ReceiveSized ==
  ASSUME MsgInv, Sized, NEW p, NEW call \in Waits, call.op = "rcv",
         NEW w, Waiting(w), Sizes(w), ReceiveTry(p, call, w)
  PROVE  Sized' /\ Kept
<1> PICK q \in Queues : q = call.id[1]
  BY WaitFields
<1> PICK i : i = findmsg(msgque[q].msgs, call.msgtyp)
  OBVIOUS
<1>1. Types /\ msgque \in [Queues -> Slot] /\ Texts
  BY DEF MsgInv, Types, Sized
<1>2. CASE Taken(q, i, w)
  <2>1. Texts' /\ Kept
    BY <1>1, <1>2, LeavesApart DEF Taken
  <2>2. Sizes(msgwait')
    BY <1>2, WokenSizes DEF Taken, Freed
  <2> QED
    BY <2>1, <2>2 DEF Sized, Sizes
<1>3. CASE /\ msgwait' = w /\ msgque' = msgque /\ msgmap' = msgmap /\ msgfp' = msgfp
           /\ mapwant' = mapwant
  <2>1. Texts' /\ Kept
    BY <1>1, <1>3, QuietKept
  <2> QED
    BY <1>3, <2>1 DEF Sized, Sizes
<1>4. CASE /\ msgque' = [msgque EXCEPT ![q].rwait = TRUE]
           /\ msgwait' = MsgSleep(p, call, Qnum(q), w)
           /\ msgmap' = msgmap /\ msgfp' = msgfp /\ mapwant' = mapwant
  <2>1. \A r \in Queues : msgque'[r].msgs = msgque[r].msgs
    BY <1>1, <1>4, FlagSlots
  <2>2. Sizes(msgwait')
    BY <1>4, SleepSizes
  <2>3. Texts' /\ Kept
    BY <1>1, <1>4, <2>1, QuietKept
  <2> QED
    BY <2>2, <2>3 DEF Sized, Sizes
<1> QED
  BY <1>1, <1>2, <1>3, <1>4, ReceiveCases

\* A step keeps what there is, unless there is space and no header to go with it.
LEMMA SizedStep ==
  ASSUME NoEmptyMessage, MsgInv, Sized, [MsgNext]_msgVars
  PROVE  Sized' /\ (msgfp # {} \/ msgmap = {} => Kept)
<1> DEFINE Good == Sized' /\ (msgfp # {} \/ msgmap = {} => Kept)
<1>0. Types /\ Waiting(msgwait) /\ Sizes(msgwait) /\ Texts /\ msgque \in [Queues -> Slot]
  BY DEF MsgInv, Types, Waiting, Sized
<1>1. ASSUME msgmap' = msgmap, msgfp' = msgfp, Sizes(msgwait'), NEW q \in Queues,
             \/ msgque' = msgque
             \/ msgque' = [msgque EXCEPT ![q].wwait = FALSE]
             \/ msgque' = [msgque EXCEPT ![q].alloc = TRUE]
      PROVE  Good
  <2>1. \A r \in Queues : msgque'[r].msgs = msgque[r].msgs
    BY <1>0, <1>1, FlagSlots
  <2>2. Texts' /\ Kept
    BY <1>0, <1>1, <2>1, QuietKept
  <2> QED
    BY <1>1, <2>2 DEF Sized, Sizes
<1>2. ASSUME msgmap' = msgmap, msgfp' = msgfp, Sizes(msgwait'), msgque' = msgque
      PROVE  Good
  <2>2. Texts' /\ Kept
    BY <1>0, <1>2, QuietKept
  <2> QED
    BY <1>2, <2>2 DEF Sized, Sizes
<1>3. ASSUME NEW q \in Queues, MsgGet(q) PROVE Good
  <2>1. /\ msgque' = [msgque EXCEPT ![q].alloc = TRUE]
        /\ msgmap' = msgmap /\ msgfp' = msgfp /\ msgwait' = msgwait
    BY <1>3 DEF MsgGet
  <2> QED
    BY <1>0, <1>1, <2>1
<1>4. ASSUME NEW q \in Queues, MsgRemove(MsgId(q)) PROVE Good
  <2>1. Texts' /\ Kept
    BY <1>0, <1>4, RemoveCases, EmptiesApart
  <2> PICK w : w = wakeup(msgwait, (IF msgque[q].rwait THEN {Qnum(q)} ELSE {})
                                   \cup (IF msgque[q].wwait THEN {Room(q)} ELSE {}))
    OBVIOUS
  <2>2. Freed(q, InUse(q), w)
    BY <1>0, <1>4, RemoveCases
  <2>3. Waiting(w) /\ Sizes(w)
    BY <1>0, WokenKept, WokenSizes
  <2>4. Sizes(msgwait')
    BY <2>2, <2>3, WokenSizes DEF Freed
  <2> QED
    BY <2>1, <2>4 DEF Sized, Sizes
<1>5. ASSUME NEW p \in Procs, NEW q \in Queues, NEW k \in MsgKinds, MsgSend(p, MsgId(q), k[1], k[2])
      PROVE  Good
  <2> DEFINE c == [op |-> "snd", chan |-> Run, on |-> Run, id |-> MsgId(q), type |-> k[1],
                   size |-> k[2]]
  <2>1. c \in Waits /\ c.op = "snd" /\ c.size > 0
    BY <1>0, NewCalls DEF NoEmptyMessage
  <2>2. SendTry(p, c, msgwait)
    BY <1>5 DEF MsgSend
  <2> HIDE DEF c
  <2> QED
    BY <1>0, <2>1, <2>2, SendSized
<1>6. ASSUME NEW p \in Procs, NEW q \in Queues, NEW msgtyp \in Wanted, MsgReceive(p, MsgId(q), msgtyp)
      PROVE  Good
  <2> DEFINE c == [op |-> "rcv", chan |-> Run, on |-> Run, id |-> MsgId(q), msgtyp |-> msgtyp]
  <2>1. c \in Waits /\ c.op = "rcv"
    BY <1>0, NewCalls
  <2>2. ReceiveTry(p, c, msgwait)
    BY <1>6 DEF MsgReceive
  <2> HIDE DEF c
  <2> QED
    BY <1>0, <2>1, <2>2, ReceiveSized
<1>7. ASSUME NEW p \in Procs, MsgResume(p) PROVE Good
  <2> PICK call : call = msgwait[p]
    OBVIOUS
  <2> PICK w : w = unsleep(msgwait, p)
    OBVIOUS
  <2>1. /\ p \in DOMAIN msgwait /\ call \in Waits /\ Waiting(w)
        /\ \/ /\ msgwait' = w /\ msgque' = msgque /\ msgmap' = msgmap /\ msgfp' = msgfp
              /\ mapwant' = mapwant
           \/ call.op = "snd" /\ SendTry(p, call, w)
           \/ call.op = "rcv" /\ ReceiveTry(p, call, w)
    BY <1>0, <1>7, ResumeCases
  <2>2. Sizes(w) /\ (call.op = "snd" => call.size > 0)
    BY <1>0, <2>1, UnsleepSizes DEF Sizes
  <2> QED
    BY <1>2, <2>1, <2>2, SendSized, ReceiveSized
<1>8. ASSUME NEW p \in Procs, MsgInterrupt(p) PROVE Good
  <2> PICK w : w = unsleep(msgwait, p)
    OBVIOUS
  <2>1. /\ msgmap' = msgmap /\ msgfp' = msgfp /\ Waiting(w)
        /\ \/ msgque' = msgque /\ msgwait' = w
           \/ \E q \in Queues : /\ msgque' = [msgque EXCEPT ![q].wwait = FALSE]
                                /\ msgwait' = wakeup(w, {Room(q)})
    BY <1>0, <1>8, InterruptCases
  <2>2. Sizes(w)
    BY <1>0, UnsleepSizes
  <2>3. \A q \in Queues : Sizes(wakeup(w, {Room(q)}))
    BY <2>1, <2>2, WokenSizes
  <2>4. CASE msgque' = msgque /\ msgwait' = w
    BY <1>2, <2>1, <2>2, <2>4
  <2>5. CASE \E q \in Queues : /\ msgque' = [msgque EXCEPT ![q].wwait = FALSE]
                               /\ msgwait' = wakeup(w, {Room(q)})
    BY <1>1, <2>1, <2>3, <2>5
  <2> QED
    BY <2>1, <2>4, <2>5
<1>9. CASE UNCHANGED msgVars
  BY <1>0, <1>2, <1>9 DEF msgVars
<1> QED
  BY <1>3, <1>4, <1>5, <1>6, <1>7, <1>8, <1>9 DEF MsgNext
-----------------------------------------------------------------------------
\* The sleepers of every step.
LEMMA SleepInvStep ==
  ASSUME MsgInv, MsgInv', Sized, SleepInv, [MsgNext]_msgVars
  PROVE  SleepInv'
<1>0. /\ Types /\ Waiting(msgwait) /\ msgque \in [Queues -> Slot]
      /\ \A q \in Queues : msgque[q] \in Slot /\ msgque[q].cbytes \in Nat
  BY Fields DEF MsgInv, Types, Waiting
<1>1. ASSUME NEW q \in Queues, MsgGet(q) PROVE SleepInv'
  <2>1. /\ ~msgque[q].alloc /\ \A r \in Queues \ {q} : msgque'[r] = msgque[r]
        /\ msgmap' = msgmap /\ msgfp' = msgfp /\ mapwant' = mapwant /\ msgwait' = msgwait
    BY <1>0, <1>1 DEF MsgGet
  <2>2. Steady({})
    BY <1>0, <2>1, Steadies
  <2>3. Apart({}, msgwait, {})
    BY UnsleepOthers
  <2>4. Apart({}, msgwait', {})
    BY <2>1, <2>3
  <2> QED
    BY <2>2, <2>4, SleepersStay
<1>2. ASSUME NEW q \in Queues, MsgRemove(MsgId(q)) PROVE SleepInv'
  BY <1>2, RemoveSleeps
<1>3. ASSUME NEW p \in Procs, NEW q \in Queues, NEW k \in MsgKinds, MsgSend(p, MsgId(q), k[1], k[2])
      PROVE  SleepInv'
  <2> DEFINE c == [op |-> "snd", chan |-> Run, on |-> Run, id |-> MsgId(q), type |-> k[1],
                   size |-> k[2]]
  <2>1. c \in Waits /\ c.op = "snd" /\ c.id = MsgId(q)
    BY <1>0, NewCalls
  <2>2. SendTry(p, c, msgwait) /\ msgconv(c.id) /\ p \notin DOMAIN msgwait
    BY <1>3 DEF MsgSend
  <2> HIDE DEF c
  <2>3. Others(p, msgwait)
    BY UnsleepOthers
  <2> QED
    BY <1>0, <2>1, <2>2, <2>3, SendSleeps
<1>4. ASSUME NEW p \in Procs, NEW q \in Queues, NEW msgtyp \in Wanted, MsgReceive(p, MsgId(q), msgtyp)
      PROVE  SleepInv'
  <2> DEFINE c == [op |-> "rcv", chan |-> Run, on |-> Run, id |-> MsgId(q), msgtyp |-> msgtyp]
  <2>1. c \in Waits /\ c.op = "rcv" /\ c.id = MsgId(q)
    BY <1>0, NewCalls
  <2>2. ReceiveTry(p, c, msgwait) /\ msgconv(c.id) /\ p \notin DOMAIN msgwait
    BY <1>4 DEF MsgReceive
  <2> HIDE DEF c
  <2>3. Others(p, msgwait)
    BY UnsleepOthers
  <2> QED
    BY <1>0, <2>1, <2>2, <2>3, ReceiveSleeps
<1>5. ASSUME NEW p \in Procs, MsgResume(p) PROVE SleepInv'
  <2> PICK call : call = msgwait[p]
    OBVIOUS
  <2> PICK w : w = unsleep(msgwait, p)
    OBVIOUS
  <2>1. /\ call \in Waits /\ Waiting(w)
        /\ \/ /\ msgwait' = w /\ msgque' = msgque /\ msgmap' = msgmap /\ msgfp' = msgfp
              /\ mapwant' = mapwant
           \/ msgconv(call.id) /\ call.op = "snd" /\ SendTry(p, call, w)
           \/ msgconv(call.id) /\ call.op = "rcv" /\ ReceiveTry(p, call, w)
    BY <1>0, <1>5, ResumeCases
  <2>2. Others(p, w) /\ p \notin DOMAIN w
    BY UnsleepOthers
  <2>3. CASE /\ msgwait' = w /\ msgque' = msgque /\ msgmap' = msgmap /\ msgfp' = msgfp
             /\ mapwant' = mapwant
    <3>1. Steady({})
      BY <1>0, <2>3, Steadies
    <3> QED
      BY <2>2, <2>3, <3>1, OthersStay
  <2> QED
    BY <2>1, <2>2, <2>3, SendSleeps, ReceiveSleeps
<1>6. ASSUME NEW p \in Procs, MsgInterrupt(p) PROVE SleepInv'
  <2> PICK w : w = unsleep(msgwait, p)
    OBVIOUS
  <2>1. /\ msgmap' = msgmap /\ msgfp' = msgfp /\ mapwant' = mapwant
        /\ \/ msgque' = msgque /\ msgwait' = w
           \/ \E q \in Queues : /\ msgque' = [msgque EXCEPT ![q].wwait = FALSE]
                                /\ msgwait' = wakeup(w, {Room(q)})
    BY <1>0, <1>6, InterruptCases
  <2>2. Others(p, w) /\ p \notin DOMAIN w
    BY UnsleepOthers
  <2>3. CASE msgque' = msgque /\ msgwait' = w
    <3>1. Steady({})
      BY <1>0, <2>1, <2>3, Steadies
    <3> QED
      BY <2>2, <2>3, <3>1, OthersStay
  <2>4. ASSUME NEW q \in Queues, msgque' = [msgque EXCEPT ![q].wwait = FALSE],
               msgwait' = wakeup(w, {Room(q)})
        PROVE  SleepInv'
    <3> PICK chans : chans = {Room(q)}
      OBVIOUS
    <3>1. Apart({p}, msgwait', chans) /\ p \notin DOMAIN msgwait'
      BY <1>0, <2>2, <2>4, WakeOthers
    <3>2. /\ \A r \in Queues \ {q} : msgque'[r] = msgque[r]
          /\ msgque'[q].alloc = msgque[q].alloc /\ msgque'[q].seq = msgque[q].seq
          /\ msgque'[q].rwait = msgque[q].rwait /\ msgque'[q].msgs = msgque[q].msgs
      BY <1>0, <2>4 DEF Slot
    <3>3. Steady(chans)
      BY <1>0, <2>1, <3>2, Steadies
    <3> QED
      BY <3>1, <3>3, SleepersStay
  <2> QED
    BY <2>1, <2>3, <2>4
<1>7. CASE UNCHANGED msgVars
  <2>1. msgque' = msgque /\ msgmap' = msgmap /\ msgfp' = msgfp /\ mapwant' = mapwant
        /\ msgwait' = msgwait
    BY <1>7 DEF msgVars
  <2>2. Steady({})
    BY <1>0, <2>1, Steadies
  <2>3. Apart({}, msgwait, {})
    BY UnsleepOthers
  <2>4. Apart({}, msgwait', {})
    BY <2>1, <2>3
  <2> QED
    BY <2>2, <2>4, SleepersStay
<1> QED
  BY <1>1, <1>2, <1>3, <1>4, <1>5, <1>6, <1>7 DEF MsgNext

\* A sleeper that is blocked could not go on.
LEMMA BlockedSleepers == MsgInv /\ SleepInv => MsgSleeperBlocked
<1> SUFFICES ASSUME MsgInv, SleepInv, NEW p \in Asleep(msgwait), NEW c, c = msgwait[p]
             PROVE  IF c.op = "snd" THEN ~CanSend(c) /\ (c.chan # Pool => msgconv(c.id))
                    ELSE msgconv(c.id) /\ findmsg(msgque[c.id[1]].msgs, c.msgtyp) = 0
  BY DEF MsgSleeperBlocked
<1>1. c \in Waits /\ c.chan # Run /\ Blocked(c)
  BY DEF MsgInv, Types, SleepInv, Asleep
<1>2. CASE c.op = "snd"
  <2>1. c.size \in Nat /\ c.id[1] \in Queues
    BY <1>1, <1>2, WaitFields
  <2>2. msgque[c.id[1]].cbytes \in Nat
    BY <2>1, Fields DEF MsgInv
  <2>3. ~CanSend(c)
    BY <1>1, <1>2, <2>1, <2>2, MsgAssumption DEF Blocked, CanSend
  <2> QED
    BY <1>1, <1>2, <2>3 DEF Blocked
<1>3. CASE c.op # "snd"
  <2>1. c.chan # Pool
    BY <1>1, <1>3, WaitFields, Addresses
  <2> QED
    BY <1>1, <1>3, <2>1 DEF Blocked
<1> QED
  BY <1>2, <1>3

LEMMA SizedInit == MsgInit => Sized /\ SleepInv
<1> SUFFICES ASSUME MsgInit PROVE Sized /\ SleepInv
  OBVIOUS
<1>1. DOMAIN msgwait = {} /\ \A q \in Queues : Places(q) = {}
  BY DEF MsgInit, Places
<1> QED
  BY <1>1 DEF Sized, Texts, Sizes, SleepInv, Asleep

\* No process sleeps in msgsnd or msgrcv while its call could go on, and none for
\* a queue that was removed: whoever makes room, frees space, sends or removes
\* wakes it, through the flags MSG_RWAIT, MSG_WWAIT and that of the pool.
THEOREM NobodyWaitsInVain ==
  ASSUME NoEmptyMessage
  PROVE  MsgSpec => []MsgSleeperBlocked
<1>1. MsgInit => MsgInv /\ Sized /\ SleepInv
  BY MsgInvInit, SizedInit
<1>2. MsgInv /\ Sized /\ SleepInv /\ [MsgNext]_msgVars => (MsgInv /\ Sized /\ SleepInv)'
  <2> SUFFICES ASSUME MsgInv, Sized, SleepInv, [MsgNext]_msgVars
               PROVE  MsgInv' /\ Sized' /\ SleepInv'
    OBVIOUS
  <2>1. MsgInv'
    BY MsgInvStep
  <2>2. Sized'
    BY SizedStep
  <2> QED
    BY <2>1, <2>2, SleepInvStep
<1>3. MsgInv /\ Sized /\ SleepInv => MsgSleeperBlocked
  BY BlockedSleepers
<1> QED
  BY <1>1, <1>2, <1>3, PTL DEF MsgSpec
-----------------------------------------------------------------------------
\* Nothing is lost, where there is a header for every segment.

Whole ==
  /\ \A x \in 1 .. msgseg : HasSegment(x)
  /\ \A h \in 1 .. msgtql : HasHeader(h)

\* When every header is taken by a message with a text, no segment is free.
LEMMA NoSpaceEither ==
  ASSUME MsgInv, Texts, Whole, msgtql >= msgseg, msgfp = {}
  PROVE  msgmap = {}
<1> SUFFICES ASSUME NEW free \in msgmap PROVE FALSE
  OBVIOUS
<1>1. Types /\ Apartness /\ free \in 1 .. msgseg
  BY DEF MsgInv, Types
<1> DEFINE S == 1 .. msgtql
           T == (1 .. msgseg) \ {free}
           Of(h, x) == \E q \in Queues : \E i \in Places(q) : h = Header(q, i) /\ x \in Text(q, i)
           f == [h \in S |-> CHOOSE x \in T : Of(h, x)]
<1>2. ASSUME NEW h \in S PROVE \E x \in T : Of(h, x)
  <2>1. PICK q \in Queues : \E i \in Places(q) : h = Header(q, i)
    BY DEF Whole, HasHeader
  <2>2. PICK i \in Places(q) : h = Header(q, i)
    BY <2>1
  <2>3. PICK x : x \in Text(q, i)
    BY <2>2 DEF Texts
  <2>4. x \in 1 .. msgseg
    BY <1>1, <2>3, Fields
  <2>5. x # free
    BY <1>1, <2>3 DEF Apartness
  <2>6. x \in T /\ Of(h, x)
    BY <2>2, <2>3, <2>4, <2>5
  <2> QED
    BY <2>6
<1>3. \A h \in S : f[h] \in T /\ Of(h, f[h])
  BY <1>2
<1>4. ASSUME NEW g \in S, NEW h \in S, NEW x, Of(g, x), Of(h, x) PROVE g = h
  <2>1. PICK q \in Queues : \E i \in Places(q) : g = Header(q, i) /\ x \in Text(q, i)
    BY <1>4
  <2>2. PICK i \in Places(q) : g = Header(q, i) /\ x \in Text(q, i)
    BY <2>1
  <2>3. PICK r \in Queues : \E j \in Places(r) : h = Header(r, j) /\ x \in Text(r, j)
    BY <1>4
  <2>4. PICK j \in Places(r) : h = Header(r, j) /\ x \in Text(r, j)
    BY <2>3
  <2>5. q = r /\ i = j
    BY <1>1, <2>2, <2>4 DEF Apartness
  <2> QED
    BY <2>2, <2>4, <2>5
<1>5. f \in [S -> T]
  BY <1>3
<1>6. IsFiniteSet(S) /\ Cardinality(S) = msgtql
  BY FS_Interval, MsgAssumption
<1>7. IsFiniteSet(1 .. msgseg) /\ Cardinality(1 .. msgseg) = msgseg
  BY FS_Interval, MsgAssumption
<1>8. IsFiniteSet(T) /\ Cardinality(T) = msgseg - 1
  BY <1>1, <1>7, FS_RemoveElement
<1>9. Cardinality(T) < Cardinality(S)
  BY <1>6, <1>8, MsgAssumption
<1> HIDE DEF S, T, Of, f
<1>10. \E g, h \in S : g # h /\ f[g] = f[h]
  BY <1>5, <1>6, <1>8, <1>9, FS_PigeonHole
<1> QED
  BY <1>3, <1>4, <1>10

LEMMA WholeStep ==
  ASSUME NoEmptyMessage, msgtql >= msgseg, MsgInv, Sized, Whole, [MsgNext]_msgVars
  PROVE  Whole'
<1>1. msgfp # {} \/ msgmap = {}
  BY NoSpaceEither DEF Sized
<1>2. Kept
  BY <1>1, SizedStep
<1>3. ASSUME NEW x \in 1 .. msgseg PROVE HasSegment(x)'
  BY <1>2 DEF Kept, Whole
<1>4. ASSUME NEW h \in 1 .. msgtql PROVE HasHeader(h)'
  BY <1>2 DEF Kept, Whole
<1> QED
  BY <1>3, <1>4 DEF Whole

LEMMA WholeSpace == MsgInv /\ Whole => MsgSpace
<1> SUFFICES ASSUME MsgInv, Whole PROVE MsgSpace
  OBVIOUS
<1> DEFINE M == UNION {InUse(q) : q \in Queues}
<1>1. SpaceApart
  BY ApartMessages
<1>2. \A x : (\E m \in M : x \in m.text) <=> \E q \in Queues : \E i \in Places(q) : x \in Text(q, i)
  BY DEF InUse, ToSet, Places, Text
<1>3. \A x \in 1 .. msgseg : x \in msgmap \cup UNION {m.text : m \in M}
  BY <1>2 DEF Whole, HasSegment
<1>4. \A x \in msgmap \cup UNION {m.text : m \in M} : x \in 1 .. msgseg
  <2>1. \A q \in Queues : \A i \in Places(q) : Text(q, i) \subseteq 1 .. msgseg
    BY Fields DEF MsgInv
  <2>2. msgmap \subseteq 1 .. msgseg
    BY DEF MsgInv, Types
  <2> QED
    BY <1>2, <2>1, <2>2
<1>5. msgmap \cup UNION {m.text : m \in M} = 1 .. msgseg
  BY <1>3, <1>4
<1> QED
  BY <1>1, <1>5 DEF SpaceApart, MsgSpace

\* With a header for every segment and no empty messages, no segment gets lost:
\* each is free or in the text of exactly one message, and the counts are right.
THEOREM SpaceAccounted ==
  ASSUME NoEmptyMessage, msgtql >= msgseg
  PROVE  MsgSpec => []MsgSpace
<1>1. MsgInit => MsgInv /\ Sized /\ Whole
  <2>1. MsgInit => Whole
    BY DEF MsgInit, Whole, HasSegment, HasHeader
  <2> QED
    BY <2>1, MsgInvInit, SizedInit
<1>2. MsgInv /\ Sized /\ Whole /\ [MsgNext]_msgVars => (MsgInv /\ Sized /\ Whole)'
  <2> SUFFICES ASSUME MsgInv, Sized, Whole, [MsgNext]_msgVars
               PROVE  MsgInv' /\ Sized' /\ Whole'
    OBVIOUS
  <2>1. MsgInv'
    BY MsgInvStep
  <2>2. Sized'
    BY SizedStep
  <2> QED
    BY <2>1, <2>2, WholeStep
<1>3. MsgInv /\ Whole => MsgSpace
  BY WholeSpace
<1> QED
  BY <1>1, <1>2, <1>3, PTL DEF MsgSpec
-----------------------------------------------------------------------------
\* The order in which messages leave.

InOrder(q) ==
  LET old == msgque[q].msgs  new == msgque'[q].msgs
  IN Len(new) = Len(old) - 1 /\ new # <<>> =>
       \E i \in DOMAIN old : /\ new = RemoveAt(old, i)
                             /\ \A j \in 1 .. i - 1 : old[j].type # old[i].type

LEMMA QuietOrder ==
  ASSUME Types, NEW q \in Queues, msgque'[q].msgs = msgque[q].msgs
  PROVE  InOrder(q)
BY Fields DEF InOrder

LEMMA SendOrder ==
  ASSUME Types, NEW p, NEW call \in Waits, call.op = "snd", NEW w, SendTry(p, call, w),
         NEW q \in Queues
  PROVE  InOrder(q)
<1> PICK r \in Queues : r = call.id[1]
  BY WaitFields
<1>1. msgque \in [Queues -> Slot] /\ msgque[q] \in Slot /\ msgque[q].msgs \in Seq(Message)
  BY Fields DEF Types
<1>2. CASE NoRoom(p, call, w)
  BY <1>2, FlagSlots, QuietOrder DEF NoRoom
<1>3. CASE msgque' = msgque
  BY <1>3, QuietOrder
<1>4. CASE Queued(call, w)
  <2> PICK m \in Message : m = Sent(call)
    BY <1>4 DEF Queued, Arrives
  <2>1. msgque' = [msgque EXCEPT ![r].msgs = Append(@, m), ![r].cbytes = @ + Cardinality(m.text),
                                 ![r].rwait = FALSE]
    BY <1>4 DEF Queued, Arrives
  <2>2. CASE q = r
    <3>1. msgque'[q].msgs = Append(msgque[q].msgs, m)
      BY <1>1, <2>1, <2>2 DEF Slot
    <3>2. Len(msgque'[q].msgs) = Len(msgque[q].msgs) + 1 /\ Len(msgque[q].msgs) \in Nat
      BY <1>1, <3>1
    <3> QED
      BY <3>2 DEF InOrder
  <2>3. CASE q # r
    <3>1. msgque'[q].msgs = msgque[q].msgs
      BY <1>1, <2>1, <2>3
    <3> QED
      BY <3>1, QuietOrder
  <2> QED
    BY <2>2, <2>3
<1> QED
  BY <1>2, <1>3, <1>4, SendCases DEF NoPool, Faulted

LEMMA ReceiveOrder ==
  ASSUME Types, NEW p, NEW call \in Waits, call.op = "rcv", NEW w, ReceiveTry(p, call, w),
         NEW q \in Queues
  PROVE  InOrder(q)
<1> PICK r \in Queues : r = call.id[1]
  BY WaitFields
<1> PICK i : i = findmsg(msgque[r].msgs, call.msgtyp)
  OBVIOUS
<1>1. msgque \in [Queues -> Slot] /\ msgque[r] \in Slot /\ msgque[r].msgs \in Seq(Message)
  BY Fields DEF Types
<1>2. CASE Taken(r, i, w)
  <2>1. /\ i \in DOMAIN msgque[r].msgs
        /\ msgque'[r].msgs = RemoveAt(msgque[r].msgs, i)
        /\ \A x \in Queues \ {r} : msgque'[x] = msgque[x]
    <3>1. Leaves(r, i)
      BY <1>2 DEF Taken
    <3>2. i \in DOMAIN msgque[r].msgs
      BY <3>1 DEF Leaves, Places
    <3> QED
      BY <3>1, <3>2, LeavesFields
  <2>2. CASE q = r
    <3>1. msgque'[q].msgs = RemoveAt(msgque[q].msgs, i)
      BY <2>1, <2>2
    <3>2. i # 0 /\ call.msgtyp \in Int
      BY <1>1, <2>1, WaitFields
    <3>3. \A j \in 1 .. i - 1 : msgque[r].msgs[j].type # msgque[r].msgs[i].type
      BY <1>1, <3>2, Found
    <3> QED
      BY <2>1, <2>2, <3>1, <3>3 DEF InOrder
  <2>3. CASE q # r
    <3>1. msgque'[q].msgs = msgque[q].msgs
      BY <1>1, <2>1, <2>3
    <3> QED
      BY <3>1, QuietOrder
  <2> QED
    BY <2>2, <2>3
<1>3. CASE msgque' = msgque
  BY <1>3, QuietOrder
<1>4. CASE msgque' = [msgque EXCEPT ![r].rwait = TRUE]
  BY <1>4, FlagSlots, QuietOrder
<1> QED
  BY <1>2, <1>3, <1>4, ReceiveCases

LEMMA OrderStep ==
  ASSUME Types, [MsgNext]_msgVars, NEW q \in Queues
  PROVE  InOrder(q)
<1>1. ASSUME NEW r \in Queues, MsgGet(r) PROVE InOrder(q)
  <2>1. msgque' = [msgque EXCEPT ![r].alloc = TRUE]
    BY <1>1 DEF MsgGet
  <2> QED
    BY <2>1, FlagSlots, QuietOrder
<1>2. ASSUME NEW r \in Queues, MsgRemove(MsgId(r)) PROVE InOrder(q)
  <2>1. Empties(r) /\ msgque \in [Queues -> Slot]
    BY <1>2, RemoveCases DEF Types
  <2>2. IF q = r THEN msgque'[q].msgs = <<>> ELSE msgque'[q].msgs = msgque[q].msgs
    BY <2>1 DEF Empties
  <2> QED
    BY <2>2, QuietOrder DEF InOrder
<1>3. ASSUME NEW p \in Procs, NEW r \in Queues, NEW k \in MsgKinds, MsgSend(p, MsgId(r), k[1], k[2])
      PROVE  InOrder(q)
  <2> DEFINE c == [op |-> "snd", chan |-> Run, on |-> Run, id |-> MsgId(r), type |-> k[1],
                   size |-> k[2]]
  <2>1. c \in Waits /\ c.op = "snd"
    BY NewCalls
  <2>2. SendTry(p, c, msgwait)
    BY <1>3 DEF MsgSend
  <2> HIDE DEF c
  <2> QED
    BY <2>1, <2>2, SendOrder
<1>4. ASSUME NEW p \in Procs, NEW r \in Queues, NEW msgtyp \in Wanted, MsgReceive(p, MsgId(r), msgtyp)
      PROVE  InOrder(q)
  <2> DEFINE c == [op |-> "rcv", chan |-> Run, on |-> Run, id |-> MsgId(r), msgtyp |-> msgtyp]
  <2>1. c \in Waits /\ c.op = "rcv"
    BY NewCalls
  <2>2. ReceiveTry(p, c, msgwait)
    BY <1>4 DEF MsgReceive
  <2> HIDE DEF c
  <2> QED
    BY <2>1, <2>2, ReceiveOrder
<1>5. ASSUME NEW p \in Procs, MsgResume(p) PROVE InOrder(q)
  <2> PICK call : call = msgwait[p]
    OBVIOUS
  <2> PICK w : w = unsleep(msgwait, p)
    OBVIOUS
  <2>1. /\ call \in Waits
        /\ \/ msgque' = msgque
           \/ call.op = "snd" /\ SendTry(p, call, w)
           \/ call.op = "rcv" /\ ReceiveTry(p, call, w)
    BY <1>5, ResumeCases
  <2>2. CASE msgque' = msgque
    BY <2>2, QuietOrder
  <2> QED
    BY <2>1, <2>2, SendOrder, ReceiveOrder
<1>6. ASSUME NEW p \in Procs, MsgInterrupt(p) PROVE InOrder(q)
  <2>1. msgque' = msgque \/ \E r \in Queues : msgque' = [msgque EXCEPT ![r].wwait = FALSE]
    BY <1>6, InterruptCases
  <2> QED
    BY <2>1, FlagSlots, QuietOrder
<1>7. CASE UNCHANGED msgVars
  BY <1>7, QuietOrder DEF msgVars
<1> QED
  BY <1>1, <1>2, <1>3, <1>4, <1>5, <1>6, <1>7 DEF MsgNext

\* The message msgrcv takes is the first of its type on the queue, so messages of
\* one type are received in the order they were sent; the rest stays in order.
THEOREM FirstOfItsType == MsgSpec => MsgOrder
<1>1. Types /\ [MsgNext]_msgVars =>
        [\A q \in Queues :
           LET old == msgque[q].msgs  new == msgque'[q].msgs
           IN Len(new) = Len(old) - 1 /\ new # <<>> =>
                \E i \in DOMAIN old : /\ new = RemoveAt(old, i)
                                      /\ \A j \in 1 .. i - 1 : old[j].type # old[i].type]_msgVars
  BY OrderStep DEF InOrder
<1>2. MsgInv => Types
  BY DEF MsgInv
<1> QED
  BY <1>1, <1>2, MsgInvAlways, PTL DEF MsgSpec, MsgOrder
=============================================================================
