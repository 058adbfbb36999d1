--------------------------- MODULE UserLockProofs ---------------------------
(***************************************************************************)
(* Theorems about UserLocks, for any processes, files, records, regions    *)
(* and end of a file: the lists stay in order and share no record, whoever *)
(* sleeps sleeps on a lock in its way, nobody waits in a circle, and what  *)
(* is locked implements LockTable.                                         *)
(***************************************************************************)
EXTENDS UserLocks, FiniteSetTheorems, NaturalsInduction, SequenceTheorems, TLAPS

\* What is on the lists.
Lk == [proc : Procs, start : Nat, end : Nat, rec : Records]

\* Lock x ends before y, and does not touch it where they are of one process.
Clear(x, y) == x.end <= y.start /\ (x.proc = y.proc => x.end < y.start)
Before(x, y) == x.rec # y.rec /\ Clear(x, y)

Neat(c) ==
  /\ \A i \in 1 .. Len(c) : c[i].start < c[i].end
  /\ \A i, j \in 1 .. Len(c) : i < j => Before(c[i], c[j])

\* Process q has byte b locked, S being the locks.
Covered(S, q, b) == \E x \in S : x.proc = q /\ x.start <= b /\ b < x.end
-----------------------------------------------------------------------------
\* The locks of a list.
LEMMA Members ==
  ASSUME NEW c \in Seq(Lk)
  PROVE  /\ DOMAIN c = 1 .. Len(c) /\ Len(c) \in Nat
         /\ \A j \in 1 .. Len(c) : /\ c[j] \in ToSet(c) /\ c[j] \in Lk
                                   /\ c[j].start \in Nat /\ c[j].end \in Nat
         /\ \A z \in ToSet(c) : /\ z \in Lk /\ z.start \in Nat /\ z.end \in Nat
                                /\ \E j \in 1 .. Len(c) : z = c[j]
<1>1. DOMAIN c = 1 .. Len(c) /\ Len(c) \in Nat
  OBVIOUS
<1>2. \A z \in Lk : z.start \in Nat /\ z.end \in Nat
  BY DEF Lk
<1>3. \A j \in 1 .. Len(c) : c[j] \in Lk
  OBVIOUS
<1>4. \A j \in 1 .. Len(c) : c[j] \in ToSet(c)
  BY <1>1 DEF ToSet
<1>5. \A z \in ToSet(c) : \E j \in 1 .. Len(c) : z = c[j]
  BY <1>1 DEF ToSet
<1> QED
  BY <1>1, <1>2, <1>3, <1>4, <1>5

\* Two sequences one after the other.
IsJoin(d, u, t) ==
  /\ d = u \o t /\ Len(d) = Len(u) + Len(t)
  /\ \A k \in 1 .. Len(u) : d[k] = u[k]
  /\ \A k \in 1 .. Len(t) : d[Len(u) + k] = t[k]

LEMMA Joined ==
  ASSUME NEW T, NEW u \in Seq(T), NEW t \in Seq(T)
  PROVE  \E d \in Seq(T) : IsJoin(d, u, t)
<1>1. PICK d \in Seq(T) :
        /\ d = u \o t /\ Len(d) = Len(u) + Len(t)
        /\ \A k \in 1 .. Len(u) + Len(t) : d[k] = IF k <= Len(u) THEN u[k] ELSE t[k - Len(u)]
  <2>1. /\ u \o t \in Seq(T) /\ Len(u \o t) = Len(u) + Len(t)
        /\ \A k \in 1 .. Len(u) + Len(t) :
             (u \o t)[k] = IF k <= Len(u) THEN u[k] ELSE t[k - Len(u)]
    BY ConcatProperties
  <2> QED
    BY <2>1
<1>2. \A k \in 1 .. Len(u) : k \in 1 .. Len(u) + Len(t) /\ k <= Len(u)
  OBVIOUS
<1>3. \A k \in 1 .. Len(t) : /\ Len(u) + k \in 1 .. Len(u) + Len(t) /\ ~(Len(u) + k <= Len(u))
                             /\ Len(u) + k - Len(u) = k
  OBVIOUS
<1>4. \A k \in 1 .. Len(u) : d[k] = u[k]
  BY <1>1, <1>2
<1>5. \A k \in 1 .. Len(t) : d[Len(u) + k] = t[k]
  BY <1>1, <1>3
<1> QED
  BY <1>1, <1>4, <1>5 DEF IsJoin

\* A list with locks a + 1 to b - 1 replaced by y.
Splice(c, a, y, b) == SubSeq(c, 1, a) \o <<y>> \o SubSeq(c, b, Len(c))

IsSplice(d, c, n, a, y, b) ==
  /\ d = Splice(c, a, y, b) /\ Len(d) = a + 2 + n - b
  /\ \A k \in 1 .. a : d[k] = c[k]
  /\ d[a + 1] = y
  /\ \A k \in b .. n : d[a + 2 + k - b] = c[k]

LEMMA SpliceIs ==
  ASSUME NEW T, NEW c \in Seq(T), NEW n \in Nat, n = Len(c),
         NEW a \in Nat, NEW b \in Nat, a < b, b <= n + 1, NEW y \in T
  PROVE  \E d \in Seq(T) : IsSplice(d, c, n, a, y, b)
<1>1. PICK s \in Seq(T) : s = SubSeq(c, 1, a) /\ Len(s) = a /\ \A k \in 1 .. a : s[k] = c[k]
  <2>1. \A i \in 1 .. a : c[i] \in T
    OBVIOUS
  <2>2. 1 \in Int /\ a \in Int
    OBVIOUS
  <2>3. /\ SubSeq(c, 1, a) \in Seq(T)
        /\ Len(SubSeq(c, 1, a)) = IF 1 <= a THEN a - 1 + 1 ELSE 0
        /\ \A k \in 1 .. a - 1 + 1 : SubSeq(c, 1, a)[k] = c[1 + k - 1]
    BY <2>1, <2>2, SubSeqProperties
  <2>4. \A k \in 1 .. a : k \in 1 .. a - 1 + 1 /\ 1 + k - 1 = k
    OBVIOUS
  <2>5. (IF 1 <= a THEN a - 1 + 1 ELSE 0) = a
    OBVIOUS
  <2> QED
    BY <2>3, <2>4, <2>5
<1>2. PICK t \in Seq(T) : /\ t = SubSeq(c, b, n) /\ Len(t) = n + 1 - b
                          /\ \A k \in 1 .. n + 1 - b : t[k] = c[b + k - 1]
  <2>1. \A i \in b .. n : c[i] \in T
    OBVIOUS
  <2>2. b \in Int /\ n \in Int
    OBVIOUS
  <2>3. /\ SubSeq(c, b, n) \in Seq(T)
        /\ Len(SubSeq(c, b, n)) = IF b <= n THEN n - b + 1 ELSE 0
        /\ \A k \in 1 .. n - b + 1 : SubSeq(c, b, n)[k] = c[b + k - 1]
    BY <2>1, <2>2, SubSeqProperties
  <2>4. (IF b <= n THEN n - b + 1 ELSE 0) = n + 1 - b /\ n - b + 1 = n + 1 - b
    OBVIOUS
  <2> QED
    BY <2>3, <2>4
<1>3. PICK v \in Seq(T) : v = <<y>> /\ Len(v) = 1 /\ v[1] = y
  <2>1. <<y>> \in Seq(T)
    OBVIOUS
  <2>2. Len(<<y>>) = 1
    OBVIOUS
  <2>3. <<y>>[1] = y
    OBVIOUS
  <2> QED
    BY <2>1, <2>2, <2>3, Zenon
<1>4. PICK u \in Seq(T) : IsJoin(u, s, v)
  BY Joined
<1>5. /\ Len(u) = a + 1
      /\ \A k \in 1 .. a : u[k] = c[k]
      /\ u[a + 1] = y
  <2>1. /\ Len(u) = Len(s) + Len(v)
        /\ \A k \in 1 .. Len(s) : u[k] = s[k]
        /\ \A k \in 1 .. Len(v) : u[Len(s) + k] = v[k]
    BY <1>4 DEF IsJoin
  <2> QED
    BY <1>1, <1>3, <2>1
<1>6. PICK d \in Seq(T) : IsJoin(d, u, t)
  BY Joined
<1>7. /\ Len(d) = Len(u) + Len(t)
      /\ \A k \in 1 .. Len(u) : d[k] = u[k]
      /\ \A k \in 1 .. Len(t) : d[Len(u) + k] = t[k]
  BY <1>6 DEF IsJoin
<1>8. /\ Len(d) = a + 2 + n - b
      /\ \A k \in 1 .. a : d[k] = c[k]
      /\ d[a + 1] = y
  <2>1. \A k \in 1 .. a : k \in 1 .. Len(u)
    BY <1>5
  <2>2. a + 1 \in 1 .. Len(u)
    BY <1>5
  <2>3. Len(d) = a + 1 + (n + 1 - b)
    BY <1>2, <1>5, <1>7
  <2>4. a + 1 + (n + 1 - b) = a + 2 + n - b
    OBVIOUS
  <2>5. \A k \in 1 .. a : d[k] = c[k]
    BY <1>5, <1>7, <2>1
  <2>6. d[a + 1] = y
    BY <1>5, <1>7, <2>2
  <2> QED
    BY <2>3, <2>4, <2>5, <2>6
<1>9. ASSUME NEW k \in b .. n
      PROVE  d[a + 2 + k - b] = c[k]
  <2>1. PICK m \in 1 .. n + 1 - b : m = k - b + 1
    OBVIOUS
  <2>2. d[a + 1 + m] = t[m]
    BY <1>2, <1>5, <1>7
  <2>3. a + 1 + m = a + 2 + k - b /\ b + m - 1 = k
    BY <2>1
  <2>4. t[m] = c[b + m - 1]
    BY <1>2
  <2> QED
    BY <2>2, <2>3, <2>4
<1>10. Splice(c, a, y, b) = d
  BY <1>1, <1>2, <1>3, <1>4, <1>6 DEF Splice, IsJoin
<1>11. IsSplice(d, c, n, a, y, b)
  BY <1>8, <1>9, <1>10 DEF IsSplice
<1> QED
  BY <1>11

\* Lock y is x, or x and more.
Within(x, y) == x.proc = y.proc /\ y.start <= x.start /\ x.end <= y.end

\* What locking bytes LB to UB - 1 for p makes of list c, with the records R.
Grown(c, d, p, LB, UB, R) ==
  /\ Neat(d)
  /\ \A y \in ToSet(d) : y.rec \in R \/ \E x \in ToSet(c) : x.rec = y.rec
  /\ \A x : x.proc # p => (x \in ToSet(d) <=> x \in ToSet(c))
  /\ \A x \in ToSet(c), y \in ToSet(d) : x.rec = y.rec => Within(x, y)
  /\ \A m \in Nat : Covered(ToSet(d), p, m) <=> Covered(ToSet(c), p, m) \/ (LB <= m /\ m < UB)

\* Lock y of p can replace locks a + 1 to b - 1 of the list.
Fits(c, a, y, b, p, LB, UB, R) ==
  /\ y.proc = p /\ y.start < y.end
  /\ \A k \in 1 .. a : Clear(c[k], y)
  /\ \A k \in b .. Len(c) : Clear(y, c[k])
  /\ \A k \in a + 1 .. b - 1 : Within(c[k], y)
  /\ \A m \in Nat : y.start <= m /\ m < y.end =>
       (LB <= m /\ m < UB) \/ \E k \in a + 1 .. b - 1 : c[k].start <= m /\ m < c[k].end
  /\ y.start <= LB /\ UB <= y.end
  /\ y.rec \in R \/ \E k \in a + 1 .. b - 1 : c[k].rec = y.rec

LEMMA SpliceGrows ==
  ASSUME NEW c \in Seq(Lk), Neat(c), NEW n \in Nat, n = Len(c),
         NEW a \in Nat, NEW b \in Nat, a < b, b <= n + 1, NEW y \in Lk,
         NEW p, NEW LB \in Nat, NEW UB \in Nat, NEW R, Fits(c, a, y, b, p, LB, UB, R),
         \A x \in ToSet(c) : x.rec \notin R
  PROVE  \E d \in Seq(Lk) : d = Splice(c, a, y, b) /\ Grown(c, d, p, LB, UB, R)
<1>1. PICK d \in Seq(Lk) :
        /\ d = Splice(c, a, y, b) /\ Len(d) = a + 2 + n - b
        /\ \A k \in 1 .. a : d[k] = c[k]
        /\ d[a + 1] = y
        /\ \A k \in b .. n : d[a + 2 + k - b] = c[k]
  <2>1. PICK d \in Seq(Lk) : IsSplice(d, c, n, a, y, b)
    BY SpliceIs
  <2> QED
    BY <2>1 DEF IsSplice
<1>2. ASSUME NEW j \in 1 .. Len(d)
      PROVE  \/ j \in 1 .. a /\ j \in 1 .. n /\ d[j] = c[j]
             \/ j = a + 1 /\ d[j] = y
             \/ \E k \in b .. n : k \in 1 .. n /\ j = a + 2 + k - b /\ d[j] = c[k]
  <2>1. CASE j <= a
    <3>1. j \in 1 .. a /\ j \in 1 .. n
      BY <2>1
    <3> QED
      BY <1>1, <3>1
  <2>2. CASE j = a + 1
    BY <1>1, <2>2
  <2>3. CASE j > a + 1
    <3>1. PICK k \in b .. n : k \in 1 .. n /\ j = a + 2 + k - b
      <4>1. j - a - 2 + b \in b .. n /\ j - a - 2 + b \in 1 .. n /\ j = a + 2 + (j - a - 2 + b) - b
        BY <1>1, <2>3
      <4> QED
        BY <4>1
    <3> QED
      BY <1>1, <3>1
  <2> QED
    BY <2>1, <2>2, <2>3
<1>3. /\ \A k \in 1 .. n : /\ c[k] \in ToSet(c) /\ c[k] \in Lk
                           /\ c[k].start \in Nat /\ c[k].end \in Nat
      /\ \A z \in ToSet(c) : \E k \in 1 .. n : z = c[k]
  BY Members
<1>4. /\ \A k \in 1 .. Len(d) : d[k] \in ToSet(d)
      /\ \A z \in ToSet(d) : \E k \in 1 .. Len(d) : z = d[k]
  BY Members
<1>5. y.start \in Nat /\ y.end \in Nat /\ y.proc = p /\ y.start < y.end
  BY DEF Lk, Fits
<1>6. /\ \A k \in 1 .. n : c[k].start < c[k].end
      /\ \A i, j \in 1 .. n : i < j => Before(c[i], c[j])
  BY DEF Neat
<1>7. /\ \A k \in 1 .. a : k \in 1 .. n
      /\ \A k \in b .. n : k \in 1 .. n /\ a + 2 + k - b \in 1 .. Len(d)
      /\ \A k \in a + 1 .. b - 1 : k \in 1 .. n
      /\ a + 1 \in 1 .. Len(d)
  <2> PICK l \in Nat : l = Len(d) /\ l = a + 2 + n - b
    BY <1>1
  <2>1. \A k \in b .. n : k \in 1 .. n /\ a + 2 + k - b \in 1 .. l
    OBVIOUS
  <2>2. a + 1 \in 1 .. l
    OBVIOUS
  <2> QED
    BY <2>1, <2>2
<1>8. \A k \in 1 .. n : k \notin a + 1 .. b - 1 => c[k].rec # y.rec
  <2>1. SUFFICES ASSUME NEW k \in 1 .. n, k \notin a + 1 .. b - 1, c[k].rec = y.rec
                 PROVE  FALSE
    OBVIOUS
  <2>2. c[k].rec \notin R
    BY <1>3
  <2>3. PICK l \in a + 1 .. b - 1 : c[l].rec = y.rec
    BY <2>1, <2>2 DEF Fits
  <2>4. l \in 1 .. n /\ (k < l \/ l < k)
    BY <1>7, <2>1
  <2> QED
    BY <1>6, <2>1, <2>3, <2>4 DEF Before
<1>9. /\ \A k \in 1 .. a : Before(c[k], y)
      /\ \A k \in b .. n : Before(y, c[k])
  <2>1. /\ \A k \in 1 .. a : k \notin a + 1 .. b - 1
        /\ \A k \in b .. n : k \notin a + 1 .. b - 1
    OBVIOUS
  <2>2. /\ \A k \in 1 .. a : Clear(c[k], y)
        /\ \A k \in b .. n : Clear(y, c[k])
    BY DEF Fits
  <2> QED
    BY <1>7, <1>8, <2>1, <2>2 DEF Before
<1>10. \A k \in a + 1 .. b - 1 : Within(c[k], y)
  BY DEF Fits
<1>11. Neat(d)
  <2>1. \A j \in 1 .. Len(d) : d[j].start < d[j].end
    BY <1>2, <1>5, <1>6
  <2>2. ASSUME NEW i \in 1 .. Len(d), NEW j \in 1 .. Len(d), i < j
        PROVE  Before(d[i], d[j])
    <3>1. CASE i \in 1 .. a /\ i \in 1 .. n /\ d[i] = c[i]
      <4>1. CASE j \in 1 .. n /\ d[j] = c[j]
        BY <1>6, <2>2, <3>1, <4>1
      <4>2. CASE d[j] = y
        BY <1>9, <3>1, <4>2
      <4>3. CASE \E k \in b .. n : k \in 1 .. n /\ d[j] = c[k]
        <5>1. PICK k \in b .. n : k \in 1 .. n /\ d[j] = c[k]
          BY <4>3
        <5>2. i < k
          BY <3>1
        <5> QED
          BY <1>6, <3>1, <5>1, <5>2
      <4> QED
        BY <1>2, <4>1, <4>2, <4>3
    <3>2. CASE i = a + 1 /\ d[i] = y
      <4>1. PICK k \in b .. n : d[j] = c[k]
        <5>1. j \notin 1 .. a /\ j # a + 1
          BY <2>2, <3>2
        <5> QED
          BY <1>2, <5>1
      <4> QED
        BY <1>9, <3>2, <4>1
    <3>3. CASE \E k \in b .. n : k \in 1 .. n /\ i = a + 2 + k - b /\ d[i] = c[k]
      <4>1. PICK k \in b .. n : k \in 1 .. n /\ i = a + 2 + k - b /\ d[i] = c[k]
        BY <3>3
      <4>2. j \notin 1 .. a /\ j # a + 1
        BY <2>2, <4>1, SMTT(60)
      <4>3. PICK l \in b .. n : l \in 1 .. n /\ j = a + 2 + l - b /\ d[j] = c[l]
        BY <1>2, <4>2
      <4>4. k < l
        BY <2>2, <4>1, <4>3, SMTT(60)
      <4> QED
        BY <1>6, <4>1, <4>3, <4>4
    <3> QED
      BY <1>2, <3>1, <3>2, <3>3
  <2> QED
    BY <2>1, <2>2 DEF Neat
<1>12. \A z \in ToSet(d) : z = y \/ \E k \in 1 .. n : k \notin a + 1 .. b - 1 /\ z = c[k]
  <2> SUFFICES ASSUME NEW j \in 1 .. Len(d)
               PROVE  d[j] = y \/ \E k \in 1 .. n : k \notin a + 1 .. b - 1 /\ d[j] = c[k]
    BY <1>4
  <2>1. /\ \A k \in 1 .. a : k \notin a + 1 .. b - 1
        /\ \A k \in b .. n : k \notin a + 1 .. b - 1
    OBVIOUS
  <2> QED
    BY <1>2, <2>1
<1>13. y \in ToSet(d)
  BY <1>1, <1>4, <1>7
<1>14. ASSUME NEW k \in 1 .. n, k \notin a + 1 .. b - 1
       PROVE  c[k] \in ToSet(d)
  <2>1. k \in 1 .. a \/ k \in b .. n
    BY <1>14
  <2>2. CASE k \in 1 .. a
    <3>1. k \in 1 .. Len(d)
      BY <1>1, <2>2
    <3> QED
      BY <1>1, <1>4, <2>2, <3>1
  <2>3. CASE k \in b .. n
    <3> PICK j : j = a + 2 + k - b
      OBVIOUS
    <3>1. j \in 1 .. Len(d) /\ d[j] = c[k]
      BY <1>1, <1>7, <2>3
    <3> QED
      BY <1>4, <3>1
  <2> QED
    BY <2>1, <2>2, <2>3
<1>15. \A z \in ToSet(d) : z.rec \in R \/ \E x \in ToSet(c) : x.rec = z.rec
  <2>1. y.rec \in R \/ \E k \in a + 1 .. b - 1 : c[k].rec = y.rec
    BY DEF Fits
  <2>2. ASSUME NEW k \in a + 1 .. b - 1, c[k].rec = y.rec
        PROVE  \E x \in ToSet(c) : x.rec = y.rec
    <3>1. k \in 1 .. n
      BY <1>7
    <3> QED
      BY <1>3, <2>2, <3>1
  <2>3. y.rec \in R \/ \E x \in ToSet(c) : x.rec = y.rec
    BY <2>1, <2>2
  <2> QED
    BY <1>3, <1>12, <2>3
<1>16. \A x : x.proc # p => (x \in ToSet(d) <=> x \in ToSet(c))
  <2>1. ASSUME NEW x \in ToSet(d), x.proc # p
        PROVE  x \in ToSet(c)
    <3>1. x # y
      BY <1>5, <2>1
    <3>2. PICK k \in 1 .. n : x = c[k]
      BY <1>12, <3>1
    <3> QED
      BY <1>3, <3>2
  <2>2. ASSUME NEW x \in ToSet(c), x.proc # p
        PROVE  x \in ToSet(d)
    <3>1. PICK k \in 1 .. n : x = c[k]
      BY <1>3
    <3>2. k \notin a + 1 .. b - 1
      BY <1>5, <1>10, <2>2, <3>1 DEF Within
    <3> QED
      BY <1>14, <3>1, <3>2
  <2> QED
    BY <2>1, <2>2
<1>17. \A x \in ToSet(c), z \in ToSet(d) : x.rec = z.rec => Within(x, z)
  <2> SUFFICES ASSUME NEW x \in ToSet(c), NEW z \in ToSet(d), x.rec = z.rec
               PROVE  Within(x, z)
    OBVIOUS
  <2>1. PICK k \in 1 .. n : x = c[k]
    BY <1>3
  <2>2. CASE z = y
    <3>1. k \in a + 1 .. b - 1
      BY <1>8, <2>1, <2>2
    <3> QED
      BY <1>10, <2>1, <2>2, <3>1
  <2>3. CASE \E l \in 1 .. n : z = c[l]
    <3>1. PICK l \in 1 .. n : z = c[l]
      BY <2>3
    <3>2. k = l
      <4>1. ~(k < l) /\ ~(l < k)
        BY <1>6, <2>1, <3>1 DEF Before
      <4> QED
        BY <4>1
    <3>3. x = z /\ x.start \in Nat /\ x.end \in Nat
      BY <1>3, <2>1, <3>1, <3>2
    <3> QED
      BY <3>3 DEF Within
  <2> QED
    BY <1>12, <2>2, <2>3
<1>18. ASSUME NEW m \in Nat
       PROVE  Covered(ToSet(d), p, m) <=> Covered(ToSet(c), p, m) \/ (LB <= m /\ m < UB)
  <2>1. ASSUME NEW z \in ToSet(d), z.proc = p, z.start <= m, m < z.end
        PROVE  Covered(ToSet(c), p, m) \/ (LB <= m /\ m < UB)
    <3>1. CASE z = y
      <4>1. (LB <= m /\ m < UB) \/ \E k \in a + 1 .. b - 1 : c[k].start <= m /\ m < c[k].end
        BY <2>1, <3>1 DEF Fits
      <4>2. ASSUME NEW k \in a + 1 .. b - 1, c[k].start <= m /\ m < c[k].end
            PROVE  Covered(ToSet(c), p, m)
        <5>1. c[k] \in ToSet(c) /\ c[k].proc = p
          BY <1>3, <1>5, <1>7, <1>10 DEF Within
        <5> QED
          BY <4>2, <5>1 DEF Covered
      <4> QED
        BY <4>1, <4>2
    <3>2. CASE z # y
      <4>1. z \in ToSet(c)
        BY <1>3, <1>12, <3>2
      <4> QED
        BY <2>1, <4>1 DEF Covered
    <3> QED
      BY <3>1, <3>2
  <2>2. ASSUME NEW x \in ToSet(c), x.proc = p, x.start <= m, m < x.end
        PROVE  Covered(ToSet(d), p, m)
    <3>1. PICK k \in 1 .. n : x = c[k]
      BY <1>3
    <3>2. CASE k \in a + 1 .. b - 1
      <4>1. y.start <= x.start /\ x.end <= y.end
        BY <1>10, <3>1, <3>2 DEF Within
      <4>2. x.start \in Nat /\ x.end \in Nat
        BY <1>3, <3>1
      <4>3. y.start <= m /\ m < y.end
        BY <1>5, <2>2, <4>1, <4>2, SMTT(60)
      <4> QED
        BY <1>5, <1>13, <4>3 DEF Covered
    <3>3. CASE k \notin a + 1 .. b - 1
      <4>1. x \in ToSet(d)
        BY <1>14, <3>1, <3>3
      <4> QED
        BY <2>2, <4>1 DEF Covered
    <3> QED
      BY <3>2, <3>3
  <2>3. LB <= m /\ m < UB => Covered(ToSet(d), p, m)
    <3>1. y.start <= LB /\ UB <= y.end
      BY DEF Fits
    <3>2. LB <= m /\ m < UB => y.start <= m /\ m < y.end
      BY <1>5, <3>1
    <3> QED
      BY <1>5, <1>13, <3>2 DEF Covered
  <2> QED
    BY <2>1, <2>2, <2>3 DEF Covered
<1> QED
  BY <1>1, <1>11, <1>15, <1>16, <1>17, <1>18 DEF Grown

-----------------------------------------------------------------------------
\* A set of naturals that is not empty has a least one.
LEMMA LeastNat ==
  ASSUME NEW S \in SUBSET Nat, S # {}
  PROVE  \E x \in S : \A y \in S : x <= y
<1> DEFINE R == OpToRel(<, Nat)
<1>1. IsWellFoundedOn(R, Nat)
  BY NatLessThanWellFounded
<1>2. PICK x \in S : \A y \in S : ~(<<y, x>> \in R)
  BY <1>1, WFMin
<1>3. \A y \in S : <<y, x>> \in R <=> y < x
  BY DEF OpToRel
<1>4. \A y \in S : ~(y < x)
  BY <1>2, <1>3
<1> QED
  BY <1>4

\* What Min returns.
LEMMA MinNat ==
  ASSUME NEW S \in SUBSET Nat, S # {}
  PROVE  Min(S) \in S /\ Min(S) \in Nat /\ \A y \in S : Min(S) <= y
BY LeastNat DEF Min

\* Sequences that have the same before place a + 1 and from b on are the same
\* when what is between is replaced.
Outside(c, n, a, b, e, s) ==
  /\ Len(c) = n /\ Len(e) = n + s
  /\ \A k \in 1 .. a : e[k] = c[k]
  /\ \A k \in b .. n : e[k + s] = c[k]

LEMMA SpliceSame ==
  ASSUME NEW c \in Seq(Lk), NEW n \in Nat, NEW e \in Seq(Lk), NEW s \in Nat,
         NEW a \in Nat, NEW b \in Nat, a < b, b <= n + 1, NEW y \in Lk,
         Outside(c, n, a, b, e, s), NEW t, t = b + s
  PROVE  Splice(e, a, y, t) = Splice(c, a, y, b)
<1>1. /\ Len(c) = n /\ Len(e) = n + s
      /\ \A k \in 1 .. a : e[k] = c[k]
      /\ \A k \in b .. n : e[k + s] = c[k]
  BY DEF Outside
<1>2. PICK u \in Seq(Lk) : IsSplice(u, c, n, a, y, b)
  BY <1>1, SpliceIs
<1>3. PICK v \in Seq(Lk) : IsSplice(v, e, n + s, a, y, b + s)
  <2> PICK m \in Nat : m = n + s
    OBVIOUS
  <2> PICK j \in Nat : j = b + s
    OBVIOUS
  <2>1. a < j /\ j <= m + 1 /\ m = Len(e)
    BY <1>1
  <2>2. PICK v \in Seq(Lk) : IsSplice(v, e, m, a, y, j)
    BY <2>1, SpliceIs
  <2> QED
    BY <2>2
<1>4. /\ Len(u) = a + 2 + n - b
      /\ \A k \in 1 .. a : u[k] = c[k]
      /\ u[a + 1] = y
      /\ \A k \in b .. n : u[a + 2 + k - b] = c[k]
  BY <1>2 DEF IsSplice
<1>5. /\ Len(v) = a + 2 + (n + s) - (b + s)
      /\ \A k \in 1 .. a : v[k] = e[k]
      /\ v[a + 1] = y
      /\ \A k \in b + s .. n + s : v[a + 2 + k - (b + s)] = e[k]
  BY <1>3 DEF IsSplice
<1>6. Len(u) = Len(v)
  BY <1>4, <1>5
<1>7. ASSUME NEW j \in 1 .. Len(u)
      PROVE  u[j] = v[j]
  <2>1. CASE j <= a
    <3>1. j \in 1 .. a
      BY <2>1
    <3> QED
      BY <1>1, <1>4, <1>5, <3>1
  <2>2. CASE j = a + 1
    BY <1>4, <1>5, <2>2
  <2>3. CASE j > a + 1
    <3>1. PICK k \in b .. n : j = a + 2 + k - b
      <4>1. j \in Nat /\ j <= a + 2 + n - b
        BY <1>4
      <4>2. j - a - 2 + b \in b .. n /\ j = a + 2 + (j - a - 2 + b) - b
        BY <2>3, <4>1
      <4> QED
        BY <4>2
    <3>2. u[j] = c[k]
      BY <1>4, <3>1
    <3> PICK l \in b + s .. n + s : l = k + s
      OBVIOUS
    <3>3. a + 2 + l - (b + s) = j
      BY <3>1
    <3>4. v[j] = e[l]
      BY <1>5, <3>3
    <3> QED
      BY <1>1, <3>2, <3>4
  <2> QED
    BY <2>1, <2>2, <2>3
<1>8. u = v
  BY <1>6, <1>7, SeqEqual
<1> QED
  BY <1>2, <1>3, <1>8 DEF IsSplice

\* What a lock of p that ends at UB takes of the locks of list d from l on: it
\* goes up to b and then ends at z.
Reaches(d, n, p, l, UB, b, z) ==
  /\ \A j \in l .. b - 1 : d[j].proc = p /\ d[j].start <= UB /\ d[j].end <= z
  /\ UB <= z
  /\ \/ z = UB /\ (b <= n => d[b].proc # p \/ UB < d[b].start)
     \/ b > l /\ z = d[b - 1].end

Compacts(d, n, A, e, s, l, q, p, UB, b, z) ==
  /\ l <= b /\ b <= n + 1 /\ Reaches(d, n, p, l, UB, b, z)
  /\ A = Splice(e, q - 1, [e[q] EXCEPT !.end = z], b + s)

LEMMA CompactedIs ==
  ASSUME NEW d \in Seq(Lk), NEW n \in Nat, n = Len(d), NEW e \in Seq(Lk), NEW s \in Nat,
         Len(e) = n + s, NEW l \in Nat, 1 <= l, l <= n + 1, NEW q \in Nat, q >= 1, q + 1 = l + s,
         \A k \in l .. n : e[k + s] = d[k],
         NEW p, NEW UB \in Nat, e[q].end = UB
  PROVE  \E b \in Nat, z \in Nat : Compacts(d, n, Compacted(p, e, q), e, s, l, q, p, UB, b, z)
<1> DEFINE Stop(j) == \/ j > Len(e) \/ e[j].proc # p \/ e[q].end < e[j].start
                      \/ e[q].end <= e[j].end
           P == {j \in q + 1 .. Len(e) + 1 : Stop(j)}
<1>1. P \in SUBSET Nat /\ Len(e) + 1 \in P
  OBVIOUS
<1>2. PICK past \in Nat : past = Min(P) /\ past \in P /\ \A j \in P : past <= j
  BY <1>1, MinNat
<1>3. past \in q + 1 .. n + s + 1 /\ Stop(past)
  BY <1>2
<1>4. \A j \in q + 1 .. past - 1 : ~Stop(j)
  <2>1. \A j \in q + 1 .. past - 1 : j \in q + 1 .. Len(e) + 1 /\ ~(past <= j)
    BY <1>3
  <2> QED
    BY <1>2, <2>1
<1> PICK b0 \in Nat : b0 = past - s
  BY <1>3
<1>5. l <= b0 /\ b0 <= n + 1 /\ past = b0 + s
  BY <1>3
<1>6. \A k \in l .. n : d[k] \in Lk /\ d[k].start \in Nat /\ d[k].end \in Nat
  <2>1. \A k \in 1 .. n : d[k].start \in Nat /\ d[k].end \in Nat /\ d[k] \in Lk
    BY Members
  <2>2. \A k \in l .. n : k \in 1 .. n
    OBVIOUS
  <2> QED
    BY <2>1, <2>2
<1>7. ASSUME NEW j \in l .. b0 - 1
      PROVE  d[j].proc = p /\ d[j].start <= UB /\ d[j].end < UB
  <2>1. j \in l .. n /\ j + s \in q + 1 .. past - 1
    BY <1>5
  <2> PICK k : k = j + s
    OBVIOUS
  <2>2. ~Stop(k) /\ e[k] = d[j]
    BY <1>4, <2>1
  <2> QED
    BY <1>6, <2>1, <2>2, SMTT(60)
<1> DEFINE takes == past <= Len(e) /\ e[past].proc = p /\ e[q].end >= e[past].start
<1>8. /\ takes => Compacted(p, e, q) = Splice(e, q - 1, [e[q] EXCEPT !.end = e[past].end], past + 1)
      /\ ~takes => Compacted(p, e, q) = Splice(e, q - 1, [e[q] EXCEPT !.end = e[q].end], past)
  BY <1>2 DEF Compacted, Splice
<1>9. CASE takes
  <2>1. b0 \in l .. n /\ e[past] = d[b0]
    BY <1>3, <1>5, <1>9, SMTT(60)
  <2>2. PICK z \in Nat : z = d[b0].end
    BY <1>6, <2>1
  <2>3. UB <= z /\ d[b0].proc = p /\ d[b0].start <= UB
    BY <1>3, <1>6, <1>9, <2>1, <2>2, SMTT(60)
  <2>4. PICK b \in Nat : b = b0 + 1
    OBVIOUS
  <2>5. Reaches(d, n, p, l, UB, b, z)
    <3>1. \A j \in l .. b - 1 : j = b0 \/ j \in l .. b0 - 1
      BY <2>4
    <3>2. \A j \in l .. b0 - 1 : j \in l .. n
      BY <2>1
    <3>3. ASSUME NEW j \in l .. b0 - 1
          PROVE  d[j].proc = p /\ d[j].start <= UB /\ d[j].end <= z
      <4>1. d[j].end \in Nat
        BY <1>6, <3>2
      <4>2. d[j].proc = p /\ d[j].start <= UB /\ d[j].end < UB
        BY <1>7
      <4> QED
        BY <2>3, <4>1, <4>2, SMTT(60)
    <3>4. d[b0].end <= z
      BY <2>2
    <3>5. \A j \in l .. b - 1 : d[j].proc = p /\ d[j].start <= UB /\ d[j].end <= z
      <4> SUFFICES ASSUME NEW j \in l .. b - 1
                   PROVE  d[j].proc = p /\ d[j].start <= UB /\ d[j].end <= z
        OBVIOUS
      <4>1. CASE j = b0
        BY <2>3, <3>4, <4>1
      <4>2. CASE j \in l .. b0 - 1
        BY <3>3, <4>2
      <4> QED
        BY <3>1, <4>1, <4>2
    <3>6. b > l /\ b - 1 = b0
      BY <1>5, <2>4
    <3> QED
      BY <2>2, <2>3, <3>5, <3>6 DEF Reaches
  <2>6. Compacted(p, e, q) = Splice(e, q - 1, [e[q] EXCEPT !.end = z], b + s)
    <3>1. past + 1 = b + s
      BY <1>5, <2>4
    <3> QED
      BY <1>8, <1>9, <2>1, <2>2, <3>1
  <2>7. l <= b /\ b <= n + 1
    <3>1. b0 <= n
      BY <2>1
    <3> QED
      BY <1>5, <2>4, <3>1
  <2> QED
    BY <2>5, <2>6, <2>7 DEF Compacts
<1>10. CASE ~takes
  <2>1. b0 <= n => d[b0].proc # p \/ UB < d[b0].start
    <3> SUFFICES ASSUME b0 <= n PROVE d[b0].proc # p \/ UB < d[b0].start
      OBVIOUS
    <3>1. b0 \in l .. n
      BY <1>5
    <3>2. past <= Len(e)
      BY <1>5
    <3>3. e[past] = d[b0]
      BY <1>5, <3>1
    <3>4. e[past].proc = p => UB < e[past].start
      BY <1>6, <1>10, <3>1, <3>2, <3>3
    <3> QED
      BY <3>3, <3>4
  <2>2. Reaches(d, n, p, l, UB, b0, UB)
    <3>1. \A j \in l .. b0 - 1 : j \in l .. n
      BY <1>5
    <3>2. ASSUME NEW j \in l .. b0 - 1
          PROVE  d[j].proc = p /\ d[j].start <= UB /\ d[j].end <= UB
      <4>1. d[j].end \in Nat
        BY <1>6, <3>1
      <4>2. d[j].proc = p /\ d[j].start <= UB /\ d[j].end < UB
        BY <1>7
      <4> QED
        BY <4>1, <4>2
    <3> QED
      BY <2>1, <3>2 DEF Reaches
  <2>3. Compacted(p, e, q) = Splice(e, q - 1, [e[q] EXCEPT !.end = UB], b0 + s)
    BY <1>5, <1>8, <1>10
  <2> QED
    BY <1>5, <2>2, <2>3 DEF Compacts
<1> QED
  BY <1>9, <1>10

\* The other processes have nothing between LB and UB.
Free(c, p, LB, UB) ==
  \A k \in 1 .. Len(c) : c[k].proc # p => c[k].end <= LB \/ UB <= c[k].start

\* Where the locks of a list are.
LEMMA Ordered ==
  ASSUME NEW c \in Seq(Lk), Neat(c), NEW n \in Nat, n = Len(c)
  PROVE  /\ \A k \in 1 .. n : /\ c[k] \in Lk /\ c[k].start \in Nat /\ c[k].end \in Nat
                              /\ c[k].start < c[k].end
         /\ \A i, j \in 1 .. n : i < j => Clear(c[i], c[j])
         /\ \A i, j \in 1 .. n : i < j => c[i].end <= c[j].start /\ c[i].start < c[j].start
<1>1. \A k \in 1 .. n : /\ c[k] \in Lk /\ c[k].start \in Nat /\ c[k].end \in Nat
                        /\ c[k].start < c[k].end
  BY Members DEF Neat
<1>2. \A i, j \in 1 .. n : i < j => Clear(c[i], c[j])
  BY DEF Neat, Before
<1>3. \A i, j \in 1 .. n : i < j => c[i].end <= c[j].start /\ c[i].start < c[j].start
  <2> SUFFICES ASSUME NEW i \in 1 .. n, NEW j \in 1 .. n, i < j
               PROVE  c[i].end <= c[j].start /\ c[i].start < c[j].start
    OBVIOUS
  <2>1. c[i].end <= c[j].start
    BY <1>2 DEF Clear
  <2>2. c[i].start < c[i].end /\ c[i].start \in Nat /\ c[i].end \in Nat /\ c[j].start \in Nat
    BY <1>1
  <2> QED
    BY <2>1, <2>2
<1> QED
  BY <1>1, <1>2, <1>3

\* A lock that reaches as far is clear of what follows.
Ends(d, n, p, l, UB, b, z) ==
  /\ \A k \in b .. n : z <= d[k].start /\ (d[k].proc = p => z < d[k].start)
  /\ \A m \in Nat : UB <= m /\ m < z => \E k \in l .. b - 1 : d[k].start <= m /\ m < d[k].end

LEMMA ReachFits ==
  ASSUME NEW d \in Seq(Lk), Neat(d), NEW n \in Nat, n = Len(d), NEW p,
         NEW LB \in Nat, NEW UB \in Nat, LB < UB, Free(d, p, LB, UB),
         NEW l \in Nat, 1 <= l, l <= n + 1, \A k \in l .. n : LB <= d[k].start,
         NEW b \in Nat, l <= b, b <= n + 1, NEW z \in Nat, Reaches(d, n, p, l, UB, b, z)
  PROVE  Ends(d, n, p, l, UB, b, z)
<1>1. /\ \A k \in 1 .. n : /\ d[k] \in Lk /\ d[k].start \in Nat /\ d[k].end \in Nat
                           /\ d[k].start < d[k].end
      /\ \A i, j \in 1 .. n : i < j => Clear(d[i], d[j])
      /\ \A i, j \in 1 .. n : i < j => d[i].end <= d[j].start /\ d[i].start < d[j].start
  BY Ordered
<1>2. \/ z = UB /\ (b <= n => d[b].proc # p \/ UB < d[b].start)
      \/ b > l /\ z = d[b - 1].end
  BY DEF Reaches
<1>3. ASSUME NEW k \in b .. n
      PROVE  z <= d[k].start /\ (d[k].proc = p => z < d[k].start)
  <2>1. k \in 1 .. n /\ b \in 1 .. n /\ b <= n /\ b \in l .. n /\ k >= b
    OBVIOUS
  <2>2. CASE z = UB /\ (d[b].proc # p \/ UB < d[b].start)
    <3>1. UB <= d[b].start
      <4>1. CASE d[b].proc # p
        <5>1. d[b].end <= LB \/ UB <= d[b].start
          BY <2>1, <4>1 DEF Free
        <5>2. LB <= d[b].start /\ d[b].start < d[b].end /\ d[b].start \in Nat /\ d[b].end \in Nat
          BY <1>1, <2>1
        <5> QED
          BY <5>1, <5>2, SMTT(60)
      <4>2. CASE UB < d[b].start
        BY <1>1, <2>1, <4>2
      <4> QED
        BY <2>2, <4>1, <4>2
    <3>2. CASE k = b
      <4>1. d[k].proc = p => UB < d[k].start
        BY <2>2, <3>2
      <4> QED
        BY <2>2, <3>1, <3>2, <4>1
    <3>3. CASE k > b
      <4>1. d[b].start < d[k].start /\ d[b].start \in Nat /\ d[k].start \in Nat
        BY <1>1, <2>1, <3>3
      <4>2. UB < d[k].start
        BY <3>1, <4>1, SMTT(60)
      <4> QED
        BY <2>2, <4>1, <4>2
    <3> QED
      BY <2>1, <3>2, <3>3
  <2>3. CASE b > l /\ z = d[b - 1].end
    <3>1. b - 1 \in l .. b - 1 /\ b - 1 \in 1 .. n /\ b - 1 < k
      BY <2>3
    <3>2. d[b - 1].proc = p
      BY <3>1 DEF Reaches
    <3>3. Clear(d[b - 1], d[k])
      BY <1>1, <2>1, <3>1
    <3> QED
      BY <2>3, <3>2, <3>3 DEF Clear
  <2> QED
    BY <1>2, <2>1, <2>2, <2>3
<1>4. ASSUME NEW m \in Nat, UB <= m, m < z
      PROVE  \E k \in l .. b - 1 : d[k].start <= m /\ m < d[k].end
  <2>1. z # UB
    BY <1>4
  <2>2. b > l /\ z = d[b - 1].end
    BY <1>2, <2>1
  <2>3. b - 1 \in l .. b - 1 /\ b - 1 \in 1 .. n
    BY <2>2
  <2>4. d[b - 1].start <= UB
    BY <2>3 DEF Reaches
  <2>5. d[b - 1].start \in Nat
    BY <1>1, <2>3
  <2>6. d[b - 1].start <= m /\ m < d[b - 1].end
    BY <1>4, <2>2, <2>4, <2>5
  <2> QED
    BY <2>3, <2>6
<1> QED
  BY <1>3, <1>4 DEF Ends

\* The list d with a lock of p added is one with locks a + 1 to b - 1 replaced.
Adds(d, n, A, a, p, LB, UB, R) ==
  \E b \in Nat, y \in Lk : /\ a < b /\ b <= n + 1
                           /\ A = Splice(d, a, y, b) /\ Fits(d, a, y, b, p, LB, UB, R)

\* Lock i of p reaches the region and is stretched to the end of it.
LEMMA StretchAdds ==
  ASSUME NEW d \in Seq(Lk), Neat(d), NEW n \in Nat, n = Len(d), NEW p,
         NEW LB \in Nat, NEW UB \in Nat, LB < UB, Free(d, p, LB, UB), NEW R,
         NEW i \in 1 .. n, d[i].start <= LB, \A k \in i + 1 .. n : LB <= d[k].start,
         Touches(p, d, i, LB), NEW A,
         A = IF UB <= d[i].end THEN d ELSE Compacted(p, [d EXCEPT ![i].end = UB], i)
  PROVE  Adds(d, n, A, i - 1, p, LB, UB, R)
<1>1. /\ \A k \in 1 .. n : /\ d[k] \in Lk /\ d[k].start \in Nat /\ d[k].end \in Nat
                           /\ d[k].start < d[k].end
      /\ \A j, k \in 1 .. n : j < k => Clear(d[j], d[k])
      /\ \A j, k \in 1 .. n : j < k => d[j].end <= d[k].start /\ d[j].start < d[k].start
  BY Ordered
<1>2. LB <= d[i].end /\ p = d[i].proc
  BY DEF Touches
<1>3. PICK a \in Nat : a = i - 1
  OBVIOUS
<1>4. PICK l \in Nat : l = i + 1
  OBVIOUS
<1>5. 1 <= l /\ l <= n + 1 /\ a < l /\ a + 1 = i /\ a < n /\ l = i + 1 /\ a = i - 1
  BY <1>3, <1>4
<1>6. \A k \in 1 .. a : k \in 1 .. n /\ k < i
  BY <1>3
<1>7. \A k \in 1 .. a : Clear(d[k], d[i])
  BY <1>1, <1>6
<1>8. CASE UB <= d[i].end
  <2> PICK y \in Lk : y = d[i]
    BY <1>1
  <2>1. Splice(d, a, y, l) = d
    <3>1. PICK u \in Seq(Lk) : IsSplice(u, d, n, a, y, l)
      BY <1>5, SpliceIs
    <3>2. /\ Len(u) = a + 2 + n - l
          /\ \A k \in 1 .. a : u[k] = d[k]
          /\ u[a + 1] = y
          /\ \A k \in l .. n : u[a + 2 + k - l] = d[k]
      BY <3>1 DEF IsSplice
    <3>3. Len(u) = n
      BY <1>5, <3>2, SMTT(60)
    <3>4. ASSUME NEW k \in 1 .. n
          PROVE  u[k] = d[k]
      <4>1. CASE k \in 1 .. a
        BY <3>2, <4>1
      <4>2. CASE k = i
        BY <1>5, <3>2, <4>2
      <4>3. CASE k \in l .. n
        <5>1. a + 2 + k - l = k
          BY <1>5, SMTT(60)
        <5> QED
          BY <3>2, <4>3, <5>1
      <4>4. k \in 1 .. a \/ k = i \/ k \in l .. n
        BY <1>5
      <4> QED
        BY <4>1, <4>2, <4>3, <4>4
    <3>5. u = d
      BY <3>3, <3>4, SeqEqual
    <3> QED
      BY <3>1, <3>5 DEF IsSplice
  <2>2. Fits(d, a, y, l, p, LB, UB, R)
    <3>1. y.proc = p /\ y.start < y.end /\ y.start <= LB /\ UB <= y.end
      BY <1>1, <1>2, <1>8
    <3>2. \A k \in 1 .. a : Clear(d[k], y)
      BY <1>7
    <3>3. \A k \in l .. Len(d) : Clear(y, d[k])
      <4>1. \A k \in l .. n : k \in 1 .. n /\ i < k
        BY <1>5
      <4> QED
        BY <1>1, <4>1
    <3>4. \A k \in a + 1 .. l - 1 : k = i
      BY <1>5
    <3>5. i \in a + 1 .. l - 1
      BY <1>5
    <3>6. Within(d[i], y)
      BY <1>1 DEF Within
    <3> QED
      BY <3>1, <3>2, <3>3, <3>4, <3>5, <3>6 DEF Fits
  <2>3. A = d
    BY <1>8
  <2> QED
    BY <1>5, <2>1, <2>2, <2>3 DEF Adds
<1>9. CASE ~(UB <= d[i].end)
  <2>1. PICK x \in Lk : x = [d[i] EXCEPT !.end = UB] /\ x.start = d[i].start /\ x.rec = d[i].rec
                        /\ x.proc = p /\ x.end = UB
    <3>1. d[i] \in Lk
      BY <1>1
    <3> PICK x : x = [d[i] EXCEPT !.end = UB]
      OBVIOUS
    <3>2. x \in Lk /\ x.start = d[i].start /\ x.rec = d[i].rec /\ x.proc = d[i].proc /\ x.end = UB
      BY <3>1 DEF Lk
    <3> QED
      BY <1>2, <3>2
  <2>2. PICK e \in Seq(Lk) : /\ e = [d EXCEPT ![i].end = UB] /\ Len(e) = n /\ e[i] = x
                            /\ \A k \in 1 .. n : k # i => e[k] = d[k]
    <3> PICK e : e = [d EXCEPT ![i] = x]
      OBVIOUS
    <3>1. e = [d EXCEPT ![i].end = UB]
      BY <2>1
    <3>2. e \in Seq(Lk) /\ Len(e) = n
      BY <2>1
    <3>3. e[i] = x /\ \A k \in 1 .. n : k # i => e[k] = d[k]
      OBVIOUS
    <3> QED
      BY <3>1, <3>2, <3>3
  <2>3. PICK s \in Nat : s = 0
    OBVIOUS
  <2>4. \A k \in l .. n : e[k + s] = d[k]
    <3>1. \A k \in l .. n : k \in 1 .. n /\ k # i /\ k + s = k
      BY <1>5, <2>3
    <3> QED
      BY <2>2, <2>3, <3>1
  <2>5. PICK b \in Nat, z \in Nat :
          /\ l <= b /\ b <= n + 1 /\ Reaches(d, n, p, l, UB, b, z)
          /\ Compacted(p, e, i) = Splice(e, i - 1, [e[i] EXCEPT !.end = z], b + s)
    <3>1. i \in Nat /\ i >= 1 /\ i + 1 = l + s /\ Len(e) = n + s /\ e[i].end = UB
      BY <1>5, <2>1, <2>2, <2>3
    <3>2. PICK b \in Nat, z \in Nat : Compacts(d, n, Compacted(p, e, i), e, s, l, i, p, UB, b, z)
      BY <1>5, <2>4, <3>1, CompactedIs
    <3> QED
      BY <3>2 DEF Compacts
  <2>6. PICK y \in Lk : y = [e[i] EXCEPT !.end = z] /\ y.start = d[i].start /\ y.rec = d[i].rec
                        /\ y.proc = p /\ y.end = z
    <3> PICK y : y = [x EXCEPT !.end = z]
      OBVIOUS
    <3>1. y \in Lk /\ y.start = x.start /\ y.rec = x.rec /\ y.proc = x.proc /\ y.end = z
      BY DEF Lk
    <3> QED
      BY <2>1, <2>2, <3>1
  <2>7. A = Splice(d, a, y, b)
    <3>1. \A k \in 1 .. a : e[k] = d[k]
      BY <1>6, <2>2
    <3>2. \A k \in b .. n : e[k + s] = d[k]
      <4>1. \A k \in b .. n : k \in l .. n
        BY <2>5
      <4> QED
        BY <2>4, <4>1
    <3>3. Len(e) = n + s /\ a < b /\ b <= n + 1
      BY <1>5, <2>2, <2>5, <2>3
    <3>4. Outside(d, n, a, b, e, s)
      BY <3>1, <3>2, <3>3 DEF Outside
    <3>5. Splice(e, a, y, b + s) = Splice(d, a, y, b)
      <4> PICK t : t = b + s
        OBVIOUS
      <4>1. Splice(e, a, y, t) = Splice(d, a, y, b)
        BY <3>3, <3>4, SpliceSame, SMTT(60)
      <4> QED
        BY <4>1
    <3> QED
      BY <1>5, <1>9, <2>2, <2>5, <2>6, <3>5
  <2>8. /\ \A k \in b .. n : z <= d[k].start /\ (d[k].proc = p => z < d[k].start)
        /\ \A m \in Nat : UB <= m /\ m < z => \E k \in l .. b - 1 : d[k].start <= m /\ m < d[k].end
    <3>1. l <= b /\ b <= n + 1 /\ Reaches(d, n, p, l, UB, b, z)
      BY <2>5
    <3>2. \A k \in l .. n : LB <= d[k].start
      BY <1>5
    <3>3. Ends(d, n, p, l, UB, b, z)
      BY <1>5, <3>1, <3>2, ReachFits
    <3> QED
      BY <3>3 DEF Ends
  <2>9. Fits(d, a, y, b, p, LB, UB, R)
    <3>1. UB <= z /\ \A j \in l .. b - 1 : d[j].proc = p /\ d[j].end <= z
      BY <2>5 DEF Reaches
    <3>2. y.proc = p /\ y.start < y.end /\ y.start <= LB /\ UB <= y.end
      BY <1>1, <2>6, <3>1
    <3>3. \A k \in 1 .. a : Clear(d[k], y)
      BY <1>2, <1>7, <2>6 DEF Clear
    <3>4. \A k \in b .. Len(d) : Clear(y, d[k])
      <4> SUFFICES ASSUME NEW k \in b .. n PROVE Clear(y, d[k])
        OBVIOUS
      <4>1. z <= d[k].start /\ (d[k].proc = p => z < d[k].start)
        BY <2>8
      <4> QED
        BY <2>6, <4>1 DEF Clear
    <3>5. \A k \in a + 1 .. b - 1 : k = i \/ (k \in l .. b - 1 /\ k \in 1 .. n /\ i < k)
      <4>1. b <= n + 1 /\ l <= b
        BY <2>5
      <4>2. \A k \in a + 1 .. b - 1 : k = i \/ k \in l .. b - 1
        BY <1>5, <4>1, SMTT(60)
      <4>3. \A k \in l .. b - 1 : k \in 1 .. n /\ i < k
        BY <1>5, <4>1, SMTT(60)
      <4> QED
        BY <4>2, <4>3
    <3>6. i \in a + 1 .. b - 1 /\ \A k \in l .. b - 1 : k \in a + 1 .. b - 1
      <4>1. l <= b
        BY <2>5
      <4> QED
        BY <1>5, <4>1, SMTT(60)
    <3>7. \A k \in a + 1 .. b - 1 : Within(d[k], y)
      <4>1. d[i].end <= z
        <5>1. d[i].end \in Nat
          BY <1>1
        <5> QED
          BY <1>9, <3>1, <5>1
      <4>2. Within(d[i], y)
        BY <1>1, <1>2, <2>6, <4>1 DEF Within
      <4>3. ASSUME NEW k \in l .. b - 1, k \in 1 .. n, i < k
            PROVE  Within(d[k], y)
        <5>1. d[i].start < d[k].start /\ d[i].start \in Nat /\ d[k].start \in Nat
          BY <1>1, <4>3
        <5>2. d[i].start <= d[k].start
          BY <5>1, SMTT(60)
        <5> QED
          BY <2>6, <3>1, <5>2 DEF Within
      <4> QED
        BY <3>5, <4>2, <4>3
    <3>8. ASSUME NEW m \in Nat, y.start <= m, m < y.end
          PROVE  (LB <= m /\ m < UB) \/ \E k \in a + 1 .. b - 1 : d[k].start <= m /\ m < d[k].end
      <4>1. d[i].end \in Nat /\ d[i].start <= m /\ m < z
        BY <1>1, <2>6, <3>8
      <4>2. CASE m < d[i].end
        BY <3>6, <4>1, <4>2
      <4>3. CASE d[i].end <= m /\ m < UB
        BY <1>2, <4>1, <4>3
      <4>4. CASE UB <= m
        BY <2>8, <3>6, <4>1, <4>4
      <4> QED
        BY <4>1, <4>2, <4>3, <4>4
    <3>9. \E k \in a + 1 .. b - 1 : d[k].rec = y.rec
      BY <2>6, <3>6
    <3> QED
      BY <3>2, <3>3, <3>4, <3>7, <3>8, <3>9 DEF Fits
  <2>10. a < b
    <3>1. l <= b
      BY <2>5
    <3> QED
      BY <1>5, <3>1, SMTT(60)
  <2> QED
    <3>1. b <= n + 1
      BY <2>5
    <3>2. Adds(d, n, A, a, p, LB, UB, R)
      BY <2>7, <2>9, <2>10, <3>1 DEF Adds
    <3> QED
      BY <1>5, <3>2
<1> QED
  BY <1>8, <1>9

\* What InsertAt makes of a list.
IsInsert(e, d, n, q, x) ==
  /\ e = InsertAt(d, q, x) /\ Len(e) = n + 1
  /\ \A k \in 1 .. q - 1 : e[k] = d[k]
  /\ e[q] = x
  /\ \A k \in q .. n : e[k + 1] = d[k]

LEMMA Inserted ==
  ASSUME NEW d \in Seq(Lk), NEW n \in Nat, n = Len(d), NEW q \in Nat, q >= 1, q <= n + 1,
         NEW x \in Lk
  PROVE  \E e \in Seq(Lk) : IsInsert(e, d, n, q, x)
<1>1. PICK a \in Nat : a = q - 1
  OBVIOUS
<1>2. PICK e \in Seq(Lk) : IsSplice(e, d, n, a, x, q)
  <2>1. a < q
    BY <1>1
  <2> QED
    BY <2>1, SpliceIs
<1>3. /\ Len(e) = a + 2 + n - q
      /\ \A k \in 1 .. a : e[k] = d[k]
      /\ e[a + 1] = x
      /\ \A k \in q .. n : e[a + 2 + k - q] = d[k]
  BY <1>2 DEF IsSplice
<1>4. ASSUME NEW k \in q .. n
      PROVE  e[k + 1] = d[k]
  <2>1. a + 2 + k - q = k + 1
    BY <1>1
  <2> QED
    BY <1>3, <2>1
<1>5. Len(e) = n + 1 /\ e[q] = x
  BY <1>1, <1>3
<1>6. \A k \in 1 .. q - 1 : e[k] = d[k]
  BY <1>1, <1>3
<1>7. e = InsertAt(d, q, x)
  BY <1>1, <1>2 DEF IsSplice, Splice, InsertAt
<1> QED
  BY <1>4, <1>5, <1>6, <1>7 DEF IsInsert

\* No lock of p reaches the region: one is put after lock i.
LEMMA InsertAdds ==
  ASSUME NEW d \in Seq(Lk), Neat(d), NEW n \in Nat, n = Len(d), NEW p \in Procs,
         NEW LB \in Nat, NEW UB \in Nat, LB < UB, Free(d, p, LB, UB),
         NEW r \in Records, NEW R, r \in R,
         NEW i \in 1 .. n, d[i].start <= LB, \A k \in i + 1 .. n : LB <= d[k].start,
         ~Touches(p, d, i, LB), NEW A,
         A = Compacted(p, InsertAt(d, i + 1, Mine(p, LB, UB, r)), i + 1)
  PROVE  Adds(d, n, A, i, p, LB, UB, R)
<1>1. /\ \A k \in 1 .. n : /\ d[k] \in Lk /\ d[k].start \in Nat /\ d[k].end \in Nat
                           /\ d[k].start < d[k].end
      /\ \A j, k \in 1 .. n : j < k => Clear(d[j], d[k])
      /\ \A j, k \in 1 .. n : j < k => d[j].end <= d[k].start /\ d[j].start < d[k].start
  BY Ordered
<1>2. d[i].end <= LB /\ (d[i].proc = p => d[i].end < LB)
  <2>1. CASE d[i].proc = p
    BY <1>1, <2>1 DEF Touches
  <2>2. CASE d[i].proc # p
    <3>1. d[i].end <= LB \/ UB <= d[i].start
      BY <2>2 DEF Free
    <3>2. d[i].start \in Nat
      BY <1>1
    <3> QED
      BY <2>2, <3>1, <3>2
  <2> QED
    BY <2>1, <2>2
<1>3. PICK l \in Nat : l = i + 1
  OBVIOUS
<1>4. 1 <= l /\ l <= n + 1 /\ i < l
  BY <1>3
<1>5. PICK x \in Lk : /\ x = Mine(p, LB, UB, r) /\ x.start = LB /\ x.end = UB
                      /\ x.proc = p /\ x.rec = r
  <2>1. Mine(p, LB, UB, r) \in Lk
    BY DEF Mine, Lk
  <2> QED
    BY <2>1 DEF Mine
<1>6. PICK e \in Seq(Lk) :
        /\ e = InsertAt(d, l, x) /\ Len(e) = n + 1
        /\ \A k \in 1 .. l - 1 : e[k] = d[k]
        /\ e[l] = x
        /\ \A k \in l .. n : e[k + 1] = d[k]
  <2>1. PICK e \in Seq(Lk) : IsInsert(e, d, n, l, x)
    BY <1>4, Inserted
  <2> QED
    BY <2>1 DEF IsInsert
<1>7. PICK s \in Nat : s = 1
  OBVIOUS
<1>8. PICK b \in Nat, z \in Nat :
        /\ l <= b /\ b <= n + 1 /\ Reaches(d, n, p, l, UB, b, z)
        /\ Compacted(p, e, l) = Splice(e, l - 1, [e[l] EXCEPT !.end = z], b + s)
  <2>1. l >= 1 /\ l + 1 = l + s /\ Len(e) = n + s /\ e[l].end = UB
    BY <1>4, <1>5, <1>6, <1>7
  <2>2. \A k \in l .. n : e[k + s] = d[k]
    BY <1>6, <1>7
  <2>3. PICK b \in Nat, z \in Nat : Compacts(d, n, Compacted(p, e, l), e, s, l, l, p, UB, b, z)
    BY <1>4, <2>1, <2>2, CompactedIs
  <2> QED
    BY <2>3 DEF Compacts
<1>9. PICK y \in Lk : /\ y = [e[l] EXCEPT !.end = z] /\ y.start = LB /\ y.rec = r
                      /\ y.proc = p /\ y.end = z
  <2> PICK y : y = [x EXCEPT !.end = z]
    OBVIOUS
  <2>1. y \in Lk /\ y.start = x.start /\ y.rec = x.rec /\ y.proc = x.proc /\ y.end = z
    BY DEF Lk
  <2> QED
    BY <1>5, <1>6, <2>1
<1>10. l <= b /\ b <= n + 1 /\ i < b
  BY <1>3, <1>8, SMTT(60)
<1>11. A = Splice(d, i, y, b)
  <2>1. \A k \in 1 .. i : e[k] = d[k]
    BY <1>3, <1>6
  <2>2. \A k \in b .. n : e[k + s] = d[k]
    <3>1. \A k \in b .. n : k \in l .. n
      BY <1>10
    <3> QED
      BY <1>6, <1>7, <3>1
  <2>3. Len(e) = n + s
    BY <1>6, <1>7
  <2>4. Outside(d, n, i, b, e, s)
    BY <2>1, <2>2, <2>3 DEF Outside
  <2>5. PICK t : t = b + s
    OBVIOUS
  <2>6. Splice(e, i, y, t) = Splice(d, i, y, b)
    BY <1>10, <2>4, <2>5, SpliceSame, SMTT(60)
  <2>7. A = Compacted(p, e, l)
    BY <1>3, <1>5, <1>6
  <2>8. l - 1 = i
    BY <1>3
  <2> QED
    BY <1>8, <1>9, <2>5, <2>6, <2>7, <2>8
<1>12. /\ \A k \in b .. n : z <= d[k].start /\ (d[k].proc = p => z < d[k].start)
       /\ \A m \in Nat : UB <= m /\ m < z => \E k \in l .. b - 1 : d[k].start <= m /\ m < d[k].end
  <2>1. Reaches(d, n, p, l, UB, b, z)
    BY <1>8
  <2>2. \A k \in l .. n : LB <= d[k].start
    BY <1>3
  <2>3. Ends(d, n, p, l, UB, b, z)
    BY <1>4, <1>10, <2>1, <2>2, ReachFits
  <2> QED
    BY <2>3 DEF Ends
<1>13. Fits(d, i, y, b, p, LB, UB, R)
  <2>1. UB <= z /\ \A j \in l .. b - 1 : d[j].proc = p /\ d[j].end <= z
    BY <1>8 DEF Reaches
  <2>2. y.proc = p /\ y.start < y.end /\ y.start <= LB /\ UB <= y.end /\ y.rec \in R
    BY <1>9, <2>1
  <2>3. ASSUME NEW k \in 1 .. i
        PROVE  Clear(d[k], y)
    <3>1. CASE k = i
      BY <1>2, <1>9, <3>1 DEF Clear
    <3>2. CASE k # i
      <4>1. k \in 1 .. n /\ k < i
        BY <3>2
      <4>2. d[k].end <= d[i].start /\ d[i].start < d[i].end
        BY <1>1, <4>1
      <4>3. d[k].end \in Nat /\ d[i].start \in Nat /\ d[i].end \in Nat
        BY <1>1, <4>1
      <4>4. d[k].end < LB
        BY <1>2, <4>2, <4>3, SMTT(60)
      <4>5. d[k].end <= LB
        BY <4>3, <4>4
      <4> QED
        BY <1>9, <4>4, <4>5 DEF Clear
    <3> QED
      BY <3>1, <3>2
  <2>4. \A k \in b .. Len(d) : Clear(y, d[k])
    <3> SUFFICES ASSUME NEW k \in b .. n PROVE Clear(y, d[k])
      OBVIOUS
    <3>1. z <= d[k].start /\ (d[k].proc = p => z < d[k].start)
      BY <1>12
    <3> QED
      BY <1>9, <3>1 DEF Clear
  <2>5. \A k \in i + 1 .. b - 1 : k \in l .. b - 1 /\ k \in 1 .. n
    BY <1>3, <1>10
  <2>6. \A k \in l .. b - 1 : k \in i + 1 .. b - 1
    BY <1>3
  <2>7. ASSUME NEW k \in i + 1 .. b - 1
        PROVE  Within(d[k], y)
    <3>1. LB <= d[k].start
      BY <2>5
    <3> QED
      BY <1>9, <2>1, <2>5, <3>1 DEF Within
  <2>8. ASSUME NEW m \in Nat, y.start <= m, m < y.end
        PROVE  (LB <= m /\ m < UB) \/ \E k \in i + 1 .. b - 1 : d[k].start <= m /\ m < d[k].end
    <3>1. LB <= m /\ m < z
      BY <1>9, <2>8
    <3>2. CASE m < UB
      BY <3>1, <3>2
    <3>3. CASE UB <= m
      BY <1>12, <2>6, <3>1, <3>3
    <3> QED
      BY <3>2, <3>3
  <2> QED
    BY <2>2, <2>3, <2>4, <2>7, <2>8 DEF Fits
<1> QED
  BY <1>10, <1>11, <1>13 DEF Adds

\* The new lock comes first.
LEMMA HeadAdds ==
  ASSUME NEW c \in Seq(Lk), Neat(c), NEW n \in Nat, n = Len(c), NEW p \in Procs,
         NEW LB \in Nat, NEW UB \in Nat, LB < UB, AtHead(p, c, LB, UB),
         NEW r \in Records, NEW R, r \in R
  PROVE  Adds(c, n, <<Mine(p, LB, UB, r)>> \o c, 0, p, LB, UB, R)
<1>1. /\ \A k \in 1 .. n : /\ c[k] \in Lk /\ c[k].start \in Nat /\ c[k].end \in Nat
                           /\ c[k].start < c[k].end
      /\ \A j, k \in 1 .. n : j < k => c[j].end <= c[k].start /\ c[j].start < c[k].start
  BY Ordered
<1>2. PICK y \in Lk : /\ y = Mine(p, LB, UB, r) /\ y.start = LB /\ y.end = UB
                      /\ y.proc = p /\ y.rec = r
  <2>1. Mine(p, LB, UB, r) \in Lk
    BY DEF Mine, Lk
  <2> QED
    BY <2>1 DEF Mine
<1>3. PICK a \in Nat, b \in Nat : a = 0 /\ b = 1
  OBVIOUS
<1>4. Splice(c, a, y, b) = <<y>> \o c
  <2>1. PICK u \in Seq(Lk) : IsSplice(u, c, n, a, y, b)
    BY <1>3, SpliceIs
  <2>2. /\ Len(u) = a + 2 + n - b /\ u[a + 1] = y
        /\ \A k \in b .. n : u[a + 2 + k - b] = c[k]
    BY <2>1 DEF IsSplice
  <2>3. Len(u) = n + 1 /\ u[1] = y
    BY <1>3, <2>2
  <2>4. \A k \in 1 .. n : u[1 + k] = c[k]
    BY <1>3, <2>2
  <2>5. PICK v \in Seq(Lk) : v = <<y>> /\ Len(v) = 1 /\ v[1] = y
    <3>1. <<y>> \in Seq(Lk)
      OBVIOUS
    <3>2. Len(<<y>>) = 1
      OBVIOUS
    <3>3. <<y>>[1] = y
      OBVIOUS
    <3> QED
      BY <3>1, <3>2, <3>3, Zenon
  <2>6. PICK w \in Seq(Lk) : IsJoin(w, v, c)
    BY Joined
  <2>7. /\ w = v \o c /\ Len(w) = Len(v) + Len(c)
        /\ \A k \in 1 .. Len(v) : w[k] = v[k]
        /\ \A k \in 1 .. Len(c) : w[Len(v) + k] = c[k]
    BY <2>6 DEF IsJoin
  <2>8. Len(w) = n + 1 /\ w[1] = y
    BY <2>5, <2>7
  <2>9. \A k \in 1 .. n : w[1 + k] = c[k]
    BY <2>5, <2>7
  <2>10. ASSUME NEW k \in 1 .. n + 1
         PROVE  u[k] = w[k]
    <3>1. CASE k = 1
      BY <2>3, <2>8, <3>1
    <3>2. CASE k # 1
      <4>1. k - 1 \in 1 .. n /\ 1 + (k - 1) = k
        BY <3>2
      <4> QED
        BY <2>4, <2>9, <4>1
    <3> QED
      BY <3>1, <3>2
  <2>11. u = w
    BY <2>3, <2>8, <2>10, SeqEqual
  <2> QED
    BY <2>1, <2>5, <2>7, <2>11 DEF IsSplice
<1>5. Fits(c, a, y, b, p, LB, UB, R)
  <2>1. y.proc = p /\ y.start < y.end /\ y.start <= LB /\ UB <= y.end /\ y.rec \in R
    BY <1>2
  <2>2. \A k \in 1 .. a : Clear(c[k], y)
    BY <1>3
  <2>3. ASSUME NEW k \in 1 .. n
        PROVE  Clear(y, c[k])
    <3>1. 1 \in 1 .. n
      OBVIOUS
    <3>2. c # <<>>
      BY <3>1
    <3>3. UB < c[1].start \/ (UB = c[1].start /\ p # c[1].proc)
      BY <3>2 DEF AtHead
    <3>4. c[1].start \in Nat /\ c[k].start \in Nat
      BY <1>1, <3>1
    <3>5. CASE k = 1
      BY <1>2, <3>3, <3>4, <3>5 DEF Clear
    <3>6. CASE k # 1
      <4>1. c[1].start < c[k].start
        BY <1>1, <3>1, <3>6
      <4>2. UB < c[k].start /\ UB <= c[k].start
        BY <3>3, <3>4, <4>1
      <4> QED
        BY <1>2, <4>2 DEF Clear
    <3> QED
      BY <3>5, <3>6
  <2>4. \A k \in b .. Len(c) : Clear(y, c[k])
    BY <1>3, <2>3
  <2>5. \A m \in Nat : y.start <= m /\ m < y.end => LB <= m /\ m < UB
    BY <1>2
  <2>6. \A k \in a + 1 .. b - 1 : FALSE
    BY <1>3
  <2> QED
    BY <2>1, <2>2, <2>4, <2>5, <2>6 DEF Fits
<1>6. Adds(c, n, <<y>> \o c, a, p, LB, UB, R)
  <2>1. PICK A : A = <<y>> \o c
    OBVIOUS
  <2>2. A = Splice(c, a, y, b) /\ a < b /\ b <= n + 1
    BY <1>3, <1>4, <2>1
  <2>3. Adds(c, n, A, a, p, LB, UB, R)
    BY <1>5, <2>2 DEF Adds
  <2> QED
    BY <2>1, <2>3
<1> QED
  BY <1>2, <1>3, <1>6

\* The first lock is stretched to LB, if that is before it; only a lock of p is.
IsStretched(d, c, n, p, LB) ==
  /\ Len(d) = n
  /\ \A k \in 2 .. n : d[k] = c[k]
  /\ d[1].proc = c[1].proc /\ d[1].end = c[1].end /\ d[1].rec = c[1].rec
  /\ \/ d = c /\ c[1].start <= LB
     \/ d[1].start = LB /\ LB < c[1].start /\ c[1].proc = p

LEMMA StretchedIs ==
  ASSUME NEW c \in Seq(Lk), Neat(c), NEW n \in Nat, n = Len(c), NEW p,
         NEW LB \in Nat, NEW UB \in Nat, LB < UB, ~AtHead(p, c, LB, UB), Free(c, p, LB, UB)
  PROVE  \E d \in Seq(Lk) : /\ d = Stretched(c, LB) /\ n >= 1 /\ c[1].start <= UB
                            /\ IsStretched(d, c, n, p, LB)
                            /\ Neat(d) /\ Free(d, p, LB, UB)
<1>1. /\ \A k \in 1 .. n : /\ c[k] \in Lk /\ c[k].start \in Nat /\ c[k].end \in Nat
                           /\ c[k].start < c[k].end
      /\ \A j, k \in 1 .. n : j < k => Clear(c[j], c[k])
  BY Ordered
<1>2. n >= 1 /\ 1 \in 1 .. n
  <2>1. n # 0
    BY DEF AtHead
  <2> QED
    BY <2>1
<1>3. c[1].start <= UB /\ (c[1].proc # p => c[1].start < UB)
  <2>1. ~(UB < c[1].start) /\ ~(UB = c[1].start /\ p # c[1].proc)
    BY DEF AtHead
  <2>2. c[1].start \in Nat
    BY <1>1, <1>2
  <2> QED
    BY <2>1, <2>2
<1>4. CASE c[1].start <= LB
  <2>1. ~(LB < c[1].start)
    BY <1>1, <1>2, <1>4
  <2>2. Stretched(c, LB) = c
    <3>1. Stretched(c, LB) = [c EXCEPT ![1].start = c[1].start]
      BY <2>1 DEF Stretched
    <3>2. [c[1] EXCEPT !.start = c[1].start] = c[1]
      BY <1>1, <1>2 DEF Lk
    <3>3. [c EXCEPT ![1] = c[1]] = c
      OBVIOUS
    <3> QED
      BY <3>1, <3>2, <3>3
  <2>3. IsStretched(c, c, n, p, LB)
    BY <1>4 DEF IsStretched
  <2> QED
    BY <1>2, <1>3, <2>2, <2>3
<1>5. CASE ~(c[1].start <= LB)
  <2>1. LB < c[1].start
    BY <1>1, <1>2, <1>5
  <2>2. c[1].proc = p
    <3>1. SUFFICES ASSUME c[1].proc # p PROVE FALSE
      OBVIOUS
    <3>2. c[1].end <= LB \/ UB <= c[1].start
      BY <1>2, <3>1 DEF Free
    <3>3. c[1].start < UB /\ c[1].start < c[1].end /\ c[1].start \in Nat /\ c[1].end \in Nat
      BY <1>1, <1>2, <1>3, <3>1
    <3> QED
      BY <2>1, <3>2, <3>3
  <2>3. PICK x \in Lk : /\ x = [c[1] EXCEPT !.start = LB] /\ x.start = LB
                        /\ x.proc = c[1].proc /\ x.end = c[1].end /\ x.rec = c[1].rec
    <3>1. c[1] \in Lk
      BY <1>1, <1>2
    <3> PICK x : x = [c[1] EXCEPT !.start = LB]
      OBVIOUS
    <3>2. /\ x \in Lk /\ x.start = LB
          /\ x.proc = c[1].proc /\ x.end = c[1].end /\ x.rec = c[1].rec
      BY <3>1 DEF Lk
    <3> QED
      BY <3>2
  <2>4. PICK d \in Seq(Lk) : /\ d = Stretched(c, LB) /\ Len(d) = n /\ d[1] = x
                            /\ \A k \in 1 .. n : k # 1 => d[k] = c[k]
    <3> PICK d : d = [c EXCEPT ![1] = x]
      OBVIOUS
    <3>1. d = Stretched(c, LB)
      BY <2>1, <2>3 DEF Stretched
    <3>2. d \in Seq(Lk) /\ Len(d) = n
      BY <1>2
    <3>3. d[1] = x /\ \A k \in 1 .. n : k # 1 => d[k] = c[k]
      BY <1>2
    <3> QED
      BY <3>1, <3>2, <3>3
  <2>5. IsStretched(d, c, n, p, LB)
    <3>1. \A k \in 2 .. n : d[k] = c[k]
      <4>1. \A k \in 2 .. n : k \in 1 .. n /\ k # 1
        OBVIOUS
      <4> QED
        BY <2>4, <4>1
    <3> QED
      BY <2>1, <2>2, <2>3, <2>4, <3>1 DEF IsStretched
  <2>6. \A k \in 1 .. n : d[k].proc = c[k].proc /\ d[k].end = c[k].end /\ d[k].rec = c[k].rec
    BY <2>3, <2>4
  <2>7. \A k \in 1 .. n : k # 1 => d[k] = c[k]
    BY <2>4
  <2>8. Neat(d)
    <3>1. ASSUME NEW k \in 1 .. n
          PROVE  d[k].start < d[k].end
      <4>1. CASE k = 1
        <5>1. LB < c[1].start /\ c[1].start < c[1].end /\ c[1].start \in Nat /\ c[1].end \in Nat
          BY <1>1, <1>2, <2>1
        <5>2. LB < c[1].end
          BY <5>1
        <5> QED
          BY <2>3, <2>4, <4>1, <5>2
      <4>2. CASE k # 1
        BY <1>1, <2>7, <4>2
      <4> QED
        BY <4>1, <4>2
    <3>2. ASSUME NEW j \in 1 .. n, NEW k \in 1 .. n, j < k
          PROVE  Before(d[j], d[k])
      <4>1. k # 1
        BY <3>2
      <4>2. d[k] = c[k] /\ d[j].proc = c[j].proc /\ d[j].end = c[j].end /\ d[j].rec = c[j].rec
        BY <2>6, <2>7, <4>1
      <4>3. Before(c[j], c[k])
        BY <3>2 DEF Neat
      <4> QED
        BY <4>2, <4>3 DEF Before, Clear
    <3> QED
      BY <2>4, <3>1, <3>2 DEF Neat
  <2>9. Free(d, p, LB, UB)
    <3> SUFFICES ASSUME NEW k \in 1 .. n, d[k].proc # p
                 PROVE  d[k].end <= LB \/ UB <= d[k].start
      BY <2>4 DEF Free
    <3>1. k # 1
      BY <2>2, <2>6
    <3>2. d[k] = c[k]
      BY <2>7, <3>1
    <3> QED
      BY <3>2 DEF Free
  <2> QED
    BY <1>2, <1>3, <2>4, <2>5, <2>8, <2>9
<1> QED
  BY <1>4, <1>5

\* Where the search for a lock of p that reaches the region ends.
LEMMA PlaceIs ==
  ASSUME NEW d \in Seq(Lk), Neat(d), NEW n \in Nat, n = Len(d), n >= 1, NEW LB \in Nat,
         d[1].start <= LB
  PROVE  \E i \in 1 .. n : /\ i = Place(d, LB) /\ d[i].start <= LB
                           /\ \A k \in i + 1 .. n : LB <= d[k].start
<1> PICK S : S = {j \in 2 .. n + 1 : j > n \/ d[j].start >= LB}
  OBVIOUS
<1>1. S \in SUBSET Nat /\ n + 1 \in S
  OBVIOUS
<1>2. PICK m \in Nat : m = Min(S) /\ m \in S /\ \A j \in S : m <= j
  BY <1>1, MinNat
<1>3. m \in 2 .. n + 1 /\ (m > n \/ d[m].start >= LB)
  BY <1>2
<1>4. PICK i \in 1 .. n : i = m - 1
  BY <1>3
<1>5. i = Place(d, LB)
  BY <1>2, <1>4 DEF Place
<1>6. /\ \A k \in 1 .. n : d[k].start \in Nat
      /\ \A j, k \in 1 .. n : j < k => d[j].start < d[k].start
  BY Ordered
<1>7. d[i].start <= LB
  <2>1. CASE i = 1
    BY <2>1
  <2>2. CASE i # 1
    <3>1. i \in 2 .. n + 1 /\ ~(m <= i)
      BY <1>4, <2>2
    <3>2. i \notin S
      BY <1>2, <3>1
    <3>3. ~(d[i].start >= LB)
      BY <3>1, <3>2
    <3>4. d[i].start \in Nat
      BY <1>6
    <3> QED
      BY <3>3, <3>4
  <2> QED
    BY <2>1, <2>2
<1>8. ASSUME NEW k \in i + 1 .. n
      PROVE  LB <= d[k].start
  <2>1. m \in 1 .. n /\ k \in 1 .. n /\ (m = k \/ m < k)
    BY <1>3, <1>4
  <2>2. d[m].start >= LB /\ d[m].start \in Nat /\ d[k].start \in Nat
    BY <1>3, <1>6, <2>1
  <2>3. m < k => d[m].start < d[k].start
    BY <1>6, <2>1
  <2>4. m = k => d[m].start = d[k].start
    OBVIOUS
  <2> QED
    BY <2>1, <2>2, <2>3, <2>4
<1> QED
  BY <1>5, <1>7, <1>8

\* What replaces the stretched first lock replaces the lock it was.
LEMMA UnstretchedAdds ==
  ASSUME NEW c \in Seq(Lk), NEW n \in Nat, n = Len(c), n >= 1, NEW d \in Seq(Lk), Len(d) = n,
         NEW p, NEW LB \in Nat, NEW UB \in Nat, c[1].start <= UB,
         \A k \in 2 .. n : d[k] = c[k],
         d[1].proc = c[1].proc, d[1].end = c[1].end, d[1].rec = c[1].rec,
         d[1].start = LB, LB < c[1].start,
         NEW A, NEW R, NEW a \in Nat, a = 0, Adds(d, n, A, a, p, LB, UB, R)
  PROVE  Adds(c, n, A, a, p, LB, UB, R)
<1>1. PICK b \in Nat, y \in Lk : /\ a < b /\ b <= n + 1
                                 /\ A = Splice(d, a, y, b) /\ Fits(d, a, y, b, p, LB, UB, R)
  BY DEF Adds
<1>2. \A k \in 1 .. n : c[k].start \in Nat /\ c[k].end \in Nat
  BY Members
<1>3. y.start \in Nat /\ y.end \in Nat
  BY DEF Lk
<1>4. A = Splice(c, a, y, b)
  <2>1. PICK s \in Nat : s = 0
    OBVIOUS
  <2>2. PICK t : t = b + s
    OBVIOUS
  <2>3. \A k \in b .. n : k \in 2 .. n \/ k = 1
    BY <1>1
  <2>4. CASE b = 1
    <3>1. y.end <= y.start
      <4>1. 1 \in b .. Len(d)
        BY <2>4
      <4>2. Clear(y, d[1])
        BY <1>1, <4>1 DEF Fits
      <4>3. y.end <= LB /\ UB <= y.end
        BY <1>1, <4>2 DEF Clear, Fits
      <4>4. c[1].start \in Nat
        BY <1>2
      <4> QED
        BY <1>3, <4>3, <4>4
    <3> QED
      BY <1>1, <1>3, <3>1 DEF Fits
  <2>5. CASE b # 1
    <3>1. \A k \in b .. n : k \in 2 .. n
      BY <1>1, <2>3, <2>5
    <3>2. \A k \in b .. n : d[k + s] = c[k]
      BY <2>1, <3>1
    <3>3. Outside(c, n, a, b, d, s)
      BY <2>1, <3>2 DEF Outside
    <3>4. a < b /\ b <= n + 1
      BY <1>1
    <3>5. Splice(d, a, y, t) = Splice(c, a, y, b)
      BY <2>2, <3>3, <3>4, SpliceSame, SMTT(60)
    <3>6. t = b
      BY <2>1, <2>2
    <3> QED
      BY <1>1, <3>5, <3>6
  <2> QED
    BY <2>4, <2>5
<1>5. b # 1
  <2>1. SUFFICES ASSUME b = 1 PROVE FALSE
    OBVIOUS
  <2>2. 1 \in b .. Len(d)
    BY <2>1
  <2>3. Clear(y, d[1])
    BY <1>1, <2>2 DEF Fits
  <2>4. y.end <= LB /\ UB <= y.end
    BY <1>1, <2>3 DEF Clear, Fits
  <2>5. c[1].start \in Nat
    BY <1>2
  <2> QED
    BY <1>3, <2>4, <2>5
<1>6. b > 1
  BY <1>1, <1>5
<1>7. 1 \in a + 1 .. b - 1 /\ \A k \in a + 1 .. b - 1 : k = 1 \/ k \in 2 .. n
  <2>1. b <= n + 1
    BY <1>1
  <2> QED
    BY <1>6, <2>1
<1>8. Fits(c, a, y, b, p, LB, UB, R)
  <2>1. /\ y.proc = p /\ y.start < y.end /\ y.start <= LB /\ UB <= y.end
        /\ y.rec \in R \/ \E k \in a + 1 .. b - 1 : d[k].rec = y.rec
        /\ \A k \in b .. n : Clear(y, d[k])
        /\ \A k \in a + 1 .. b - 1 : Within(d[k], y)
    BY <1>1 DEF Fits
  <2>2. \A m \in Nat : y.start <= m /\ m < y.end =>
       (LB <= m /\ m < UB) \/ \E k \in a + 1 .. b - 1 : d[k].start <= m /\ m < d[k].end
    BY <1>1 DEF Fits
  <2>3. \A k \in 1 .. a : Clear(c[k], y)
    OBVIOUS
  <2>4. \A k \in b .. Len(c) : Clear(y, c[k])
    <3>1. \A k \in b .. n : k \in 2 .. n
      BY <1>6
    <3> QED
      BY <2>1, <3>1
  <2>5. ASSUME NEW k \in a + 1 .. b - 1
        PROVE  Within(c[k], y) /\ c[k].rec = d[k].rec
    <3>1. Within(d[k], y)
      BY <2>1
    <3>2. CASE k = 1
      <4>1. y.start <= c[1].start
        BY <1>2, <1>3, <2>1
      <4> QED
        BY <3>1, <3>2, <4>1 DEF Within
    <3>3. CASE k \in 2 .. n
      BY <3>1, <3>3
    <3> QED
      BY <1>7, <3>2, <3>3
  <2>6. y.rec \in R \/ \E k \in a + 1 .. b - 1 : c[k].rec = y.rec
    BY <2>1, <2>5
  <2>7. ASSUME NEW m \in Nat, y.start <= m, m < y.end
        PROVE  (LB <= m /\ m < UB) \/ \E k \in a + 1 .. b - 1 : c[k].start <= m /\ m < c[k].end
    <3>1. CASE LB <= m /\ m < UB
      BY <3>1
    <3>2. CASE \E k \in a + 1 .. b - 1 : d[k].start <= m /\ m < d[k].end
      <4>1. PICK k \in a + 1 .. b - 1 : d[k].start <= m /\ m < d[k].end
        BY <3>2
      <4>2. CASE k = 1
        <5>1. LB <= m /\ m < c[1].end
          BY <4>1, <4>2
        <5>2. CASE c[1].start <= m
          BY <1>7, <5>1, <5>2
        <5>3. CASE ~(c[1].start <= m)
          <6>1. c[1].start \in Nat
            BY <1>2
          <6>2. m < UB
            BY <5>3, <6>1
          <6> QED
            BY <5>1, <6>2
        <5> QED
          BY <5>2, <5>3
      <4>3. CASE k \in 2 .. n
        BY <4>1, <4>3
      <4> QED
        BY <1>7, <4>2, <4>3
    <3> QED
      BY <2>2, <2>7, <3>1, <3>2
  <2> QED
    BY <2>1, <2>3, <2>4, <2>5, <2>6, <2>7 DEF Fits
<1>9. a < b /\ b <= n + 1
  BY <1>1
<1> QED
  BY <1>4, <1>8, <1>9 DEF Adds

\* A lock of p is stretched only if it reaches up to the region, and none that
\* does not reach that far goes on past it.
LEMMA NotResolved ==
  ASSUME NEW d \in Seq(Lk), Neat(d), NEW n \in Nat, n = Len(d), NEW p,
         NEW LB \in Nat, NEW UB \in Nat, LB < UB, Free(d, p, LB, UB),
         NEW i \in 1 .. n, d[i].start <= LB, ~Touches(p, d, i, LB)
  PROVE  ~Resolved(d, i, UB)
<1>1. d[i].start \in Nat /\ d[i].end \in Nat
  BY Ordered
<1>2. d[i].end <= LB
  <2>1. CASE d[i].proc = p
    BY <1>1, <2>1 DEF Touches
  <2>2. CASE d[i].proc # p
    <3>1. d[i].end <= LB \/ UB <= d[i].start
      BY <2>2 DEF Free
    <3> QED
      BY <1>1, <3>1
  <2> QED
    BY <2>1, <2>2
<1> QED
  BY <1>1, <1>2 DEF Resolved

LEMMA NeedsIs ==
  ASSUME NEW c \in Seq(Lk), Neat(c), NEW p \in Procs,
         NEW LB \in Nat, NEW UB \in Nat, LB < UB, Free(c, p, LB, UB),
         ~AtHead(p, c, LB, UB), Needs(p, c, LB, UB)
  PROVE  Stretched(c, LB) = c
<1>1. PICK n \in Nat : n = Len(c)
  OBVIOUS
<1>2. PICK d \in Seq(Lk) : /\ d = Stretched(c, LB) /\ n >= 1 /\ c[1].start <= UB
                           /\ IsStretched(d, c, n, p, LB)
                           /\ Neat(d) /\ Free(d, p, LB, UB)
  BY <1>1, StretchedIs
<1>3. /\ Len(d) = n
      /\ \A k \in 2 .. n : d[k] = c[k]
      /\ d[1].proc = c[1].proc /\ d[1].end = c[1].end /\ d[1].rec = c[1].rec
      /\ \/ d = c /\ c[1].start <= LB
         \/ d[1].start = LB /\ LB < c[1].start /\ c[1].proc = p
  BY <1>2 DEF IsStretched
<1>4. PICK i \in 1 .. n : /\ i = Place(d, LB) /\ d[i].start <= LB
                          /\ \A k \in i + 1 .. n : LB <= d[k].start
  <2>1. d[1].start <= LB
    BY <1>3
  <2> QED
    BY <1>2, <1>3, <2>1, PlaceIs, SMTT(60)
<1>5. ASSUME d # c
      PROVE  i = 1 /\ Touches(p, d, i, LB)
  <2>1. d[1].start = LB /\ LB < c[1].start /\ c[1].proc = p
    BY <1>3, <1>5
  <2>2. /\ \A k \in 1 .. n : /\ d[k].start \in Nat /\ d[k].end \in Nat
                             /\ d[k].start < d[k].end
        /\ \A j, k \in 1 .. n : j < k => d[j].start < d[k].start
    BY <1>2, <1>3, Ordered
  <2>3. 1 \in 1 .. n
    BY <1>2
  <2>4. i = 1
    <3>1. SUFFICES ASSUME i # 1 PROVE FALSE
      OBVIOUS
    <3>2. d[1].start < d[i].start
      BY <2>2, <2>3, <3>1
    <3>3. d[i].start \in Nat
      BY <2>2
    <3> QED
      BY <1>4, <2>1, <3>2, <3>3
  <2>5. LB <= d[1].end
    <3>1. d[1].start < d[1].end /\ d[1].end \in Nat
      BY <2>2, <2>3
    <3> QED
      BY <2>1, <3>1
  <2> QED
    BY <1>3, <2>1, <2>4, <2>5 DEF Touches
<1>6. ~Touches(p, d, i, LB)
  BY <1>2, <1>4 DEF Needs
<1> QED
  BY <1>2, <1>5, <1>6

\* Locking keeps a list in order, whatever of it the new lock takes up.
LEMMA AddedIs ==
  ASSUME NEW c \in Seq(Lk), Neat(c), NEW p \in Procs,
         NEW LB \in Nat, NEW UB \in Nat, LB < UB, Free(c, p, LB, UB),
         NEW r, NEW R, R = (IF Needs(p, c, LB, UB) THEN {r} ELSE {}),
         Needs(p, c, LB, UB) => r \in Records,
         \A x \in ToSet(c) : x.rec \notin R
  PROVE  \E e \in Seq(Lk) : e = Added(p, c, LB, UB, r) /\ Grown(c, e, p, LB, UB, R)
<1>1. PICK n \in Nat : n = Len(c)
  OBVIOUS
<1>2. PICK A : A = Added(p, c, LB, UB, r)
  OBVIOUS
<1>3. ASSUME NEW a \in Nat, Adds(c, n, A, a, p, LB, UB, R)
      PROVE  \E e \in Seq(Lk) : e = A /\ Grown(c, e, p, LB, UB, R)
  <2>1. PICK b \in Nat, y \in Lk : /\ a < b /\ b <= n + 1
                                   /\ A = Splice(c, a, y, b) /\ Fits(c, a, y, b, p, LB, UB, R)
    BY <1>3 DEF Adds
  <2>2. PICK e \in Seq(Lk) : e = Splice(c, a, y, b) /\ Grown(c, e, p, LB, UB, R)
    BY <1>1, <2>1, SpliceGrows
  <2> QED
    BY <2>1, <2>2
<1>4. CASE AtHead(p, c, LB, UB)
  <2>1. Needs(p, c, LB, UB)
    BY <1>4 DEF Needs
  <2>2. r \in Records /\ r \in R
    BY <2>1
  <2>3. A = <<Mine(p, LB, UB, r)>> \o c
    BY <1>2, <1>4 DEF Added
  <2>4. PICK a \in Nat : a = 0
    OBVIOUS
  <2>5. Adds(c, n, A, a, p, LB, UB, R)
    BY <1>1, <1>4, <2>2, <2>3, <2>4, HeadAdds
  <2> QED
    BY <1>2, <1>3, <2>5
<1>5. CASE ~AtHead(p, c, LB, UB)
  <2>1. PICK d \in Seq(Lk) : /\ d = Stretched(c, LB) /\ n >= 1 /\ c[1].start <= UB
                             /\ IsStretched(d, c, n, p, LB)
                             /\ Neat(d) /\ Free(d, p, LB, UB)
    BY <1>1, <1>5, StretchedIs
  <2>2. /\ Len(d) = n
        /\ \A k \in 2 .. n : d[k] = c[k]
        /\ d[1].proc = c[1].proc /\ d[1].end = c[1].end /\ d[1].rec = c[1].rec
        /\ \/ d = c /\ c[1].start <= LB
           \/ d[1].start = LB /\ LB < c[1].start /\ c[1].proc = p
    BY <2>1 DEF IsStretched
  <2>3. PICK i \in 1 .. n : /\ i = Place(d, LB) /\ d[i].start <= LB
                            /\ \A k \in i + 1 .. n : LB <= d[k].start
    <3>1. d[1].start <= LB
      BY <2>2
    <3> QED
      BY <2>1, <2>2, <3>1, PlaceIs, SMTT(60)
  <2>4. ASSUME d # c
        PROVE  i = 1 /\ Touches(p, d, i, LB)
    <3>1. d[1].start = LB /\ LB < c[1].start /\ c[1].proc = p
      BY <2>2, <2>4
    <3>2. /\ \A k \in 1 .. n : /\ d[k].start \in Nat /\ d[k].end \in Nat
                               /\ d[k].start < d[k].end
          /\ \A j, k \in 1 .. n : j < k => d[j].start < d[k].start
      BY <2>1, <2>2, Ordered
    <3>3. 1 \in 1 .. n
      BY <2>1
    <3>4. i = 1
      <4>1. SUFFICES ASSUME i # 1 PROVE FALSE
        OBVIOUS
      <4>2. d[1].start < d[i].start
        BY <3>2, <3>3, <4>1
      <4>3. d[i].start \in Nat
        BY <3>2
      <4> QED
        BY <2>3, <3>1, <4>2, <4>3
    <3>5. LB <= d[1].end
      <4>1. d[1].start < d[1].end /\ d[1].end \in Nat
        BY <3>2, <3>3
      <4> QED
        BY <3>1, <4>1
    <3> QED
      BY <2>2, <3>1, <3>4, <3>5 DEF Touches
  <2>5. CASE Touches(p, d, i, LB)
    <3>1. A = IF UB <= d[i].end THEN d ELSE Compacted(p, [d EXCEPT ![i].end = UB], i)
      BY <1>2, <1>5, <2>1, <2>3, <2>5 DEF Added
    <3>2. PICK a \in Nat : a = i - 1
      OBVIOUS
    <3>3. Adds(d, n, A, i - 1, p, LB, UB, R)
      <4>1. \A k \in i + 1 .. n : LB <= d[k].start
        BY <2>3
      <4>2. d[i].start <= LB
        BY <2>3
      <4> QED
        BY <2>1, <2>2, <2>5, <3>1, <4>1, <4>2, StretchAdds
    <3>4. Adds(d, n, A, a, p, LB, UB, R)
      BY <3>2, <3>3
    <3>5. CASE d = c
      BY <1>2, <1>3, <3>4, <3>5
    <3>6. CASE d # c
      <4>1. a = 0
        BY <2>4, <3>2, <3>6
      <4>2. d[1].start = LB /\ LB < c[1].start
        BY <2>2, <3>6
      <4>3. Adds(c, n, A, a, p, LB, UB, R)
        BY <1>1, <2>1, <2>2, <3>4, <4>1, <4>2, UnstretchedAdds
      <4> QED
        BY <1>2, <1>3, <4>3
    <3> QED
      BY <3>5, <3>6
  <2>6. CASE ~Touches(p, d, i, LB)
    <3>1. d = c
      BY <2>4, <2>6
    <3>2. Needs(p, c, LB, UB) /\ ~Resolved(d, i, UB)
      <4>1. ~Resolved(d, i, UB)
        BY <2>1, <2>2, <2>3, <2>6, NotResolved
      <4> QED
        BY <2>1, <2>3, <2>6, <4>1 DEF Needs
    <3>3. r \in Records /\ r \in R
      BY <3>2
    <3>4. A = Compacted(p, InsertAt(d, i + 1, Mine(p, LB, UB, r)), i + 1)
      BY <1>2, <1>5, <2>1, <2>3, <2>6, <3>2 DEF Added
    <3>5. Adds(d, n, A, i, p, LB, UB, R)
      <4>1. \A k \in i + 1 .. n : LB <= d[k].start
        BY <2>3
      <4>2. d[i].start <= LB
        BY <2>3
      <4> QED
        BY <2>1, <2>2, <2>6, <3>3, <3>4, <4>1, <4>2, InsertAdds
    <3>6. i \in Nat
      OBVIOUS
    <3> QED
      BY <1>2, <1>3, <3>1, <3>5, <3>6
  <2> QED
    BY <2>5, <2>6
<1> QED
  BY <1>4, <1>5

-----------------------------------------------------------------------------
\* What FlattenSeq makes of a sequence of n lists, one list after the other.
Flattens(h, g, n) ==
  /\ h[0] = <<>>
  /\ \A i \in 1 .. n : h[i] = h[i - 1] \o g[i]

LEMMA FlattenIs ==
  ASSUME NEW g \in Seq(Seq(Lk)), NEW n \in Nat, n = Len(g)
  PROVE  \E h : Flattens(h, g, n) /\ FlattenSeq(g) = h[n]
<1> DEFINE Upto1(f, k) == f = [i \in 1 .. k |-> IF i = 1 THEN g[i] ELSE f[i - 1] \o g[i]]
           Lacking == {k \in Nat : ~\E f : Upto1(f, k)}
           flatten[i \in 1 .. n] == IF i = 1 THEN g[i] ELSE flatten[i - 1] \o g[i]
<1>1. Lacking = {}
  <2>1. SUFFICES ASSUME Lacking # {} PROVE FALSE
    OBVIOUS
  <2>2. PICK k \in Lacking : \A j \in Lacking : k <= j
    BY <2>1, LeastNat
  <2>3. k \in Nat /\ ~\E f : Upto1(f, k)
    OBVIOUS
  <2>4. CASE k = 0
    <3> DEFINE f == [i \in 1 .. k |-> g[i]]
    <3>1. Upto1(f, k)
      BY <2>4
    <3> QED
      BY <2>3, <3>1
  <2>5. CASE k # 0
    <3>1. k - 1 \in Nat /\ ~(k <= k - 1)
      BY <2>3, <2>5
    <3>2. PICK e : Upto1(e, k - 1)
      BY <2>2, <3>1
    <3>3. \A i \in 1 .. k - 1 : e[i] = IF i = 1 THEN g[i] ELSE e[i - 1] \o g[i]
      BY <3>2
    <3> DEFINE f == [i \in 1 .. k |-> IF i = k THEN (IF k = 1 THEN g[k] ELSE e[k - 1] \o g[k])
                                      ELSE e[i]]
    <3>4. ASSUME NEW i \in 1 .. k
          PROVE  f[i] = IF i = 1 THEN g[i] ELSE f[i - 1] \o g[i]
      <4>1. CASE i = 1 /\ i = k
        BY <4>1
      <4>2. CASE i = 1 /\ i # k
        <5>1. i \in 1 .. k - 1
          BY <2>3, <4>2
        <5> QED
          BY <3>3, <4>2, <5>1
      <4>3. CASE i # 1 /\ i = k
        <5>1. i - 1 \in 1 .. k /\ i - 1 # k
          BY <2>3, <4>3
        <5>2. f[i - 1] = e[i - 1]
          BY <5>1
        <5> QED
          BY <4>3, <5>2
      <4>4. CASE i # 1 /\ i # k
        <5>1. i - 1 \in 1 .. k /\ i - 1 # k /\ i \in 1 .. k - 1
          BY <2>3, <4>4
        <5>2. f[i - 1] = e[i - 1]
          BY <5>1
        <5> QED
          BY <3>3, <4>4, <5>1, <5>2
      <4> QED
        BY <4>1, <4>2, <4>3, <4>4
    <3>5. Upto1(f, k)
      BY <3>4
    <3> QED
      BY <2>3, <3>5
  <2> QED
    BY <2>4, <2>5
<1> HIDE DEF Upto1
<1>2. \E f : Upto1(f, n)
  BY <1>1
<1> USE DEF Upto1
<1>3. flatten = CHOOSE f : Upto1(f, n)
  OBVIOUS
<1>4. Upto1(flatten, n)
  BY <1>2, <1>3
<1>5. FlattenSeq(g) = IF n = 0 THEN g ELSE flatten[n]
  BY DEF FlattenSeq
<1> HIDE DEF flatten
<1>6. \A i \in 1 .. n : flatten[i] = IF i = 1 THEN g[i] ELSE flatten[i - 1] \o g[i]
  BY <1>4
<1> DEFINE h == [i \in 0 .. n |-> IF i = 0 THEN <<>> ELSE flatten[i]]
<1>7. h[0] = <<>>
  OBVIOUS
<1>8. ASSUME NEW i \in 1 .. n
      PROVE  h[i] = h[i - 1] \o g[i]
  <2>1. i \in 0 .. n /\ i # 0 /\ i - 1 \in 0 .. n
    OBVIOUS
  <2>2. CASE i = 1
    <3>1. g[i] \in Seq(Lk)
      OBVIOUS
    <3>2. <<>> \o g[i] = g[i]
      BY <3>1
    <3>3. h[i - 1] = <<>> /\ h[i] = g[i]
      BY <1>6, <2>1, <2>2
    <3> QED
      BY <3>2, <3>3
  <2>3. CASE i # 1
    <3>1. i - 1 # 0
      BY <2>3
    <3> QED
      BY <1>6, <2>1, <2>3, <3>1
  <2> QED
    BY <2>2, <2>3
<1>9. FlattenSeq(g) = h[n]
  <2>1. CASE n = 0
    <3>1. g = <<>>
      BY <2>1, EmptySeq
    <3> QED
      BY <1>5, <2>1, <3>1
  <2>2. CASE n # 0
    BY <1>5, <2>2
  <2> QED
    BY <2>1, <2>2
<1> HIDE DEF h
<1> QED
  BY <1>7, <1>8, <1>9 DEF Flattens

\* Lists one after the other, the locks of the first before those of the second.
NeatJoin(d, u, t) ==
  /\ d = u \o t /\ Neat(d)
  /\ \A x : x \in ToSet(d) <=> x \in ToSet(u) \/ x \in ToSet(t)

LEMMA JoinNeat ==
  ASSUME NEW u \in Seq(Lk), Neat(u), NEW t \in Seq(Lk), Neat(t),
         \A x \in ToSet(u), y \in ToSet(t) : Before(x, y)
  PROVE  \E d \in Seq(Lk) : NeatJoin(d, u, t)
<1>1. PICK d \in Seq(Lk) : IsJoin(d, u, t)
  BY Joined
<1>2. PICK m \in Nat, n \in Nat : m = Len(u) /\ n = Len(t)
  OBVIOUS
<1>3. /\ d = u \o t /\ Len(d) = m + n
      /\ \A k \in 1 .. m : d[k] = u[k]
      /\ \A k \in 1 .. n : d[m + k] = t[k]
  BY <1>1, <1>2 DEF IsJoin
<1>4. /\ \A k \in 1 .. m : u[k] \in ToSet(u)
      /\ \A z \in ToSet(u) : \E k \in 1 .. m : z = u[k]
  BY <1>2, Members
<1>5. /\ \A k \in 1 .. n : t[k] \in ToSet(t)
      /\ \A z \in ToSet(t) : \E k \in 1 .. n : z = t[k]
  BY <1>2, Members
<1>6. /\ \A k \in 1 .. m + n : d[k] \in ToSet(d)
      /\ \A z \in ToSet(d) : \E k \in 1 .. m + n : z = d[k]
  <2>1. /\ \A k \in 1 .. Len(d) : d[k] \in ToSet(d)
        /\ \A z \in ToSet(d) : \E k \in 1 .. Len(d) : z = d[k]
    BY Members
  <2>2. Len(d) = m + n
    BY <1>3
  <2> QED
    BY <2>1, <2>2
<1>7. \A k \in 1 .. m + n : \/ k \in 1 .. m /\ d[k] = u[k]
                            \/ k > m /\ \E l \in 1 .. n : k = m + l /\ d[k] = t[l]
  <2> SUFFICES ASSUME NEW k \in 1 .. m + n
               PROVE  \/ k \in 1 .. m /\ d[k] = u[k]
                      \/ k > m /\ \E l \in 1 .. n : k = m + l /\ d[k] = t[l]
    OBVIOUS
  <2>1. CASE k <= m
    <3>1. k \in 1 .. m
      BY <2>1
    <3> QED
      BY <1>3, <3>1
  <2>2. CASE k > m
    <3>1. PICK l \in 1 .. n : k = m + l
      <4>1. k - m \in 1 .. n /\ k = m + (k - m)
        BY <2>2
      <4> QED
        BY <4>1
    <3> QED
      BY <1>3, <2>2, <3>1
  <2> QED
    BY <2>1, <2>2
<1>8. /\ \A k \in 1 .. m : u[k].start < u[k].end
      /\ \A i, j \in 1 .. m : i < j => Before(u[i], u[j])
  BY <1>2 DEF Neat
<1>9. /\ \A k \in 1 .. n : t[k].start < t[k].end
      /\ \A i, j \in 1 .. n : i < j => Before(t[i], t[j])
  BY <1>2 DEF Neat
<1>10. \A k \in 1 .. m + n : d[k].start < d[k].end
  BY <1>7, <1>8, <1>9
<1>11. ASSUME NEW i \in 1 .. m + n, NEW j \in 1 .. m + n, i < j
       PROVE  Before(d[i], d[j])
  <2>1. CASE j \in 1 .. m /\ d[j] = u[j]
    <3>1. i \in 1 .. m
      BY <1>11, <2>1
    <3>2. d[i] = u[i]
      BY <1>3, <3>1
    <3> QED
      BY <1>8, <1>11, <2>1, <3>1, <3>2
  <2>2. CASE \E l \in 1 .. n : j = m + l /\ d[j] = t[l]
    <3>1. PICK l \in 1 .. n : j = m + l /\ d[j] = t[l]
      BY <2>2
    <3>2. CASE i \in 1 .. m /\ d[i] = u[i]
      BY <1>4, <1>5, <3>1, <3>2
    <3>3. CASE \E k \in 1 .. n : i = m + k /\ d[i] = t[k]
      <4>1. PICK k \in 1 .. n : i = m + k /\ d[i] = t[k]
        BY <3>3
      <4>2. k < l
        BY <1>11, <3>1, <4>1
      <4> QED
        BY <1>9, <3>1, <4>1, <4>2
    <3> QED
      BY <1>7, <3>2, <3>3
  <2> QED
    BY <1>7, <2>1, <2>2
<1>12. Neat(d)
  BY <1>3, <1>10, <1>11 DEF Neat
<1>13. \A x \in ToSet(d) : x \in ToSet(u) \/ x \in ToSet(t)
  BY <1>4, <1>5, <1>6, <1>7
<1>14. ASSUME NEW k \in 1 .. m
       PROVE  u[k] \in ToSet(d)
  <2>1. k \in 1 .. m + n
    BY <1>2
  <2> QED
    BY <1>3, <1>6, <2>1
<1>15. ASSUME NEW k \in 1 .. n
       PROVE  t[k] \in ToSet(d)
  <2>1. PICK l \in 1 .. m + n : l = m + k
    BY <1>2
  <2> QED
    BY <1>3, <1>6, <2>1
<1>16. \A x : x \in ToSet(u) \/ x \in ToSet(t) => x \in ToSet(d)
  BY <1>4, <1>5, <1>14, <1>15
<1> QED
  BY <1>3, <1>12, <1>13, <1>16 DEF NeatJoin

\* Pieces of locks, in the order of the locks, and in records of their own.
Pieces(g, n) ==
  /\ \A i \in 1 .. n : g[i] \in Seq(Lk) /\ Neat(g[i])
  /\ \A i, j \in 1 .. n : i < j => \A x \in ToSet(g[i]), y \in ToSet(g[j]) : Before(x, y)

IsFlat(d, g, n) ==
  /\ d \in Seq(Lk) /\ Neat(d)
  /\ \A x : x \in ToSet(d) <=> \E i \in 1 .. n : x \in ToSet(g[i])

LEMMA FlatIs ==
  ASSUME NEW g \in Seq(Seq(Lk)), NEW n \in Nat, n = Len(g), Pieces(g, n)
  PROVE  IsFlat(FlattenSeq(g), g, n)
<1>1. PICK h : Flattens(h, g, n) /\ FlattenSeq(g) = h[n]
  BY FlattenIs
<1>2. /\ h[0] = <<>>
      /\ \A i \in 1 .. n : h[i] = h[i - 1] \o g[i]
  BY <1>1 DEF Flattens
<1> DEFINE Lacking == {k \in 0 .. n : ~IsFlat(h[k], g, k)}
<1>3. Lacking = {}
  <2>1. SUFFICES ASSUME Lacking # {} PROVE FALSE
    OBVIOUS
  <2>2. Lacking \in SUBSET Nat
    OBVIOUS
  <2>3. PICK k \in Lacking : \A j \in Lacking : k <= j
    BY <2>1, <2>2, LeastNat
  <2>4. k \in 0 .. n /\ ~IsFlat(h[k], g, k)
    OBVIOUS
  <2>5. CASE k = 0
    <3>1. h[k] = <<>>
      BY <1>2, <2>5
    <3>2. <<>> \in Seq(Lk) /\ Len(<<>>) = 0 /\ DOMAIN <<>> = {}
      OBVIOUS
    <3>3. Neat(<<>>)
      BY <3>2 DEF Neat
    <3>4. ToSet(<<>>) = {}
      BY <3>2 DEF ToSet
    <3>5. \A x : x \in ToSet(h[k]) <=> \E i \in 1 .. k : x \in ToSet(g[i])
      BY <2>5, <3>1, <3>4
    <3> QED
      BY <2>4, <3>1, <3>2, <3>3, <3>5 DEF IsFlat
  <2>6. CASE k # 0
    <3>1. k - 1 \in 0 .. n /\ ~(k <= k - 1) /\ k \in 1 .. n
      BY <2>4, <2>6
    <3>2. IsFlat(h[k - 1], g, k - 1)
      BY <2>3, <3>1
    <3>3. PICK u \in Seq(Lk) : /\ u = h[k - 1] /\ Neat(u)
                               /\ \A x : x \in ToSet(u) <=> \E i \in 1 .. k - 1 : x \in ToSet(g[i])
      BY <3>2 DEF IsFlat
    <3>4. PICK t \in Seq(Lk) : t = g[k] /\ Neat(t)
      BY <3>1 DEF Pieces
    <3>5. \A x \in ToSet(u), y \in ToSet(t) : Before(x, y)
      <4>1. \A i \in 1 .. k - 1 : i \in 1 .. n /\ i < k
        BY <3>1
      <4> QED
        BY <3>1, <3>3, <3>4, <4>1 DEF Pieces
    <3>6. PICK d \in Seq(Lk) : /\ d = u \o t /\ Neat(d)
                               /\ \A x : x \in ToSet(d) <=> x \in ToSet(u) \/ x \in ToSet(t)
      <4>1. \E d \in Seq(Lk) : NeatJoin(d, u, t)
        BY <3>3, <3>4, <3>5, JoinNeat
      <4> QED
        BY <4>1 DEF NeatJoin
    <3>7. d = h[k]
      BY <1>2, <3>1, <3>3, <3>4, <3>6
    <3>8. \A x : x \in ToSet(d) <=> \E i \in 1 .. k : x \in ToSet(g[i])
      <4>1. \A i \in 1 .. k : i \in 1 .. k - 1 \/ i = k
        BY <3>1
      <4>2. k \in 1 .. k /\ \A i \in 1 .. k - 1 : i \in 1 .. k
        BY <3>1
      <4> QED
        BY <3>3, <3>4, <3>6, <4>1, <4>2
    <3> QED
      BY <2>4, <3>6, <3>7, <3>8 DEF IsFlat
  <2> QED
    BY <2>5, <2>6
<1>4. n \in 0 .. n
  OBVIOUS
<1> QED
  BY <1>1, <1>3, <1>4

-----------------------------------------------------------------------------
\* A sequence of no lock and of one.
LEMMA OneNeat ==
  /\ <<>> \in Seq(Lk) /\ Neat(<<>>) /\ ToSet(<<>>) = {}
  /\ \A x \in Lk : x.start < x.end =>
       <<x>> \in Seq(Lk) /\ Neat(<<x>>) /\ ToSet(<<x>>) = {x}
<1>1. <<>> \in Seq(Lk) /\ Neat(<<>>) /\ ToSet(<<>>) = {}
  <2>1. <<>> \in Seq(Lk) /\ Len(<<>>) = 0 /\ DOMAIN <<>> = {}
    OBVIOUS
  <2> QED
    BY <2>1 DEF Neat, ToSet
<1>2. ASSUME NEW x \in Lk, x.start < x.end
      PROVE  <<x>> \in Seq(Lk) /\ Neat(<<x>>) /\ ToSet(<<x>>) = {x}
  <2>1. PICK v : v = <<x>>
    OBVIOUS
  <2>2. v \in Seq(Lk)
    BY <2>1
  <2>3. Len(v) = 1
    BY <2>1
  <2>4. v[1] = x
    BY <2>1
  <2>5. DOMAIN v = {1}
    BY <2>2, <2>3
  <2>6. ToSet(v) = {x}
    BY <2>4, <2>5 DEF ToSet
  <2>7. Neat(v)
    <3>1. \A i \in 1 .. Len(v) : v[i] = x
      BY <2>3, <2>4
    <3>2. \A i, j \in 1 .. Len(v) : ~(i < j)
      BY <2>3
    <3> QED
      BY <1>2, <3>1, <3>2 DEF Neat
  <2> QED
    BY <2>1, <2>2, <2>6, <2>7, Zenon
<1> QED
  BY <1>1, <1>2

\* What unlocking bytes LB to UB - 1 leaves of lock x, r being the record for
\* the tail of a severed one.
IsLeft(t, x, LB, UB, r) ==
  /\ t \in Seq(Lk) /\ Neat(t)
  /\ \A y \in ToSet(t) : /\ y.proc = x.proc /\ x.start <= y.start /\ y.end <= x.end
                         /\ y.rec = x.rec \/ (y.rec = r /\ Severed(x, LB, UB))
  /\ \A m \in Nat : (\E y \in ToSet(t) : y.start <= m /\ m < y.end)
                      <=> x.start <= m /\ m < x.end /\ ~(LB <= m /\ m < UB)

LEMMA LeftIs ==
  ASSUME NEW x \in Lk, NEW LB \in Nat, NEW UB \in Nat, LB < UB,
         x.start < UB, LB < x.end, NEW r,
         Severed(x, LB, UB) => r \in Records /\ r # x.rec
  PROVE  IsLeft(Left(x, LB, UB, r), x, LB, UB, r)
<1>1. PICK s \in Nat, e \in Nat : s = x.start /\ e = x.end
  BY DEF Lk
<1>2. x.proc \in Procs /\ x.rec \in Records
  BY DEF Lk
<1> PICK k : k = IF s < LB THEN r ELSE x.rec
  OBVIOUS
<1> PICK h : h = [proc |-> x.proc, start |-> s, end |-> LB, rec |-> x.rec]
  OBVIOUS
<1> PICK l : l = [proc |-> x.proc, start |-> UB, end |-> e, rec |-> k]
  OBVIOUS
<1>3. h.proc = x.proc /\ h.start = s /\ h.end = LB /\ h.rec = x.rec
  OBVIOUS
<1>4. l.proc = x.proc /\ l.start = UB /\ l.end = e /\ l.rec = k
  OBVIOUS
<1>5. [x EXCEPT !.end = LB] = h
  BY <1>1 DEF Lk
<1>6. [x EXCEPT !.start = UB, !.rec = IF x.start < LB THEN r ELSE @] = l
  <2>1. k = IF x.start < LB THEN r ELSE x.rec
    BY <1>1
  <2>2. [x EXCEPT !.start = UB, !.rec = k] = l
    <3>1. [x EXCEPT !.start = UB] = [proc |-> x.proc, start |-> UB, end |-> e, rec |-> x.rec]
      BY <1>1 DEF Lk
    <3>2. [[proc |-> x.proc, start |-> UB, end |-> e, rec |-> x.rec] EXCEPT !.rec = k] = l
      OBVIOUS
    <3> QED
      BY <3>1, <3>2
  <2> QED
    BY <2>1, <2>2
<1>7. Left(x, LB, UB, r) = (IF s < LB THEN <<h>> ELSE <<>>) \o (IF UB < e THEN <<l>> ELSE <<>>)
  BY <1>1, <1>5, <1>6 DEF Left
<1>8. h \in Lk
  BY <1>2 DEF Lk
<1>9. UB < e => l \in Lk
  <2>1. UB < e => k \in Records
    BY <1>1, <1>2 DEF Severed
  <2> QED
    BY <1>2, <2>1 DEF Lk
<1>10. PICK u \in Seq(Lk) : /\ u = (IF s < LB THEN <<h>> ELSE <<>>) /\ Neat(u)
                            /\ ToSet(u) = IF s < LB THEN {h} ELSE {}
  <2>1. CASE s < LB
    <3>1. <<h>> \in Seq(Lk) /\ Neat(<<h>>) /\ ToSet(<<h>>) = {h}
      BY <1>3, <1>8, <2>1, OneNeat
    <3> QED
      BY <2>1, <3>1, Zenon
  <2>2. CASE ~(s < LB)
    BY <2>2, OneNeat, Zenon
  <2> QED
    BY <2>1, <2>2
<1>11. PICK v \in Seq(Lk) : /\ v = (IF UB < e THEN <<l>> ELSE <<>>) /\ Neat(v)
                            /\ ToSet(v) = IF UB < e THEN {l} ELSE {}
  <2>1. CASE UB < e
    <3>1. <<l>> \in Seq(Lk) /\ Neat(<<l>>) /\ ToSet(<<l>>) = {l}
      BY <1>4, <1>9, <2>1, OneNeat
    <3> QED
      BY <2>1, <3>1, Zenon
  <2>2. CASE ~(UB < e)
    BY <2>2, OneNeat, Zenon
  <2> QED
    BY <2>1, <2>2
<1>12. \A y \in ToSet(u), z \in ToSet(v) : Before(y, z)
  <2>1. s < LB /\ UB < e => h.rec # l.rec
    BY <1>1, <1>3, <1>4 DEF Severed
  <2>2. Clear(h, l)
    BY <1>3, <1>4 DEF Clear
  <2> QED
    BY <1>10, <1>11, <2>1, <2>2 DEF Before
<1>13. PICK t \in Seq(Lk) : NeatJoin(t, u, v)
  BY <1>10, <1>11, <1>12, JoinNeat
<1>14. /\ t = u \o v /\ Neat(t)
       /\ \A y : y \in ToSet(t) <=> y \in ToSet(u) \/ y \in ToSet(v)
  BY <1>13 DEF NeatJoin
<1>15. t = Left(x, LB, UB, r)
  BY <1>7, <1>10, <1>11, <1>14, Zenon
<1>16. \A y : y \in ToSet(t) <=> (s < LB /\ y = h) \/ (UB < e /\ y = l)
  BY <1>10, <1>11, <1>14
<1>17. ASSUME NEW y \in ToSet(t)
       PROVE  /\ y.proc = x.proc /\ x.start <= y.start /\ y.end <= x.end
              /\ y.rec = x.rec \/ (y.rec = r /\ Severed(x, LB, UB))
  <2>1. CASE s < LB /\ y = h
    BY <1>1, <1>3, <2>1
  <2>2. CASE UB < e /\ y = l
    BY <1>1, <1>4, <2>2 DEF Severed
  <2> QED
    BY <1>16, <2>1, <2>2
<1>18. ASSUME NEW m \in Nat
       PROVE  (\E y \in ToSet(t) : y.start <= m /\ m < y.end)
                <=> x.start <= m /\ m < x.end /\ ~(LB <= m /\ m < UB)
  <2>1. (\E y \in ToSet(t) : y.start <= m /\ m < y.end)
          <=> (s < LB /\ s <= m /\ m < LB) \/ (UB < e /\ UB <= m /\ m < e)
    BY <1>3, <1>4, <1>16
  <2> QED
    BY <1>1, <2>1
<1> QED
  BY <1>14, <1>15, <1>17, <1>18 DEF IsLeft

-----------------------------------------------------------------------------
\* The locks an unlock comes to are those of p that overlap the region; where
\* one of them is severed, it is the only one.
LEMMA HitIs ==
  ASSUME NEW c \in Seq(Lk), Neat(c), NEW n \in Nat, n = Len(c), NEW p,
         NEW LB \in Nat, NEW UB \in Nat, LB < UB
  PROVE  /\ \A i \in 1 .. n : i \in Hit(p, c, LB, UB)
                                <=> c[i].proc = p /\ c[i].start < UB /\ LB < c[i].end
         /\ Hit(p, c, LB, UB) \subseteq 1 .. n
         /\ \A i, k \in Hit(p, c, LB, UB) : Severed(c[i], LB, UB) => k = i
<1>1. /\ \A k \in 1 .. n : /\ c[k].start \in Nat /\ c[k].end \in Nat /\ c[k].start < c[k].end
      /\ \A i, j \in 1 .. n : i < j => Clear(c[i], c[j])
  BY Ordered
<1>2. ASSUME NEW i \in 1 .. n, c[i].proc = p, c[i].start < UB,
             NEW j \in 1 .. i - 1, c[j].proc = p
      PROVE  c[j].start < UB /\ (UB < c[j].end => c[j].end <= LB)
  <2>1. j \in 1 .. n /\ j < i
    OBVIOUS
  <2>2. c[j].end < c[i].start
    BY <1>1, <1>2, <2>1 DEF Clear
  <2>3. /\ c[j].start \in Nat /\ c[j].end \in Nat /\ c[j].start < c[j].end
        /\ c[i].start \in Nat
    BY <1>1, <2>1
  <2> QED
    BY <1>2, <2>2, <2>3, SMTT(60)
<1>3. Hit(p, c, LB, UB) \subseteq 1 .. n
  BY DEF Hit
<1>4. \A i \in 1 .. n : i \in Hit(p, c, LB, UB)
                          <=> c[i].proc = p /\ c[i].start < UB /\ LB < c[i].end
  BY <1>2 DEF Hit
<1>5. ASSUME NEW i \in Hit(p, c, LB, UB), NEW k \in Hit(p, c, LB, UB),
             Severed(c[i], LB, UB), k # i
      PROVE  FALSE
  <2>1. i \in 1 .. n /\ k \in 1 .. n
    BY <1>3
  <2>2. /\ c[i].proc = p /\ c[k].proc = p /\ c[k].start < UB /\ LB < c[k].end
        /\ c[i].start < LB /\ UB < c[i].end
    BY <1>4, <1>5, <2>1 DEF Severed
  <2>3. /\ c[i].start \in Nat /\ c[i].end \in Nat /\ c[k].start \in Nat /\ c[k].end \in Nat
    BY <1>1, <2>1
  <2>4. CASE i < k
    <3>1. c[i].end < c[k].start
      BY <1>1, <2>1, <2>2, <2>4 DEF Clear
    <3> QED
      BY <2>2, <2>3, <3>1
  <2>5. CASE k < i
    <3>1. c[k].end < c[i].start
      BY <1>1, <2>1, <2>2, <2>5 DEF Clear
    <3> QED
      BY <2>2, <2>3, <3>1
  <2> QED
    BY <1>5, <2>1, <2>4, <2>5
<1> QED
  BY <1>3, <1>4, <1>5

\* Each g[i] is made of parts of lock i; those of lock s may be in new records.
Cuts(g, c, n, s, R) ==
  \A i \in 1 .. n :
    /\ g[i] \in Seq(Lk) /\ Neat(g[i])
    /\ \A y \in ToSet(g[i]) :
         /\ y.proc = c[i].proc /\ c[i].start <= y.start /\ y.end <= c[i].end
         /\ y.rec = c[i].rec \/ (i = s /\ y.rec \in R)

LEMMA CutsPieces ==
  ASSUME NEW c \in Seq(Lk), Neat(c), NEW n \in Nat, n = Len(c),
         NEW g, NEW s, NEW R, Cuts(g, c, n, s, R), \A x \in ToSet(c) : x.rec \notin R
  PROVE  Pieces(g, n)
<1>1. \A i \in 1 .. n : g[i] \in Seq(Lk) /\ Neat(g[i])
  BY DEF Cuts
<1>2. ASSUME NEW i \in 1 .. n, NEW j \in 1 .. n, i < j,
             NEW x \in ToSet(g[i]), NEW y \in ToSet(g[j])
      PROVE  Before(x, y)
  <2>1. c[i] \in ToSet(c) /\ c[j] \in ToSet(c)
    BY Members
  <2>2. c[i].rec \notin R /\ c[j].rec \notin R
    BY <2>1
  <2>3. c[i].rec # c[j].rec /\ Clear(c[i], c[j])
    BY <1>2 DEF Neat, Before
  <2>4. /\ x.proc = c[i].proc /\ x.end <= c[i].end
        /\ x.rec = c[i].rec \/ (i = s /\ x.rec \in R)
    BY DEF Cuts
  <2>5. /\ y.proc = c[j].proc /\ c[j].start <= y.start
        /\ y.rec = c[j].rec \/ (j = s /\ y.rec \in R)
    BY DEF Cuts
  <2>6. x.rec # y.rec
    BY <1>2, <2>2, <2>3, <2>4, <2>5
  <2>7. x.end \in Nat /\ y.start \in Nat /\ c[i].end \in Nat /\ c[j].start \in Nat
    <3>1. c[i].end \in Nat /\ c[j].start \in Nat
      BY Ordered
    <3>2. g[i] \in Seq(Lk) /\ g[j] \in Seq(Lk)
      BY <1>1
    <3> QED
      BY <3>1, <3>2, Members
  <2>8. Clear(x, y)
    BY <2>3, <2>4, <2>5, <2>7 DEF Clear
  <2> QED
    BY <2>6, <2>8 DEF Before
<1> QED
  BY <1>1, <1>2 DEF Pieces

\* What unlocking a region makes of list c, the locks in recs not being whole.
IsCut(d, c, p, LB, UB, R, recs) ==
  /\ d \in Seq(Lk) /\ Neat(d)
  /\ \A y \in ToSet(d) : y.rec \in R \/ \E x \in ToSet(c) : x.rec = y.rec
  /\ \A x : x.proc # p => (x \in ToSet(d) <=> x \in ToSet(c))
  /\ \A x \in ToSet(c) : x.rec \in recs \/ x \in ToSet(d)
  /\ \A m \in Nat : Covered(ToSet(d), p, m) <=> Covered(ToSet(c), p, m) /\ ~(LB <= m /\ m < UB)

LEMMA UnlockCuts ==
  ASSUME NEW c \in Seq(Lk), Neat(c), NEW n \in Nat, n = Len(c), NEW p,
         NEW LB \in Nat, NEW UB \in Nat, LB < UB,
         NEW hit, hit = Hit(p, c, LB, UB), NEW r, NEW R,
         R = (IF \E i \in hit : Severed(c[i], LB, UB) THEN {r} ELSE {}),
         (\E i \in hit : Severed(c[i], LB, UB)) => r \in Records,
         \A x \in ToSet(c) : x.rec \notin R
  PROVE  IsCut(Unlocked(p, c, LB, UB, r), c, p, LB, UB, R, {c[i].rec : i \in hit})
<1> PICK g : g = [i \in 1 .. n |-> IF i \in hit THEN Left(c[i], LB, UB, r) ELSE <<c[i]>>]
  OBVIOUS
<1>1. /\ hit \subseteq 1 .. n
      /\ \A i \in 1 .. n : i \in hit <=> c[i].proc = p /\ c[i].start < UB /\ LB < c[i].end
      /\ \A i, k \in hit : Severed(c[i], LB, UB) => k = i
  BY HitIs
<1>2. \A i \in 1 .. n : /\ c[i] \in Lk /\ c[i] \in ToSet(c)
                        /\ c[i].start \in Nat /\ c[i].end \in Nat /\ c[i].start < c[i].end
  BY Members, Ordered
<1>3. ASSUME NEW i \in hit
      PROVE  g[i] = Left(c[i], LB, UB, r) /\ IsLeft(g[i], c[i], LB, UB, r)
  <2>1. i \in 1 .. n
    BY <1>1
  <2>2. g[i] = Left(c[i], LB, UB, r)
    BY <2>1
  <2>3. Severed(c[i], LB, UB) => r \in Records /\ r \in R
    OBVIOUS
  <2>4. Severed(c[i], LB, UB) => r \in Records /\ r # c[i].rec
    BY <1>2, <2>1, <2>3
  <2>5. c[i] \in Lk /\ c[i].start < UB /\ LB < c[i].end
    BY <1>1, <1>2, <2>1
  <2>6. IsLeft(Left(c[i], LB, UB, r), c[i], LB, UB, r)
    BY <2>4, <2>5, LeftIs
  <2> QED
    BY <2>2, <2>6
<1>4. ASSUME NEW i \in 1 .. n, i \notin hit
      PROVE  g[i] \in Seq(Lk) /\ Neat(g[i]) /\ ToSet(g[i]) = {c[i]}
  <2>1. g[i] = <<c[i]>>
    BY <1>4
  <2>2. <<c[i]>> \in Seq(Lk) /\ Neat(<<c[i]>>) /\ ToSet(<<c[i]>>) = {c[i]}
    BY <1>2, OneNeat
  <2> QED
    BY <2>1, <2>2, Zenon
<1> PICK s : s = IF \E i \in hit : Severed(c[i], LB, UB)
                 THEN CHOOSE i \in hit : Severed(c[i], LB, UB) ELSE 0
  OBVIOUS
<1>5. \A i \in hit : Severed(c[i], LB, UB) => i = s
  BY <1>1
<1>6. Cuts(g, c, n, s, R)
  <2> SUFFICES ASSUME NEW i \in 1 .. n
               PROVE  /\ g[i] \in Seq(Lk) /\ Neat(g[i])
                      /\ \A y \in ToSet(g[i]) :
                           /\ y.proc = c[i].proc /\ c[i].start <= y.start /\ y.end <= c[i].end
                           /\ y.rec = c[i].rec \/ (i = s /\ y.rec \in R)
    BY DEF Cuts
  <2>1. CASE i \in hit
    <3>1. IsLeft(g[i], c[i], LB, UB, r)
      BY <1>3, <2>1
    <3>2. Severed(c[i], LB, UB) => i = s /\ r \in R
      BY <1>5, <2>1
    <3> QED
      BY <3>1, <3>2 DEF IsLeft
  <2>2. CASE i \notin hit
    <3>1. c[i].start <= c[i].start /\ c[i].end <= c[i].end
      BY <1>2
    <3> QED
      BY <1>4, <2>2, <3>1
  <2> QED
    BY <2>1, <2>2
<1>7. g \in Seq(Seq(Lk)) /\ Len(g) = n
  <2>1. \A i \in 1 .. n : g[i] \in Seq(Lk)
    BY <1>6 DEF Cuts
  <2>2. g \in [1 .. n -> Seq(Lk)]
    BY <2>1
  <2> QED
    BY <2>2
<1>8. Pieces(g, n)
  BY <1>6, CutsPieces
<1>9. PICK d : d = Unlocked(p, c, LB, UB, r) /\ IsFlat(d, g, n)
  <2>1. IsFlat(FlattenSeq(g), g, n)
    BY <1>7, <1>8, FlatIs
  <2>2. Unlocked(p, c, LB, UB, r) = FlattenSeq(g)
    BY DEF Unlocked
  <2> QED
    BY <2>1, <2>2
<1>10. /\ d \in Seq(Lk) /\ Neat(d)
       /\ \A x : x \in ToSet(d) <=> \E i \in 1 .. n : x \in ToSet(g[i])
  BY <1>9 DEF IsFlat
<1>11. \A z \in ToSet(c) : \E j \in 1 .. n : z = c[j]
  BY Members
<1>12. ASSUME NEW y \in ToSet(d)
       PROVE  y.rec \in R \/ \E x \in ToSet(c) : x.rec = y.rec
  <2>1. PICK i \in 1 .. n : y \in ToSet(g[i])
    BY <1>10
  <2>2. y.rec = c[i].rec \/ y.rec \in R
    BY <1>6, <2>1 DEF Cuts
  <2> QED
    BY <1>2, <2>2
<1>13. ASSUME NEW x, x.proc # p
       PROVE  x \in ToSet(d) <=> x \in ToSet(c)
  <2>1. ASSUME NEW i \in 1 .. n, x \in ToSet(g[i])
        PROVE  x \in ToSet(c)
    <3>1. x.proc = c[i].proc
      BY <1>6, <2>1 DEF Cuts
    <3>2. i \notin hit
      BY <1>1, <1>13, <3>1
    <3>3. x = c[i]
      BY <1>4, <2>1, <3>2
    <3> QED
      BY <1>2, <3>3
  <2>2. ASSUME NEW i \in 1 .. n, x = c[i]
        PROVE  x \in ToSet(g[i])
    <3>1. i \notin hit
      BY <1>1, <1>13, <2>2
    <3> QED
      BY <1>4, <2>2, <3>1
  <2> QED
    BY <1>10, <1>11, <2>1, <2>2
<1>14. ASSUME NEW x \in ToSet(c)
       PROVE  x.rec \in {c[i].rec : i \in hit} \/ x \in ToSet(d)
  <2>1. PICK j \in 1 .. n : x = c[j]
    BY <1>11
  <2>2. CASE j \in hit
    BY <2>1, <2>2
  <2>3. CASE j \notin hit
    BY <1>4, <1>10, <2>1, <2>3
  <2> QED
    BY <2>2, <2>3
<1>15. ASSUME NEW m \in Nat
       PROVE  Covered(ToSet(d), p, m) <=> Covered(ToSet(c), p, m) /\ ~(LB <= m /\ m < UB)
  <2>1. ASSUME NEW i \in 1 .. n, NEW y \in ToSet(g[i]), y.proc = p, y.start <= m, m < y.end
        PROVE  Covered(ToSet(c), p, m) /\ ~(LB <= m /\ m < UB)
    <3>1. c[i].proc = p
      BY <1>6, <2>1 DEF Cuts
    <3>2. CASE i \in hit
      <4>1. IsLeft(g[i], c[i], LB, UB, r)
        BY <1>3, <3>2
      <4>2. c[i].start <= m /\ m < c[i].end /\ ~(LB <= m /\ m < UB)
        BY <2>1, <4>1 DEF IsLeft
      <4> QED
        BY <1>2, <3>1, <4>2 DEF Covered
    <3>3. CASE i \notin hit
      <4>1. y = c[i]
        BY <1>4, <3>3
      <4>2. c[i].start <= m /\ m < c[i].end
        BY <2>1, <4>1
      <4>3. ~(c[i].start < UB /\ LB < c[i].end)
        BY <1>1, <3>1, <3>3
      <4>4. c[i].start \in Nat /\ c[i].end \in Nat
        BY <1>2
      <4>5. ~(LB <= m /\ m < UB)
        BY <4>2, <4>3, <4>4
      <4> QED
        BY <1>2, <3>1, <4>2, <4>5 DEF Covered
    <3> QED
      BY <3>2, <3>3
  <2>2. ASSUME NEW i \in 1 .. n, c[i].proc = p, c[i].start <= m, m < c[i].end, ~(LB <= m /\ m < UB)
        PROVE  \E y \in ToSet(g[i]) : y.proc = p /\ y.start <= m /\ m < y.end
    <3>1. CASE i \in hit
      <4>1. IsLeft(g[i], c[i], LB, UB, r)
        BY <1>3, <3>1
      <4>2. \E y \in ToSet(g[i]) : y.start <= m /\ m < y.end
        BY <2>2, <4>1 DEF IsLeft
      <4> QED
        BY <2>2, <4>1, <4>2 DEF IsLeft
    <3>2. CASE i \notin hit
      BY <1>4, <2>2, <3>2
    <3> QED
      BY <3>1, <3>2
  <2>3. Covered(ToSet(d), p, m) => Covered(ToSet(c), p, m) /\ ~(LB <= m /\ m < UB)
    <3> SUFFICES ASSUME NEW y \in ToSet(d), y.proc = p, y.start <= m, m < y.end
                 PROVE  Covered(ToSet(c), p, m) /\ ~(LB <= m /\ m < UB)
      BY DEF Covered
    <3>1. PICK i \in 1 .. n : y \in ToSet(g[i])
      BY <1>10
    <3> QED
      BY <2>1, <3>1
  <2>4. Covered(ToSet(c), p, m) /\ ~(LB <= m /\ m < UB) => Covered(ToSet(d), p, m)
    <3> SUFFICES ASSUME NEW x \in ToSet(c), x.proc = p, x.start <= m, m < x.end,
                        ~(LB <= m /\ m < UB)
                 PROVE  Covered(ToSet(d), p, m)
      BY DEF Covered
    <3>1. PICK i \in 1 .. n : x = c[i]
      BY <1>11
    <3>2. PICK y \in ToSet(g[i]) : y.proc = p /\ y.start <= m /\ m < y.end
      BY <2>2, <3>1
    <3>3. y \in ToSet(d)
      BY <1>10, <3>2
    <3> QED
      BY <3>2, <3>3 DEF Covered
  <2> QED
    BY <2>3, <2>4
<1> QED
  BY <1>9, <1>10, <1>12, <1>13, <1>14, <1>15 DEF IsCut

\* Closing the file takes all the locks of p off the list.
LEMMA WithoutCuts ==
  ASSUME NEW c \in Seq(Lk), Neat(c), NEW p
  PROVE  /\ Without(p, c) \in Seq(Lk) /\ Neat(Without(p, c))
         /\ \A x : x \in ToSet(Without(p, c)) <=> x \in ToSet(c) /\ x.proc # p
<1>1. PICK n \in Nat : n = Len(c)
  OBVIOUS
<1> PICK g : g = [i \in 1 .. n |-> IF c[i].proc = p THEN <<>> ELSE <<c[i]>>]
  OBVIOUS
<1>2. \A i \in 1 .. n : /\ c[i] \in Lk /\ c[i] \in ToSet(c)
                        /\ c[i].start \in Nat /\ c[i].end \in Nat /\ c[i].start < c[i].end
  BY <1>1, Members, Ordered
<1>3. ASSUME NEW i \in 1 .. n
      PROVE  /\ g[i] \in Seq(Lk) /\ Neat(g[i])
             /\ ToSet(g[i]) = IF c[i].proc = p THEN {} ELSE {c[i]}
  <2>1. CASE c[i].proc = p
    <3>1. g[i] = <<>>
      BY <2>1
    <3> QED
      BY <2>1, <3>1, OneNeat, Zenon
  <2>2. CASE c[i].proc # p
    <3>1. g[i] = <<c[i]>>
      BY <2>2
    <3>2. <<c[i]>> \in Seq(Lk) /\ Neat(<<c[i]>>) /\ ToSet(<<c[i]>>) = {c[i]}
      BY <1>2, OneNeat
    <3> QED
      BY <2>2, <3>1, <3>2, Zenon
  <2> QED
    BY <2>1, <2>2
<1> PICK s, R : s = 0 /\ R = {}
  OBVIOUS
<1>4. Cuts(g, c, n, s, R)
  <2> SUFFICES ASSUME NEW i \in 1 .. n
               PROVE  /\ g[i] \in Seq(Lk) /\ Neat(g[i])
                      /\ \A y \in ToSet(g[i]) :
                           /\ y.proc = c[i].proc /\ c[i].start <= y.start /\ y.end <= c[i].end
                           /\ y.rec = c[i].rec \/ (i = s /\ y.rec \in R)
    BY DEF Cuts
  <2>1. c[i].start <= c[i].start /\ c[i].end <= c[i].end
    BY <1>2
  <2>2. \A y \in ToSet(g[i]) : y = c[i]
    BY <1>3
  <2> QED
    BY <1>3, <2>1, <2>2
<1>5. Pieces(g, n)
  BY <1>1, <1>4, CutsPieces
<1>6. g \in Seq(Seq(Lk)) /\ Len(g) = n
  <2>1. g \in [1 .. n -> Seq(Lk)]
    BY <1>3
  <2> QED
    BY <2>1
<1>7. PICK d : d = FlattenSeq(g) /\ IsFlat(d, g, n)
  BY <1>5, <1>6, FlatIs
<1>8. d = Without(p, c)
  BY <1>1, <1>7 DEF Without
<1>9. /\ d \in Seq(Lk) /\ Neat(d)
      /\ \A x : x \in ToSet(d) <=> \E i \in 1 .. n : x \in ToSet(g[i])
  BY <1>7 DEF IsFlat
<1>10. \A z \in ToSet(c) : \E j \in 1 .. n : z = c[j]
  BY <1>1, Members
<1>11. ASSUME NEW x
       PROVE  x \in ToSet(d) <=> x \in ToSet(c) /\ x.proc # p
  <2>1. ASSUME NEW i \in 1 .. n
        PROVE  x \in ToSet(g[i]) <=> x = c[i] /\ x.proc # p
    <3>1. CASE c[i].proc = p
      <4>1. ToSet(g[i]) = {}
        BY <1>3, <3>1
      <4> QED
        BY <3>1, <4>1
    <3>2. CASE c[i].proc # p
      <4>1. ToSet(g[i]) = {c[i]}
        BY <1>3, <3>2
      <4> QED
        BY <3>2, <4>1
    <3> QED
      BY <3>1, <3>2
  <2>2. x \in ToSet(d) <=> \E i \in 1 .. n : x \in ToSet(g[i])
    BY <1>9
  <2>3. x \in ToSet(c) <=> \E i \in 1 .. n : x = c[i]
    BY <1>2, <1>10
  <2> QED
    BY <2>1, <2>2, <2>3
<1> QED
  BY <1>8, <1>9, <1>11

-----------------------------------------------------------------------------
\* Lists are in order, and their records apart.
Lists(L) ==
  /\ L \in [LockFiles -> Seq(Lk)]
  /\ \A f \in LockFiles : Neat(L[f])
  /\ \A f, g \in LockFiles :
       f # g => \A x \in ToSet(L[f]), y \in ToSet(L[g]) : x.rec # y.rec

Calls == {c \in [chan : {Run} \cup {Record(r) : r \in Records}, file : LockFiles,
                 LB : Nat, UB : Nat, wait : BOOLEAN, io : BOOLEAN] :
            c.LB < c.UB /\ c.UB <= MAXSIZE}

\* The invariants are inductive together, with the types of lists and calls.
LockInv == /\ Lists(locklist) /\ want \subseteq Used
           /\ DOMAIN lockers \subseteq Procs
           /\ \A p \in DOMAIN lockers : lockers[p] \in Calls
           /\ LockSleeper /\ NoLockCircle

\* A record is in one place.
LEMMA OnePlace ==
  ASSUME NEW L, Lists(L), NEW f \in LockFiles, NEW g \in LockFiles,
         NEW x \in ToSet(L[f]), NEW y \in ToSet(L[g]), x.rec = y.rec
  PROVE  f = g /\ x = y
<1>1. f = g
  BY DEF Lists
<1>2. L[f] \in Seq(Lk) /\ Neat(L[f])
  BY DEF Lists
<1>3. PICK c \in Seq(Lk) : c = L[f] /\ Neat(c)
  BY <1>2
<1>4. PICK i \in 1 .. Len(c), j \in 1 .. Len(c) : x = c[i] /\ y = c[j]
  BY <1>1, <1>3, Members
<1>5. \A k, l \in 1 .. Len(c) : k < l => c[k].rec # c[l].rec
  BY <1>3 DEF Neat, Before
<1>6. i = j
  BY <1>4, <1>5
<1> QED
  BY <1>1, <1>4, <1>6

\* So it has one owner.
LEMMA OwnerIs ==
  ASSUME NEW L, Lists(L), NEW f \in LockFiles, NEW x \in ToSet(L[f])
  PROVE  (CHOOSE z \in UNION {ToSet(L[g]) : g \in LockFiles} : z.rec = x.rec).proc = x.proc
<1> PICK S : S = UNION {ToSet(L[g]) : g \in LockFiles}
  OBVIOUS
<1>1. x \in S
  OBVIOUS
<1>2. \A y \in S : y.rec = x.rec => y = x
  <2> SUFFICES ASSUME NEW y \in S, y.rec = x.rec PROVE y = x
    OBVIOUS
  <2>1. PICK g \in LockFiles : y \in ToSet(L[g])
    OBVIOUS
  <2> QED
    BY <2>1, OnePlace
<1>3. (CHOOSE y \in S : y.rec = x.rec) = x
  BY <1>1, <1>2
<1> QED
  BY <1>3

\* The records in use.
LEMMA UsedIs ==
  ASSUME Lists(locklist)
  PROVE  /\ \A w : w \in Used <=> \E f \in LockFiles : \E x \in ToSet(locklist[f]) : x.rec = w
         /\ Used \subseteq Records
<1>1. \A w : w \in Used <=> \E f \in LockFiles : \E x \in ToSet(locklist[f]) : x.rec = w
  BY DEF Used
<1>2. \A f \in LockFiles : \A x \in ToSet(locklist[f]) : x.rec \in Records
  <2> SUFFICES ASSUME NEW f \in LockFiles, NEW x \in ToSet(locklist[f]) PROVE x.rec \in Records
    OBVIOUS
  <2>1. locklist[f] \in Seq(Lk)
    BY DEF Lists
  <2>2. x \in Lk
    BY <2>1, Members
  <2> QED
    BY <2>2 DEF Lk
<1> QED
  BY <1>1, <1>2

\* Whoever still sleeps after a step slept before it, on a lock that is still
\* there, in a record that is still marked.
Remain ==
  /\ DOMAIN lockers' \subseteq DOMAIN lockers
  /\ \A q \in DOMAIN lockers' : lockers'[q] \in Calls
  /\ \A q \in DOMAIN lockers' : lockers'[q].chan # Run =>
       /\ lockers'[q] = lockers[q] /\ lockers[q].chan[2] \in want'
       /\ \A x \in ToSet(locklist[lockers[q].file]) : x.rec = lockers[q].chan[2] =>
            \E y \in ToSet(locklist'[lockers[q].file]) : y.rec = x.rec /\ Within(x, y)

LEMMA RemainInv ==
  ASSUME LockInv, Lists(locklist'), want' \subseteq Used', Remain
  PROVE  LockInv'
<1>1. /\ Lists(locklist) /\ DOMAIN lockers \subseteq Procs
      /\ \A q \in DOMAIN lockers : lockers[q] \in Calls
      /\ LockSleeper /\ NoLockCircle
  BY DEF LockInv
<1>2. ASSUME NEW q \in Asleep(lockers)'
      PROVE  /\ q \in Asleep(lockers) /\ lockers'[q] = lockers[q]
             /\ lockers[q].chan[2] \in want' /\ lockers[q].file \in LockFiles
             /\ \E x \in ToSet(locklist[lockers[q].file]), y \in ToSet(locklist'[lockers[q].file]) :
                  /\ x.rec = lockers[q].chan[2] /\ x.proc # q
                  /\ x.start < lockers[q].UB /\ lockers[q].LB < x.end
                  /\ y.rec = x.rec /\ Within(x, y)
  <2>1. q \in DOMAIN lockers' /\ lockers'[q].chan # Run
    BY DEF Asleep
  <2>2. q \in DOMAIN lockers /\ lockers'[q] = lockers[q] /\ lockers[q].chan[2] \in want'
    BY <2>1 DEF Remain
  <2>3. q \in Asleep(lockers)
    BY <2>1, <2>2 DEF Asleep
  <2>4. PICK x \in ToSet(locklist[lockers[q].file]) :
          /\ x.rec = lockers[q].chan[2] /\ x.proc # q
          /\ x.start < lockers[q].UB /\ lockers[q].LB < x.end
    BY <1>1, <2>3 DEF LockSleeper
  <2>5. PICK y \in ToSet(locklist'[lockers[q].file]) : y.rec = x.rec /\ Within(x, y)
    BY <2>1, <2>4 DEF Remain
  <2>6. lockers[q].file \in LockFiles
    BY <1>1, <2>2 DEF Calls
  <2> QED
    BY <2>2, <2>3, <2>4, <2>5, <2>6
<1>3. LockSleeper'
  <2> SUFFICES ASSUME NEW q \in Asleep(lockers)'
               PROVE  /\ lockers'[q].chan[2] \in want'
                      /\ \E y \in ToSet(locklist'[lockers'[q].file]) :
                           /\ y.rec = lockers'[q].chan[2] /\ y.proc # q
                           /\ y.start < lockers'[q].UB /\ lockers'[q].LB < y.end
    BY DEF LockSleeper
  <2>1. PICK f \in LockFiles : f = lockers[q].file
    BY <1>2
  <2>2. PICK x \in ToSet(locklist[f]), y \in ToSet(locklist'[f]) :
          /\ x.rec = lockers[q].chan[2] /\ x.proc # q
          /\ x.start < lockers[q].UB /\ lockers[q].LB < x.end
          /\ y.rec = x.rec /\ Within(x, y)
    BY <1>2, <2>1
  <2>3. x \in Lk /\ y \in Lk
    <3>1. locklist[f] \in Seq(Lk) /\ locklist'[f] \in Seq(Lk)
      BY <1>1 DEF Lists
    <3> QED
      BY <3>1, Members
  <2>4. lockers[q].LB \in Nat /\ lockers[q].UB \in Nat
    BY <1>1, <1>2 DEF Calls, Asleep
  <2>5. y.proc # q /\ y.start < lockers[q].UB /\ lockers[q].LB < y.end
    BY <2>2, <2>3, <2>4 DEF Within, Lk
  <2> QED
    BY <1>2, <2>1, <2>2, <2>5
<1>4. ASSUME NEW q \in Asleep(lockers)'
      PROVE  WaitsFor(q)' = WaitsFor(q)
  <2>1. PICK f \in LockFiles : f = lockers[q].file
    BY <1>2
  <2>2. PICK x \in ToSet(locklist[f]), y \in ToSet(locklist'[f]) :
          x.rec = lockers[q].chan[2] /\ y.rec = x.rec /\ Within(x, y)
    BY <1>2, <2>1
  <2>3. Owner(x.rec) = x.proc
    BY <1>1, OwnerIs DEF Owner
  <2>4. Owner(y.rec)' = y.proc
    BY OwnerIs DEF Owner
  <2>5. lockers'[q] = lockers[q]
    BY <1>2
  <2>6. WaitsFor(q)' = y.proc /\ WaitsFor(q) = x.proc
    BY <2>2, <2>3, <2>4, <2>5 DEF WaitsFor
  <2> QED
    BY <2>2, <2>3, <2>6 DEF Within
<1>5. NoLockCircle'
  <2> SUFFICES ASSUME NEW S \in SUBSET (Asleep(lockers)'), \A q \in S : WaitsFor(q)' \in S
               PROVE  S = {}
    BY DEF NoLockCircle
  <2>1. S \in SUBSET Asleep(lockers)
    BY <1>2
  <2>2. \A q \in S : WaitsFor(q) \in S
    BY <1>4
  <2> QED
    BY <1>1, <2>1, <2>2 DEF NoLockCircle
<1>6. DOMAIN lockers' \subseteq Procs /\ \A q \in DOMAIN lockers' : lockers'[q] \in Calls
  BY <1>1 DEF Remain
<1> QED
  BY <1>3, <1>5, <1>6 DEF LockInv

-----------------------------------------------------------------------------
\* List d for list c: its records are those of c or in R, and the locks of c,
\* but those in records that are gone, are in it.
Moved(c, d, R, gone) ==
  /\ Neat(d)
  /\ \A y \in ToSet(d) : y.rec \in R \/ \E x \in ToSet(c) : x.rec = y.rec
  /\ \A x \in ToSet(c) : x.rec \in gone \/ \E y \in ToSet(d) : y.rec = x.rec /\ Within(x, y)

\* A call that changes list f and wakes who sleeps on the records that are gone.
LEMMA ListStep ==
  ASSUME LockInv, NEW f \in LockFiles, NEW d \in Seq(Lk), NEW R, NEW gone,
         R \cap Used = {}, Moved(locklist[f], d, R, gone),
         NEW p, NEW W, W = lockers \/ W = unsleep(lockers, p),
         locklist' = [locklist EXCEPT ![f] = d], want' = want \ gone, lockers' = Wake(W, gone)
  PROVE  LockInv'
<1>1. /\ Lists(locklist) /\ want \subseteq Used /\ LockSleeper
      /\ \A q \in DOMAIN lockers : lockers[q] \in Calls
  BY DEF LockInv
<1>2. /\ locklist \in [LockFiles -> Seq(Lk)]
      /\ \A g \in LockFiles : Neat(locklist[g])
      /\ \A g, h \in LockFiles :
           g # h => \A x \in ToSet(locklist[g]), y \in ToSet(locklist[h]) : x.rec # y.rec
  BY <1>1 DEF Lists
<1>3. PICK L : L = locklist'
  OBVIOUS
<1>4. /\ L \in [LockFiles -> Seq(Lk)] /\ L[f] = d
      /\ \A g \in LockFiles : g # f => L[g] = locklist[g]
  BY <1>2, <1>3
<1>5. /\ Neat(d)
      /\ \A y \in ToSet(d) : y.rec \in R \/ \E x \in ToSet(locklist[f]) : x.rec = y.rec
      /\ \A x \in ToSet(locklist[f]) :
           x.rec \in gone \/ \E y \in ToSet(d) : y.rec = x.rec /\ Within(x, y)
  BY DEF Moved
<1>6. \A g \in LockFiles : \A x \in ToSet(locklist[g]) : x.rec \in Used
  BY <1>1, UsedIs
<1>7. ASSUME NEW g \in LockFiles, g # f, NEW x \in ToSet(d), NEW y \in ToSet(locklist[g])
      PROVE  x.rec # y.rec
  <2>1. y.rec \in Used
    BY <1>6
  <2> QED
    BY <1>2, <1>5, <1>7, <2>1
<1>8. Lists(L)
  <2>1. \A g \in LockFiles : Neat(L[g])
    BY <1>2, <1>4, <1>5
  <2>2. ASSUME NEW g \in LockFiles, NEW h \in LockFiles, g # h,
               NEW x \in ToSet(L[g]), NEW y \in ToSet(L[h])
        PROVE  x.rec # y.rec
    <3>1. CASE g = f
      BY <1>4, <1>7, <2>2, <3>1
    <3>2. CASE h = f
      BY <1>4, <1>7, <2>2, <3>2
    <3>3. CASE g # f /\ h # f
      BY <1>2, <1>4, <2>2, <3>3
    <3> QED
      BY <3>1, <3>2, <3>3
  <2> QED
    BY <1>4, <2>1, <2>2 DEF Lists
<1>9. ASSUME NEW g \in LockFiles, NEW x \in ToSet(locklist[g]), x.rec \notin gone
      PROVE  \E y \in ToSet(L[g]) : y.rec = x.rec /\ Within(x, y)
  <2>1. CASE g = f
    BY <1>4, <1>5, <1>9, <2>1
  <2>2. CASE g # f
    <3>1. locklist[g] \in Seq(Lk)
      BY <1>2
    <3>2. x.start \in Nat /\ x.end \in Nat
      BY <3>1, Members
    <3>3. Within(x, x)
      BY <3>2 DEF Within
    <3> QED
      BY <1>4, <2>2, <3>3
  <2> QED
    BY <2>1, <2>2
<1>10. want' \subseteq Used'
  <2> SUFFICES ASSUME NEW w \in want, w \notin gone PROVE w \in Used'
    OBVIOUS
  <2>1. PICK g \in LockFiles : \E x \in ToSet(locklist[g]) : x.rec = w
    BY <1>1, UsedIs
  <2>2. PICK y \in ToSet(L[g]) : y.rec = w
    BY <1>9, <2>1
  <2> QED
    BY <1>3, <2>2 DEF Used
<1> PICK C : C = {Record(r) : r \in gone \cap want}
  OBVIOUS
<1>11. /\ DOMAIN W \subseteq DOMAIN lockers
       /\ \A q \in DOMAIN W : W[q] = lockers[q]
  BY DEF unsleep, Drop
<1>12. /\ DOMAIN lockers' = DOMAIN W
       /\ \A q \in DOMAIN W : lockers'[q] = IF W[q].chan \in C
                                            THEN [W[q] EXCEPT !.chan = Run] ELSE W[q]
  BY DEF Wake, wakeup
<1>13. ASSUME NEW q \in DOMAIN lockers'
       PROVE  /\ lockers'[q] \in Calls
              /\ lockers'[q].chan # Run => lockers'[q] = lockers[q] /\ lockers[q].chan \notin C
  <2>1. q \in DOMAIN lockers /\ W[q] = lockers[q] /\ q \in DOMAIN W
    BY <1>11, <1>12
  <2>2. PICK l \in Calls : l = lockers[q]
    BY <1>1, <2>1
  <2>3. lockers'[q] = IF l.chan \in C THEN [l EXCEPT !.chan = Run] ELSE l
    BY <1>12, <2>1, <2>2
  <2>4. [l EXCEPT !.chan = Run] \in Calls /\ [l EXCEPT !.chan = Run].chan = Run
    BY DEF Calls
  <2>5. CASE l.chan \in C
    BY <2>3, <2>4, <2>5
  <2>6. CASE l.chan \notin C
    BY <2>2, <2>3, <2>6
  <2> QED
    BY <2>5, <2>6
<1>14. ASSUME NEW q \in DOMAIN lockers', lockers'[q].chan # Run
       PROVE  /\ lockers'[q] = lockers[q] /\ lockers[q].chan[2] \in want'
              /\ \A x \in ToSet(locklist[lockers[q].file]) : x.rec = lockers[q].chan[2] =>
                   \E y \in ToSet(L[lockers[q].file]) : y.rec = x.rec /\ Within(x, y)
  <2>1. lockers'[q] = lockers[q] /\ lockers[q].chan \notin C /\ q \in DOMAIN lockers
    BY <1>11, <1>12, <1>13, <1>14
  <2>2. q \in Asleep(lockers) /\ lockers[q].chan # Run
    BY <1>14, <2>1 DEF Asleep
  <2>3. lockers[q].chan[2] \in want
    BY <1>1, <2>2 DEF LockSleeper
  <2>4. lockers[q].chan = Record(lockers[q].chan[2]) /\ lockers[q].file \in LockFiles
    <3>1. lockers[q] \in Calls
      BY <1>1, <2>1
    <3>2. PICK r \in Records : lockers[q].chan = Record(r)
      BY <2>2, <3>1 DEF Calls
    <3> QED
      BY <3>1, <3>2 DEF Calls, Record
  <2>5. lockers[q].chan[2] \notin gone
    BY <2>1, <2>3, <2>4
  <2> QED
    BY <1>9, <2>1, <2>3, <2>4, <2>5
<1>15. Remain
  BY <1>3, <1>11, <1>12, <1>13, <1>14 DEF Remain
<1> QED
  BY <1>3, <1>8, <1>10, <1>15, RemainInv

\* A call that ends, or is left, without a change of a list.
LEMMA ReturnStep ==
  ASSUME LockInv, NEW p, lockers' = unsleep(lockers, p), UNCHANGED <<locklist, want>>
  PROVE  LockInv'
<1>1. /\ Lists(locklist) /\ want \subseteq Used /\ LockSleeper
      /\ \A q \in DOMAIN lockers : lockers[q] \in Calls
  BY DEF LockInv
<1>2. Lists(locklist') /\ want' \subseteq Used'
  BY <1>1 DEF Used
<1>3. /\ DOMAIN lockers' \subseteq DOMAIN lockers
      /\ \A q \in DOMAIN lockers' : lockers'[q] = lockers[q]
  BY DEF unsleep, Drop
<1>4. ASSUME NEW q \in DOMAIN lockers', lockers'[q].chan # Run
      PROVE  /\ lockers'[q] = lockers[q] /\ lockers[q].chan[2] \in want'
             /\ \A x \in ToSet(locklist[lockers[q].file]) : x.rec = lockers[q].chan[2] =>
                  \E y \in ToSet(locklist'[lockers[q].file]) : y.rec = x.rec /\ Within(x, y)
  <2>1. lockers'[q] = lockers[q] /\ q \in DOMAIN lockers /\ q \in Asleep(lockers)
    BY <1>3, <1>4 DEF Asleep
  <2>2. lockers[q].chan[2] \in want
    BY <1>1, <2>1 DEF LockSleeper
  <2>3. locklist[lockers[q].file] \in Seq(Lk)
    <3>1. lockers[q].file \in LockFiles
      BY <1>1, <2>1 DEF Calls
    <3> QED
      BY <1>1, <3>1 DEF Lists
  <2>4. \A x \in ToSet(locklist[lockers[q].file]) : Within(x, x)
    <3>1. \A x \in ToSet(locklist[lockers[q].file]) : x.start \in Nat /\ x.end \in Nat
      BY <2>3, Members
    <3> QED
      BY <3>1 DEF Within
  <2> QED
    BY <2>1, <2>2, <2>4
<1>5. Remain
  BY <1>1, <1>3, <1>4 DEF Remain
<1> QED
  BY <1>2, <1>5, RemainInv

\* Whoever deadlock lets sleep closes no circle: a circle through p and the set
\* that p is not in have a circle without p in common.
LEMMA SleepStep ==
  ASSUME LockInv, NEW p \in Procs, NEW c \in Calls,
         NEW x \in ToSet(locklist[c.file]), x.proc # p, x.start < c.UB, c.LB < x.end,
         ~deadlock(p, x),
         want' = want \cup {x.rec},
         lockers' = sleep(lockers, p, [c EXCEPT !.chan = Record(x.rec)]),
         UNCHANGED locklist
  PROVE  LockInv'
<1>1. /\ Lists(locklist) /\ want \subseteq Used /\ LockSleeper /\ NoLockCircle
      /\ DOMAIN lockers \subseteq Procs
      /\ \A q \in DOMAIN lockers : lockers[q] \in Calls
  BY DEF LockInv
<1>2. PICK f \in LockFiles : f = c.file
  BY DEF Calls
<1>3. x.rec \in Used /\ x.rec \in Records
  BY <1>1, <1>2, UsedIs
<1>4. PICK l : l = [c EXCEPT !.chan = Record(x.rec)]
  OBVIOUS
<1>5. /\ l \in Calls /\ l.chan = Record(x.rec) /\ l.file = c.file
      /\ l.LB = c.LB /\ l.UB = c.UB
  BY <1>3, <1>4 DEF Calls
<1>6. l.chan[2] = x.rec /\ l.chan # Run
  BY <1>5 DEF Record, Run
<1>7. /\ DOMAIN lockers' = DOMAIN lockers \cup {p} /\ lockers'[p] = l
      /\ \A q \in DOMAIN lockers' \ {p} : lockers'[q] = lockers[q]
  BY <1>4 DEF sleep, Put
<1>8. \A q \in Asleep(lockers') \ {p} : q \in Asleep(lockers) /\ lockers'[q] = lockers[q]
  BY <1>7 DEF Asleep
<1>9. Lists(locklist') /\ want' \subseteq Used'
  BY <1>1, <1>3 DEF Used
<1>10. DOMAIN lockers' \subseteq Procs /\ \A q \in DOMAIN lockers' : lockers'[q] \in Calls
  BY <1>1, <1>5, <1>7
<1>11. LockSleeper'
  <2> SUFFICES ASSUME NEW q \in Asleep(lockers')
               PROVE  /\ lockers'[q].chan[2] \in want'
                      /\ \E y \in ToSet(locklist[lockers'[q].file]) :
                           /\ y.rec = lockers'[q].chan[2] /\ y.proc # q
                           /\ y.start < lockers'[q].UB /\ lockers'[q].LB < y.end
    BY DEF LockSleeper, Asleep
  <2>1. CASE q = p
    BY <1>5, <1>6, <1>7, <2>1
  <2>2. CASE q # p
    <3>1. q \in Asleep(lockers) /\ lockers'[q] = lockers[q]
      BY <1>8, <2>2
    <3> QED
      BY <1>1, <3>1 DEF LockSleeper
  <2> QED
    BY <2>1, <2>2
<1>12. \A r : Owner(r)' = Owner(r)
  BY DEF Owner
<1>13. \A q \in Asleep(lockers') \ {p} : WaitsFor(q)' = WaitsFor(q)
  BY <1>8, <1>12 DEF WaitsFor
<1>14. WaitsFor(p)' = x.proc
  <2>1. Owner(x.rec) = x.proc
    BY <1>1, <1>2, OwnerIs DEF Owner
  <2> QED
    BY <1>6, <1>7, <1>12, <2>1 DEF WaitsFor
<1>15. PICK T \in SUBSET Procs :
         x.proc \in T /\ p \notin T /\ \A o \in T \cap Asleep(lockers) : WaitsFor(o) \in T
  BY DEF deadlock
<1>16. ASSUME NEW S \in SUBSET Asleep(lockers'), \A q \in S : WaitsFor(q)' \in S
       PROVE  S = {}
  <2>1. CASE p \notin S
    <3>1. S \in SUBSET Asleep(lockers)
      BY <1>8, <2>1
    <3>2. \A q \in S : WaitsFor(q) \in S
      BY <1>13, <1>16, <2>1
    <3> QED
      BY <1>1, <3>1, <3>2 DEF NoLockCircle
  <2>2. CASE p \in S
    <3>1. PICK C : C = S \cap T
      OBVIOUS
    <3>2. C \in SUBSET Asleep(lockers)
      BY <1>8, <1>15, <3>1
    <3>3. \A q \in C : WaitsFor(q) \in C
      BY <1>13, <1>15, <1>16, <3>1, <3>2
    <3>4. C = {}
      BY <1>1, <3>2, <3>3 DEF NoLockCircle
    <3>5. x.proc \in C
      BY <1>14, <1>15, <1>16, <2>2, <3>1
    <3> QED
      BY <3>4, <3>5
  <2> QED
    BY <2>1, <2>2
<1>17. NoLockCircle'
  BY <1>16 DEF NoLockCircle, Asleep
<1> QED
  BY <1>9, <1>10, <1>11, <1>17 DEF LockInv
-----------------------------------------------------------------------------
\* The locks in the way of a region.
LEMMA BlockingIs ==
  ASSUME NEW c \in Seq(Lk), Neat(c), NEW p, NEW LB \in Nat, NEW UB \in Nat,
         NEW b, b = Blocking(p, c, LB, UB)
  PROVE  /\ b = {} => Free(c, p, LB, UB)
         /\ b # {} => /\ c[Min(b)] \in ToSet(c)
                      /\ c[Min(b)].proc # p /\ c[Min(b)].start < UB /\ LB < c[Min(b)].end
<1>1. PICK n \in Nat : n = Len(c)
  OBVIOUS
<1>2. /\ \A k \in 1 .. n : /\ c[k] \in ToSet(c)
                           /\ c[k].start \in Nat /\ c[k].end \in Nat /\ c[k].start < c[k].end
      /\ \A i, j \in 1 .. n : i < j => c[i].end <= c[j].start /\ c[i].start < c[j].start
  BY <1>1, Members, Ordered
<1>3. \A i \in 1 .. n : c[i].start < UB => i \in Upto(c, UB)
  <2> SUFFICES ASSUME NEW i \in 1 .. n, c[i].start < UB, NEW j \in 1 .. i
               PROVE  c[j].start < UB
    BY <1>1 DEF Upto
  <2>1. j \in 1 .. n /\ (j < i \/ j = i)
    OBVIOUS
  <2>2. j < i => c[j].start < c[i].start
    BY <1>2, <2>1
  <2>3. c[i].start \in Nat /\ c[j].start \in Nat
    BY <1>2, <2>1
  <2> QED
    BY <2>1, <2>2, <2>3
<1>4. ASSUME b = {}
      PROVE  Free(c, p, LB, UB)
  <2> SUFFICES ASSUME NEW k \in 1 .. n, c[k].proc # p
               PROVE  c[k].end <= LB \/ UB <= c[k].start
    BY <1>1 DEF Free
  <2>1. ~(c[k].start < UB /\ c[k].end > LB)
    BY <1>3, <1>4 DEF Blocking
  <2> QED
    BY <1>2, <2>1
<1>5. ASSUME b # {}
      PROVE  /\ c[Min(b)] \in ToSet(c)
             /\ c[Min(b)].proc # p /\ c[Min(b)].start < UB /\ LB < c[Min(b)].end
  <2>1. b \in SUBSET Nat
    BY <1>1 DEF Blocking, Upto
  <2>2. PICK i : i = Min(b) /\ i \in b
    BY <1>5, <2>1, MinNat
  <2>3. i \in Upto(c, UB) /\ c[i].proc # p /\ c[i].end > LB
    BY <2>2 DEF Blocking
  <2>4. i \in 1 .. n /\ c[i].start < UB
    BY <1>1, <2>3 DEF Upto
  <2> QED
    BY <1>2, <2>2, <2>3, <2>4
<1> QED
  BY <1>4, <1>5

\* The record that is taken is nobody's.
LEMMA TakenIs ==
  ASSUME LockInv, NEW r, r = IF Unused = {} THEN 0 ELSE Min(Unused)
  PROVE  Unused # {} => r \in Records /\ r \notin Used
<1>1. Unused \in SUBSET Nat
  BY UserLockAssumption DEF UserLockAssumption, Unused
<1>2. Unused # {} => r \in Unused
  BY <1>1, MinNat
<1> QED
  BY <1>2 DEF Unused

-----------------------------------------------------------------------------
\* A call of p gives file f list d, with records R of nobody, and wakes who
\* sleeps on the records that are gone.
Relists(f, d, R, gone, W) ==
  /\ R \cap Used = {} /\ Moved(locklist[f], d, R, gone)
  /\ locklist' = [locklist EXCEPT ![f] = d]
  /\ want' = want \ gone /\ lockers' = Wake(W, gone)

LEMMA RelistsStep ==
  ASSUME LockInv, NEW f \in LockFiles, NEW d \in Seq(Lk), NEW R, NEW gone,
         NEW p, NEW W, W = lockers \/ W = unsleep(lockers, p), Relists(f, d, R, gone, W)
  PROVE  LockInv'
<1>1. /\ R \cap Used = {} /\ Moved(locklist[f], d, R, gone)
      /\ locklist' = [locklist EXCEPT ![f] = d]
      /\ want' = want \ gone /\ lockers' = Wake(W, gone)
  BY DEF Relists
<1> QED
  BY <1>1, ListStep

\* Locking does nothing, or makes the list grow.
LEMMA LockIs ==
  ASSUME LockInv, NEW p \in Procs, NEW f \in LockFiles,
         NEW LB \in Nat, NEW UB \in Nat, LB < UB, Free(locklist[f], p, LB, UB),
         Lock(p, f, LB, UB)
  PROVE  \/ lockers' = unsleep(lockers, p) /\ UNCHANGED <<locklist, want>>
         \/ \E d \in Seq(Lk) : \E R, gone : /\ Grown(locklist[f], d, p, LB, UB, R)
                                            /\ Relists(f, d, R, gone, unsleep(lockers, p))
<1>1. PICK c \in Seq(Lk) : c = locklist[f] /\ Neat(c)
  BY DEF LockInv, Lists
<1>2. CASE Needs(p, locklist[f], LB, UB) /\ Unused = {}
  <2>1. /\ lockers' = unsleep(lockers, p) /\ want' = want
        /\ locklist' = [locklist EXCEPT ![f] =
                          IF AtHead(p, c, LB, UB) THEN c ELSE Stretched(c, LB)]
    BY <1>1, <1>2 DEF Lock
  <2>2. ~AtHead(p, c, LB, UB) => Stretched(c, LB) = c
    BY <1>1, <1>2, NeedsIs
  <2>3. locklist' = [locklist EXCEPT ![f] = locklist[f]]
    BY <1>1, <2>1, <2>2
  <2>4. locklist' = locklist
    BY <2>3 DEF LockInv, Lists
  <2> QED
    BY <2>1, <2>4
<1>3. CASE ~(Needs(p, locklist[f], LB, UB) /\ Unused = {})
  <2>1. PICK r : r = IF Unused = {} THEN 0 ELSE Min(Unused)
    OBVIOUS
  <2>2. PICK R : R = IF Needs(p, c, LB, UB) THEN {r} ELSE {}
    OBVIOUS
  <2>3. Needs(p, c, LB, UB) => r \in Records /\ r \notin Used
    BY <1>1, <1>3, <2>1, TakenIs
  <2>4. R \cap Used = {}
    BY <2>2, <2>3
  <2>5. \A x \in ToSet(c) : x.rec \notin R
    <3>1. \A x \in ToSet(c) : x.rec \in Used
      BY <1>1, UsedIs DEF LockInv
    <3> QED
      BY <2>4, <3>1
  <2>6. Free(c, p, LB, UB)
    BY <1>1
  <2>7. PICK d \in Seq(Lk) : d = Added(p, c, LB, UB, r) /\ Grown(c, d, p, LB, UB, R)
    <3>1. Needs(p, c, LB, UB) => r \in Records
      BY <2>3
    <3>2. Neat(c)
      BY <1>1
    <3>3. \E d \in Seq(Lk) : d = Added(p, c, LB, UB, r) /\ Grown(c, d, p, LB, UB, R)
      BY <2>2, <2>5, <2>6, <3>1, <3>2, AddedIs
    <3> QED
      BY <3>3
  <2>8. PICK gone : gone = {x.rec : x \in ToSet(c) \cup ToSet(d)} \ {x.rec : x \in ToSet(d)}
    OBVIOUS
  <2>9. /\ locklist' = [locklist EXCEPT ![f] = d]
        /\ want' = want \ gone
        /\ lockers' = Wake(unsleep(lockers, p), gone)
    BY <1>1, <1>3, <2>1, <2>7, <2>8 DEF Lock
  <2>10. Moved(c, d, R, gone)
    <3>1. /\ Neat(d)
          /\ \A y \in ToSet(d) : y.rec \in R \/ \E x \in ToSet(c) : x.rec = y.rec
          /\ \A x \in ToSet(c), y \in ToSet(d) : x.rec = y.rec => Within(x, y)
      BY <2>7 DEF Grown
    <3>2. ASSUME NEW x \in ToSet(c), x.rec \notin gone
          PROVE  \E y \in ToSet(d) : y.rec = x.rec /\ Within(x, y)
      <4>1. PICK y \in ToSet(d) : y.rec = x.rec
        BY <2>8, <3>2
      <4> QED
        BY <3>1, <4>1
    <3> QED
      BY <3>1, <3>2 DEF Moved
  <2>11. Relists(f, d, R, gone, unsleep(lockers, p))
    BY <1>1, <2>4, <2>9, <2>10 DEF Relists
  <2> QED
    BY <1>1, <2>7, <2>11
<1> QED
  BY <1>2, <1>3

\* Unlocking leaves the list, or cuts the region out of it.
LEMMA UnlockIs ==
  ASSUME LockInv, NEW p \in Procs, NEW f \in LockFiles,
         NEW LB \in Nat, NEW UB \in Nat, LB < UB, Unlock(p, f, LB, UB)
  PROVE  \E d \in Seq(Lk) : \E R, gone : /\ \/ d = locklist[f]
                                            \/ IsCut(d, locklist[f], p, LB, UB, R, gone)
                                         /\ Relists(f, d, R, gone, lockers)
<1>1. PICK c \in Seq(Lk) : c = locklist[f] /\ Neat(c)
  BY DEF LockInv, Lists
<1>2. PICK n \in Nat : n = Len(c)
  OBVIOUS
<1> PICK hit : hit = Hit(p, c, LB, UB)
  OBVIOUS
<1> PICK r : r = IF Unused = {} THEN 0 ELSE Min(Unused)
  OBVIOUS
<1> PICK gone : gone = {c[i].rec : i \in hit}
  OBVIOUS
<1>3. want' = want \ gone /\ lockers' = Wake(lockers, gone)
  BY <1>1 DEF Unlock
<1>4. CASE Unused = {} /\ \E i \in hit : Severed(c[i], LB, UB)
  <2>1. locklist' = locklist
    BY <1>1, <1>4 DEF Unlock
  <2>2. locklist' = [locklist EXCEPT ![f] = c]
    BY <1>1, <2>1 DEF LockInv, Lists
  <2>3. PICK R : R = {}
    OBVIOUS
  <2>4. Moved(c, c, R, gone)
    <3>1. \A x \in ToSet(c) : x.start \in Nat /\ x.end \in Nat
      BY Members
    <3>2. \A x \in ToSet(c) : Within(x, x)
      BY <3>1 DEF Within
    <3> QED
      BY <1>1, <3>2 DEF Moved
  <2>5. Relists(f, c, R, gone, lockers)
    BY <1>1, <1>3, <2>2, <2>3, <2>4 DEF Relists
  <2> QED
    BY <1>1, <2>5
<1>5. CASE ~(Unused = {} /\ \E i \in hit : Severed(c[i], LB, UB))
  <2>1. PICK R : R = IF \E i \in hit : Severed(c[i], LB, UB) THEN {r} ELSE {}
    OBVIOUS
  <2>2. (\E i \in hit : Severed(c[i], LB, UB)) => r \in Records /\ r \notin Used
    BY <1>5, TakenIs
  <2>3. R \cap Used = {}
    BY <2>1, <2>2
  <2>4. \A x \in ToSet(c) : x.rec \notin R
    <3>1. \A x \in ToSet(c) : x.rec \in Used
      BY <1>1, UsedIs DEF LockInv
    <3> QED
      BY <2>3, <3>1
  <2>5. PICK d : d = Unlocked(p, c, LB, UB, r)
    OBVIOUS
  <2>6. IsCut(d, c, p, LB, UB, R, gone)
    <3>1. (\E i \in hit : Severed(c[i], LB, UB)) => r \in Records
      BY <2>2
    <3>2. Neat(c)
      BY <1>1
    <3>3. IsCut(Unlocked(p, c, LB, UB, r), c, p, LB, UB, R, {c[i].rec : i \in hit})
      BY <1>2, <2>1, <2>4, <3>1, <3>2, UnlockCuts
    <3> QED
      BY <2>5, <3>3
  <2>7. locklist' = [locklist EXCEPT ![f] = d]
    BY <1>1, <1>2, <1>5, <2>5 DEF Unlock
  <2>8. /\ d \in Seq(Lk) /\ Neat(d)
        /\ \A y \in ToSet(d) : y.rec \in R \/ \E x \in ToSet(c) : x.rec = y.rec
        /\ \A x \in ToSet(c) : x.rec \in gone \/ x \in ToSet(d)
    BY <2>6 DEF IsCut
  <2>9. Moved(c, d, R, gone)
    <3>1. \A x \in ToSet(c) : x.start \in Nat /\ x.end \in Nat
      BY Members
    <3>2. \A x \in ToSet(c) : Within(x, x)
      BY <3>1 DEF Within
    <3> QED
      BY <2>8, <3>2 DEF Moved
  <2>10. Relists(f, d, R, gone, lockers)
    BY <1>1, <1>3, <2>3, <2>7, <2>9 DEF Relists
  <2> QED
    BY <1>1, <2>6, <2>8, <2>10
<1> QED
  BY <1>4, <1>5

\* Closing a file takes the locks of p off the list.
LEMMA CloseIs ==
  ASSUME LockInv, NEW p \in Procs, NEW f \in LockFiles, unlock(p, f)
  PROVE  \E d \in Seq(Lk) : \E R, gone :
           /\ \A x : x \in ToSet(d) <=> x \in ToSet(locklist[f]) /\ x.proc # p
           /\ Relists(f, d, R, gone, lockers)
<1>1. PICK c \in Seq(Lk) : c = locklist[f] /\ Neat(c)
  BY DEF LockInv, Lists
<1>2. PICK d \in Seq(Lk) : /\ d = Without(p, c) /\ Neat(d)
                           /\ \A x : x \in ToSet(d) <=> x \in ToSet(c) /\ x.proc # p
  BY <1>1, WithoutCuts
<1> PICK gone : gone = {x.rec : x \in {y \in ToSet(c) : y.proc = p}}
  OBVIOUS
<1> PICK R : R = {}
  OBVIOUS
<1>3. /\ locklist' = [locklist EXCEPT ![f] = d]
      /\ want' = want \ gone /\ lockers' = Wake(lockers, gone)
  BY <1>1, <1>2 DEF unlock
<1>4. Moved(c, d, R, gone)
  <2>1. \A x \in ToSet(c) : x.start \in Nat /\ x.end \in Nat
    BY Members
  <2>2. \A x \in ToSet(c) : Within(x, x)
    BY <2>1 DEF Within
  <2>3. \A x \in ToSet(c) : x.rec \in gone \/ x \in ToSet(d)
    BY <1>2
  <2> QED
    BY <1>2, <2>2, <2>3 DEF Moved
<1>5. Relists(f, d, R, gone, lockers)
  BY <1>1, <1>3, <1>4 DEF Relists
<1> QED
  BY <1>1, <1>2, <1>5

-----------------------------------------------------------------------------
\* What process q has of byte b by list c.
Mode(c, q, b) == IF Covered(ToSet(c), q, b) THEN "WR" ELSE "UN"

LEMMA HeldIs ==
  /\ held = [f \in LockFiles |-> [q \in Procs |-> [b \in 0 .. MAXSIZE - 1 |->
               Mode(locklist[f], q, b)]]]
  /\ held' = [f \in LockFiles |-> [q \in Procs |-> [b \in 0 .. MAXSIZE - 1 |->
                Mode(locklist'[f], q, b)]]]
BY DEF held, Mode, Covered

\* List d gives p mode t of the bytes B, and is like c otherwise.
Becomes(c, d, p, B, t) ==
  \A q \in Procs, b \in 0 .. MAXSIZE - 1 :
    Mode(d, q, b) = IF q = p /\ b \in B THEN t ELSE Mode(c, q, b)

\* The bytes B of p get mode t.
HeldSet(f, p, B, t) ==
  held' = [held EXCEPT ![f][p] = [b \in DOMAIN @ |-> IF b \in B THEN t ELSE @[b]]]

\* The list of a file changes, and with it what one process holds of it.
LEMMA HeldStep ==
  ASSUME Lists(locklist), NEW f \in LockFiles, NEW d,
         locklist' = [locklist EXCEPT ![f] = d],
         NEW p \in Procs, NEW B, NEW t, Becomes(locklist[f], d, p, B, t)
  PROVE  HeldSet(f, p, B, t)
<1>1. /\ locklist'[f] = d
      /\ \A g \in LockFiles : g # f => locklist'[g] = locklist[g]
  BY DEF Lists
<1> PICK H0, H : H0 = held /\ H = held'
  OBVIOUS
<1> DEFINE M(g, q) == [b \in 0 .. MAXSIZE - 1 |-> Mode(locklist[g], q, b)]
           N(g, q) == IF g = f /\ q = p
                      THEN [b \in 0 .. MAXSIZE - 1 |-> IF b \in B THEN t ELSE M(f, p)[b]]
                      ELSE M(g, q)
<1>2. H0 = [g \in LockFiles |-> [q \in Procs |-> M(g, q)]]
  BY HeldIs
<1>3. H = [g \in LockFiles |-> [q \in Procs |-> N(g, q)]]
  <2>1. H = [g \in LockFiles |-> [q \in Procs |-> [b \in 0 .. MAXSIZE - 1 |->
               Mode(locklist'[g], q, b)]]]
    BY HeldIs
  <2>2. ASSUME NEW g \in LockFiles, NEW q \in Procs
        PROVE  [b \in 0 .. MAXSIZE - 1 |-> Mode(locklist'[g], q, b)] = N(g, q)
    <3>1. CASE g = f
      <4>1. \A b \in 0 .. MAXSIZE - 1 :
              Mode(locklist'[g], q, b) = IF q = p /\ b \in B THEN t ELSE Mode(locklist[f], q, b)
        BY <1>1, <3>1 DEF Becomes
      <4>2. CASE q = p
        BY <3>1, <4>1, <4>2
      <4>3. CASE q # p
        BY <3>1, <4>1, <4>3
      <4> QED
        BY <4>2, <4>3
    <3>2. CASE g # f
      BY <1>1, <3>2
    <3> QED
      BY <3>1, <3>2
  <2> HIDE DEF N
  <2> QED
    BY <2>1, <2>2
<1>4. M(f, p) = H0[f][p] /\ DOMAIN M(f, p) = 0 .. MAXSIZE - 1
  BY <1>2
<1>5. [H0 EXCEPT ![f][p] = [b \in DOMAIN @ |-> IF b \in B THEN t ELSE @[b]]]
        = [g \in LockFiles |-> [q \in Procs |-> N(g, q)]]
  <2>1. PICK V : V = [b \in 0 .. MAXSIZE - 1 |-> IF b \in B THEN t ELSE M(f, p)[b]]
    OBVIOUS
  <2>2. [b \in DOMAIN H0[f][p] |-> IF b \in B THEN t ELSE H0[f][p][b]] = V
    BY <1>4, <2>1
  <2>3. \A g, q : N(g, q) = IF g = f /\ q = p THEN V ELSE M(g, q)
    BY <2>1
  <2> HIDE DEF M, N
  <2>4. [H0 EXCEPT ![f][p] = V] = [g \in LockFiles |-> [q \in Procs |-> N(g, q)]]
    BY <1>2, <2>3
  <2> QED
    BY <2>2, <2>4
<1> QED
  BY <1>3, <1>5 DEF HeldSet

\* Nobody but p has one of the bytes B.
NobodyElse(f, p, B) == \A q \in Procs \ {p}, b \in B : Mode(locklist[f], q, b) = "UN"

\* A step that gives p mode t of the bytes from s to e, and may, is one of the
\* table.
LEMMA TableStep ==
  ASSUME Lists(locklist), NEW f \in LockFiles, NEW d,
         locklist' = [locklist EXCEPT ![f] = d],
         NEW p \in Procs, NEW s \in Nat, NEW e \in Nat, s < e, e <= MAXSIZE,
         NEW t \in {"WR", "UN"}, Becomes(locklist[f], d, p, s .. e - 1, t),
         t = "UN" \/ NobodyElse(f, p, s .. e - 1)
  PROVE  Table!Next
<1> PICK B : B = s .. e - 1
  OBVIOUS
<1>1. MAXSIZE \in Nat
  BY UserLockAssumption DEF UserLockAssumption
<1>2. B \in SUBSET (0 .. MAXSIZE - 1)
  BY <1>1
<1>3. t # "UN" => Table!Allowed(f, p, B, t)
  <2>1. \A q \in Procs, b \in 0 .. MAXSIZE - 1 : held[f][q][b] = Mode(locklist[f], q, b)
    BY HeldIs
  <2> HIDE DEF held
  <2> QED
    BY <1>2, <2>1 DEF Table!Allowed, NobodyElse
<1>4. Becomes(locklist[f], d, p, B, t)
  OBVIOUS
<1>5. HeldSet(f, p, B, t)
  BY <1>4, HeldStep
<1>6. Table!Lock(f, p, B, t)
  BY <1>3, <1>5 DEF Table!Lock, HeldSet
<1>7. PICK l \in 0 .. MAXSIZE - 1 : l = e - 1
  BY <1>1
<1>8. s \in 0 .. MAXSIZE - 1 /\ s <= l
  BY <1>1, <1>7
<1>9. Table!Lock(f, p, s .. l, t)
  BY <1>6, <1>7
<1>10. t \in {"WR"} \cup {"UN"}
  OBVIOUS
<1> QED
  BY <1>7, <1>8, <1>9, <1>10 DEF Table!Next

\* Locking gives p the region, which nobody else has.
LEMMA LockHeld ==
  ASSUME LockInv, NEW f \in LockFiles, NEW d \in Seq(Lk), NEW p \in Procs,
         NEW LB \in Nat, NEW UB \in Nat, LB < UB, UB <= MAXSIZE,
         Free(locklist[f], p, LB, UB), NEW R, Grown(locklist[f], d, p, LB, UB, R),
         locklist' = [locklist EXCEPT ![f] = d]
  PROVE  Table!Next
<1>1. PICK c \in Seq(Lk) : c = locklist[f]
  BY DEF LockInv, Lists
<1>2. /\ \A x : x.proc # p => (x \in ToSet(d) <=> x \in ToSet(c))
      /\ \A m \in Nat : Covered(ToSet(d), p, m)
                          <=> Covered(ToSet(c), p, m) \/ (LB <= m /\ m < UB)
  BY <1>1 DEF Grown
<1>3. Becomes(c, d, p, LB .. UB - 1, "WR")
  <2> SUFFICES ASSUME NEW q \in Procs, NEW b \in 0 .. MAXSIZE - 1
               PROVE  Mode(d, q, b) = IF q = p /\ b \in LB .. UB - 1 THEN "WR" ELSE Mode(c, q, b)
    BY DEF Becomes
  <2>1. b \in Nat /\ (b \in LB .. UB - 1 <=> LB <= b /\ b < UB)
    BY UserLockAssumption DEF UserLockAssumption
  <2>2. CASE q = p
    <3>1. Covered(ToSet(d), q, b) <=> Covered(ToSet(c), q, b) \/ b \in LB .. UB - 1
      BY <1>2, <2>1, <2>2
    <3> QED
      BY <2>2, <3>1 DEF Mode
  <2>3. CASE q # p
    <3>1. Covered(ToSet(d), q, b) <=> Covered(ToSet(c), q, b)
      BY <1>2, <2>3 DEF Covered
    <3> QED
      BY <2>3, <3>1 DEF Mode
  <2> QED
    BY <2>2, <2>3
<1>4. ASSUME NEW q \in Procs \ {p}, NEW b \in LB .. UB - 1
      PROVE  Mode(c, q, b) = "UN"
  <2>1. \A k \in 1 .. Len(c) : c[k].proc # p => c[k].end <= LB \/ UB <= c[k].start
    BY <1>1 DEF Free
  <2>2. ASSUME NEW x \in ToSet(c), x.proc = q, x.start <= b, b < x.end
        PROVE  FALSE
    <3>1. PICK k \in 1 .. Len(c) : x = c[k]
      BY Members
    <3>2. x.start \in Nat /\ x.end \in Nat
      BY Members
    <3>3. x.end <= LB \/ UB <= x.start
      BY <2>1, <2>2, <3>1
    <3> QED
      BY <2>2, <3>2, <3>3
  <2> QED
    BY <2>2 DEF Mode, Covered
<1>5. PICK t \in {"WR", "UN"} : t = "WR"
  OBVIOUS
<1>6. Lists(locklist)
  BY DEF LockInv
<1>7. Becomes(locklist[f], d, p, LB .. UB - 1, t)
  BY <1>1, <1>3, <1>5
<1>8. NobodyElse(f, p, LB .. UB - 1)
  BY <1>1, <1>4 DEF NobodyElse
<1> QED
  BY <1>6, <1>7, <1>8, TableStep

\* Unlocking takes the region from p.
LEMMA UnlockHeld ==
  ASSUME LockInv, NEW f \in LockFiles, NEW d \in Seq(Lk), NEW p \in Procs,
         NEW LB \in Nat, NEW UB \in Nat, LB < UB, UB <= MAXSIZE,
         NEW R, NEW recs, IsCut(d, locklist[f], p, LB, UB, R, recs),
         locklist' = [locklist EXCEPT ![f] = d]
  PROVE  Table!Next
<1>1. PICK c \in Seq(Lk) : c = locklist[f]
  BY DEF LockInv, Lists
<1>2. /\ \A x : x.proc # p => (x \in ToSet(d) <=> x \in ToSet(c))
      /\ \A m \in Nat : Covered(ToSet(d), p, m)
                          <=> Covered(ToSet(c), p, m) /\ ~(LB <= m /\ m < UB)
  BY <1>1 DEF IsCut
<1>3. Becomes(c, d, p, LB .. UB - 1, "UN")
  <2> SUFFICES ASSUME NEW q \in Procs, NEW b \in 0 .. MAXSIZE - 1
               PROVE  Mode(d, q, b) = IF q = p /\ b \in LB .. UB - 1 THEN "UN" ELSE Mode(c, q, b)
    BY DEF Becomes
  <2>1. b \in Nat /\ (b \in LB .. UB - 1 <=> LB <= b /\ b < UB)
    BY UserLockAssumption DEF UserLockAssumption
  <2>2. CASE q = p
    <3>1. Covered(ToSet(d), q, b) <=> Covered(ToSet(c), q, b) /\ b \notin LB .. UB - 1
      BY <1>2, <2>1, <2>2
    <3> QED
      BY <2>2, <3>1 DEF Mode
  <2>3. CASE q # p
    <3>1. Covered(ToSet(d), q, b) <=> Covered(ToSet(c), q, b)
      BY <1>2, <2>3 DEF Covered
    <3> QED
      BY <2>3, <3>1 DEF Mode
  <2> QED
    BY <2>2, <2>3
<1>4. PICK t \in {"WR", "UN"} : t = "UN"
  OBVIOUS
<1>5. Lists(locklist) /\ Becomes(locklist[f], d, p, LB .. UB - 1, t)
  BY <1>1, <1>3, <1>4 DEF LockInv
<1> QED
  BY <1>4, <1>5, TableStep

\* Closing takes all the bytes from p; of a file of no bytes there are none.
LEMMA CloseHeld ==
  ASSUME LockInv, NEW f \in LockFiles, NEW d \in Seq(Lk), NEW p \in Procs,
         \A x : x \in ToSet(d) <=> x \in ToSet(locklist[f]) /\ x.proc # p,
         locklist' = [locklist EXCEPT ![f] = d]
  PROVE  [Table!Next]_held
<1>1. PICK c \in Seq(Lk) : c = locklist[f]
  BY DEF LockInv, Lists
<1>2. PICK s \in Nat, e \in Nat : s = 0 /\ e = MAXSIZE
  BY UserLockAssumption DEF UserLockAssumption
<1>3. Becomes(c, d, p, s .. e - 1, "UN")
  <2> SUFFICES ASSUME NEW q \in Procs, NEW b \in 0 .. MAXSIZE - 1
               PROVE  Mode(d, q, b) = IF q = p /\ b \in s .. e - 1 THEN "UN" ELSE Mode(c, q, b)
    BY DEF Becomes
  <2>1. b \in s .. e - 1
    BY <1>2
  <2>2. Covered(ToSet(d), q, b) <=> q # p /\ Covered(ToSet(c), q, b)
    BY <1>1 DEF Covered
  <2> QED
    BY <2>1, <2>2 DEF Mode
<1>4. PICK t \in {"WR", "UN"} : t = "UN"
  OBVIOUS
<1>5. Lists(locklist) /\ Becomes(locklist[f], d, p, s .. e - 1, t)
  BY <1>1, <1>3, <1>4 DEF LockInv
<1>6. CASE s < e
  <2>1. e <= MAXSIZE
    BY <1>2
  <2>2. Lists(locklist)
    BY <1>5
  <2>3. Becomes(locklist[f], d, p, s .. e - 1, t)
    BY <1>5
  <2>4. Table!Next
    BY <1>4, <1>6, <2>1, <2>2, <2>3, TableStep
  <2> QED
    BY <2>4
<1>7. CASE ~(s < e)
  <2>1. 0 .. MAXSIZE - 1 = {}
    BY <1>2, <1>7
  <2>2. PICK N : N = [b \in {} |-> "UN"]
    OBVIOUS
  <2> PICK H, I : H = held /\ I = held'
    OBVIOUS
  <2> DEFINE M(g, q) == [b \in 0 .. MAXSIZE - 1 |-> Mode(locklist[g], q, b)]
             O(g, q) == [b \in 0 .. MAXSIZE - 1 |-> Mode(locklist'[g], q, b)]
  <2>3. \A g, q : M(g, q) = N /\ O(g, q) = N
    BY <2>1, <2>2
  <2>4. /\ H = [g \in LockFiles |-> [q \in Procs |-> M(g, q)]]
        /\ I = [g \in LockFiles |-> [q \in Procs |-> O(g, q)]]
    BY HeldIs
  <2> HIDE DEF M, O
  <2>5. H = I
    BY <2>3, <2>4
  <2> QED
    BY <2>5
<1> QED
  BY <1>6, <1>7

-----------------------------------------------------------------------------
\* A step leaves the lists as they are, or is one of the table.
LEMMA HeldSame ==
  ASSUME locklist' = locklist
  PROVE  [Table!Next]_held
BY DEF held

LEMMA RelistSame ==
  ASSUME LockInv, NEW f \in LockFiles, locklist' = [locklist EXCEPT ![f] = locklist[f]]
  PROVE  [Table!Next]_held
<1>1. locklist' = locklist
  BY DEF LockInv, Lists
<1> QED
  BY <1>1, HeldSame

\* A call in locked, from its start or from being woken.
LEMMA LockedStep ==
  ASSUME LockInv, NEW p \in Procs, NEW c \in Calls, locked(p, c)
  PROVE  LockInv' /\ [Table!Next]_held
<1>1. PICK f \in LockFiles, LB \in Nat, UB \in Nat :
        f = c.file /\ LB = c.LB /\ UB = c.UB /\ LB < UB /\ UB <= MAXSIZE
  BY DEF Calls
<1>2. PICK l \in Seq(Lk) : l = locklist[f] /\ Neat(l)
  BY DEF LockInv, Lists
<1>3. PICK b : b = Blocking(p, l, LB, UB)
  OBVIOUS
<1>4. /\ b = {} => Free(l, p, LB, UB)
      /\ b # {} => /\ l[Min(b)] \in ToSet(l)
                   /\ l[Min(b)].proc # p /\ l[Min(b)].start < UB /\ LB < l[Min(b)].end
  BY <1>2, <1>3, BlockingIs
<1>5. PICK x : x = l[Min(b)]
  OBVIOUS
<1>6. \/ lockers' = unsleep(lockers, p) /\ UNCHANGED <<locklist, want>>
      \/ b = {} /\ Lock(p, f, LB, UB)
      \/ /\ b # {} /\ ~deadlock(p, x)
         /\ want' = want \cup {x.rec}
         /\ lockers' = sleep(lockers, p, [c EXCEPT !.chan = Record(x.rec)])
         /\ UNCHANGED locklist
  BY <1>1, <1>2, <1>3, <1>5 DEF locked
<1>7. CASE lockers' = unsleep(lockers, p) /\ UNCHANGED <<locklist, want>>
  BY <1>7, ReturnStep, HeldSame
<1>8. CASE b = {} /\ Lock(p, f, LB, UB)
  <2>1. Free(locklist[f], p, LB, UB)
    BY <1>2, <1>4, <1>8
  <2>2. \/ lockers' = unsleep(lockers, p) /\ UNCHANGED <<locklist, want>>
        \/ \E d \in Seq(Lk) : \E R, gone : /\ Grown(locklist[f], d, p, LB, UB, R)
                                           /\ Relists(f, d, R, gone, unsleep(lockers, p))
    BY <1>1, <1>8, <2>1, LockIs
  <2>3. ASSUME NEW d \in Seq(Lk), NEW R, NEW gone, Grown(locklist[f], d, p, LB, UB, R),
               Relists(f, d, R, gone, unsleep(lockers, p))
        PROVE  LockInv' /\ [Table!Next]_held
    <3>1. PICK W : W = unsleep(lockers, p)
      OBVIOUS
    <3>2. Relists(f, d, R, gone, W)
      BY <2>3, <3>1
    <3>3. LockInv'
      BY <3>1, <3>2, RelistsStep
    <3>4. locklist' = [locklist EXCEPT ![f] = d]
      BY <2>3 DEF Relists
    <3>5. Table!Next
      BY <1>1, <2>1, <2>3, <3>4, LockHeld
    <3> QED
      BY <3>3, <3>5
  <2> QED
    BY <1>7, <2>2, <2>3
<1>9. CASE /\ b # {} /\ ~deadlock(p, x)
           /\ want' = want \cup {x.rec}
           /\ lockers' = sleep(lockers, p, [c EXCEPT !.chan = Record(x.rec)])
           /\ UNCHANGED locklist
  <2>1. /\ x \in ToSet(locklist[c.file]) /\ x.proc # p
        /\ x.start < c.UB /\ c.LB < x.end
    BY <1>1, <1>2, <1>4, <1>5, <1>9
  <2>2. LockInv'
    BY <1>9, <2>1, SleepStep
  <2>3. [Table!Next]_held
    BY <1>9, HeldSame
  <2> QED
    BY <2>2, <2>3
<1> QED
  BY <1>6, <1>7, <1>8, <1>9

\* A proper region.
LEMMA RegionIs ==
  ASSUME ProperRegions, NEW rg \in Regions
  PROVE  rg[1] \in Nat /\ rg[2] \in Nat /\ rg[1] < rg[2] /\ rg[2] <= MAXSIZE
<1>1. PICK a \in Nat \X Int : rg = Bounds(a[1], a[2])
  BY UserLockAssumption DEF UserLockAssumption, Regions
<1>2. a[1] \in Nat /\ a[2] \in Int /\ MAXSIZE \in Nat
  BY UserLockAssumption DEF UserLockAssumption
<1>3. rg[1] = a[1] /\ (rg[2] = MAXSIZE \/ (rg[2] = a[1] + a[2] /\ a[1] + a[2] > 0))
  BY <1>1 DEF Bounds
<1>4. rg[1] < rg[2] /\ rg[2] <= MAXSIZE
  BY DEF ProperRegions
<1> QED
  BY <1>2, <1>3, <1>4

\* A call of a process that is not in one.
LEMMA CallIs ==
  ASSUME ProperRegions, NEW f \in LockFiles, NEW rg \in Regions, NEW w \in BOOLEAN, NEW io \in BOOLEAN
  PROVE  /\ rg[1] \in Nat /\ rg[2] \in Nat /\ rg[1] < rg[2] /\ rg[2] <= MAXSIZE
         /\ [chan |-> Run, file |-> f, LB |-> rg[1], UB |-> rg[2], wait |-> w, io |-> io] \in Calls
<1>1. rg[1] \in Nat /\ rg[2] \in Nat /\ rg[1] < rg[2] /\ rg[2] <= MAXSIZE
  BY RegionIs
<1> QED
  BY <1>1 DEF Calls

\* Unlocking a region.
LEMMA UnlockingStep ==
  ASSUME ProperRegions, LockInv, NEW p \in Procs, NEW f \in LockFiles,
         NEW rg \in Regions, Unlocking(p, f, rg)
  PROVE  LockInv' /\ [Table!Next]_held
<1>1. PICK LB \in Nat, UB \in Nat : LB = rg[1] /\ UB = rg[2] /\ LB < UB /\ UB <= MAXSIZE
  BY RegionIs
<1>2. Unlock(p, f, LB, UB)
  BY <1>1 DEF Unlocking
<1>3. PICK d \in Seq(Lk) : \E R, gone : /\ \/ d = locklist[f]
                                           \/ IsCut(d, locklist[f], p, LB, UB, R, gone)
                                        /\ Relists(f, d, R, gone, lockers)
  BY <1>1, <1>2, UnlockIs
<1>4. PICK R, gone : /\ \/ d = locklist[f]
                        \/ IsCut(d, locklist[f], p, LB, UB, R, gone)
                     /\ Relists(f, d, R, gone, lockers)
  BY <1>3
<1>5. PICK W : W = lockers
  OBVIOUS
<1>6. Relists(f, d, R, gone, W)
  BY <1>4, <1>5
<1>7. LockInv'
  BY <1>5, <1>6, RelistsStep
<1>8. locklist' = [locklist EXCEPT ![f] = d]
  BY <1>6 DEF Relists
<1>9. CASE d = locklist[f]
  BY <1>7, <1>8, <1>9, RelistSame
<1>10. CASE IsCut(d, locklist[f], p, LB, UB, R, gone)
  <2>1. Table!Next
    BY <1>1, <1>8, <1>10, UnlockHeld
  <2> QED
    BY <1>7, <2>1
<1> QED
  BY <1>4, <1>9, <1>10

\* Closing a file.
LEMMA CloseStep ==
  ASSUME LockInv, NEW p \in Procs, NEW f \in LockFiles, unlock(p, f)
  PROVE  LockInv' /\ [Table!Next]_held
<1>1. PICK d \in Seq(Lk) : \E R, gone :
        /\ \A x : x \in ToSet(d) <=> x \in ToSet(locklist[f]) /\ x.proc # p
        /\ Relists(f, d, R, gone, lockers)
  BY CloseIs
<1>2. PICK R, gone : /\ \A x : x \in ToSet(d) <=> x \in ToSet(locklist[f]) /\ x.proc # p
                     /\ Relists(f, d, R, gone, lockers)
  BY <1>1
<1>3. PICK W : W = lockers
  OBVIOUS
<1>4. Relists(f, d, R, gone, W)
  BY <1>2, <1>3
<1>5. LockInv'
  BY <1>3, <1>4, RelistsStep
<1>6. locklist' = [locklist EXCEPT ![f] = d]
  BY <1>4 DEF Relists
<1>7. [Table!Next]_held
  BY <1>2, <1>6, CloseHeld
<1> QED
  BY <1>5, <1>7

\* Every step keeps the invariants, and maps to one of the table or to none.
LEMMA NextStep ==
  ASSUME ProperRegions
  PROVE  LockInv /\ [LockNext]_lockVars => LockInv' /\ [Table!Next]_held
<1> SUFFICES ASSUME LockInv, [LockNext]_lockVars
             PROVE  LockInv' /\ [Table!Next]_held
  OBVIOUS
<1>1. ASSUME NEW p \in Procs, Woken(p)
      PROVE  LockInv' /\ [Table!Next]_held
  <2>1. PICK c \in Calls : c = lockers[p]
    BY <1>1 DEF Woken, LockInv
  <2>2. locked(p, c)
    BY <1>1, <2>1 DEF Woken
  <2> QED
    BY <2>2, LockedStep
<1>2. ASSUME NEW p \in Procs, LockInterrupt(p)
      PROVE  LockInv' /\ [Table!Next]_held
  <2>1. lockers' = unsleep(lockers, p) /\ UNCHANGED <<locklist, want>>
    BY <1>2 DEF LockInterrupt
  <2> QED
    BY <2>1, ReturnStep, HeldSame
<1>3. ASSUME NEW p \in Procs, NEW f \in LockFiles, NEW rg \in Regions, NEW w \in BOOLEAN,
             Locking(p, f, rg, w)
      PROVE  LockInv' /\ [Table!Next]_held
  <2>1. PICK c \in Calls :
          c = [chan |-> Run, file |-> f, LB |-> rg[1], UB |-> rg[2], wait |-> w, io |-> FALSE]
    BY CallIs
  <2>2. locked(p, c)
    BY <1>3, <2>1 DEF Locking
  <2> QED
    BY <2>2, LockedStep
<1>4. ASSUME NEW p \in Procs, NEW f \in LockFiles, NEW rg \in Regions, RdWr(p, f, rg)
      PROVE  LockInv' /\ [Table!Next]_held
  <2>1. PICK c \in Calls :
          c = [chan |-> Run, file |-> f, LB |-> rg[1], UB |-> rg[2], wait |-> TRUE, io |-> TRUE]
    BY CallIs
  <2>2. locked(p, c)
    BY <1>4, <2>1 DEF RdWr
  <2> QED
    BY <2>2, LockedStep
<1>5. ASSUME NEW p \in Procs, NEW f \in LockFiles, NEW rg \in Regions, Unlocking(p, f, rg)
      PROVE  LockInv' /\ [Table!Next]_held
  BY <1>5, UnlockingStep
<1>6. ASSUME NEW p \in Procs, NEW f \in LockFiles, unlock(p, f)
      PROVE  LockInv' /\ [Table!Next]_held
  BY <1>6, CloseStep
<1>7. CASE UNCHANGED lockVars
  <2>1. locklist' = locklist /\ want' = want /\ lockers' = lockers
    BY <1>7 DEF lockVars
  <2>2. LockInv'
    <3>1. LockSleeper'
      BY <2>1 DEF LockInv, LockSleeper, Asleep
    <3>2. NoLockCircle'
      <4>1. \A p : WaitsFor(p)' = WaitsFor(p)
        BY <2>1 DEF WaitsFor, Owner
      <4>2. Asleep(lockers)' = Asleep(lockers)
        BY <2>1 DEF Asleep
      <4> QED
        BY <4>1, <4>2 DEF LockInv, NoLockCircle
    <3>3. Lists(locklist)' /\ (want \subseteq Used)'
      BY <2>1 DEF LockInv, Lists, Used
    <3>4. (DOMAIN lockers \subseteq Procs /\ \A p \in DOMAIN lockers : lockers[p] \in Calls)'
      BY <2>1 DEF LockInv, Calls
    <3> QED
      BY <3>1, <3>2, <3>3, <3>4 DEF LockInv
  <2> QED
    BY <2>1, <2>2, HeldSame
<1> HIDE DEF held
<1> QED
  BY <1>1, <1>2, <1>3, <1>4, <1>5, <1>6, <1>7 DEF LockNext

LEMMA LockFirst == LockInit => LockInv /\ Table!Init
<1> SUFFICES ASSUME LockInit PROVE LockInv /\ Table!Init
  OBVIOUS
<1>1. /\ locklist = [f \in LockFiles |-> <<>>] /\ want = {} /\ lockers = <<>>
  BY DEF LockInit
<1>2. DOMAIN lockers = {} /\ Asleep(lockers) = {}
  BY <1>1 DEF Asleep
<1>3. \A f \in LockFiles : /\ locklist[f] \in Seq(Lk) /\ Neat(locklist[f])
                           /\ ToSet(locklist[f]) = {}
  BY <1>1, OneNeat
<1>4. Lists(locklist)
  BY <1>1, <1>3 DEF Lists
<1>5. LockInv
  BY <1>1, <1>2, <1>4 DEF LockInv, LockSleeper, NoLockCircle
<1>6. Table!Init
  <2>1. \A f \in LockFiles : \A q, b : Mode(locklist[f], q, b) = "UN"
    BY <1>3 DEF Mode, Covered
  <2> HIDE DEF held
  <2> QED
    BY <2>1, HeldIs DEF Table!Init
<1> QED
  BY <1>5, <1>6

\* Whatever is locked and unlocked, the list of a file stays in order, without
\* overlaps and with regions of a process that touch in one lock, and no record
\* is in two places (locked, locking and unlock in ulocking.c).
THEOREM ListsStayOrdered ==
  ASSUME ProperRegions
  PROVE  LockSpec => []ListsOrdered
<1>1. LockInit => LockInv
  BY LockFirst
<1>2. LockInv /\ [LockNext]_lockVars => LockInv'
  BY NextStep
<1>3. LockInv => ListsOrdered
  <2> SUFFICES ASSUME LockInv PROVE ListsOrdered
    OBVIOUS
  <2>1. Lists(locklist) /\ want \subseteq Used
    BY DEF LockInv
  <2>2. ASSUME NEW f \in LockFiles, NEW i \in DOMAIN locklist[f], NEW j \in DOMAIN locklist[f]
        PROVE  LET x == locklist[f][i]
                   y == locklist[f][j]
               IN /\ x.start < x.end
                  /\ i < j => x.end <= y.start /\ (x.proc = y.proc => x.end < y.start)
    <3>1. PICK c \in Seq(Lk) : c = locklist[f] /\ Neat(c)
      BY <2>1 DEF Lists
    <3>2. i \in 1 .. Len(c) /\ j \in 1 .. Len(c)
      BY <3>1
    <3>3. c[i].start < c[i].end /\ (i < j => Clear(c[i], c[j]))
      BY <3>1, <3>2 DEF Neat, Before
    <3> QED
      BY <3>1, <3>3 DEF Clear
  <2>3. ASSUME NEW f \in LockFiles, NEW g \in LockFiles,
               NEW i \in DOMAIN locklist[f], NEW j \in DOMAIN locklist[g],
               locklist[f][i].rec = locklist[g][j].rec
        PROVE  f = g /\ i = j
    <3>1. locklist[f][i] \in ToSet(locklist[f]) /\ locklist[g][j] \in ToSet(locklist[g])
      BY DEF ToSet
    <3>2. f = g
      BY <2>1, <2>3, <3>1 DEF Lists
    <3>3. PICK c \in Seq(Lk) : c = locklist[f] /\ Neat(c)
      BY <2>1 DEF Lists
    <3>4. i \in 1 .. Len(c) /\ j \in 1 .. Len(c) /\ c[i].rec = c[j].rec
      BY <2>3, <3>2, <3>3
    <3>5. \A k, l \in 1 .. Len(c) : k < l => c[k].rec # c[l].rec
      BY <3>3 DEF Neat, Before
    <3>6. i = j
      BY <3>4, <3>5
    <3> QED
      BY <3>2, <3>6
  <2> QED
    BY <2>1, <2>2, <2>3 DEF ListsOrdered
<1> QED
  BY <1>1, <1>2, <1>3, PTL DEF LockSpec

\* Whoever sleeps in locked sleeps on a lock of another process that is in the
\* way of its region and marked IWANT: the step that takes the lock away wakes
\* it, whoever made the lock grow or merged it meanwhile.
THEOREM LockSleepersWoken ==
  ASSUME ProperRegions
  PROVE  LockSpec => []LockSleeper
<1>1. LockInit => LockInv
  BY LockFirst
<1>2. LockInv /\ [LockNext]_lockVars => LockInv'
  BY NextStep
<1>3. LockInv => LockSleeper
  BY DEF LockInv
<1> QED
  BY <1>1, <1>2, <1>3, PTL DEF LockSpec

\* deadlock (ulocking.c) keeps the processes that sleep on locks from waiting
\* in a circle.
THEOREM NoWaitCircle ==
  ASSUME ProperRegions
  PROVE  LockSpec => []NoLockCircle
<1>1. LockInit => LockInv
  BY LockFirst
<1>2. LockInv /\ [LockNext]_lockVars => LockInv'
  BY NextStep
<1>3. LockInv => NoLockCircle
  BY DEF LockInv
<1> QED
  BY <1>1, <1>2, <1>3, PTL DEF LockSpec

\* The lists behave like a table of what each process has locked: a call locks
\* bytes nobody else has, or unlocks its region, or does nothing.
THEOREM UserLockTableKept ==
  ASSUME ProperRegions
  PROVE  LockSpec => ImplementsTable
<1>1. LockInit => LockInv /\ Table!Init
  BY LockFirst
<1>2. LockInv /\ [LockNext]_lockVars => LockInv' /\ [Table!Next]_held
  BY NextStep
<1> QED
  BY <1>1, <1>2, PTL DEF LockSpec, ImplementsTable, Table!Spec
=============================================================================
