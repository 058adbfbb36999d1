-------------------------- MODULE RecordLockProofs --------------------------
(***************************************************************************)
(* Theorems about RecordLock, for any processes, files and sizes of the    *)
(* pools: nobody waits in a circle, headers are kept exactly as long as    *)
(* they are referenced, and nobody sleeps on a lock that is gone or no     *)
(* longer in the way.  When all locks are exclusive, chains  *)
(* stay sorted and the locks of a process apart, nobody's locks exclude    *)
(* each other, a call sets exactly the bytes asked for, and the chains     *)
(* implement LockTable; with shared locks a chain may come to be unsorted. *)
(***************************************************************************)
EXTENDS RecordLock, FiniteSetTheorems, NaturalsInduction, SequenceTheorems, TLAPS

Sleepers(f) == {p \in DOMAIN sleeplcks : sleeplcks[p].req.file = f}

\* NoCircle is inductive with the domain of sleeplcks.
CircleInv == /\ DOMAIN sleeplcks \subseteq Procs
             /\ NoCircle

\* A header counts n references, m of them of calls that sleep.
Owed(n, m) == n >= m /\ (Leaks = 0 => n = m)

\* What a header counts is inductive with the types of what it is counted of.
HeaderInv == /\ DOMAIN sleeplcks \subseteq Procs
             /\ \A p \in DOMAIN sleeplcks : sleeplcks[p].req \in Request
             /\ flck = [f \in Files |-> flck[f]]
             /\ refcnt \in [Files -> Nat]
             /\ \A f \in Files :
                  /\ Owed(refcnt[f], Cardinality(Sleepers(f)))
                  /\ f \in fids <=> refcnt[f] > 0 \/ flck[f] # <<>>
-----------------------------------------------------------------------------
\* A process that leaves sleeplcks closes no circle.
LEMMA WakeCircle ==
  ASSUME CircleInv, NEW p, NEW f, NEW L, Wake(p, f, L)
  PROVE  CircleInv'
<1> USE DEF CircleInv, Wake
<1>1. DOMAIN sleeplcks' = DOMAIN sleeplcks \ {p}
  OBVIOUS
<1>2. \A q \in DOMAIN sleeplcks' : sleeplcks'[q].on = sleeplcks[q].on
  OBVIOUS
<1>3. NoCircle'
  BY <1>1, <1>2 DEF NoCircle
<1> QED
  BY <1>1, <1>3

\* A process that deadflck lets sleep closes none either: a circle through p
\* and the set deadflck found have a circle without p in common.
LEMMA SleepCircle ==
  ASSUME CircleInv, NEW p \in Procs, NEW r, Sleep(p, r)
  PROVE  CircleInv'
<1> DEFINE x == Found(p, r)
<1>1. /\ DOMAIN sleeplcks' = DOMAIN sleeplcks \cup {p}
      /\ sleeplcks'[p].on = x
      /\ \A q \in DOMAIN sleeplcks' \ {p} : sleeplcks'[q] = sleeplcks[q]
  BY DEF Sleep
<1>2. PICK T \in SUBSET Procs :
        /\ x.pid \in T /\ p \notin T
        /\ \A y \in (T \cap DOMAIN sleeplcks) \ {p} : sleeplcks[y].on.pid \in T
  BY DEF Sleep, deadflck, OnWay
<1>3. ASSUME NEW S \in SUBSET DOMAIN sleeplcks',
             \A q \in S : sleeplcks'[q].on.pid \in S
      PROVE  S = {}
  <2>1. CASE p \notin S
    BY <1>1, <1>3, <2>1 DEF CircleInv, NoCircle
  <2>2. CASE p \in S
    <3> DEFINE C == S \cap T
    <3>1. C \in SUBSET DOMAIN sleeplcks
      BY <1>1, <1>2
    <3>2. \A q \in C : sleeplcks[q].on.pid \in C
      BY <1>1, <1>2, <1>3
    <3>3. C = {}
      BY <3>1, <3>2 DEF CircleInv, NoCircle
    <3>4. x.pid \in C
      BY <1>1, <1>2, <1>3, <2>2
    <3> QED
      BY <3>3, <3>4
  <2> QED
    BY <2>1, <2>2
<1>4. NoCircle'
  BY <1>3 DEF NoCircle
<1> QED
  BY <1>1, <1>4 DEF CircleInv

LEMMA CircleStep == CircleInv /\ [Next]_vars => CircleInv'
<1> SUFFICES ASSUME CircleInv, [Next]_vars
             PROVE  CircleInv'
  OBVIOUS
<1>1. CASE UNCHANGED vars
  BY <1>1 DEF CircleInv, NoCircle, vars
<1>2. ASSUME NEW p \in Procs, NEW r \in Request, Set(p, r)
      PROVE  CircleInv'
  BY <1>2, WakeCircle DEF Set
<1>3. ASSUME NEW p \in Procs, NEW r \in Request, Refuse(p, r) \/ Deadlk(p, r)
      PROVE  CircleInv'
  BY <1>3, WakeCircle DEF Refuse, Deadlk
<1>4. ASSUME NEW p \in Procs, NEW r \in Request, Sleep(p, r)
      PROVE  CircleInv'
  BY <1>4, SleepCircle
<1>5. ASSUME NEW p \in Procs, Interrupt(p)
      PROVE  CircleInv'
  BY <1>5, WakeCircle DEF Interrupt
<1>6. ASSUME NEW p \in Procs, NEW f \in Files, cleanlocks(p, f)
      PROVE  CircleInv'
  BY <1>6, WakeCircle DEF cleanlocks
<1>7. ASSUME NEW p \in Procs, NEW f \in Files, GetBadOffset(p, f)
      PROVE  CircleInv'
  BY <1>7 DEF GetBadOffset, CircleInv, NoCircle
<1> QED
  BY <1>1, <1>2, <1>3, <1>4, <1>5, <1>6, <1>7 DEF Next, Setflck

\* deadflck (flock.c) keeps the processes that sleep on record locks from
\* waiting in a circle, interrupted and woken ones included.
THEOREM NoWaitCircle == Spec => []NoCircle
<1>1. Init => CircleInv
  BY DEF Init, CircleInv, NoCircle
<1>2. CircleInv => NoCircle
  BY DEF CircleInv
<1> QED
  BY <1>1, <1>2, CircleStep, PTL DEF Spec
-----------------------------------------------------------------------------
\* The sleepers of a file can be counted.
LEMMA SleepersFinite ==
  ASSUME DOMAIN sleeplcks \subseteq Procs, NEW f
  PROVE  IsFiniteSet(Sleepers(f)) /\ Cardinality(Sleepers(f)) \in Nat
<1>1. Sleepers(f) \in SUBSET Procs
  BY DEF Sleepers
<1>2. IsFiniteSet(Sleepers(f))
  BY <1>1, FS_Subset, ConstAssumption DEF ConstAssumption
<1> QED
  BY <1>2, FS_CardinalityType

\* The end of a call of p on file f: p's reference, if it slept, and its record
\* go together, and the header stays if and only if it is needed.
LEMMA EndOfCall ==
  ASSUME HeaderInv, NEW p \in Procs, NEW f \in Files, NEW L, NEW c,
         p \in DOMAIN sleeplcks => sleeplcks[p].req.file = f,
         flck' = [flck EXCEPT ![f] = c],
         Wake(p, f, L), freefid(p, f)
  PROVE  HeaderInv'
<1>1. /\ DOMAIN sleeplcks' = DOMAIN sleeplcks \ {p}
      /\ \A q \in DOMAIN sleeplcks' : sleeplcks'[q].req = sleeplcks[q].req
  BY DEF Wake
<1>2. /\ DOMAIN sleeplcks' \subseteq Procs
      /\ \A q \in DOMAIN sleeplcks' : sleeplcks'[q].req \in Request
  BY <1>1 DEF HeaderInv
<1>3. flck' = [g \in Files |-> flck'[g]]
  BY DEF HeaderInv
<1> DEFINE n == refcnt[f] - (IF p \in DOMAIN sleeplcks THEN 1 ELSE 0)
<1>4. \A g \in Files : /\ Owed(refcnt[g], Cardinality(Sleepers(g)))
                       /\ g \in fids <=> refcnt[g] > 0 \/ flck[g] # <<>>
  BY DEF HeaderInv
<1>5. Sleepers(f)' = Sleepers(f) \ {p}
  BY <1>1 DEF Sleepers
<1>6. \A g \in Files \ {f} : Sleepers(g)' = Sleepers(g)
  BY <1>1 DEF Sleepers
<1>7. Owed(n, Cardinality(Sleepers(f)')) /\ n \in Nat
  <2>1. p \in Sleepers(f) <=> p \in DOMAIN sleeplcks
    BY DEF Sleepers
  <2>2. IsFiniteSet(Sleepers(f)) /\ IsFiniteSet(Sleepers(f) \ {p})
    BY SleepersFinite, FS_RemoveElement DEF HeaderInv
  <2>3. Owed(refcnt[f], Cardinality(Sleepers(f))) /\ refcnt[f] \in Nat
    BY <1>4 DEF HeaderInv
  <2>4. Cardinality(Sleepers(f) \ {p})
          = IF p \in Sleepers(f) THEN Cardinality(Sleepers(f)) - 1
                                 ELSE Cardinality(Sleepers(f))
    BY <2>2, FS_RemoveElement
  <2>5. PICK m, k : m = Cardinality(Sleepers(f)) /\ k = Cardinality(Sleepers(f) \ {p})
    OBVIOUS
  <2>6. m \in Nat /\ k \in Nat
    BY <2>2, <2>5, FS_CardinalityType
  <2>7. Owed(n, k) /\ n \in Nat
    BY <2>1, <2>3, <2>4, <2>5, <2>6 DEF Owed
  <2> QED
    BY <2>5, <2>7, <1>5
<1>8. refcnt' = [refcnt EXCEPT ![f] = n]
  BY DEF freefid
<1>9. refcnt' \in [Files -> Nat]
  BY <1>7, <1>8 DEF HeaderInv
<1>10. ASSUME NEW g \in Files
       PROVE  /\ Owed(refcnt'[g], Cardinality(Sleepers(g)'))
              /\ g \in fids' <=> refcnt'[g] > 0 \/ flck'[g] # <<>>
  <2>1. CASE g = f
    <3>1. refcnt'[f] = n
      BY <1>8 DEF HeaderInv
    <3>2. f \in fids' <=> ~ (n = 0 /\ flck'[f] = <<>>)
      BY DEF freefid
    <3> QED
      BY <3>1, <3>2, <1>7, <2>1
  <2>2. CASE g # f
    <3>1. refcnt'[g] = refcnt[g] /\ flck'[g] = flck[g]
      BY <1>8, <2>2 DEF HeaderInv
    <3>2. g \in fids' <=> g \in fids
      BY <2>2 DEF freefid
    <3> QED
      BY <3>1, <3>2, <1>4, <1>6, <2>2
  <2> QED
    BY <2>1, <2>2
<1>11. \A g \in Files : /\ Owed(refcnt[g], Cardinality(Sleepers(g)))'
                        /\ (g \in fids <=> refcnt[g] > 0 \/ flck[g] # <<>>)'
  BY <1>10 DEF Owed
<1> QED
  BY <1>2, <1>3, <1>9, <1>11 DEF HeaderInv

\* Going to sleep: the reference of the call is kept.
LEMMA SleepHeader ==
  ASSUME HeaderInv, NEW p \in Procs, NEW r \in Request, Sleep(p, r)
  PROVE  HeaderInv'
<1> DEFINE f == r.file
<1>1. /\ DOMAIN sleeplcks' = DOMAIN sleeplcks \cup {p}
      /\ sleeplcks'[p].req = r
      /\ \A q \in DOMAIN sleeplcks' \ {p} : sleeplcks'[q] = sleeplcks[q]
  BY DEF Sleep
<1>2. p \in DOMAIN sleeplcks => sleeplcks[p].req = r
  BY DEF Sleep, InSetflck
<1>3. f \in Files
  BY DEF Request
<1>4. /\ DOMAIN sleeplcks' \subseteq Procs
      /\ \A q \in DOMAIN sleeplcks' : sleeplcks'[q].req \in Request
  BY <1>1 DEF HeaderInv
<1>5. \A g \in Files : /\ Owed(refcnt[g], Cardinality(Sleepers(g)))
                       /\ g \in fids <=> refcnt[g] > 0 \/ flck[g] # <<>>
  BY DEF HeaderInv
<1>6. Sleepers(f)' = Sleepers(f) \cup {p}
  BY <1>1, <1>2 DEF Sleepers
<1>7. \A g \in Files \ {f} : Sleepers(g)' = Sleepers(g)
  BY <1>1, <1>2 DEF Sleepers
<1> DEFINE n == IF p \in DOMAIN sleeplcks THEN refcnt[f] ELSE refcnt[f] + 1
<1>8. Owed(n, Cardinality(Sleepers(f)')) /\ n \in Nat /\ n > 0
  <2>1. p \in Sleepers(f) <=> p \in DOMAIN sleeplcks
    BY <1>2 DEF Sleepers
  <2>2. /\ IsFiniteSet(Sleepers(f)) /\ IsFiniteSet(Sleepers(f) \cup {p})
        /\ Cardinality(Sleepers(f)) \in Nat
    BY SleepersFinite, FS_AddElement DEF HeaderInv
  <2>3. Cardinality(Sleepers(f) \cup {p})
          = IF p \in Sleepers(f) THEN Cardinality(Sleepers(f))
                                 ELSE Cardinality(Sleepers(f)) + 1
    BY <2>2, FS_AddElement
  <2>4. Cardinality(Sleepers(f)) = 0 => Sleepers(f) = {}
    BY <2>2, FS_EmptySet
  <2>5. Owed(refcnt[f], Cardinality(Sleepers(f))) /\ refcnt[f] \in Nat
    BY <1>3, <1>5 DEF HeaderInv
  <2>6. PICK m, k : m = Cardinality(Sleepers(f)) /\ k = Cardinality(Sleepers(f) \cup {p})
    OBVIOUS
  <2>7. m \in Nat /\ (p \in Sleepers(f) => m > 0)
    BY <2>2, <2>4, <2>6
  <2>8. Owed(n, k) /\ n \in Nat /\ n > 0
    BY <2>1, <2>3, <2>5, <2>6, <2>7 DEF Owed
  <2> QED
    BY <2>6, <2>8, <1>6
<1>9. refcnt' = [refcnt EXCEPT ![f] = n] /\ fids' = fids \cup {f} /\ flck' = flck
  BY DEF Sleep
<1>10. refcnt' \in [Files -> Nat]
  BY <1>8, <1>9 DEF HeaderInv
<1>11. ASSUME NEW g \in Files
       PROVE  /\ Owed(refcnt'[g], Cardinality(Sleepers(g)'))
              /\ g \in fids' <=> refcnt'[g] > 0 \/ flck'[g] # <<>>
  <2>1. CASE g = f
    BY <1>8, <1>9, <2>1 DEF HeaderInv
  <2>2. CASE g # f
    BY <1>5, <1>7, <1>9, <2>2 DEF HeaderInv
  <2> QED
    BY <2>1, <2>2
<1>12. \A g \in Files : /\ Owed(refcnt[g], Cardinality(Sleepers(g)))'
                        /\ (g \in fids <=> refcnt[g] > 0 \/ flck[g] # <<>>)'
  BY <1>11 DEF Owed
<1> QED
  BY <1>4, <1>9, <1>10, <1>12 DEF HeaderInv

\* A failing F_GETLK: one more reference, of nobody.
LEMMA LeakHeader ==
  ASSUME HeaderInv, NEW p, NEW f \in Files, GetBadOffset(p, f)
  PROVE  HeaderInv'
<1>1. /\ f \in fids /\ refcnt[f] < Leaks /\ refcnt' = [refcnt EXCEPT ![f] = @ + 1]
      /\ flck' = flck /\ fids' = fids /\ sleeplcks' = sleeplcks
  BY DEF GetBadOffset
<1>2. \A g : Sleepers(g)' = Sleepers(g)
  BY <1>1 DEF Sleepers
<1>3. Leaks \in Nat /\ Leaks # 0
  BY <1>1, ConstAssumption DEF ConstAssumption, HeaderInv
<1>4. ASSUME NEW g \in Files
      PROVE  /\ Owed(refcnt'[g], Cardinality(Sleepers(g)'))
             /\ g \in fids' <=> refcnt'[g] > 0 \/ flck'[g] # <<>>
  <2>1. Cardinality(Sleepers(g)) \in Nat
    BY SleepersFinite DEF HeaderInv
  <2>2. Owed(refcnt[g], Cardinality(Sleepers(g))) /\ refcnt[g] \in Nat
    BY DEF HeaderInv
  <2>3. refcnt'[g] = IF g = f THEN refcnt[g] + 1 ELSE refcnt[g]
    BY <1>1 DEF HeaderInv
  <2>4. Owed(refcnt'[g], Cardinality(Sleepers(g)))
    BY <1>3, <2>1, <2>2, <2>3 DEF Owed
  <2>5. g \in fids' <=> refcnt'[g] > 0 \/ flck'[g] # <<>>
    BY <1>1, <2>2, <2>3 DEF HeaderInv
  <2> QED
    BY <1>2, <2>4, <2>5
<1>5. \A g \in Files : /\ Owed(refcnt[g], Cardinality(Sleepers(g)))'
                       /\ (g \in fids <=> refcnt[g] > 0 \/ flck[g] # <<>>)'
  BY <1>4 DEF Owed
<1>6. refcnt' \in [Files -> Nat]
  BY <1>1 DEF HeaderInv
<1> QED
  BY <1>1, <1>5, <1>6 DEF HeaderInv

LEMMA HeaderStep == HeaderInv /\ [Next]_vars => HeaderInv'
<1> SUFFICES ASSUME HeaderInv, [Next]_vars
             PROVE  HeaderInv'
  OBVIOUS
<1>1. CASE UNCHANGED vars
  BY <1>1 DEF HeaderInv, Sleepers, Owed, vars
<1>2. ASSUME NEW p \in Procs, NEW r \in Request,
             Set(p, r) \/ Refuse(p, r) \/ Deadlk(p, r)
      PROVE  HeaderInv'
  <2>1. r.file \in Files
    BY DEF Request
  <2>2. p \in DOMAIN sleeplcks => sleeplcks[p].req.file = r.file
    BY <1>2 DEF Set, Refuse, Deadlk, InSetflck
  <2>3. flck = [flck EXCEPT ![r.file] = flck[r.file]]
    BY <2>1 DEF HeaderInv
  <2>4. \E c, L : /\ flck' = [flck EXCEPT ![r.file] = c]
                  /\ Wake(p, r.file, L) /\ freefid(p, r.file)
    BY <1>2, <2>3 DEF Set, Refuse, Deadlk
  <2> QED
    BY <2>1, <2>2, <2>4, EndOfCall
<1>3. ASSUME NEW p \in Procs, NEW r \in Request, Sleep(p, r)
      PROVE  HeaderInv'
  BY <1>3, SleepHeader
<1>4. ASSUME NEW p \in Procs, Interrupt(p)
      PROVE  HeaderInv'
  <2> DEFINE f == sleeplcks[p].req.file
  <2>1. p \in DOMAIN sleeplcks /\ f \in Files
    BY <1>4 DEF Interrupt, HeaderInv, Request
  <2>2. flck' = [flck EXCEPT ![f] = flck[f]]
    BY <1>4, <2>1 DEF Interrupt, HeaderInv
  <2> QED
    BY <1>4, <2>1, <2>2, EndOfCall DEF Interrupt
<1>5. ASSUME NEW p \in Procs, NEW f \in Files, cleanlocks(p, f)
      PROVE  HeaderInv'
  BY <1>5, EndOfCall DEF cleanlocks
<1>6. ASSUME NEW p \in Procs, NEW f \in Files, GetBadOffset(p, f)
      PROVE  HeaderInv'
  BY <1>6, LeakHeader
<1> QED
  BY <1>1, <1>2, <1>3, <1>4, <1>5, <1>6 DEF Next, Setflck

LEMMA HeaderFirst == Init => HeaderInv
<1> SUFFICES ASSUME Init PROVE HeaderInv
  OBVIOUS
<1>1. \A f \in Files : Sleepers(f) = {}
  BY DEF Init, Sleepers
<1>2. \A f \in Files : Owed(refcnt[f], Cardinality(Sleepers(f)))
  BY <1>1, FS_EmptySet DEF Init, Owed
<1> QED
  BY <1>2 DEF Init, HeaderInv

\* A header (findfid, allocfid, freefid) has at least a reference for each call
\* asleep on its file, and is on fids exactly as long as it has a reference or
\* a lock: failing calls may keep one for ever, but none goes too early.
THEOREM HeadersKept == Spec => []RefsKept
<1>1. HeaderInv => RefsKept
  BY DEF HeaderInv, RefsKept, Sleepers, Owed
<1> QED
  BY <1>1, HeaderFirst, HeaderStep, PTL DEF Spec

\* When no F_GETLK call fails, fl_refcnt counts exactly the calls asleep.
THEOREM HeadersCounted == ASSUME Leaks = 0 PROVE Spec => []RefsExact
<1>1. HeaderInv => RefsExact
  BY DEF HeaderInv, RefsExact, Sleepers, Owed
<1> QED
  BY <1>1, HeaderFirst, HeaderStep, PTL DEF Spec
-----------------------------------------------------------------------------
\* A set of naturals that is not empty has a least one.
LEMMA LeastNat ==
  ASSUME NEW S \in SUBSET Nat, S # {}
  PROVE  \E x \in S : \A y \in S : x <= y
<1> DEFINE R == OpToRel(<, Nat)
<1>1. IsWellFoundedOn(R, Nat)
  BY NatLessThanWellFounded
<1>2. PICK x \in S : \A y \in S : ~(<<y, x>> \in R)
  BY <1>1, WFMin
<1>3. \A y \in S : <<y, x>> \in R <=> y < x
  BY DEF OpToRel
<1>4. \A y \in S : ~(y < x)
  BY <1>2, <1>3
<1> QED
  BY <1>4

\* What Min returns.
LEMMA MinNat ==
  ASSUME NEW S \in SUBSET Nat, S # {}
  PROVE  Min(S) \in S /\ \A y \in S : Min(S) <= y
BY LeastNat DEF Min

\* The first of some places of a sequence.
LEMMA FirstIn ==
  ASSUME NEW n \in Nat, NEW S \in SUBSET (1 .. n), S # {}
  PROVE  Min(S) \in S /\ Min(S) \in 1 .. n /\ \A y \in S : Min(S) <= y
<1>1. 1 .. n \subseteq Nat
  OBVIOUS
<1>2. S \in SUBSET Nat
  BY <1>1
<1> QED
  BY <1>2, MinNat

\* The last of some places of a sequence.
LEMMA MaxUpto ==
  ASSUME NEW n \in Nat, NEW S \in SUBSET (1 .. n), S # {}
  PROVE  Max(S) \in S /\ \A y \in S : Max(S) >= y
<1> DEFINE U == {m \in Nat : \A y \in S : m >= y}
<1>1. n \in U
  OBVIOUS
<1>2. U \in SUBSET Nat /\ U # {}
  BY <1>1
<1>3. PICK m \in U : \A y \in U : m <= y
  BY <1>2, LeastNat
<1>4. m \in S
  <2>1. SUFFICES ASSUME m \notin S PROVE FALSE
    OBVIOUS
  <2>2. m \in Nat /\ \A y \in S : m >= y
    OBVIOUS
  <2>3. \A y \in S : y \in Nat /\ y # m /\ y >= 1
    BY <2>1
  <2>4. PICK y \in S : TRUE
    OBVIOUS
  <2>5. m - 1 \in Nat /\ \A z \in S : m - 1 >= z
    BY <2>2, <2>3, <2>4
  <2>6. m - 1 \in U
    BY <2>5
  <2> QED
    BY <1>3, <2>2, <2>6
<1>5. \A y \in S : m >= y
  BY <1>3
<1> QED
  BY <1>4, <1>5 DEF Max

\* h is what the turns of the loop of flckadj over c make of S0, one by one.
Run(p, S0, c, h) ==
  /\ h[0] = S0
  /\ \A i \in 1 .. Len(c) : h[i] = Adjust(p, h[i - 1], c[i])
Loop(p, S0, c) == FoldLeft(LAMBDA S, x : Adjust(p, S, x), S0, c)

\* The loop is what its turns make.
LEMMA Turns ==
  ASSUME NEW p, NEW T, NEW c \in Seq(T), NEW S0
  PROVE  \E h : Run(p, S0, c, h) /\ Loop(p, S0, c) = h[Len(c)]
<1> DEFINE n == Len(c)
           body(g, s) == IF s = {} THEN S0 ELSE Adjust(p, g[s \ {Max(s)}], c[Max(s)])
           Upto(g, k) == g = [s \in SUBSET (1 .. k) |-> body(g, s)]
           Lacking == {k \in 0 .. n : ~\E g : Upto(g, k)}
           iter[s \in SUBSET (1 .. n)] == body(iter, s)
<1>1. n \in Nat /\ DOMAIN c = 1 .. n
  OBVIOUS
<1>2. Lacking = {}
  <2>1. SUFFICES ASSUME Lacking # {} PROVE FALSE
    OBVIOUS
  <2>2. Lacking \in SUBSET Nat
    BY <1>1
  <2>3. PICK k \in Lacking : \A j \in Lacking : k <= j
    BY <2>1, <2>2, LeastNat
  <2>4. k \in 0 .. n /\ ~\E g : Upto(g, k)
    OBVIOUS
  <2>5. CASE k = 0
    <3> DEFINE f == [s \in SUBSET (1 .. k) |-> S0]
    <3>1. \A s \in SUBSET (1 .. k) : s = {}
      BY <2>5
    <3>2. Upto(f, k)
      BY <3>1
    <3> QED
      BY <2>4, <3>2
  <2>6. CASE k # 0
    <3>1. k - 1 \in 0 .. n /\ ~(k <= k - 1) /\ k \in 1 .. k /\ k \in Nat
      BY <2>4, <2>6, <1>1
    <3>2. PICK g : Upto(g, k - 1)
      BY <2>3, <3>1
    <3>3. \A s \in SUBSET (1 .. k - 1) : g[s] = body(g, s)
      BY <3>2
    <3> DEFINE f == [s \in SUBSET (1 .. k) |->
                       IF k \in s THEN Adjust(p, g[s \ {k}], c[k]) ELSE g[s]]
    <3>4. ASSUME NEW s \in SUBSET (1 .. k)
          PROVE  f[s] = body(f, s)
      <4>1. CASE k \in s
        <5>1. Max(s) = k
          <6>1. Max(s) \in s /\ Max(s) >= k
            BY <3>1, <4>1, MaxUpto
          <6>2. Max(s) \in 1 .. k
            BY <6>1
          <6> QED
            BY <6>1, <6>2, <3>1
        <5>2. s \ {k} \in SUBSET (1 .. k) /\ k \notin s \ {k}
          OBVIOUS
        <5>3. f[s \ {k}] = g[s \ {k}]
          BY <5>2
        <5>4. f[s] = Adjust(p, g[s \ {k}], c[k])
          BY <4>1
        <5> QED
          BY <4>1, <5>1, <5>3, <5>4
      <4>2. CASE k \notin s
        <5>1. s \in SUBSET (1 .. k - 1)
          <6>1. \A x \in s : x \in 1 .. k /\ x # k
            BY <4>2
          <6> QED
            BY <6>1, <3>1
        <5>2. f[s] = g[s]
          BY <4>2
        <5>3. s \ {Max(s)} \in SUBSET (1 .. k) /\ k \notin s \ {Max(s)}
          BY <4>2
        <5>4. f[s \ {Max(s)}] = g[s \ {Max(s)}]
          BY <5>3
        <5> QED
          BY <3>3, <5>1, <5>2, <5>4
      <4> QED
        BY <4>1, <4>2
    <3>5. Upto(f, k)
      BY <3>4
    <3> QED
      BY <2>4, <3>5
  <2> QED
    BY <2>5, <2>6
<1>3. \E g : Upto(g, n)
  <2>1. n \in 0 .. n
    BY <1>1
  <2> QED
    BY <1>2, <2>1
<1>4. iter = CHOOSE f : Upto(f, n)
  OBVIOUS
<1>5. Upto(iter, n)
  BY <1>3, <1>4
<1>6. Loop(p, S0, c) = iter[1 .. n]
  BY <1>1 DEF Loop, FoldLeft, MapThenFoldSet
<1> HIDE DEF iter
<1>7. \A s \in SUBSET (1 .. n) : iter[s] = body(iter, s)
  BY <1>5
<1> DEFINE h == [i \in 0 .. n |-> iter[1 .. i]]
<1>8. h[0] = S0
  <2>1. 1 .. 0 = {} /\ 0 \in 0 .. n
    BY <1>1
  <2> QED
    BY <2>1, <1>7
<1>9. ASSUME NEW i \in 1 .. n
      PROVE  h[i] = Adjust(p, h[i - 1], c[i])
  <2>1. i \in 0 .. n /\ i - 1 \in 0 .. n /\ i \in 1 .. i /\ i \in Nat
    BY <1>1
  <2>2. (1 .. i) \ {i} = 1 .. i - 1
    BY <2>1
  <2>3. Max(1 .. i) = i
    <3>1. Max(1 .. i) \in 1 .. i /\ Max(1 .. i) >= i
      BY <2>1, MaxUpto
    <3> QED
      BY <3>1
  <2>4. 1 .. i \in SUBSET (1 .. n) /\ 1 .. i # {}
    <3>1. i <= n
      BY <1>1
    <3>2. \A j \in 1 .. i : j \in 1 .. n
      BY <1>1, <2>1, <3>1
    <3> QED
      BY <2>1, <3>2
  <2> QED
    BY <2>1, <2>2, <2>3, <2>4, <1>7
<1>10. h[n] = iter[1 .. n]
  BY <1>1
<1> HIDE DEF h
<1> QED
  BY <1>6, <1>8, <1>9, <1>10 DEF Run

\* The same of the loop of cleanlocks.
Clean(p, c, h) ==
  /\ h[0] = c
  /\ \A i \in 1 .. Len(c) : h[i] = Drop(p, h[i - 1], c[i])

\* It is what its turns make, too.
LEMMA Drops ==
  ASSUME NEW p, NEW T, NEW c \in Seq(T)
  PROVE  \E h : Clean(p, c, h) /\ Cleaned(p, c) = h[Len(c)]
<1> DEFINE n == Len(c)
           body(g, s) == IF s = {} THEN c ELSE Drop(p, g[s \ {Max(s)}], c[Max(s)])
           Upto(g, k) == g = [s \in SUBSET (1 .. k) |-> body(g, s)]
           Lacking == {k \in 0 .. n : ~\E g : Upto(g, k)}
           iter[s \in SUBSET (1 .. n)] == body(iter, s)
<1>1. n \in Nat /\ DOMAIN c = 1 .. n
  OBVIOUS
<1>2. Lacking = {}
  <2>1. SUFFICES ASSUME Lacking # {} PROVE FALSE
    OBVIOUS
  <2>2. Lacking \in SUBSET Nat
    BY <1>1
  <2>3. PICK k \in Lacking : \A j \in Lacking : k <= j
    BY <2>1, <2>2, LeastNat
  <2>4. k \in 0 .. n /\ ~\E g : Upto(g, k)
    OBVIOUS
  <2>5. CASE k = 0
    <3> DEFINE f == [s \in SUBSET (1 .. k) |-> c]
    <3>1. \A s \in SUBSET (1 .. k) : s = {}
      BY <2>5
    <3>2. Upto(f, k)
      BY <3>1
    <3> QED
      BY <2>4, <3>2
  <2>6. CASE k # 0
    <3>1. k - 1 \in 0 .. n /\ ~(k <= k - 1) /\ k \in 1 .. k /\ k \in Nat
      BY <2>4, <2>6, <1>1
    <3>2. PICK g : Upto(g, k - 1)
      BY <2>3, <3>1
    <3>3. \A s \in SUBSET (1 .. k - 1) : g[s] = body(g, s)
      BY <3>2
    <3> DEFINE f == [s \in SUBSET (1 .. k) |->
                       IF k \in s THEN Drop(p, g[s \ {k}], c[k]) ELSE g[s]]
    <3>4. ASSUME NEW s \in SUBSET (1 .. k)
          PROVE  f[s] = body(f, s)
      <4>1. CASE k \in s
        <5>1. Max(s) = k
          <6>1. Max(s) \in s /\ Max(s) >= k
            BY <3>1, <4>1, MaxUpto
          <6>2. Max(s) \in 1 .. k
            BY <6>1
          <6> QED
            BY <6>1, <6>2, <3>1
        <5>2. s \ {k} \in SUBSET (1 .. k) /\ k \notin s \ {k}
          OBVIOUS
        <5>3. f[s \ {k}] = g[s \ {k}]
          BY <5>2
        <5>4. f[s] = Drop(p, g[s \ {k}], c[k])
          BY <4>1
        <5> QED
          BY <4>1, <5>1, <5>3, <5>4
      <4>2. CASE k \notin s
        <5>1. s \in SUBSET (1 .. k - 1)
          <6>1. \A x \in s : x \in 1 .. k /\ x # k
            BY <4>2
          <6> QED
            BY <6>1, <3>1
        <5>2. f[s] = g[s]
          BY <4>2
        <5>3. s \ {Max(s)} \in SUBSET (1 .. k) /\ k \notin s \ {Max(s)}
          BY <4>2
        <5>4. f[s \ {Max(s)}] = g[s \ {Max(s)}]
          BY <5>3
        <5> QED
          BY <3>3, <5>1, <5>2, <5>4
      <4> QED
        BY <4>1, <4>2
    <3>5. Upto(f, k)
      BY <3>4
    <3> QED
      BY <2>4, <3>5
  <2> QED
    BY <2>5, <2>6
<1>3. \E g : Upto(g, n)
  <2>1. n \in 0 .. n
    BY <1>1
  <2> QED
    BY <1>2, <2>1
<1>4. iter = CHOOSE f : Upto(f, n)
  OBVIOUS
<1>5. Upto(iter, n)
  BY <1>3, <1>4
<1>6. Cleaned(p, c) = iter[1 .. n]
  BY <1>1 DEF Cleaned, FoldLeft, MapThenFoldSet
<1> HIDE DEF iter
<1>7. \A s \in SUBSET (1 .. n) : iter[s] = body(iter, s)
  BY <1>5
<1> DEFINE h == [i \in 0 .. n |-> iter[1 .. i]]
<1>8. h[0] = c
  <2>1. 1 .. 0 = {} /\ 0 \in 0 .. n
    BY <1>1
  <2> QED
    BY <2>1, <1>7
<1>9. ASSUME NEW i \in 1 .. n
      PROVE  h[i] = Drop(p, h[i - 1], c[i])
  <2>1. i \in 0 .. n /\ i - 1 \in 0 .. n /\ i \in 1 .. i /\ i \in Nat
    BY <1>1
  <2>2. (1 .. i) \ {i} = 1 .. i - 1
    BY <2>1
  <2>3. Max(1 .. i) = i
    <3>1. Max(1 .. i) \in 1 .. i /\ Max(1 .. i) >= i
      BY <2>1, MaxUpto
    <3> QED
      BY <3>1
  <2>4. 1 .. i \in SUBSET (1 .. n) /\ 1 .. i # {}
    <3>1. i <= n
      BY <1>1
    <3>2. \A j \in 1 .. i : j \in 1 .. n
      BY <1>1, <2>1, <3>1
    <3> QED
      BY <2>1, <3>2
  <2> QED
    BY <2>1, <2>2, <2>3, <2>4, <1>7
<1>10. h[n] = iter[1 .. n]
  BY <1>1
<1> HIDE DEF h
<1> QED
  BY <1>6, <1>8, <1>9, <1>10 DEF Clean

\* RemoveAt takes out one element.
LEMMA Removed ==
  ASSUME NEW T, NEW s \in Seq(T), NEW i \in DOMAIN s
  PROVE  /\ RemoveAt(s, i) \in Seq(T) /\ Len(RemoveAt(s, i)) = Len(s) - 1
         /\ \A j \in 1 .. Len(s) - 1 :
              RemoveAt(s, i)[j] = IF j < i THEN s[j] ELSE s[j + 1]
<1> DEFINE a == SubSeq(s, 1, i - 1)
           b == SubSeq(s, i + 1, Len(s))
<1>1. /\ a \in Seq(T) /\ Len(a) = i - 1
      /\ \A j \in 1 .. i - 1 : a[j] = s[j]
  OBVIOUS
<1>2. /\ b \in Seq(T) /\ Len(b) = Len(s) - i
      /\ \A j \in 1 .. Len(s) - i : b[j] = s[i + j]
  OBVIOUS
<1> HIDE DEF a, b
<1>3. /\ a \o b \in Seq(T) /\ Len(a \o b) = Len(s) - 1
      /\ \A j \in 1 .. Len(s) - 1 : (a \o b)[j] = IF j < i THEN a[j] ELSE b[j - i + 1]
  <2>1. /\ a \o b \in Seq(T) /\ Len(a \o b) = Len(a) + Len(b)
        /\ \A j \in 1 .. Len(a) + Len(b) :
             (a \o b)[j] = IF j <= Len(a) THEN a[j] ELSE b[j - Len(a)]
    BY <1>1, <1>2, ConcatProperties
  <2>2. Len(a) + Len(b) = Len(s) - 1
    BY <1>1, <1>2
  <2>3. \A j \in Nat : (j <= Len(a) <=> j < i) /\ j - Len(a) = j - i + 1
    BY <1>1
  <2>4. \A j \in 1 .. Len(s) - 1 : (a \o b)[j] = IF j <= Len(a) THEN a[j] ELSE b[j - Len(a)]
    BY <2>1, <2>2
  <2>5. ASSUME NEW j \in 1 .. Len(s) - 1
        PROVE  (a \o b)[j] = IF j < i THEN a[j] ELSE b[j - i + 1]
    <3>0. j \in Nat
      OBVIOUS
    <3>1. (j <= Len(a) <=> j < i) /\ j - Len(a) = j - i + 1
      BY <2>3, <3>0
    <3> QED
      BY <2>4, <3>1
  <2> QED
    BY <2>1, <2>2, <2>5
<1>4. \A j \in 1 .. Len(s) - 1 : (a \o b)[j] = IF j < i THEN s[j] ELSE s[j + 1]
  <2> SUFFICES ASSUME NEW j \in 1 .. Len(s) - 1
               PROVE (a \o b)[j] = IF j < i THEN s[j] ELSE s[j + 1]
    OBVIOUS
  <2>1. CASE j < i
    BY <1>1, <1>3, <2>1
  <2>2. CASE ~(j < i)
    <3>1. j - i + 1 \in 1 .. Len(s) - i /\ i + (j - i + 1) = j + 1
      BY <2>2
    <3> QED
      BY <1>2, <1>3, <2>2, <3>1
  <2> QED
    BY <2>1, <2>2
<1> QED
  BY <1>3, <1>4 DEF RemoveAt, a, b

\* InsertAt puts in one element.
LEMMA Inserted ==
  ASSUME NEW T, NEW s \in Seq(T), NEW i \in 1 .. Len(s) + 1, NEW e \in T
  PROVE  /\ InsertAt(s, i, e) \in Seq(T) /\ Len(InsertAt(s, i, e)) = Len(s) + 1
         /\ \A j \in 1 .. i - 1 : InsertAt(s, i, e)[j] = s[j]
         /\ InsertAt(s, i, e)[i] = e
         /\ \A j \in i .. Len(s) : InsertAt(s, i, e)[j + 1] = s[j]
<1> DEFINE a == SubSeq(s, 1, i - 1)
           m == <<e>>
           b == SubSeq(s, i, Len(s))
<1>1. /\ a \in Seq(T) /\ Len(a) = i - 1
      /\ \A j \in 1 .. i - 1 : a[j] = s[j]
  OBVIOUS
<1>2. /\ b \in Seq(T) /\ Len(b) = Len(s) - i + 1
      /\ \A j \in 1 .. Len(s) - i + 1 : b[j] = s[i + j - 1]
  OBVIOUS
<1>3. m \in Seq(T) /\ Len(m) = 1 /\ m[1] = e
  OBVIOUS
<1> HIDE DEF a, m, b
<1>4. PICK am \in Seq(T) :
        /\ am = a \o m /\ Len(am) = Len(a) + Len(m)
        /\ \A j \in 1 .. Len(a) + Len(m) : am[j] = IF j <= Len(a) THEN a[j] ELSE m[j - Len(a)]
  <2>1. /\ a \o m \in Seq(T) /\ Len(a \o m) = Len(a) + Len(m)
        /\ \A j \in 1 .. Len(a) + Len(m) :
             (a \o m)[j] = IF j <= Len(a) THEN a[j] ELSE m[j - Len(a)]
    BY <1>1, <1>3, ConcatProperties
  <2> QED
    BY <2>1
<1>5. Len(am) = i /\ am[i] = e /\ \A j \in 1 .. i - 1 : am[j] = s[j]
  <2>1. Len(am) = i
    BY <1>1, <1>3, <1>4
  <2>2. am[i] = m[1]
    BY <1>1, <1>3, <1>4
  <2>3. ASSUME NEW j \in 1 .. i - 1
        PROVE  am[j] = s[j]
    <3>1. j \in 1 .. Len(a) + Len(m) /\ j <= Len(a)
      BY <1>1, <1>3
    <3> QED
      BY <1>1, <1>4, <3>1
  <2> QED
    BY <2>1, <2>2, <2>3, <1>3
<1>6. PICK d \in Seq(T) :
        /\ d = am \o b /\ Len(d) = Len(am) + Len(b)
        /\ \A j \in 1 .. Len(am) + Len(b) : d[j] = IF j <= Len(am) THEN am[j] ELSE b[j - Len(am)]
  <2>1. /\ am \o b \in Seq(T) /\ Len(am \o b) = Len(am) + Len(b)
        /\ \A j \in 1 .. Len(am) + Len(b) :
             (am \o b)[j] = IF j <= Len(am) THEN am[j] ELSE b[j - Len(am)]
    BY <1>2, ConcatProperties
  <2> QED
    BY <2>1
<1>8. Len(d) = Len(s) + 1
  BY <1>2, <1>5, <1>6
<1>9. ASSUME NEW j \in 1 .. Len(s) + 1
      PROVE  d[j] = IF j < i THEN s[j] ELSE IF j = i THEN e ELSE s[j - 1]
  <2>1. d[j] = IF j <= i THEN am[j] ELSE b[j - i]
    BY <1>2, <1>5, <1>6
  <2>2. CASE j <= i
    BY <1>5, <2>1, <2>2
  <2>3. CASE ~(j <= i)
    <3>1. j - i \in 1 .. Len(s) - i + 1 /\ i + (j - i) - 1 = j - 1
      BY <2>3
    <3>2. b[j - i] = s[i + (j - i) - 1]
      BY <1>2, <3>1
    <3> QED
      BY <2>1, <2>3, <3>1, <3>2
  <2> QED
    BY <2>2, <2>3
<1>10. InsertAt(s, i, e) = d
  BY <1>4, <1>6 DEF InsertAt, a, m, b
<1>11. \A j \in 1 .. i - 1 : d[j] = s[j]
  BY <1>9
<1>12. d[i] = e
  BY <1>9
<1>13. ASSUME NEW j \in i .. Len(s)
       PROVE  d[j + 1] = s[j]
  <2>1. j + 1 \in 1 .. Len(s) + 1 /\ ~(j + 1 < i) /\ j + 1 # i /\ j + 1 - 1 = j
    OBVIOUS
  <2> QED
    BY <1>9, <2>1
<1> QED
  BY <1>8, <1>10, <1>11, <1>12, <1>13

\* Index finds the first place of a lock in a chain, or none.
LEMMA Place ==
  ASSUME NEW T, NEW c \in Seq(T), NEW x
  PROVE  /\ Index(c, x) \in 0 .. Len(c)
         /\ Index(c, x) # 0 => /\ c[Index(c, x)] = x
                               /\ \A j \in 1 .. Len(c) : c[j] = x => Index(c, x) <= j
         /\ Index(c, x) = 0 /\ x # NoLock => x \notin ToSet(c)
<1> DEFINE I == {i \in 1 .. Len(c) : c[i] = x}
<1>1. Index(c, x) = IF x = NoLock THEN 0 ELSE IF I # {} THEN Min(I) ELSE 0
  BY DEF Index, SelectInSeq
<1>2. I \in SUBSET Nat /\ DOMAIN c = 1 .. Len(c) /\ Len(c) \in Nat
  OBVIOUS
<1>3. I # {} => Min(I) \in I /\ \A y \in I : Min(I) <= y
  BY <1>2, MinNat
<1>4. I = {} => x \notin ToSet(c)
  BY <1>2 DEF ToSet
<1>5. I # {} => Min(I) # 0
  BY <1>3
<1> QED
  BY <1>1, <1>2, <1>3, <1>4, <1>5

\* A new record: not one of the chain's.
LEMMA NewRecord ==
  ASSUME NEW c \in Seq(Locks), NEW y \in Locks
  PROVE  /\ Fresh(c, y) \in Locks /\ Fresh(c, y) \notin ToSet(c)
         /\ \E k \in Nat : Fresh(c, y) = [y EXCEPT !.rec = k]
<1> DEFINE W(k) == [y EXCEPT !.rec = k]
           K == {k \in 0 .. Len(c) : W(k) \notin ToSet(c)}
<1>1. Len(c) \in Nat /\ DOMAIN c = 1 .. Len(c)
  OBVIOUS
<1>2. \A k \in Nat : W(k) \in Locks /\ W(k).rec = k
  BY DEF Locks
<1>3. K # {}
  <2>1. SUFFICES ASSUME K = {} PROVE FALSE
    OBVIOUS
  <2>2. \A k \in 0 .. Len(c) : \E i \in 1 .. Len(c) : c[i] = W(k)
    BY <1>1, <2>1 DEF ToSet
  <2> DEFINE f == [k \in 0 .. Len(c) |-> CHOOSE i \in 1 .. Len(c) : c[i] = W(k)]
  <2>3. \A k \in 0 .. Len(c) : f[k] \in 1 .. Len(c) /\ c[f[k]] = W(k)
    BY <2>2
  <2>4. f \in [0 .. Len(c) -> 1 .. Len(c)]
    BY <2>3
  <2> HIDE DEF f
  <2>5. /\ IsFiniteSet(0 .. Len(c)) /\ Cardinality(0 .. Len(c)) = Len(c) + 1
        /\ IsFiniteSet(1 .. Len(c)) /\ Cardinality(1 .. Len(c)) = Len(c)
    <3> PICK l \in Nat : l = Len(c)
      BY <1>1
    <3>1. 0 \in Int /\ 1 \in Int /\ l \in Int
      OBVIOUS
    <3>2. IsFiniteSet(0 .. l) /\ Cardinality(0 .. l) = IF 0 > l THEN 0 ELSE l - 0 + 1
      BY <3>1, FS_Interval
    <3>3. IsFiniteSet(1 .. l) /\ Cardinality(1 .. l) = IF 1 > l THEN 0 ELSE l - 1 + 1
      BY <3>1, FS_Interval
    <3> QED
      BY <3>2, <3>3
  <2>6. Cardinality(1 .. Len(c)) < Cardinality(0 .. Len(c))
    BY <1>1, <2>5
  <2>7. PICK j \in 0 .. Len(c), k \in 0 .. Len(c) : j # k /\ f[j] = f[k]
    BY <2>4, <2>5, <2>6, FS_PigeonHole
  <2>8. W(j) = W(k)
    BY <2>3, <2>7
  <2>9. j \in Nat /\ k \in Nat
    BY <1>1
  <2> QED
    BY <1>2, <2>7, <2>8, <2>9
<1>4. K \in SUBSET Nat
  BY <1>1
<1>5. Min(K) \in K
  BY <1>3, <1>4, MinNat
<1>6. Min(K) \in Nat
  BY <1>4, <1>5
<1>7. Fresh(c, y) = W(Min(K))
  BY DEF Fresh
<1> QED
  BY <1>2, <1>5, <1>6, <1>7

\* A state of flckadj.
State(S) ==
  /\ S = [c |-> S.c, ld |-> S.ld, at |-> S.at, free |-> S.free,
          woken |-> S.woken, rv |-> S.rv, done |-> S.done]
  /\ S.ld = [type |-> S.ld.type, start |-> S.ld.start, end |-> S.ld.end]
  /\ S.ld.start \in Nat /\ S.ld.end \in Nat
  /\ S.rv \in {"set", "none", "ENOSPC"} /\ S.done \in BOOLEAN

\* R is S with another chain and other things.
Now(R, S, c, at, free, woken) ==
  /\ State(R) /\ R.ld = S.ld /\ R.rv = S.rv /\ R.done = S.done
  /\ R.c = c /\ R.at = at /\ R.free = free /\ R.woken = woken

\* delflck: the lock leaves the chain, its record is free, its sleepers wake.
LEMMA DelIs ==
  ASSUME NEW S, State(S), NEW x
  PROVE  Now(delflck(S, x), S, Without(S.c, x), S.at, S.free + 1, S.woken \cup {x})
<1> PICK w : w = S.woken \cup {x}
  OBVIOUS
<1> PICK k : k = S.free + 1
  OBVIOUS
<1> PICK d : d = Without(S.c, x)
  OBVIOUS
<1>1. delflck(S, x) = [S EXCEPT !.c = d, !.free = k, !.woken = w]
  BY DEF delflck, State
<1> QED
  BY <1>1 DEF State, Now

\* A lock goes, and the insertion point is the lock before it.
LEMMA GoneIs ==
  ASSUME NEW S, State(S), NEW x
  PROVE  Now(Gone(S, x), S, Without(S.c, x), prev(S.c, x), S.free + 1, S.woken \cup {x})
<1> PICK a : a = prev(S.c, x)
  OBVIOUS
<1> PICK T : T = [S EXCEPT !.at = a]
  OBVIOUS
<1>1. Now(T, S, S.c, a, S.free, S.woken)
  BY DEF State, Now
<1>2. State(T)
  BY <1>1 DEF Now
<1>3. Now(delflck(T, x), T, Without(T.c, x), T.at, T.free + 1, T.woken \cup {x})
  BY <1>2, DelIs
<1> QED
  BY <1>1, <1>3 DEF Now, Gone

\* A lock goes, and the insertion point moves if it was that lock.
LEMMA DroppedIs ==
  ASSUME NEW S, State(S), NEW x
  PROVE  Now(Dropped(S, x), S, Without(S.c, x), IF S.at = x THEN prev(S.c, x) ELSE S.at,
             S.free + 1, S.woken \cup {x})
<1> PICK a : a = IF S.at = x THEN prev(S.c, x) ELSE S.at
  OBVIOUS
<1> PICK T : T = StepBack(S, x)
  OBVIOUS
<1>1. Now(T, S, S.c, a, S.free, S.woken)
  BY DEF State, Now, StepBack
<1>2. State(T)
  BY <1>1 DEF Now
<1>3. Now(delflck(T, x), T, Without(T.c, x), T.at, T.free + 1, T.woken \cup {x})
  BY <1>2, DelIs
<1> QED
  BY <1>1, <1>3 DEF Now, Dropped

\* A lock is shortened: in its place stands one the chain did not have.
LEMMA CutIs ==
  ASSUME NEW S, State(S), NEW x
  PROVE  \E y : /\ y = Fresh(Without(S.c, x), [x EXCEPT !.end = S.ld.start])
                /\ Now(Cut(S, x), S, ReplaceAt(S.c, Index(S.c, x), y), y, S.free,
                       S.woken \cup {x})
<1> PICK y : y = Fresh(Without(S.c, x), [x EXCEPT !.end = S.ld.start])
  OBVIOUS
<1> PICK w : w = S.woken \cup {x}
  OBVIOUS
<1> PICK d : d = ReplaceAt(S.c, Index(S.c, x), y)
  OBVIOUS
<1>1. Cut(S, x) = [S EXCEPT !.c = d, !.at = y, !.woken = w]
  BY DEF Cut, State
<1>2. Now(Cut(S, x), S, d, y, S.free, w)
  BY <1>1 DEF State, Now
<1> QED
  BY <1>2

\* The chain with the part of x behind the range as a lock of its own.
Severed(S, x) == insflck(S.c, LastBefore(S.c, x, S.ld.start), [x EXCEPT !.start = S.ld.end])

\* Severing takes a record, and fails without one.
LEMMA SeverIs ==
  ASSUME NEW S, State(S), NEW x
  PROVE  /\ S.free = 0 => /\ State(Sever(S, x)) /\ Sever(S, x).ld = S.ld
                          /\ Sever(S, x).rv = "ENOSPC" /\ Sever(S, x).done
                          /\ Sever(S, x).c = S.c /\ Sever(S, x).at = S.at
                          /\ Sever(S, x).free = S.free /\ Sever(S, x).woken = S.woken
         /\ S.free # 0 => Now(Sever(S, x), S, Severed(S, x), S.at, S.free - 1, S.woken)
<1>1. CASE S.free = 0
  BY <1>1 DEF State, Sever, Leave
<1>2. CASE S.free # 0
  BY <1>2 DEF State, Sever, Leave, Now, Severed
<1> QED
  BY <1>1, <1>2

\* The cases of Own.
LEMMA OwnIs ==
  ASSUME NEW S, NEW x \in Locks, x.start < x.end,
         NEW s \in Nat, s = S.ld.start, NEW e \in Nat, e = S.ld.end, s < e,
         NEW same, same = (S.ld.type = x.type), NEW cut, cut = Sever(S, x)
  PROVE  /\ e < x.start \/ (e = x.start /\ ~same) => Own(S, x) = Stop(S)
         /\ s < x.start /\ x.start <= e /\ e < x.end /\ same => Own(S, x) = JoinEnd(S, x)
         /\ e > x.start /\ s = x.start /\ e >= x.end /\ ~(same /\ e = x.end) => Own(S, x) = Gone(S, x)
         /\ s < x.start /\ x.start < e /\ e >= x.end =>
              Own(S, x) = IF same /\ e = x.end THEN Stop(Dropped(S, x)) ELSE Dropped(S, x)
         /\ s < x.start /\ x.start < e /\ e < x.end /\ ~same =>
              Own(S, x) = IF cut.rv # "set" THEN cut ELSE Stop(Dropped(cut, x))
         /\ x.start <= s /\ s < e /\ e <= x.end /\ same => Own(S, x) = Leave(S, "none")
         /\ x.start <= s /\ s < e /\ e < x.end /\ ~same =>
              Own(S, x) = IF cut.rv # "set" THEN cut
                          ELSE Stop(IF x.start < s THEN Cut(cut, x) ELSE Gone(cut, x))
         /\ x.start < s /\ s < e /\ s <= x.end /\ e >= x.end /\ ~same => Own(S, x) = Cut(S, x)
         /\ x.start < s /\ s < e /\ s <= x.end /\ e > x.end /\ same => Own(S, x) = JoinStart(S, x)
         /\ x.end < s /\ s < e /\ x.start < x.end => Own(S, x) = [S EXCEPT !.at = x]
<1>0. x.start \in Nat /\ x.end \in Nat
  BY DEF Locks
<1> PICK a, b, c1, d, d1, f, g, h, m, n, k :
       /\ a = Stop(S) /\ b = JoinEnd(S, x) /\ c1 = Leave(S, "none") /\ d = Gone(S, x)
       /\ d1 = Dropped(S, x) /\ f = Stop(d1) /\ g = Stop(Dropped(cut, x)) 
       /\ h = Stop(IF x.start < s THEN Cut(cut, x) ELSE Gone(cut, x))
       /\ m = Cut(S, x) /\ n = JoinStart(S, x) /\ k = [S EXCEPT !.at = x]
  OBVIOUS
<1>1. Own(S, x) =
       CASE e < x.start -> a
       [] e = x.start -> IF same THEN b ELSE a
       [] s = x.start /\ e >= x.end -> IF same /\ e = x.end THEN c1 ELSE d
       [] s < x.start /\ e >= x.end -> IF same /\ e = x.end THEN f ELSE d1
       [] s < x.start /\ x.start < e /\ e < x.end -> IF same THEN b ELSE IF cut.rv # "set" THEN cut ELSE g
       [] x.start <= s /\ e < x.end -> IF same THEN c1 ELSE IF cut.rv # "set" THEN cut ELSE h
       [] x.start < s /\ s < x.end /\ e = x.end -> IF same THEN c1 ELSE m
       [] x.start < s /\ s <= x.end /\ e > x.end -> IF same THEN n ELSE m
       [] OTHER -> k
  BY DEF Own
<1>2. e < x.start \/ (e = x.start /\ ~same) => Own(S, x) = Stop(S)
  BY <1>0, <1>1
<1>3. s < x.start /\ x.start <= e /\ e < x.end /\ same => Own(S, x) = JoinEnd(S, x)
  BY <1>0, <1>1
<1>4. e > x.start /\ s = x.start /\ e >= x.end /\ ~(same /\ e = x.end) => Own(S, x) = Gone(S, x)
  BY <1>0, <1>1
<1>5. s < x.start /\ x.start < e /\ e >= x.end =>
        Own(S, x) = IF same /\ e = x.end THEN Stop(Dropped(S, x)) ELSE Dropped(S, x)
  BY <1>0, <1>1
<1>6. s < x.start /\ x.start < e /\ e < x.end /\ ~same =>
        Own(S, x) = IF cut.rv # "set" THEN cut ELSE Stop(Dropped(cut, x))
  BY <1>0, <1>1
<1>7. x.start <= s /\ s < e /\ e <= x.end /\ same => Own(S, x) = Leave(S, "none")
  BY <1>0, <1>1
<1>8. x.start <= s /\ s < e /\ e < x.end /\ ~same =>
        Own(S, x) = IF cut.rv # "set" THEN cut
                    ELSE Stop(IF x.start < s THEN Cut(cut, x) ELSE Gone(cut, x))
  BY <1>0, <1>1
<1>9. x.start < s /\ s < e /\ s <= x.end /\ e >= x.end /\ ~same => Own(S, x) = Cut(S, x)
  BY <1>0, <1>1
<1>10. x.start < s /\ s < e /\ s <= x.end /\ e > x.end /\ same => Own(S, x) = JoinStart(S, x)
  BY <1>0, <1>1
<1>11. x.end < s /\ s < e /\ x.start < x.end => Own(S, x) = [S EXCEPT !.at = x]
  BY <1>0, <1>1
<1> QED
  BY <1>2, <1>3, <1>4, <1>5, <1>6, <1>7, <1>8, <1>9, <1>10, <1>11

\* Whatever the positions, Own is one of these.
LEMMA OwnOne ==
  ASSUME NEW S, NEW x
  PROVE  \/ Own(S, x) \in {Stop(S), JoinEnd(S, x), Leave(S, "none"), Gone(S, x),
                           Dropped(S, x), Stop(Dropped(S, x)), Cut(S, x),
                           JoinStart(S, x), [S EXCEPT !.at = x], Sever(S, x)}
         \/ /\ Sever(S, x).rv = "set"
            /\ Own(S, x) \in {Stop(Dropped(Sever(S, x), x)), Stop(Cut(Sever(S, x), x)),
                              Stop(Gone(Sever(S, x), x))}
<1> PICK s, e, same, cut :
       s = S.ld.start /\ e = S.ld.end /\ same = (S.ld.type = x.type) /\ cut = Sever(S, x)
  OBVIOUS
<1> PICK a, b, c1, d, d1, f, g, h, m, n, k :
       /\ a = Stop(S) /\ b = JoinEnd(S, x) /\ c1 = Leave(S, "none") /\ d = Gone(S, x)
       /\ d1 = Dropped(S, x) /\ f = Stop(d1) /\ g = Stop(Dropped(cut, x)) 
       /\ h = Stop(IF x.start < s THEN Cut(cut, x) ELSE Gone(cut, x))
       /\ m = Cut(S, x) /\ n = JoinStart(S, x) /\ k = [S EXCEPT !.at = x]
  OBVIOUS
<1>1. Own(S, x) =
       CASE e < x.start -> a
       [] e = x.start -> IF same THEN b ELSE a
       [] s = x.start /\ e >= x.end -> IF same /\ e = x.end THEN c1 ELSE d
       [] s < x.start /\ e >= x.end -> IF same /\ e = x.end THEN f ELSE d1
       [] s < x.start /\ x.start < e /\ e < x.end -> IF same THEN b ELSE IF cut.rv # "set" THEN cut ELSE g
       [] x.start <= s /\ e < x.end -> IF same THEN c1 ELSE IF cut.rv # "set" THEN cut ELSE h
       [] x.start < s /\ s < x.end /\ e = x.end -> IF same THEN c1 ELSE m
       [] x.start < s /\ s <= x.end /\ e > x.end -> IF same THEN n ELSE m
       [] OTHER -> k
  BY DEF Own
<1> QED
  BY <1>1

\* What becomes of a chain: of its locks, only x may be missing.
LEMMA WithoutKeeps ==
  ASSUME NEW c \in Seq(Locks), NEW x \in Locks
  PROVE  /\ Without(c, x) \in Seq(Locks)
         /\ \A y \in ToSet(c) : y # x => y \in ToSet(Without(c, x))
<1> DEFINE i == Index(c, x)
<1>1. i \in 0 .. Len(c) /\ (i # 0 => c[i] = x)
  BY Place
<1>2. Len(c) \in Nat /\ DOMAIN c = 1 .. Len(c)
  OBVIOUS
<1>3. CASE i = 0
  <2>1. SubSeq(c, 1, i - 1) = <<>> /\ SubSeq(c, i + 1, Len(c)) = c
    BY <1>2, <1>3
  <2>2. Without(c, x) = <<>> \o c
    BY <2>1 DEF Without, RemoveAt
  <2>3. Without(c, x) = c
    BY <2>2, ConcatEmptySeq
  <2> QED
    BY <2>3
<1>4. CASE i # 0
  <2>1. i \in DOMAIN c
    BY <1>1, <1>2, <1>4
  <2>2. PICK d : d = Without(c, x)
    OBVIOUS
  <2>3. /\ d \in Seq(Locks) /\ Len(d) = Len(c) - 1
        /\ \A j \in 1 .. Len(c) - 1 : d[j] = IF j < i THEN c[j] ELSE c[j + 1]
    BY <2>1, <2>2, Removed DEF Without
  <2>4. DOMAIN d = 1 .. Len(c) - 1
    BY <2>3
  <2>5. ASSUME NEW k \in 1 .. Len(c), c[k] # x
        PROVE  c[k] \in ToSet(d)
    <3>1. CASE k < i
      <4>1. k \in 1 .. Len(c) - 1 /\ d[k] = c[k]
        BY <1>1, <1>2, <2>3, <3>1
      <4> QED
        BY <2>4, <4>1 DEF ToSet
    <3>2. CASE k > i
      <4>1. k - 1 \in 1 .. Len(c) - 1 /\ ~(k - 1 < i) /\ k - 1 + 1 = k
        BY <1>1, <1>2, <1>4, <3>2
      <4>2. d[k - 1] = c[k]
        BY <2>3, <4>1
      <4> QED
        BY <2>4, <4>1, <4>2 DEF ToSet
    <3>3. k # i
      BY <1>1, <1>4, <2>5
    <3> QED
      BY <1>1, <1>2, <3>1, <3>2, <3>3
  <2> QED
    BY <1>2, <2>2, <2>3, <2>5 DEF ToSet
<1> QED
  BY <1>3, <1>4

\* insflck loses none.
LEMMA InsertKeeps ==
  ASSUME NEW c \in Seq(Locks), NEW x, NEW y \in Locks
  PROVE  /\ insflck(c, x, y) \in Seq(Locks)
         /\ \A z \in ToSet(c) : z \in ToSet(insflck(c, x, y))
<1> PICK i : i = Index(c, x)
  OBVIOUS
<1>1. i + 1 \in 1 .. Len(c) + 1 /\ i \in 0 .. Len(c) /\ Len(c) \in Nat /\ DOMAIN c = 1 .. Len(c)
  BY Place
<1> PICK e \in Locks : e = Fresh(c, y)
  BY NewRecord
<1> PICK d : d = insflck(c, x, y)
  OBVIOUS
<1> PICK n \in 1 .. Len(c) + 1 : n = i + 1
  BY <1>1
<1>2. d = InsertAt(c, n, e)
  BY DEF insflck
<1>3. d \in Seq(Locks) /\ Len(d) = Len(c) + 1
  BY <1>2, Inserted
<1>4. \A j \in 1 .. n - 1 : d[j] = c[j]
  BY <1>2, Inserted
<1>5. \A j \in n .. Len(c) : d[j + 1] = c[j]
  BY <1>2, Inserted
<1>6. DOMAIN d = 1 .. Len(c) + 1
  BY <1>3
<1>7. ASSUME NEW k \in 1 .. Len(c)
      PROVE  c[k] \in ToSet(d)
  <2>1. CASE k < n
    <3>1. k \in 1 .. Len(c) + 1 /\ d[k] = c[k]
      BY <1>1, <1>4, <2>1
    <3> QED
      BY <1>6, <3>1 DEF ToSet
  <2>2. CASE k >= n
    <3>1. k + 1 \in 1 .. Len(c) + 1 /\ d[k + 1] = c[k]
      BY <1>1, <1>5, <2>2
    <3> QED
      BY <1>6, <3>1 DEF ToSet
  <2> QED
    BY <1>1, <2>1, <2>2
<1> QED
  BY <1>1, <1>3, <1>7 DEF ToSet

\* Replacing a lock loses only that one.
LEMMA ReplaceKeeps ==
  ASSUME NEW c \in Seq(Locks), NEW x, NEW y \in Locks
  PROVE  /\ ReplaceAt(c, Index(c, x), y) \in Seq(Locks)
         /\ \A z \in ToSet(c) : z # x => z \in ToSet(ReplaceAt(c, Index(c, x), y))
<1> PICK i : i = Index(c, x)
  OBVIOUS
<1>1. i \in 0 .. Len(c) /\ (i # 0 => c[i] = x) /\ Len(c) \in Nat /\ DOMAIN c = 1 .. Len(c)
  BY Place
<1> PICK d : d = ReplaceAt(c, i, y)
  OBVIOUS
<1>2. d = [c EXCEPT ![i] = y]
  BY DEF ReplaceAt
<1>3. d \in Seq(Locks) /\ DOMAIN d = 1 .. Len(c)
  <2>1. c \in [1 .. Len(c) -> Locks]
    BY <1>1
  <2>2. d \in [1 .. Len(c) -> Locks]
    BY <2>1, <1>2
  <2> QED
    BY <2>2, <1>1, IsASeq
<1>4. \A k \in 1 .. Len(c) : k # i => d[k] = c[k]
  BY <1>1, <1>2
<1> QED
  BY <1>1, <1>3, <1>4 DEF ToSet

\* flckadj may go from S to R: a lock that is no longer in the chain wakes its
\* sleepers.
Follows(S, R) ==
  /\ State(R) /\ R.c \in Seq(Locks) /\ R.ld.type = S.ld.type
  /\ \A y \in ToSet(S.c) : y \in ToSet(R.c) \/ y \in R.woken
  /\ \A y \in S.woken : y \in R.woken

\* A state with a chain of locks.
Sound(S) == State(S) /\ S.c \in Seq(Locks)

\* Follows is transitive.
LEMMA FollowsOn ==
  ASSUME NEW R, NEW S, NEW T, Follows(R, S), Follows(S, T)
  PROVE  Follows(R, T)
BY DEF Follows

\* The same chain and the same sleepers woken.
LEMMA FollowsSame ==
  ASSUME NEW S, Sound(S), NEW R, State(R), R.c = S.c, R.woken = S.woken, R.ld.type = S.ld.type
  PROVE  Follows(S, R)
BY DEF Follows, Sound

\* The lock that leaves the chain is woken.
LEMMA FollowsLess ==
  ASSUME NEW S, Sound(S), NEW x \in Locks, NEW R, NEW a, NEW k,
         Now(R, S, Without(S.c, x), a, k, S.woken \cup {x})
  PROVE  Follows(S, R)
<1>1. S.c \in Seq(Locks)
  BY DEF Sound
<1>2. /\ Without(S.c, x) \in Seq(Locks)
      /\ \A y \in ToSet(S.c) : y # x => y \in ToSet(Without(S.c, x))
  BY <1>1, WithoutKeeps
<1> QED
  BY <1>2 DEF Now, Follows

\* So with each thing Own does to a lock: it goes ...
LEMMA FollowsGone ==
  ASSUME NEW S, Sound(S), NEW x \in Locks
  PROVE  Follows(S, Gone(S, x)) /\ Sound(Gone(S, x))
<1>1. State(S)
  BY DEF Sound
<1>2. Follows(S, Gone(S, x))
  BY <1>1, GoneIs, FollowsLess
<1> QED
  BY <1>2 DEF Follows, Sound

\* ... it goes and the insertion point stays ...
LEMMA FollowsDropped ==
  ASSUME NEW S, Sound(S), NEW x \in Locks
  PROVE  Follows(S, Dropped(S, x)) /\ Sound(Dropped(S, x))
<1>1. State(S)
  BY DEF Sound
<1>2. Follows(S, Dropped(S, x))
  BY <1>1, DroppedIs, FollowsLess
<1> QED
  BY <1>2 DEF Follows, Sound

\* ... it is shortened ...
LEMMA FollowsCut ==
  ASSUME NEW S, Sound(S), NEW x \in Locks
  PROVE  Follows(S, Cut(S, x)) /\ Sound(Cut(S, x))
<1>1. State(S) /\ S.c \in Seq(Locks) /\ S.ld.start \in Nat
  BY DEF Sound, State
<1>2. Without(S.c, x) \in Seq(Locks)
  BY <1>1, WithoutKeeps
<1>3. PICK z \in Locks : z = [x EXCEPT !.end = S.ld.start]
  BY <1>1 DEF Locks
<1>4. PICK y : /\ y = Fresh(Without(S.c, x), z)
               /\ Now(Cut(S, x), S, ReplaceAt(S.c, Index(S.c, x), y), y, S.free, S.woken \cup {x})
  BY <1>1, <1>3, CutIs
<1>5. y \in Locks
  BY <1>2, <1>3, <1>4, NewRecord
<1>6. /\ ReplaceAt(S.c, Index(S.c, x), y) \in Seq(Locks)
      /\ \A w \in ToSet(S.c) : w # x => w \in ToSet(ReplaceAt(S.c, Index(S.c, x), y))
  BY <1>1, <1>5, ReplaceKeeps
<1>7. Follows(S, Cut(S, x))
  BY <1>4, <1>6 DEF Now, Follows
<1> QED
  BY <1>7 DEF Follows, Sound

\* ... a piece of it becomes a lock of its own ...
LEMMA FollowsSever ==
  ASSUME NEW S, Sound(S), NEW x \in Locks
  PROVE  Follows(S, Sever(S, x)) /\ Sound(Sever(S, x))
<1>1. State(S) /\ S.c \in Seq(Locks) /\ S.ld.end \in Nat
  BY DEF Sound, State
<1>2. PICK z \in Locks : z = [x EXCEPT !.start = S.ld.end]
  BY <1>1 DEF Locks
<1>3. /\ Severed(S, x) \in Seq(Locks)
      /\ \A w \in ToSet(S.c) : w \in ToSet(Severed(S, x))
  BY <1>1, <1>2, InsertKeeps DEF Severed
<1> PICK R : R = Sever(S, x)
  OBVIOUS
<1>4. /\ S.free = 0 => State(R) /\ R.ld = S.ld /\ R.c = S.c /\ R.woken = S.woken
      /\ S.free # 0 => Now(R, S, Severed(S, x), S.at, S.free - 1, S.woken)
  BY <1>1, SeverIs
<1>5. Follows(S, R)
  <2>1. CASE S.free = 0
    BY <1>4, <2>1, FollowsSame
  <2>2. CASE S.free # 0
    BY <1>3, <1>4, <2>2 DEF Now, Follows
  <2> QED
    BY <2>1, <2>2
<1> QED
  BY <1>5 DEF Follows, Sound

\* ... the loop is left ...
LEMMA FollowsStop ==
  ASSUME NEW S, Sound(S)
  PROVE  Follows(S, Stop(S)) /\ Follows(S, Leave(S, "none")) /\ Sound(Stop(S))
<1>1. State(S)
  BY DEF Sound
<1> PICK R : R = Stop(S)
  OBVIOUS
<1> PICK L : L = Leave(S, "none")
  OBVIOUS
<1>2. State(R) /\ R.c = S.c /\ R.woken = S.woken /\ R.ld = S.ld
  BY <1>1 DEF State, Stop
<1>3. State(L) /\ L.c = S.c /\ L.woken = S.woken /\ L.ld = S.ld
  BY <1>1 DEF State, Leave
<1>4. Follows(S, R) /\ Follows(S, L)
  BY <1>2, <1>3, FollowsSame
<1> QED
  BY <1>4 DEF Follows, Sound

\* ... it is the new insertion point ...
LEMMA FollowsAt ==
  ASSUME NEW S, Sound(S), NEW x
  PROVE  Follows(S, [S EXCEPT !.at = x])
<1>1. State(S)
  BY DEF Sound
<1> PICK R : R = [S EXCEPT !.at = x]
  OBVIOUS
<1>2. State(R) /\ R.c = S.c /\ R.woken = S.woken /\ R.ld = S.ld
  BY <1>1 DEF State
<1> QED
  BY <1>2, FollowsSame

\* ... it is joined with the range.
LEMMA FollowsJoin ==
  ASSUME NEW S, Sound(S), NEW x \in Locks
  PROVE  Follows(S, JoinEnd(S, x)) /\ Follows(S, JoinStart(S, x))
<1>1. x.start \in Nat /\ x.end \in Nat
  BY DEF Locks
<1>2. PICK D : D = Stop(Dropped(S, x)) /\ Follows(S, D) /\ Sound(D)
  BY FollowsDropped, FollowsStop, FollowsOn
<1>3. PICK G : G = Gone(S, x) /\ Follows(S, G) /\ Sound(G)
  BY FollowsGone
<1> PICK R : R = [D EXCEPT !.ld.end = x.end]
  OBVIOUS
<1>4. State(R) /\ R.c = D.c /\ R.woken = D.woken /\ R.ld.type = D.ld.type
  BY <1>1, <1>2 DEF Sound, State
<1> PICK L : L = [G EXCEPT !.ld.start = x.start]
  OBVIOUS
<1>5. State(L) /\ L.c = G.c /\ L.woken = G.woken /\ L.ld.type = G.ld.type
  BY <1>1, <1>3 DEF Sound, State
<1>6. Follows(D, R) /\ Follows(G, L)
  BY <1>2, <1>3, <1>4, <1>5, FollowsSame
<1> QED
  BY <1>2, <1>3, <1>6, FollowsOn DEF JoinEnd, JoinStart

\* One turn of the loop.
LEMMA FollowsTurn ==
  ASSUME NEW S, Sound(S), NEW p, NEW x \in Locks
  PROVE  Follows(S, Adjust(p, S, x))
<1>1. Follows(S, S)
  BY FollowsSame DEF Sound
<1>2. Follows(S, Stop(S)) /\ Follows(S, Leave(S, "none"))
  BY FollowsStop
<1>3. Follows(S, Own(S, x))
  <2>1. Follows(S, Gone(S, x)) /\ Follows(S, Cut(S, x)) /\ Follows(S, [S EXCEPT !.at = x])
    BY FollowsGone, FollowsCut, FollowsAt
  <2>2. Follows(S, JoinEnd(S, x)) /\ Follows(S, JoinStart(S, x))
    BY FollowsJoin
  <2>3. Follows(S, Dropped(S, x)) /\ Follows(S, Stop(Dropped(S, x)))
    BY FollowsDropped, FollowsStop, FollowsOn
  <2>4. PICK T : T = Sever(S, x) /\ Follows(S, T) /\ Sound(T)
    BY FollowsSever
  <2>5. Follows(S, Stop(Dropped(T, x)))
    BY <2>4, FollowsDropped, FollowsStop, FollowsOn
  <2>6. Follows(S, Stop(Cut(T, x)))
    BY <2>4, FollowsCut, FollowsStop, FollowsOn
  <2>7. Follows(S, Stop(Gone(T, x)))
    BY <2>4, FollowsGone, FollowsStop, FollowsOn
  <2> QED
    BY <1>2, <2>1, <2>2, <2>3, <2>4, <2>5, <2>6, <2>7, OwnOne
<1> QED
  BY <1>1, <1>2, <1>3 DEF Adjust

\* The locks from place k of a chain on.
LEMMA From ==
  ASSUME NEW T, NEW c \in Seq(T), NEW k \in 1 .. Len(c) + 1
  PROVE  /\ SubSeq(c, k, Len(c)) \in Seq(T)
         /\ Len(SubSeq(c, k, Len(c))) = Len(c) - k + 1
         /\ \A i \in 1 .. Len(c) - k + 1 : SubSeq(c, k, Len(c))[i] = c[k + i - 1]
OBVIOUS

\* What flckadj starts from, and where.
Start0(c, at, ld, free) ==
  [c |-> c, ld |-> ld, at |-> at, free |-> free,
   woken |-> {}, rv |-> "set", done |-> FALSE]
FromAt(c, at) == IF at = NoLock THEN 1 ELSE Index(c, at)

\* The turns of a call, from place k on, and what comes after them.
Turning(p, S0, c, k, h) ==
  /\ h[0] = S0
  /\ \A i \in 1 .. Len(c) - k + 1 : h[i] = Adjust(p, h[i - 1], c[k + i - 1])
Finish(p, S) == IF S.rv = "set" THEN Insert(p, S) ELSE S

\* A call is its turns, and Insert when they have not decided.
LEMMA Calls ==
  ASSUME NEW p, NEW T, NEW c \in Seq(T), NEW at, NEW ld, NEW free,
         NEW k \in 1 .. Len(c) + 1, k = FromAt(c, at)
  PROVE  \E h : /\ Turning(p, Start0(c, at, ld, free), c, k, h)
                /\ flckadj(p, c, at, ld, free) = Finish(p, h[Len(c) - k + 1])
<1>1. PICK d \in Seq(T) : /\ d = SubSeq(c, k, Len(c)) /\ Len(d) = Len(c) - k + 1
                           /\ \A i \in 1 .. Len(c) - k + 1 : d[i] = c[k + i - 1]
  <2> PICK d : d = SubSeq(c, k, Len(c))
    OBVIOUS
  <2>1. /\ d \in Seq(T) /\ Len(d) = Len(c) - k + 1
        /\ \A i \in 1 .. Len(c) - k + 1 : d[i] = c[k + i - 1]
    BY From
  <2> QED
    BY <2>1
<1> PICK S0 : S0 = Start0(c, at, ld, free)
  OBVIOUS
<1>2. PICK h : Run(p, S0, d, h) /\ Loop(p, S0, d) = h[Len(d)]
  BY Turns
<1>3. flckadj(p, c, at, ld, free) = Finish(p, Loop(p, S0, d))
  BY <1>1 DEF flckadj, Start0, FromAt, Finish, Loop
<1>4. Turning(p, S0, c, k, h)
  BY <1>1, <1>2 DEF Run, Turning
<1> QED
  BY <1>1, <1>2, <1>3, <1>4

\* A call of flckadj loses no lock without waking who sleeps on it.
LEMMA FollowsCall ==
  ASSUME NEW p \in Procs, NEW c \in Seq(Locks), NEW at, NEW free,
         NEW k \in 1 .. Len(c) + 1, k = FromAt(c, at),
         NEW ld, ld = [type |-> ld.type, start |-> ld.start, end |-> ld.end],
         ld.type \in Types \cup {"UN"}, ld.start \in Nat, ld.end \in Nat
  PROVE  Follows(Start0(c, at, ld, free), flckadj(p, c, at, ld, free))
<1> PICK S0 : S0 = Start0(c, at, ld, free)
  OBVIOUS
<1> PICK n : n = Len(c) - k + 1
  OBVIOUS
<1>1. n \in Nat
  OBVIOUS
<1>2. PICK h : /\ Turning(p, S0, c, k, h)
               /\ flckadj(p, c, at, ld, free) = Finish(p, h[n])
  BY Calls
<1>3. State(S0) /\ S0.c = c /\ S0.ld = ld
  BY DEF State, Start0
<1>4. Follows(S0, S0)
  BY <1>3, FollowsSame DEF Sound
<1>5. \A i \in 0 .. n : Follows(S0, h[i])
  <2> DEFINE Bad == {i \in 0 .. n : ~Follows(S0, h[i])}
  <2>1. SUFFICES ASSUME Bad # {} PROVE FALSE
    OBVIOUS
  <2>2. Bad \in SUBSET Nat
    BY <1>1
  <2>3. PICK i \in Bad : \A j \in Bad : i <= j
    BY <2>1, <2>2, LeastNat
  <2>4. i \in 0 .. n /\ ~Follows(S0, h[i])
    OBVIOUS
  <2>5. i # 0
    BY <1>2, <1>4, <2>4 DEF Turning
  <2>6. i \in 1 .. n /\ i - 1 \in 0 .. n /\ ~(i <= i - 1)
    BY <1>1, <2>4, <2>5
  <2>7. Follows(S0, h[i - 1])
    BY <2>3, <2>6
  <2>8. c[k + i - 1] \in Locks
    <3>1. k + i - 1 \in 1 .. Len(c)
      BY <2>6
    <3> QED
      BY <3>1
  <2>9. Sound(h[i - 1])
    BY <2>7 DEF Follows, Sound
  <2>10. Follows(h[i - 1], h[i])
    <3>1. h[i] = Adjust(p, h[i - 1], c[k + i - 1])
      BY <1>2, <2>6 DEF Turning
    <3> QED
      BY <2>8, <2>9, <3>1, FollowsTurn
  <2> QED
    BY <2>4, <2>7, <2>10, FollowsOn
<1> PICK S : S = h[n]
  OBVIOUS
<1>6. Follows(S0, S)
  BY <1>1, <1>5
<1>7. State(S) /\ S.c \in Seq(Locks) /\ S.ld.type \in Types \cup {"UN"}
  BY <1>3, <1>6 DEF Follows
<1>8. Follows(S, Insert(p, S))
  <2> PICK x : x = IF S.at = NoLock THEN NoLock ELSE LastBefore(S.c, S.at, S.ld.start)
    OBVIOUS
  <2>1. CASE S.ld.type = "UN"
    <3> PICK R : R = [S EXCEPT !.rv = "none"]
      OBVIOUS
    <3>1. State(R) /\ R.c = S.c /\ R.woken = S.woken /\ R.ld = S.ld
      BY <1>7 DEF State
    <3>2. Follows(S, R)
      BY <1>7, <3>1, FollowsSame DEF Sound
    <3> QED
      BY <2>1, <3>2 DEF Insert
  <2>2. CASE S.ld.type # "UN" /\ S.free = 0
    <3> PICK R : R = [S EXCEPT !.rv = "ENOSPC"]
      OBVIOUS
    <3>1. State(R) /\ R.c = S.c /\ R.woken = S.woken /\ R.ld = S.ld
      BY <1>7 DEF State
    <3>2. Follows(S, R)
      BY <1>7, <3>1, FollowsSame DEF Sound
    <3> QED
      BY <2>2, <3>2 DEF Insert
  <2>3. CASE S.ld.type # "UN" /\ S.free # 0
    <3>1. PICK y \in Locks : y = Lock(p, S.ld.type, S.ld.start, S.ld.end)
      BY <1>7, <2>3 DEF Lock, Locks, State
    <3> PICK d : d = insflck(S.c, x, y)
      OBVIOUS
    <3>2. d \in Seq(Locks) /\ \A z \in ToSet(S.c) : z \in ToSet(d)
      BY <1>7, InsertKeeps
    <3> PICK m : m = S.free - 1
      OBVIOUS
    <3> PICK R : R = [S EXCEPT !.c = d, !.free = m, !.rv = "none"]
      OBVIOUS
    <3>3. State(R) /\ R.c = d /\ R.woken = S.woken /\ R.ld = S.ld
      BY <1>7 DEF State
    <3>4. Follows(S, R)
      BY <3>2, <3>3 DEF Follows
    <3>5. Insert(p, S) = R
      BY <2>3, <3>1, <1>7 DEF Insert, State
    <3> QED
      BY <3>4, <3>5
  <2> QED
    BY <2>1, <2>2, <2>3
<1> QED
  BY <1>2, <1>6, <1>8, FollowsOn DEF Finish

\* The loop of cleanlocks keeps the locks of other processes.
LEMMA CleanedKeeps ==
  ASSUME NEW p, NEW c \in Seq(Locks)
  PROVE  /\ Cleaned(p, c) \in Seq(Locks)
         /\ \A y \in ToSet(c) : y.pid # p => y \in ToSet(Cleaned(p, c))
<1> DEFINE Fits(d) == /\ d \in Seq(Locks)
                      /\ \A y \in ToSet(c) : y.pid # p => y \in ToSet(d)
<1>1. PICK h : Clean(p, c, h) /\ Cleaned(p, c) = h[Len(c)]
  BY Drops
<1>2. Len(c) \in Nat /\ DOMAIN c = 1 .. Len(c)
  OBVIOUS
<1>3. \A i \in 0 .. Len(c) : Fits(h[i])
  <2> DEFINE Bad == {i \in 0 .. Len(c) : ~Fits(h[i])}
  <2>1. SUFFICES ASSUME Bad # {} PROVE FALSE
    OBVIOUS
  <2>2. Bad \in SUBSET Nat
    BY <1>2
  <2>3. PICK i \in Bad : \A j \in Bad : i <= j
    BY <2>1, <2>2, LeastNat
  <2>4. i \in 0 .. Len(c) /\ ~Fits(h[i])
    OBVIOUS
  <2>5. i # 0
    BY <1>1, <2>4 DEF Clean
  <2>6. i \in 1 .. Len(c) /\ i - 1 \in 0 .. Len(c) /\ ~(i <= i - 1)
    BY <1>2, <2>4, <2>5
  <2>7. PICK d : d = h[i - 1] /\ Fits(d)
    BY <2>3, <2>6
  <2>8. PICK x \in Locks : x = c[i]
    BY <2>6
  <2>9. h[i] = Drop(p, d, x)
    BY <1>1, <2>6, <2>7, <2>8 DEF Clean
  <2>10. /\ Without(d, x) \in Seq(Locks)
         /\ \A y \in ToSet(d) : y # x => y \in ToSet(Without(d, x))
    BY <2>7, WithoutKeeps
  <2>11. Fits(h[i])
    BY <2>7, <2>9, <2>10 DEF Drop
  <2> QED
    BY <2>4, <2>11
<1>4. Len(c) \in 0 .. Len(c)
  BY <1>2
<1> QED
  BY <1>1, <1>3, <1>4

\* Where the second loop of blocked starts, and flckadj then.
LEMMA TurnIs ==
  ASSUME NEW c \in Seq(Locks), NEW p \in Procs, NEW s \in Nat, NEW e \in Nat
  PROVE  /\ Turn(c, p, s, e) \in 1 .. Len(c) + 1
         /\ Turn(c, p, s, e) <= Len(c) =>
              LET x == c[Turn(c, p, s, e)]
              IN x.start >= s \/ (x.pid = p /\ s <= x.end /\ e >= x.start)
         /\ \A j \in 1 .. Len(c) : j < Turn(c, p, s, e) =>
              ~(c[j].start >= s \/ (c[j].pid = p /\ s <= c[j].end /\ e >= c[j].start))
<1> DEFINE Test(x) == x.start >= s \/ (x.pid = p /\ s <= x.end /\ e >= x.start)
           z == Lock(p, "UN", s, e)
<1> PICK d : d = c \o <<z>>
  OBVIOUS
<1> DEFINE I == {i \in 1 .. Len(c) + 1 : Test(d[i])}
<1>1. /\ Len(c) \in Nat /\ d[Len(c) + 1] = z
      /\ \A j \in 1 .. Len(c) : d[j] = c[j]
  OBVIOUS
<1>2. Test(z)
  BY DEF Lock
<1>3. Len(c) + 1 \in I
  BY <1>1, <1>2
<1>4. I \in SUBSET (1 .. Len(c) + 1) /\ I # {}
  BY <1>3
<1>5. Turn(c, p, s, e) = Min(I)
  BY <1>4 DEF Turn, SelectInSubSeq
<1>6. \A i \in 1 .. Len(c) : i \in I <=> Test(c[i])
  <2> SUFFICES ASSUME NEW i \in 1 .. Len(c) PROVE i \in I <=> Test(d[i])
    BY <1>1
  <2>1. i \in 1 .. Len(c) + 1
    BY <1>1
  <2> QED
    BY <2>1
<1> PICK J : J = I
  OBVIOUS
<1> PICK k : k = Min(J)
  OBVIOUS
<1>7. Len(c) + 1 \in Nat
  BY <1>1
<1>8. k \in J /\ k \in 1 .. Len(c) + 1 /\ \A y \in J : k <= y
  BY <1>4, <1>7, FirstIn
<1> HIDE DEF I
<1>9. k <= Len(c) => Test(c[k])
  <2>1. k <= Len(c) => k \in 1 .. Len(c)
    BY <1>1, <1>8
  <2> QED
    BY <1>6, <1>8, <2>1
<1>10. ASSUME NEW j \in 1 .. Len(c), j < k
       PROVE  ~Test(c[j])
  <2>1. ~(k <= j)
    BY <1>8, <1>10
  <2>2. j \notin I
    BY <1>8, <2>1
  <2> QED
    BY <1>6, <2>2
<1> QED
  BY <1>5, <1>8, <1>9, <1>10

\* flckadj starts at a place of the chain, or right behind it.
LEMMA StartIs ==
  ASSUME NEW c \in Seq(Locks), NEW p \in Procs, NEW s \in Nat, NEW e \in Nat
  PROVE  /\ FromAt(c, insrt(c, p, s, e)) \in 1 .. Len(c) + 1
         /\ FromAt(c, IF c = <<>> THEN NoLock ELSE c[1]) \in 1 .. Len(c) + 1
<1>1. Len(c) \in Nat /\ DOMAIN c = 1 .. Len(c) /\ 1 \in 1 .. Len(c) + 1
  OBVIOUS
<1>2. \A i \in 1 .. Len(c) : FromAt(c, c[i]) \in 1 .. Len(c) + 1
  <2> SUFFICES ASSUME NEW i \in 1 .. Len(c) PROVE FromAt(c, c[i]) \in 1 .. Len(c) + 1
    OBVIOUS
  <2>1. c[i] \in ToSet(c)
    BY <1>1 DEF ToSet
  <2>2. CASE c[i] = NoLock
    BY <1>1, <2>2 DEF FromAt
  <2>3. CASE c[i] # NoLock
    <3>1. Index(c, c[i]) \in 0 .. Len(c) /\ Index(c, c[i]) # 0
      BY <2>1, <2>3, Place
    <3>2. Index(c, c[i]) \in 1 .. Len(c) + 1
      BY <1>1, <3>1
    <3> QED
      BY <2>3, <3>2 DEF FromAt
  <2> QED
    BY <2>2, <2>3
<1>3. FromAt(c, NoLock) \in 1 .. Len(c) + 1
  BY <1>1 DEF FromAt
<1>4. c # <<>> => 1 \in 1 .. Len(c)
  BY <1>1
<1> PICK k : k = Turn(c, p, s, e)
  OBVIOUS
<1>5. k \in 1 .. Len(c) + 1
  BY TurnIs
<1>6. PICK i \in 0 .. Len(c) : i = IF k <= Len(c) /\ c[k].start < s THEN k ELSE k - 1
  BY <1>1, <1>5
<1>7. insrt(c, p, s, e) = IF i = 0 THEN NoLock ELSE c[i]
  BY <1>6 DEF insrt
<1>8. FromAt(c, insrt(c, p, s, e)) \in 1 .. Len(c) + 1
  <2>1. CASE i = 0
    BY <1>3, <1>7, <2>1
  <2>2. CASE i # 0
    <3>1. i \in 1 .. Len(c)
      BY <1>1, <2>2
    <3> QED
      BY <1>2, <1>7, <2>2, <3>1
  <2> QED
    BY <2>1, <2>2
<1> QED
  BY <1>2, <1>3, <1>4, <1>8

\* What blocked finds is in the way.
LEMMA BlockedIs ==
  ASSUME NEW c \in Seq(Locks), NEW p \in Procs, NEW t, NEW s \in Nat, NEW e \in Nat,
         blocked(c, p, t, s, e) # NoLock
  PROVE  /\ blocked(c, p, t, s, e) \in ToSet(c)
         /\ Conflict(blocked(c, p, t, s, e), p, t, s, e)
<1> PICK n : n = SelectInSubSeq(c, Turn(c, p, s, e), Len(c), LAMBDA x : x.start > e)
  OBVIOUS
<1> PICK m : m = IF n = 0 THEN Len(c) ELSE n
  OBVIOUS
<1> DEFINE I == {i \in 1 .. m : Conflict(c[i], p, t, s, e)}
           N == {i \in Turn(c, p, s, e) .. Len(c) : c[i].start > e}
<1>1. Turn(c, p, s, e) \in 1 .. Len(c) + 1 /\ Len(c) \in Nat /\ DOMAIN c = 1 .. Len(c)
  BY TurnIs
<1>2. m \in 0 .. Len(c)
  <2>1. n = IF N # {} THEN Min(N) ELSE 0
    BY DEF SelectInSubSeq
  <2>2. N \in SUBSET (1 .. Len(c))
    BY <1>1
  <2>3. N # {} => Min(N) \in 1 .. Len(c)
    BY <1>1, <2>2, FirstIn
  <2> QED
    BY <1>1, <2>1, <2>3
<1> PICK J \in SUBSET (1 .. m) : \A i \in 1 .. m : i \in J <=> Conflict(c[i], p, t, s, e)
  <2>1. I \in SUBSET (1 .. m) /\ \A i \in 1 .. m : i \in I <=> Conflict(c[i], p, t, s, e)
    OBVIOUS
  <2> QED
    BY <2>1
<1>3. blocked(c, p, t, s, e) = IF J # {} THEN c[Min(J)] ELSE NoLock
  <2>1. m \in Nat
    BY <1>1, <1>2
  <2>2. J # {} => Min(J) \in 1 .. m
    BY <2>1, FirstIn
  <2>3. J # {} => Min(J) # 0
    BY <2>1, <2>2
  <2> PICK i : i = SelectInSubSeq(c, 1, m, LAMBDA x : Conflict(x, p, t, s, e))
    OBVIOUS
  <2>4. J = I
    OBVIOUS
  <2>5. i = IF J # {} THEN Min(J) ELSE 0
    BY <2>4 DEF SelectInSubSeq
  <2>6. blocked(c, p, t, s, e) = IF i = 0 THEN NoLock ELSE c[i]
    BY DEF blocked
  <2> QED
    BY <2>3, <2>5, <2>6
<1> HIDE DEF I
<1>4. J # {} /\ m \in Nat
  BY <1>1, <1>2, <1>3
<1>5. Min(J) \in J /\ Min(J) \in 1 .. m
  BY <1>4, FirstIn
<1>6. Min(J) \in 1 .. Len(c)
  BY <1>1, <1>2, <1>5
<1>7. Conflict(c[Min(J)], p, t, s, e)
  BY <1>5
<1>8. blocked(c, p, t, s, e) = c[Min(J)]
  BY <1>3, <1>4
<1> QED
  BY <1>1, <1>6, <1>7, <1>8 DEF ToSet

\* SleeperBlocked is inductive with the types of what is slept on.
ChainsOK == flck \in [Files -> Seq(Locks)]
AsksOK == \A q \in DOMAIN sleeplcks : sleeplcks[q].req \in Request
BlockInv == ChainsOK /\ AsksOK /\ SleeperBlocked

\* The parts of a request.
LEMMA RequestIs ==
  ASSUME NEW r \in Request
  PROVE  /\ r.file \in Files /\ r.type \in Types \cup {"UN"}
         /\ r.range[1] \in Nat /\ r.range[2] \in Nat /\ r.range[1] < r.range[2]
<1>1. r.range \in Range0 /\ r.file \in Files /\ r.type \in Types \cup {"UN"}
  BY DEF Request
<1>2. r.range \in (0 .. Bytes) \X (0 .. Bytes) /\ r.range[1] < r.range[2]
  BY <1>1 DEF Range0
<1>3. r.range[1] \in 0 .. Bytes /\ r.range[2] \in 0 .. Bytes
  BY <1>2
<1>4. Bytes \in Nat
  BY ConstAssumption DEF ConstAssumption
<1> QED
  BY <1>1, <1>2, <1>3, <1>4

\* A call ends: every lock of the chain that is gone woke its sleepers.
LEMMA EndBlocked ==
  ASSUME BlockInv, NEW p \in Procs, NEW f \in Files, NEW L, NEW c \in Seq(Locks),
         flck' = [flck EXCEPT ![f] = c], Wake(p, f, L),
         \A y \in ToSet(flck[f]) : y \in ToSet(c) \/ y \in L
  PROVE  BlockInv'
<1>1. /\ DOMAIN sleeplcks' = DOMAIN sleeplcks \ {p}
      /\ \A q \in DOMAIN sleeplcks' :
           LET w == sleeplcks[q] IN
           /\ sleeplcks'[q].req = w.req /\ sleeplcks'[q].on = w.on
           /\ ~sleeplcks'[q].woken => ~w.woken /\ ~(w.req.file = f /\ w.on \in L)
  BY DEF Wake
<1>2. ChainsOK'
  BY DEF BlockInv, ChainsOK
<1>3. AsksOK'
  BY <1>1 DEF BlockInv, AsksOK
<1>4. ASSUME NEW q \in DOMAIN sleeplcks', ~sleeplcks'[q].woken
      PROVE  LET r == sleeplcks'[q].req  x == sleeplcks'[q].on IN
             /\ x \in ToSet(flck'[r.file])
             /\ Conflict(x, q, r.type, r.range[1], r.range[2])
  <2> PICK r \in Request : r = sleeplcks[q].req
    BY <1>1 DEF BlockInv, AsksOK
  <2> PICK x : x = sleeplcks[q].on
    OBVIOUS
  <2>1. x \in ToSet(flck[r.file]) /\ Conflict(x, q, r.type, r.range[1], r.range[2])
    BY <1>1, <1>4 DEF BlockInv, SleeperBlocked
  <2>2. r = sleeplcks'[q].req /\ x = sleeplcks'[q].on /\ ~(r.file = f /\ x \in L)
    BY <1>1, <1>4
  <2>3. r.file \in Files
    BY RequestIs
  <2>4. x \in ToSet(flck'[r.file])
    BY <2>1, <2>2, <2>3 DEF BlockInv, ChainsOK
  <2> QED
    BY <2>1, <2>2, <2>4
<1>5. SleeperBlocked'
  BY <1>4 DEF SleeperBlocked
<1> QED
  BY <1>2, <1>3, <1>5 DEF BlockInv

\* What a call makes of a chain.
LEMMA AdjustedIs ==
  ASSUME ChainsOK, NEW p \in Procs, NEW r \in Request
  PROVE  /\ Adjusted(p, r).c \in Seq(Locks)
         /\ \A y \in ToSet(flck[r.file]) : y \in ToSet(Adjusted(p, r).c)
                                           \/ y \in Adjusted(p, r).woken
<1> PICK s \in Nat, e \in Nat : s = r.range[1] /\ e = r.range[2]
  BY RequestIs
<1>1. PICK c \in Seq(Locks) : c = flck[r.file]
  BY RequestIs DEF ChainsOK
<1> PICK at : at = IF r.type = "UN" THEN (IF c = <<>> THEN NoLock ELSE c[1])
                   ELSE insrt(c, p, s, e)
  OBVIOUS
<1>2. PICK k \in 1 .. Len(c) + 1 : k = FromAt(c, at)
  BY StartIs
<1> PICK ld : ld = [type |-> r.type, start |-> s, end |-> e]
  OBVIOUS
<1>3. /\ ld = [type |-> ld.type, start |-> ld.start, end |-> ld.end]
      /\ ld.type \in Types \cup {"UN"} /\ ld.start \in Nat /\ ld.end \in Nat
  BY RequestIs
<1>4. PICK R : /\ R = flckadj(p, c, at, ld, Free(p))
               /\ Follows(Start0(c, at, ld, Free(p)), R)
  BY <1>2, <1>3, FollowsCall
<1>5. R = Adjusted(p, r)
  BY <1>1, <1>4 DEF Adjusted
<1>6. Start0(c, at, ld, Free(p)).c = c
  BY DEF Start0
<1> QED
  BY <1>1, <1>4, <1>5, <1>6 DEF Follows

\* Going to sleep on the lock blocked found.
LEMMA SleepBlocked ==
  ASSUME BlockInv, NEW p \in Procs, NEW r \in Request, Sleep(p, r)
  PROVE  BlockInv'
<1> PICK x : x = Found(p, r)
  OBVIOUS
<1> PICK s \in Nat, e \in Nat : s = r.range[1] /\ e = r.range[2]
  BY RequestIs
<1>1. x # NoLock
  BY DEF Sleep
<1>2. PICK c \in Seq(Locks) : c = flck[r.file]
  BY RequestIs DEF BlockInv, ChainsOK
<1>3. x = blocked(c, p, r.type, s, e)
  BY <1>1, <1>2 DEF Found
<1>4. x \in ToSet(c) /\ Conflict(x, p, r.type, s, e)
  BY <1>1, <1>3, BlockedIs
<1>5. /\ DOMAIN sleeplcks' = DOMAIN sleeplcks \cup {p} /\ flck' = flck
      /\ sleeplcks'[p] = [req |-> r, on |-> x, woken |-> FALSE]
      /\ \A q \in DOMAIN sleeplcks' \ {p} : sleeplcks'[q] = sleeplcks[q]
  BY DEF Sleep
<1>6. ChainsOK'
  BY <1>5 DEF BlockInv, ChainsOK
<1>7. AsksOK'
  BY <1>5 DEF BlockInv, AsksOK
<1>8. ASSUME NEW q \in DOMAIN sleeplcks', ~sleeplcks'[q].woken
      PROVE  LET t == sleeplcks'[q].req  y == sleeplcks'[q].on IN
             /\ y \in ToSet(flck'[t.file])
             /\ Conflict(y, q, t.type, t.range[1], t.range[2])
  <2>1. CASE q = p
    BY <1>2, <1>4, <1>5, <2>1
  <2>2. CASE q # p
    <3>1. q \in DOMAIN sleeplcks /\ sleeplcks'[q] = sleeplcks[q]
      BY <1>5, <2>2
    <3> QED
      BY <1>5, <1>8, <3>1 DEF BlockInv, SleeperBlocked
  <2> QED
    BY <2>1, <2>2
<1>9. SleeperBlocked'
  BY <1>8 DEF SleeperBlocked
<1> QED
  BY <1>6, <1>7, <1>9 DEF BlockInv

\* Every action keeps BlockInv.
LEMMA BlockStep == BlockInv /\ [Next]_vars => BlockInv'
<1> SUFFICES ASSUME BlockInv, [Next]_vars
             PROVE  BlockInv'
  OBVIOUS
<1>0. \A f \in Files : /\ flck = [flck EXCEPT ![f] = flck[f]]
                       /\ flck[f] \in Seq(Locks)
  BY DEF BlockInv, ChainsOK
<1>1. CASE UNCHANGED vars
  BY <1>1 DEF BlockInv, ChainsOK, AsksOK, SleeperBlocked, vars
<1>2. ASSUME NEW p \in Procs, NEW r \in Request, Set(p, r)
      PROVE  BlockInv'
  <2>1. r.file \in Files
    BY RequestIs
  <2>2. PICK R : R = Adjusted(p, r)
    OBVIOUS
  <2>3. /\ R.c \in Seq(Locks)
        /\ \A y \in ToSet(flck[r.file]) : y \in ToSet(R.c) \/ y \in R.woken
    BY <2>2, AdjustedIs DEF BlockInv
  <2>4. flck' = [flck EXCEPT ![r.file] = R.c] /\ Wake(p, r.file, R.woken)
    BY <1>2, <2>2 DEF Set
  <2> QED
    BY <2>1, <2>3, <2>4, EndBlocked
<1>3. ASSUME NEW p \in Procs, NEW r \in Request, Refuse(p, r) \/ Deadlk(p, r)
      PROVE  BlockInv'
  <2>1. r.file \in Files
    BY RequestIs
  <2>2. flck' = [flck EXCEPT ![r.file] = flck[r.file]] /\ Wake(p, r.file, {})
    BY <1>0, <1>3, <2>1 DEF Refuse, Deadlk
  <2> QED
    BY <1>0, <2>1, <2>2, EndBlocked
<1>4. ASSUME NEW p \in Procs, NEW r \in Request, Sleep(p, r)
      PROVE  BlockInv'
  BY <1>4, SleepBlocked
<1>5. ASSUME NEW p \in Procs, Interrupt(p)
      PROVE  BlockInv'
  <2>1. PICK f \in Files : f = sleeplcks[p].req.file
    BY <1>5, RequestIs DEF Interrupt, BlockInv, AsksOK
  <2>2. flck' = [flck EXCEPT ![f] = flck[f]] /\ Wake(p, f, {})
    BY <1>0, <1>5, <2>1 DEF Interrupt
  <2> QED
    BY <1>0, <2>1, <2>2, EndBlocked
<1>6. ASSUME NEW p \in Procs, NEW f \in Files, cleanlocks(p, f)
      PROVE  BlockInv'
  <2> PICK c : c = Cleaned(p, flck[f])
    OBVIOUS
  <2> PICK L : L = {x \in ToSet(flck[f]) : x.pid = p}
    OBVIOUS
  <2>1. c \in Seq(Locks) /\ \A y \in ToSet(flck[f]) : y.pid # p => y \in ToSet(c)
    BY <1>0, CleanedKeeps
  <2>2. \A y \in ToSet(flck[f]) : y \in ToSet(c) \/ y \in L
    BY <2>1
  <2>3. flck' = [flck EXCEPT ![f] = c] /\ Wake(p, f, L)
    BY <1>6 DEF cleanlocks
  <2> QED
    BY <2>1, <2>2, <2>3, EndBlocked
<1>7. ASSUME NEW p \in Procs, NEW f \in Files, GetBadOffset(p, f)
      PROVE  BlockInv'
  BY <1>7 DEF GetBadOffset, BlockInv, ChainsOK, AsksOK, SleeperBlocked
<1> QED
  BY <1>1, <1>2, <1>3, <1>4, <1>5, <1>6, <1>7 DEF Next, Setflck

\* Whoever sleeps in setflck and has not been woken sleeps on a lock that is
\* still in the chain and still excludes what it asks for: whatever splits,
\* joins, cuts or removes that lock (flckadj, cleanlocks) wakes it. Holds for
\* shared and exclusive locks and chains that are not sorted.
THEOREM NobodySleepsOnNothing == Spec => []SleeperBlocked
<1>1. Init => BlockInv
  <2> SUFFICES ASSUME Init PROVE BlockInv
    OBVIOUS
  <2>1. <<>> \in Seq(Locks)
    OBVIOUS
  <2>2. ChainsOK
    BY <2>1 DEF Init, ChainsOK
  <2>3. DOMAIN sleeplcks = {}
    BY DEF Init
  <2> QED
    BY <2>2, <2>3 DEF BlockInv, AsksOK, SleeperBlocked
<1>2. BlockInv => SleeperBlocked
  BY DEF BlockInv
<1> QED
  BY <1>1, <1>2, BlockStep, PTL DEF Spec

\* The locks of chain c start one after the other.
Sorted(c) == \A i, j \in 1 .. Len(c) : i < j => c[i].start < c[j].start

\* The locks of a chain.
LEMMA Members ==
  ASSUME NEW c \in Seq(Locks)
  PROVE  /\ DOMAIN c = 1 .. Len(c) /\ Len(c) \in Nat
         /\ \A j \in 1 .. Len(c) : /\ c[j] \in ToSet(c) /\ c[j] \in Locks
                                   /\ c[j].start \in Nat /\ c[j].end \in Nat
         /\ \A z \in ToSet(c) : /\ z \in Locks /\ z.start \in Nat /\ z.end \in Nat
                                /\ \E j \in 1 .. Len(c) : z = c[j]
<1>1. DOMAIN c = 1 .. Len(c) /\ Len(c) \in Nat
  OBVIOUS
<1>2. \A z \in Locks : z.start \in Nat /\ z.end \in Nat
  BY DEF Locks
<1>3. \A j \in 1 .. Len(c) : c[j] \in Locks
  OBVIOUS
<1>4. \A j \in 1 .. Len(c) : c[j] \in ToSet(c)
  BY <1>1 DEF ToSet
<1>5. \A z \in ToSet(c) : \E j \in 1 .. Len(c) : z = c[j]
  BY <1>1 DEF ToSet
<1> QED
  BY <1>1, <1>2, <1>3, <1>4, <1>5

\* The starts of a sorted chain tell its places apart.
LEMMA OneEach ==
  ASSUME NEW c \in Seq(Locks), Sorted(c)
  PROVE  \A i, j \in 1 .. Len(c) : /\ c[i].start < c[j].start => i < j
                                   /\ c[i].start = c[j].start => i = j
                                   /\ c[i] = c[j] => i = j
<1> SUFFICES ASSUME NEW i \in 1 .. Len(c), NEW j \in 1 .. Len(c)
             PROVE  /\ c[i].start < c[j].start => i < j
                    /\ c[i].start = c[j].start => i = j
                    /\ c[i] = c[j] => i = j
  OBVIOUS
<1>1. c[i] \in Locks /\ c[j] \in Locks
  OBVIOUS
<1>2. c[i].start \in Nat /\ c[j].start \in Nat
  BY <1>1 DEF Locks
<1>3. i < j \/ i = j \/ j < i
  OBVIOUS
<1>4. /\ i < j => c[i].start < c[j].start
      /\ j < i => c[j].start < c[i].start
  BY DEF Sorted
<1> QED
  BY <1>2, <1>3, <1>4

\* The place of a lock of a sorted chain.
LEMMA IndexIs ==
  ASSUME NEW c \in Seq(Locks), NEW x \in ToSet(c)
  PROVE  /\ Index(c, x) \in 1 .. Len(c) /\ c[Index(c, x)] = x /\ x \in Locks
         /\ Sorted(c) => \A j \in 1 .. Len(c) : c[j] = x => j = Index(c, x)
<1>1. Len(c) \in Nat /\ DOMAIN c = 1 .. Len(c)
  OBVIOUS
<1>2. PICK k \in 1 .. Len(c) : c[k] = x
  BY <1>1 DEF ToSet
<1>3. x \in Locks
  BY <1>2
<1>4. x # NoLock
  BY <1>3, ConstAssumption DEF ConstAssumption
<1>5. Index(c, x) \in 0 .. Len(c) /\ Index(c, x) # 0
  BY <1>4, Place
<1>6. Index(c, x) \in 1 .. Len(c) /\ c[Index(c, x)] = x
  BY <1>1, <1>5, Place
<1>7. Sorted(c) => \A j \in 1 .. Len(c) : c[j] = x => j = Index(c, x)
  BY <1>6, OneEach
<1> QED
  BY <1>3, <1>6, <1>7

\* delflck keeps a chain sorted and takes out the one lock.
LEMMA WithoutIs ==
  ASSUME NEW c \in Seq(Locks), Sorted(c), NEW x \in ToSet(c)
  PROVE  /\ Without(c, x) \in Seq(Locks) /\ Sorted(Without(c, x))
         /\ Len(Without(c, x)) = Len(c) - 1
         /\ ToSet(Without(c, x)) = ToSet(c) \ {x}
<1>1. PICK i \in 1 .. Len(c) : i = Index(c, x) /\ c[i] = x
  BY IndexIs
<1>2. \A j \in 1 .. Len(c) : c[j] = x => j = i
  BY <1>1, IndexIs
<1>3. DOMAIN c = 1 .. Len(c) /\ Len(c) \in Nat
  OBVIOUS
<1>4. PICK d \in Seq(Locks) :
        /\ d = Without(c, x) /\ Len(d) = Len(c) - 1
        /\ \A j \in 1 .. Len(c) - 1 : d[j] = IF j < i THEN c[j] ELSE c[j + 1]
  <2> PICK d : d = Without(c, x)
    OBVIOUS
  <2>1. /\ d \in Seq(Locks) /\ Len(d) = Len(c) - 1
        /\ \A j \in 1 .. Len(c) - 1 : d[j] = IF j < i THEN c[j] ELSE c[j + 1]
    BY <1>1, <1>3, Removed DEF Without
  <2> QED
    BY <2>1
<1>5. DOMAIN d = 1 .. Len(c) - 1
  BY <1>4
<1>6. Sorted(d)
  <2> SUFFICES ASSUME NEW j \in 1 .. Len(c) - 1, NEW k \in 1 .. Len(c) - 1, j < k
               PROVE  d[j].start < d[k].start
    BY <1>4 DEF Sorted
  <2> PICK j1, k1 : j1 = (IF j < i THEN j ELSE j + 1) /\ k1 = (IF k < i THEN k ELSE k + 1)
    OBVIOUS
  <2>1. j1 \in 1 .. Len(c) /\ k1 \in 1 .. Len(c) /\ j1 < k1
    BY <1>3
  <2>2. d[j] = c[j1] /\ d[k] = c[k1]
    BY <1>4
  <2> QED
    BY <2>1, <2>2 DEF Sorted
<1>7. ASSUME NEW j \in 1 .. Len(c) - 1
      PROVE  d[j] \in ToSet(c) \ {x}
  <2> PICK j1 : j1 = (IF j < i THEN j ELSE j + 1)
    OBVIOUS
  <2>1. j1 \in 1 .. Len(c) /\ j1 # i
    BY <1>3
  <2>2. d[j] = c[j1]
    BY <1>4
  <2> QED
    BY <1>2, <1>3, <2>1, <2>2 DEF ToSet
<1>8. \A y \in ToSet(c) : y # x => y \in ToSet(d)
  <2>1. x \in Locks
    BY IndexIs
  <2> QED
    BY <1>4, <2>1, WithoutKeeps
<1>9. ToSet(d) = ToSet(c) \ {x}
  <2>1. \A y \in ToSet(d) : \E j \in 1 .. Len(c) - 1 : y = d[j]
    BY <1>5 DEF ToSet
  <2>2. ToSet(d) \subseteq ToSet(c) \ {x}
    BY <1>7, <2>1
  <2> QED
    BY <1>8, <2>2
<1> QED
  BY <1>4, <1>6, <1>9

\* A lock that starts where x did takes its place.
LEMMA ReplacedIs ==
  ASSUME NEW c \in Seq(Locks), Sorted(c), NEW x \in ToSet(c), NEW y \in Locks,
         y.start = x.start, NEW d, d = ReplaceAt(c, Index(c, x), y)
  PROVE  /\ d \in Seq(Locks) /\ Sorted(d) /\ Len(d) = Len(c)
         /\ ToSet(d) = (ToSet(c) \ {x}) \cup {y}
<1>1. PICK i \in 1 .. Len(c) : i = Index(c, x) /\ c[i] = x
  BY IndexIs
<1>2. \A j \in 1 .. Len(c) : c[j] = x => j = i
  BY <1>1, IndexIs
<1>3. DOMAIN c = 1 .. Len(c) /\ Len(c) \in Nat
  OBVIOUS
<1>4. d = [c EXCEPT ![i] = y]
  BY <1>1 DEF ReplaceAt
<1>5. d \in Seq(Locks) /\ Len(d) = Len(c) /\ DOMAIN d = 1 .. Len(c)
  <2>1. c \in [1 .. Len(c) -> Locks]
    BY <1>3
  <2>2. d \in [1 .. Len(c) -> Locks]
    BY <2>1, <1>4
  <2>3. d \in Seq(Locks)
    BY <2>2, <1>3, IsASeq
  <2>4. DOMAIN d = 1 .. Len(c)
    BY <2>2
  <2> QED
    BY <1>3, <2>3, <2>4
<1>6. d[i] = y /\ \A j \in 1 .. Len(c) : j # i => d[j] = c[j]
  BY <1>3, <1>4
<1>7. \A j \in 1 .. Len(c) : d[j].start = c[j].start
  BY <1>1, <1>6
<1>8. Sorted(d)
  BY <1>5, <1>7 DEF Sorted
<1>9. ToSet(d) = (ToSet(c) \ {x}) \cup {y}
  <2>1. ASSUME NEW z \in ToSet(d) PROVE z \in (ToSet(c) \ {x}) \cup {y}
    <3>1. PICK j \in 1 .. Len(c) : z = d[j]
      BY <1>5 DEF ToSet
    <3> QED
      BY <1>2, <1>3, <1>6, <3>1 DEF ToSet
  <2>2. ASSUME NEW z \in ToSet(c), z # x PROVE z \in ToSet(d)
    <3>1. PICK j \in 1 .. Len(c) : z = c[j]
      BY <1>3 DEF ToSet
    <3>2. d[j] = z
      BY <1>1, <1>6, <2>2, <3>1
    <3> QED
      BY <1>5, <3>2 DEF ToSet
  <2>3. y \in ToSet(d)
    BY <1>5, <1>6 DEF ToSet
  <2> QED
    BY <2>1, <2>2, <2>3
<1> QED
  BY <1>5, <1>8, <1>9

\* Locks that differ in their records at most.
Alike(y, z) ==
  y.pid = z.pid /\ y.type = z.type /\ y.start = z.start /\ y.end = z.end

\* insflck keeps a chain sorted when the new lock comes after the last one
\* that starts before it.
LEMMA InsertedIs ==
  ASSUME NEW c \in Seq(Locks), Sorted(c), NEW y \in Locks, NEW x,
         \/ x = NoLock /\ \A z \in ToSet(c) : z.start > y.start
         \/ /\ x \in ToSet(c) /\ x.start < y.start
            /\ \A z \in ToSet(c) : z.start <= x.start \/ z.start > y.start,
         NEW d, d = insflck(c, x, y)
  PROVE  /\ d \in Seq(Locks) /\ Sorted(d) /\ Len(d) = Len(c) + 1
         /\ \E z \in Locks : ToSet(d) = ToSet(c) \cup {z} /\ Alike(z, y)
<1>1. DOMAIN c = 1 .. Len(c) /\ Len(c) \in Nat
  OBVIOUS
<1> PICK i : i = Index(c, x)
  OBVIOUS
<1>2. /\ i \in 0 .. Len(c)
      /\ i = 0 => \A z \in ToSet(c) : z.start > y.start
      /\ i # 0 => i \in 1 .. Len(c) /\ c[i] = x /\ x.start < y.start
                  /\ \A z \in ToSet(c) : z.start <= x.start \/ z.start > y.start
  <2>1. CASE x = NoLock
    <3>1. x \notin ToSet(c)
      <4>1. \A k \in 1 .. Len(c) : c[k] \in Locks
        OBVIOUS
      <4>2. x \notin Locks
        BY <2>1, ConstAssumption DEF ConstAssumption
      <4> QED
        BY <1>1, <4>1, <4>2 DEF ToSet
    <3>2. i = 0
      BY <2>1 DEF Index
    <3> QED
      BY <1>1, <3>1, <3>2
  <2>2. CASE x \in ToSet(c) /\ x.start < y.start
             /\ \A z \in ToSet(c) : z.start <= x.start \/ z.start > y.start
    <3>1. i \in 1 .. Len(c) /\ c[i] = x
      BY <2>2, IndexIs
    <3> QED
      BY <1>1, <2>2, <3>1
  <2> QED
    BY <2>1, <2>2
<1>3. PICK e \in Locks, k \in Nat : e = Fresh(c, y) /\ e = [y EXCEPT !.rec = k]
  BY NewRecord
<1>4. e.start = y.start /\ y.start \in Nat
  BY <1>3 DEF Locks
<1> PICK n \in 1 .. Len(c) + 1 : n = i + 1
  BY <1>1, <1>2
<1>5. d = InsertAt(c, n, e)
  BY <1>3 DEF insflck
<1>6. /\ d \in Seq(Locks) /\ Len(d) = Len(c) + 1 /\ d[n] = e
      /\ \A j \in 1 .. n - 1 : d[j] = c[j]
  BY <1>5, Inserted
<1>7. \A j \in n .. Len(c) : d[j + 1] = c[j]
  BY <1>5, Inserted
<1>8. DOMAIN d = 1 .. Len(c) + 1
  BY <1>6
<1>9. \A j \in 1 .. Len(c) : c[j] \in ToSet(c) /\ c[j] \in Locks /\ c[j].start \in Nat
  BY Members
<1>10. ASSUME NEW j \in 1 .. Len(c), j < n
       PROVE  c[j].start < y.start
  <2>1. i # 0 /\ j <= i /\ i \in 1 .. Len(c)
    BY <1>1, <1>2, <1>10
  <2>2. c[i].start < y.start
    BY <1>2, <2>1
  <2>3. j < i => c[j].start < c[i].start
    BY <2>1 DEF Sorted
  <2>4. c[j].start \in Nat /\ c[i].start \in Nat
    BY <1>9, <2>1
  <2> QED
    BY <1>4, <2>1, <2>2, <2>3, <2>4
<1>11. ASSUME NEW j \in 1 .. Len(c), j >= n
       PROVE  c[j].start > y.start
  <2>1. CASE i = 0
    BY <1>2, <1>9, <2>1
  <2>2. CASE i # 0
    <3>1. i \in 1 .. Len(c) /\ i < j
      BY <1>2, <1>11, <2>2
    <3>2. c[i].start < c[j].start
      BY <3>1 DEF Sorted
    <3>3. c[j].start \in Nat /\ c[i].start \in Nat
      BY <1>9, <3>1
    <3>4. c[j].start <= c[i].start \/ c[j].start > y.start
      BY <1>2, <1>9, <2>2
    <3> QED
      BY <3>2, <3>3, <3>4
  <2> QED
    BY <2>1, <2>2
<1>12. ASSUME NEW j \in 1 .. Len(c) + 1
       PROVE  \/ j < n /\ j \in 1 .. Len(c) /\ d[j] = c[j]
              \/ j = n /\ d[j] = e
              \/ j > n /\ j - 1 \in 1 .. Len(c) /\ j - 1 >= n /\ d[j] = c[j - 1]
  <2>1. CASE j < n
    BY <1>1, <1>6, <2>1
  <2>2. CASE j = n
    BY <1>6, <2>2
  <2>3. CASE j > n
    <3>1. j - 1 \in n .. Len(c) /\ j - 1 \in 1 .. Len(c) /\ j - 1 + 1 = j
      BY <1>1, <2>3
    <3> QED
      BY <1>7, <2>3, <3>1
  <2> QED
    BY <2>1, <2>2, <2>3
<1>13. Sorted(d)
  <2> SUFFICES ASSUME NEW j \in 1 .. Len(c) + 1, NEW l \in 1 .. Len(c) + 1, j < l
               PROVE  d[j].start < d[l].start
    BY <1>6 DEF Sorted
  <2>1. CASE l < n
    <3>1. j < n
      BY <2>1
    <3> QED
      BY <1>12, <2>1, <3>1 DEF Sorted
  <2>2. CASE l = n
    BY <1>4, <1>10, <1>12, <2>2
  <2>3. CASE l > n
    <3>1. l - 1 \in 1 .. Len(c) /\ d[l] = c[l - 1] /\ l - 1 >= n
      BY <1>12, <2>3
    <3>2. c[l - 1].start > y.start /\ c[l - 1].start \in Nat
      BY <1>9, <1>11, <3>1
    <3>3. CASE j < n
      <4>1. c[j].start < y.start /\ c[j].start \in Nat /\ d[j] = c[j]
        BY <1>9, <1>10, <1>12, <3>3
      <4> QED
        BY <1>4, <3>1, <3>2, <4>1
    <3>4. CASE j = n
      BY <1>4, <1>6, <3>1, <3>2, <3>4
    <3>5. CASE j > n
      <4>1. j - 1 \in 1 .. Len(c) /\ d[j] = c[j - 1] /\ j - 1 < l - 1
        BY <1>12, <3>5
      <4> QED
        BY <3>1, <4>1 DEF Sorted
    <3> QED
      BY <3>3, <3>4, <3>5
  <2> QED
    BY <2>1, <2>2, <2>3
<1>14. ToSet(d) = ToSet(c) \cup {e}
  <2>1. ToSet(d) \subseteq ToSet(c) \cup {e}
    BY <1>8, <1>9, <1>12 DEF ToSet
  <2>2. e \in ToSet(d)
    BY <1>6, <1>8 DEF ToSet
  <2>3. \A z \in ToSet(c) : z \in ToSet(d)
    BY InsertKeeps
  <2> QED
    BY <2>1, <2>2, <2>3
<1>15. Alike(e, y)
  BY <1>3 DEF Alike, Locks
<1> QED
  BY <1>6, <1>13, <1>14, <1>15

\* The last lock before s, from x on.
LEMMA LastBeforeIs ==
  ASSUME NEW c \in Seq(Locks), Sorted(c), NEW x \in ToSet(c), NEW s \in Nat
  PROVE  /\ LastBefore(c, x, s) \in ToSet(c)
         /\ x.start >= s => LastBefore(c, x, s) = x
         /\ x.start < s => /\ LastBefore(c, x, s).start < s
                           /\ \A z \in ToSet(c) : \/ z.start <= LastBefore(c, x, s).start
                                                  \/ z.start >= s
<1>1. DOMAIN c = 1 .. Len(c) /\ Len(c) \in Nat
  OBVIOUS
<1>2. PICK i \in 1 .. Len(c) : i = Index(c, x) /\ c[i] = x
  BY IndexIs
<1> DEFINE J == {j \in i .. Len(c) : c[j].start >= s}
<1> PICK K \in SUBSET (1 .. Len(c)) :
       /\ K = J
       /\ \A j \in 1 .. Len(c) : j \in K <=> j >= i /\ c[j].start >= s
  <2>1. J \in SUBSET (1 .. Len(c)) /\ \A j \in 1 .. Len(c) : j \in J <=> j >= i /\ c[j].start >= s
    BY <1>1
  <2> QED
    BY <2>1
<1> PICK m : m = IF K # {} THEN Min(K) ELSE 0
  OBVIOUS
<1>3. LastBefore(c, x, s) = c[LET k == IF m = 0 THEN Len(c) ELSE m - 1
                              IN IF k > i THEN k ELSE i]
  BY <1>2 DEF LastBefore, SelectInSubSeq
<1> HIDE DEF J
<1>4. K # {} => m \in K /\ m \in 1 .. Len(c) /\ \A y \in K : m <= y
  BY <1>1, FirstIn
<1>5. PICK k \in 0 .. Len(c) : k = IF m = 0 THEN Len(c) ELSE m - 1
  <2>1. CASE K # {}
    <3>1. m \in 1 .. Len(c)
      BY <1>4, <2>1
    <3>2. m # 0 /\ m - 1 \in 0 .. Len(c)
      BY <1>1, <3>1
    <3> QED
      BY <3>2
  <2>2. CASE K = {}
    <3>1. m = 0 /\ Len(c) \in 0 .. Len(c)
      BY <1>1, <2>2
    <3> QED
      BY <3>1
  <2> QED
    BY <2>1, <2>2
<1>6. PICK l \in 1 .. Len(c) : l = IF k > i THEN k ELSE i
  <2>1. i \in Nat /\ k \in Nat /\ k <= Len(c) /\ i >= 1
    BY <1>1
  <2>2. k > i => k \in 1 .. Len(c)
    BY <1>1, <2>1
  <2> QED
    BY <2>2
<1>7. LastBefore(c, x, s) = c[l]
  BY <1>3, <1>5, <1>6
<1>8. \A j \in 1 .. Len(c) : c[j] \in ToSet(c) /\ c[j] \in Locks /\ c[j].start \in Nat
  BY Members
<1>9. ASSUME x.start >= s PROVE LastBefore(c, x, s) = x
  <2>1. i \in K
    BY <1>2, <1>9
  <2>2. m <= i /\ m \in 1 .. Len(c)
    BY <1>4, <2>1
  <2>3. l = i
    BY <1>5, <1>6, <2>2
  <2> QED
    BY <1>2, <1>7, <2>3
<1>10. ASSUME x.start < s
       PROVE  /\ c[l].start < s
              /\ \A z \in ToSet(c) : z.start <= c[l].start \/ z.start >= s
  <2>1. l >= i
    BY <1>6
  <2>2. l \notin K
    <3>1. CASE l = i
      BY <1>2, <1>8, <1>10, <3>1
    <3>2. CASE l # i
      <4>1. l = k /\ k > i
        BY <1>6, <3>2
      <4>2. K # {} => l < m
        BY <1>4, <1>5, <4>1
      <4> QED
        BY <1>4, <4>2
    <3> QED
      BY <3>1, <3>2
  <2>3. c[l].start < s
    BY <1>8, <2>1, <2>2
  <2>4. ASSUME NEW j \in 1 .. Len(c), j > l
        PROVE  c[j].start >= s
    <3>1. K # {} /\ m <= j
      BY <1>4, <1>5, <1>6, <2>4
    <3>2. m \in K /\ m \in 1 .. Len(c)
      BY <1>4, <3>1
    <3>3. c[m].start >= s
      BY <3>2
    <3>4. m < j => c[m].start < c[j].start
      BY <3>2 DEF Sorted
    <3> QED
      BY <1>8, <3>1, <3>2, <3>3, <3>4
  <2>5. ASSUME NEW j \in 1 .. Len(c), j <= l
        PROVE  c[j].start <= c[l].start
    BY <1>8, <2>5 DEF Sorted
  <2>6. ASSUME NEW z \in ToSet(c)
        PROVE  z.start <= c[l].start \/ z.start >= s
    <3>1. PICK j \in 1 .. Len(c) : z = c[j]
      BY <1>1 DEF ToSet
    <3>2. j <= l \/ j > l
      OBVIOUS
    <3> QED
      BY <2>4, <2>5, <3>1, <3>2
  <2> QED
    BY <2>3, <2>6
<1> QED
  BY <1>7, <1>8, <1>9, <1>10

\* The lock before x.
LEMMA PrevIs ==
  ASSUME NEW c \in Seq(Locks), Sorted(c), NEW x \in ToSet(c)
  PROVE  \/ prev(c, x) = NoLock /\ \A z \in ToSet(c) : z.start >= x.start
         \/ prev(c, x) \in ToSet(c) /\ prev(c, x).start < x.start
<1>1. DOMAIN c = 1 .. Len(c) /\ Len(c) \in Nat
  OBVIOUS
<1>2. PICK i \in 1 .. Len(c) : i = Index(c, x) /\ c[i] = x
  BY IndexIs
<1>3. \A j \in 1 .. Len(c) : c[j] \in ToSet(c) /\ c[j] \in Locks /\ c[j].start \in Nat
  BY Members
<1>4. CASE i = 1
  <2>1. ASSUME NEW z \in ToSet(c) PROVE z.start >= x.start
    <3>1. PICK j \in 1 .. Len(c) : z = c[j]
      BY <1>1 DEF ToSet
    <3>2. j = i \/ i < j
      BY <1>4
    <3>3. i < j => c[i].start < c[j].start
      BY DEF Sorted
    <3> QED
      BY <1>2, <1>3, <3>1, <3>2, <3>3
  <2>2. prev(c, x) = NoLock
    BY <1>2, <1>4 DEF prev
  <2> QED
    BY <2>1, <2>2
<1>5. CASE i # 1
  <2>1. i - 1 \in 1 .. Len(c) /\ i - 1 < i
    BY <1>1, <1>5
  <2>2. c[i - 1].start < c[i].start
    BY <2>1 DEF Sorted
  <2>3. prev(c, x) = c[i - 1]
    BY <1>2, <1>5 DEF prev
  <2> QED
    BY <1>2, <1>3, <2>1, <2>2, <2>3
<1> QED
  BY <1>4, <1>5

\* Lock x is all before y; two locks of one process do not even touch.
Before(x, y) == x.end <= y.start /\ (x.pid = y.pid => x.end < y.start)

\* Locks that are apart from each other.
Spaced(D) == /\ D \subseteq Locks
             /\ \A x \in D : x.start < x.end
             /\ \A x, y \in D : x = y \/ Before(x, y) \/ Before(y, x)

\* p has byte b locked by one of the locks D.
Covered(D, p, b) == \E x \in D : x.pid = p /\ x.start <= b /\ b < x.end

\* Own locks a request for [s, e) leaves alone; with an exclusive lock (w)
\* they do not touch the range, else it would join them.
Behind(x, s, w) == x.end <= s /\ (w => x.end < s)
Beyond(x, e, w) == x.start >= e /\ (w => x.start > e)

\* flckadj has made locks D of D0, and [s, e) of the range [s0, e0): others'
\* locks are what they were and out of the way, p has locked what it had but
\* for the range, and the range has grown by what p had locked.
Good(p, w, D0, s0, e0, D, s, e) ==
  /\ Spaced(D)
  /\ s \in Nat /\ e \in Nat /\ s <= s0 /\ e0 <= e /\ (~w => s = s0 /\ e = e0)
  /\ \A x \in D : x.pid # p => x \in D0 /\ (w => x.end <= s \/ x.start >= e)
  /\ \A x \in D0 : x.pid # p => x \in D
  /\ \A b \in Nat : Covered(D0, p, b) => Covered(D, p, b) \/ (s <= b /\ b < e)
  /\ \A b \in Nat : Covered(D, p, b) => Covered(D0, p, b)
  /\ \A b \in Nat : s <= b /\ b < e => Covered(D0, p, b) \/ (s0 <= b /\ b < e0)

\* U is still to come, the other locks of p are behind; or none is in the way.
Left(p, w, D, s, U) ==
  U \subseteq D /\ \A x \in D : x.pid = p => x \in U \/ Behind(x, s, w)
Out(p, w, D, s, e) ==
  \A x \in D : x.pid = p => Behind(x, s, w) \/ Beyond(x, e, w)

\* What may come in the place of lock x of p: pieces N of it, and the range
\* unchanged or joined with x.
Pieces(p, x, N) ==
  /\ N \subseteq Locks
  /\ \A n \in N : n.pid = p /\ x.start <= n.start /\ n.start < n.end /\ n.end <= x.end
  /\ \A m, n \in N : m = n \/ Before(m, n) \/ Before(n, m)
Grown(w, x, s, e, s1, e1) ==
  /\ s1 \in Nat /\ e1 \in Nat
  /\ \/ s1 = s /\ e1 = e
     \/ /\ w /\ x.start <= e /\ s <= x.end
        /\ s1 <= s /\ e <= e1
        /\ s1 = s \/ s1 = x.start
        /\ e1 = e \/ e1 = x.end

\* A range is of numbers.
LEMMA Numbers == \A x \in Locks : x.start \in Nat /\ x.end \in Nat
BY DEF Locks

\* What is left of a lock is as far from the others as it was.
LEMMA SpacedPieces ==
  ASSUME NEW D, Spaced(D), NEW p, NEW x \in D, x.pid = p, NEW N, Pieces(p, x, N)
  PROVE  Spaced((D \ {x}) \cup N)
<1> PICK E : E = (D \ {x}) \cup N
  OBVIOUS
<1>1. E \subseteq Locks /\ x \in Locks
  BY DEF Spaced, Pieces
<1>2. \A y \in E : y.start < y.end
  BY DEF Spaced, Pieces
<1>3. ASSUME NEW y \in D, y # x, NEW n \in N
      PROVE  Before(y, n) \/ Before(n, y)
  <2>1. Before(x, y) \/ Before(y, x)
    BY <1>3 DEF Spaced
  <2>2. /\ x.start \in Nat /\ x.end \in Nat /\ y.start \in Nat /\ y.end \in Nat
        /\ n.start \in Nat /\ n.end \in Nat
    BY <1>1, Numbers DEF Spaced, Pieces
  <2>3. n.pid = x.pid /\ x.start <= n.start /\ n.end <= x.end
    BY DEF Pieces
  <2> QED
    BY <2>1, <2>2, <2>3 DEF Before
<1>4. \A y, z \in E : y = z \/ Before(y, z) \/ Before(z, y)
  BY <1>3 DEF Spaced, Pieces
<1> QED
  BY <1>1, <1>2, <1>4 DEF Spaced

\* A lock of p gives way to pieces of it and the range: what p has locked is
\* accounted for.
LEMMA GoodPieces ==
  ASSUME NEW p, NEW w \in BOOLEAN, NEW D0, NEW s0 \in Nat, NEW e0 \in Nat, s0 < e0,
         NEW D, NEW s, NEW e, Good(p, w, D0, s0, e0, D, s, e),
         NEW x \in D, x.pid = p, NEW N, Pieces(p, x, N),
         NEW s1, NEW e1, Grown(w, x, s, e, s1, e1),
         \A b \in Nat : x.start <= b /\ b < x.end =>
            (s1 <= b /\ b < e1) \/ \E n \in N : n.start <= b /\ b < n.end
  PROVE  Good(p, w, D0, s0, e0, (D \ {x}) \cup N, s1, e1)
<1> PICK E : E = (D \ {x}) \cup N
  OBVIOUS
<1>1. Spaced(D) /\ Spaced(E)
  BY SpacedPieces DEF Good
<1>2. s \in Nat /\ e \in Nat /\ s1 \in Nat /\ e1 \in Nat /\ x.start \in Nat /\ x.end \in Nat
      /\ x.start < x.end
  BY <1>1, Numbers DEF Good, Grown, Spaced
<1>3. s1 <= s0 /\ e0 <= e1 /\ (~w => s1 = s0 /\ e1 = e0) /\ s1 <= s /\ e <= e1 /\ s < e
  BY <1>2 DEF Good, Grown
<1>4. ASSUME NEW y \in E, y.pid # p
      PROVE  y \in D0 /\ (w => y.end <= s1 \/ y.start >= e1)
  <2>1. y \in D /\ y # x
    BY <1>4 DEF Pieces
  <2>2. y \in D0 /\ (w => y.end <= s \/ y.start >= e)
    BY <1>4, <2>1 DEF Good
  <2>3. Before(x, y) \/ Before(y, x)
    BY <1>1, <2>1 DEF Spaced
  <2>4. y.start \in Nat /\ y.end \in Nat /\ y.start < y.end
    BY <1>1, <2>1, Numbers DEF Spaced
  <2>5. y.end <= x.start \/ y.start >= x.end
    BY <1>2, <2>3, <2>4 DEF Before
  <2>6. w => y.end <= s1 \/ y.start >= e1
    BY <1>2, <1>3, <2>2, <2>4, <2>5 DEF Grown
  <2> QED
    BY <2>2, <2>6
<1>5. \A y \in D0 : y.pid # p => y \in E
  BY DEF Good
<1>6. ASSUME NEW b \in Nat, Covered(D, p, b)
      PROVE  Covered(E, p, b) \/ (s1 <= b /\ b < e1)
  <2>1. PICK y \in D : y.pid = p /\ y.start <= b /\ b < y.end
    BY <1>6 DEF Covered
  <2>2. CASE y # x
    BY <2>1, <2>2 DEF Covered
  <2>3. CASE y = x
    <3>1. (s1 <= b /\ b < e1) \/ \E n \in N : n.start <= b /\ b < n.end
      BY <2>1, <2>3
    <3>2. \A n \in N : n.pid = p /\ n \in E
      BY DEF Pieces
    <3> QED
      BY <3>1, <3>2 DEF Covered
  <2> QED
    BY <2>2, <2>3
<1>7. ASSUME NEW b \in Nat, Covered(D0, p, b)
      PROVE  Covered(E, p, b) \/ (s1 <= b /\ b < e1)
  <2>1. Covered(D, p, b) \/ (s <= b /\ b < e)
    BY <1>7 DEF Good
  <2>2. s <= b /\ b < e => s1 <= b /\ b < e1
    BY <1>2, <1>3
  <2> QED
    BY <1>6, <2>1, <2>2
<1>8. ASSUME NEW b \in Nat, Covered(E, p, b)
      PROVE  Covered(D, p, b)
  <2>1. PICK y \in E : y.pid = p /\ y.start <= b /\ b < y.end
    BY <1>8 DEF Covered
  <2>2. CASE y \in D
    BY <2>1, <2>2 DEF Covered
  <2>3. CASE y \in N
    <3>1. y.start \in Nat /\ y.end \in Nat /\ x.start <= y.start /\ y.end <= x.end
      BY <2>3, Numbers DEF Pieces
    <3>2. x.start <= b /\ b < x.end
      BY <1>2, <2>1, <3>1
    <3> QED
      BY <3>2 DEF Covered
  <2> QED
    BY <2>2, <2>3
<1>9. ASSUME NEW b \in Nat, s1 <= b, b < e1
      PROVE  Covered(D0, p, b) \/ (s0 <= b /\ b < e0)
  <2>1. CASE s <= b /\ b < e
    BY <2>1 DEF Good
  <2>2. CASE x.start <= b /\ b < x.end
    <3>1. Covered(D, p, b)
      BY <2>2 DEF Covered
    <3> QED
      BY <3>1 DEF Good
  <2>3. (s <= b /\ b < e) \/ (x.start <= b /\ b < x.end)
    BY <1>2, <1>3, <1>9 DEF Grown
  <2> QED
    BY <2>1, <2>2, <2>3
<1>10. \A b \in Nat : Covered(E, p, b) => Covered(D0, p, b)
  BY <1>8 DEF Good
<1>11. Good(p, w, D0, s0, e0, E, s1, e1)
  BY <1>1, <1>2, <1>3, <1>4, <1>5, <1>7, <1>9, <1>10 DEF Good
<1> QED
  BY <1>11

\* The turn of x goes on to the next lock ...
LEMMA LeftPieces ==
  ASSUME NEW p, NEW w \in BOOLEAN, NEW D, Spaced(D), NEW s \in Nat, NEW e \in Nat,
         NEW U, Left(p, w, D, s, U), NEW x \in U, x.pid = p,
         NEW N, Pieces(p, x, N), NEW s1, NEW e1, Grown(w, x, s, e, s1, e1),
         \A n \in N : Behind(n, s1, w)
  PROVE  Left(p, w, (D \ {x}) \cup N, s1, U \ {x})
<1>1. x \in D /\ U \ {x} \subseteq (D \ {x}) \cup N
  BY DEF Left
<1>2. ASSUME NEW z \in D, z # x, z.pid = p, z \notin U
      PROVE  Behind(z, s1, w)
  <2>1. Behind(z, s, w)
    BY <1>2 DEF Left
  <2>2. Before(x, z) \/ Before(z, x)
    BY <1>1, <1>2 DEF Spaced
  <2>3. /\ x.start \in Nat /\ x.end \in Nat /\ z.start \in Nat /\ z.end \in Nat
        /\ z.start < z.end /\ x.start < x.end /\ s1 \in Nat
    BY <1>1, Numbers DEF Spaced, Grown
  <2> QED
    BY <1>2, <2>1, <2>2, <2>3 DEF Behind, Before, Grown
<1> QED
  BY <1>1, <1>2 DEF Left

\* ... or ends the loop.
LEMMA OutPieces ==
  ASSUME NEW p, NEW w \in BOOLEAN, NEW D, Spaced(D), NEW s \in Nat, NEW e \in Nat,
         NEW U, Left(p, w, D, s, U), NEW x \in U, x.pid = p,
         \A u \in U : u # x => u.start > x.start,
         NEW N, Pieces(p, x, N), NEW s1, NEW e1, Grown(w, x, s, e, s1, e1),
         x.end >= e1,
         \A n \in N : Behind(n, s1, w) \/ Beyond(n, e1, w)
  PROVE  Out(p, w, (D \ {x}) \cup N, s1, e1)
<1>1. x \in D /\ U \subseteq D
  BY DEF Left
<1>2. ASSUME NEW z \in D, z # x, z.pid = p
      PROVE  Behind(z, s1, w) \/ Beyond(z, e1, w)
  <2>1. z \in U \/ Behind(z, s, w)
    BY <1>2 DEF Left
  <2>2. Before(x, z) \/ Before(z, x)
    BY <1>1, <1>2 DEF Spaced
  <2>3. /\ x.start \in Nat /\ x.end \in Nat /\ z.start \in Nat /\ z.end \in Nat
        /\ z.start < z.end /\ x.start < x.end /\ s1 \in Nat /\ e1 \in Nat
    BY <1>1, Numbers DEF Spaced, Grown
  <2>4. CASE z \in U
    <3>1. z.start > x.start
      BY <1>2, <2>4
    <3>2. z.start > x.end
      BY <1>2, <2>2, <2>3, <3>1 DEF Before
    <3> QED
      BY <2>3, <3>2 DEF Beyond
  <2>5. CASE Behind(z, s, w)
    BY <1>2, <2>2, <2>3, <2>5 DEF Behind, Before, Grown
  <2> QED
    BY <2>1, <2>4, <2>5
<1> QED
  BY <1>2 DEF Out

\* A state of flckadj on a sorted chain: n is what the chain and the pool have
\* together, w if a lock is to be set.
Shape(S, n, w) ==
  /\ State(S) /\ S.c \in Seq(Locks) /\ Sorted(S.c)
  /\ S.free \in Nat /\ Len(S.c) + S.free = n
  /\ S.ld.type = IF w THEN "WR" ELSE "UN"

\* R is S with the locks D, on a chain as good.
Turned(R, S, n, w, D) ==
  /\ Shape(R, n, w) /\ ToSet(R.c) = D
  /\ R.ld = S.ld /\ R.rv = S.rv /\ R.done = S.done

\* A lock leaves a sorted chain ...
LEMMA ShapeLess ==
  ASSUME NEW S, NEW n, NEW w, Shape(S, n, w), NEW x \in ToSet(S.c), NEW R, NEW a, NEW v,
         Now(R, S, Without(S.c, x), a, S.free + 1, v)
  PROVE  Turned(R, S, n, w, ToSet(S.c) \ {x}) /\ R.free > 0 /\ R.at = a
<1>1. S.c \in Seq(Locks) /\ Sorted(S.c) /\ S.free \in Nat /\ Len(S.c) + S.free = n
  BY DEF Shape
<1>2. PICK d \in Seq(Locks) :
        /\ d = Without(S.c, x) /\ Sorted(d) /\ Len(d) = Len(S.c) - 1
        /\ ToSet(d) = ToSet(S.c) \ {x}
  BY <1>1, WithoutIs
<1>3. R.c = d /\ R.free = S.free + 1 /\ State(R)
  BY <1>2 DEF Now
<1>4. Len(S.c) \in Nat /\ Len(d) + (S.free + 1) = n
  BY <1>1, <1>2
<1>5. R.free \in Nat /\ Len(R.c) + R.free = n /\ R.free > 0
  BY <1>1, <1>3, <1>4
<1>6. R.ld = S.ld /\ R.rv = S.rv /\ R.done = S.done /\ R.at = a
  BY DEF Now
<1>7. Shape(R, n, w)
  BY <1>2, <1>3, <1>5, <1>6 DEF Shape
<1> QED
  BY <1>2, <1>3, <1>5, <1>6, <1>7 DEF Turned

\* ... and the insertion point is the lock before it ...
LEMMA ShapeGone ==
  ASSUME NEW S, NEW n, NEW w, Shape(S, n, w), NEW x \in ToSet(S.c)
  PROVE  /\ Turned(Gone(S, x), S, n, w, ToSet(S.c) \ {x}) /\ Gone(S, x).free > 0
         /\ Gone(S, x).at = prev(S.c, x)
<1>1. State(S)
  BY DEF Shape
<1>2. Now(Gone(S, x), S, Without(S.c, x), prev(S.c, x), S.free + 1, S.woken \cup {x})
  BY <1>1, GoneIs
<1> QED
  BY <1>2, ShapeLess

\* ... or stays if it was another.
LEMMA ShapeDropped ==
  ASSUME NEW S, NEW n, NEW w, Shape(S, n, w), NEW x \in ToSet(S.c)
  PROVE  /\ Turned(Dropped(S, x), S, n, w, ToSet(S.c) \ {x}) /\ Dropped(S, x).free > 0
         /\ S.at # x => Dropped(S, x).at = S.at
<1>1. State(S)
  BY DEF Shape
<1> PICK a : a = IF S.at = x THEN prev(S.c, x) ELSE S.at
  OBVIOUS
<1>2. Now(Dropped(S, x), S, Without(S.c, x), a, S.free + 1, S.woken \cup {x})
  BY <1>1, DroppedIs
<1>3. /\ Turned(Dropped(S, x), S, n, w, ToSet(S.c) \ {x}) /\ Dropped(S, x).free > 0
      /\ Dropped(S, x).at = a
  BY <1>2, ShapeLess
<1> QED
  BY <1>3

\* A lock is shortened.
LEMMA ShapeCut ==
  ASSUME NEW S, NEW n, NEW w, Shape(S, n, w), NEW x \in ToSet(S.c)
  PROVE  \E y \in Locks :
           /\ y.pid = x.pid /\ y.start = x.start /\ y.end = S.ld.start
           /\ Turned(Cut(S, x), S, n, w, (ToSet(S.c) \ {x}) \cup {y})
<1>1. S.c \in Seq(Locks) /\ Sorted(S.c) /\ State(S) /\ S.ld.start \in Nat
  BY DEF Shape, State
<1>2. x \in Locks
  BY <1>1, Members
<1>3. Without(S.c, x) \in Seq(Locks)
  BY <1>1, WithoutIs
<1>4. PICK z \in Locks : z = [x EXCEPT !.end = S.ld.start]
  BY <1>1, <1>2 DEF Locks
<1>5. PICK y : /\ y = Fresh(Without(S.c, x), z)
               /\ Now(Cut(S, x), S, ReplaceAt(S.c, Index(S.c, x), y), y, S.free, S.woken \cup {x})
  BY <1>1, <1>4, CutIs
<1>6. PICK k \in Nat : y \in Locks /\ y = [z EXCEPT !.rec = k]
  BY <1>3, <1>4, <1>5, NewRecord
<1>7. y.pid = x.pid /\ y.start = x.start /\ y.end = S.ld.start
  BY <1>2, <1>4, <1>6 DEF Locks
<1>8. PICK d : /\ d = ReplaceAt(S.c, Index(S.c, x), y) /\ d \in Seq(Locks) /\ Sorted(d)
               /\ Len(d) = Len(S.c) /\ ToSet(d) = (ToSet(S.c) \ {x}) \cup {y}
  <2>1. PICK c \in Seq(Locks) : c = S.c /\ Sorted(c) /\ x \in ToSet(c)
    BY <1>1
  <2>2. PICK y1 \in Locks : y1 = y /\ y1.start = x.start
    BY <1>6, <1>7
  <2> PICK d : d = ReplaceAt(c, Index(c, x), y1)
    OBVIOUS
  <2>3. /\ d \in Seq(Locks) /\ Sorted(d) /\ Len(d) = Len(c)
        /\ ToSet(d) = (ToSet(c) \ {x}) \cup {y1}
    BY <2>1, <2>2, ReplacedIs
  <2> QED
    BY <2>1, <2>2, <2>3
<1> PICK R : R = Cut(S, x)
  OBVIOUS
<1>9. R.c = d /\ R.free = S.free /\ State(R) /\ R.ld = S.ld /\ R.rv = S.rv /\ R.done = S.done
  BY <1>5, <1>8 DEF Now
<1>10. Shape(R, n, w)
  BY <1>8, <1>9 DEF Shape
<1> QED
  BY <1>6, <1>7, <1>8, <1>9, <1>10 DEF Turned

\* A piece of a lock becomes a lock of its own, where the chain stays sorted.
LEMMA ShapeSever ==
  ASSUME NEW S, NEW n, NEW w, Shape(S, n, w), NEW x \in ToSet(S.c), Spaced(ToSet(S.c)),
         S.ld.start < S.ld.end, x.start < S.ld.end, S.ld.end < x.end, S.free # 0
  PROVE  \E y \in Locks :
           /\ y.pid = x.pid /\ y.start = S.ld.end /\ y.end = x.end
           /\ Turned(Sever(S, x), S, n, w, ToSet(S.c) \cup {y})
           /\ Sever(S, x).at = S.at
<1>1. /\ S.c \in Seq(Locks) /\ Sorted(S.c) /\ State(S)
      /\ S.ld.start \in Nat /\ S.ld.end \in Nat /\ S.free \in Nat
  BY DEF Shape, State
<1>2. x \in Locks /\ x.start \in Nat /\ x.end \in Nat
  BY <1>1, Members
<1>3. PICK z \in Locks : z = [x EXCEPT !.start = S.ld.end] /\ z.start = S.ld.end
  <2>1. PICK e \in Nat : e = S.ld.end
    BY <1>1
  <2>2. [x EXCEPT !.start = e] \in Locks /\ [x EXCEPT !.start = e].start = e
    BY <1>2 DEF Locks
  <2> QED
    BY <2>1, <2>2
<1>4. \A y \in ToSet(S.c) : y.start <= x.start \/ y.start >= x.end
  <2> SUFFICES ASSUME NEW y \in ToSet(S.c) PROVE y.start <= x.start \/ y.start >= x.end
    OBVIOUS
  <2>1. y.start \in Nat /\ y.end \in Nat /\ y.start < y.end
    BY <1>1, Members DEF Spaced
  <2> QED
    BY <1>2, <2>1 DEF Spaced, Before
<1> PICK l : l = LastBefore(S.c, x, S.ld.start)
  OBVIOUS
<1>5. l = x
  <2>1. /\ l \in ToSet(S.c) /\ (x.start >= S.ld.start => l = x)
        /\ x.start < S.ld.start => /\ l.start < S.ld.start
                                   /\ \A y \in ToSet(S.c) : y.start <= l.start \/ y.start >= S.ld.start
    <3>1. PICK c \in Seq(Locks) : c = S.c /\ Sorted(c) /\ x \in ToSet(c)
      BY <1>1
    <3>2. PICK s \in Nat : s = S.ld.start
      BY <1>1
    <3>3. /\ LastBefore(c, x, s) \in ToSet(c)
          /\ x.start >= s => LastBefore(c, x, s) = x
          /\ x.start < s => /\ LastBefore(c, x, s).start < s
                            /\ \A y \in ToSet(c) : \/ y.start <= LastBefore(c, x, s).start
                                                   \/ y.start >= s
      BY <3>1, LastBeforeIs
    <3> QED
      BY <3>1, <3>2, <3>3
  <2>2. CASE x.start < S.ld.start
    <3>1. l.start \in Nat /\ l.start < S.ld.start
      BY <1>1, <2>1, <2>2, Members
    <3>2. x.start <= l.start
      BY <1>1, <1>2, <2>1, <2>2
    <3>3. l.start <= x.start
      BY <1>1, <1>2, <1>4, <2>1, <3>1
    <3>4. l.start = x.start
      BY <1>2, <3>1, <3>2, <3>3
    <3>5. PICK i \in 1 .. Len(S.c), j \in 1 .. Len(S.c) : l = S.c[i] /\ x = S.c[j]
      BY <1>1, <2>1, Members
    <3> QED
      BY <1>1, <3>4, <3>5, OneEach
  <2> QED
    BY <1>1, <1>2, <2>1, <2>2
<1>6. x.start < z.start /\ \A y \in ToSet(S.c) : y.start <= x.start \/ y.start > z.start
  <2> SUFFICES ASSUME NEW y \in ToSet(S.c) PROVE y.start <= x.start \/ y.start > z.start
    BY <1>3
  <2>1. y.start \in Nat
    BY <1>1, Members
  <2> QED
    BY <1>1, <1>2, <1>3, <1>4, <2>1
<1>7. PICK d : d = Severed(S, x) /\ d = insflck(S.c, x, z)
  BY <1>3, <1>5 DEF Severed
<1>8. /\ d \in Seq(Locks) /\ Sorted(d) /\ Len(d) = Len(S.c) + 1
      /\ \E y \in Locks : ToSet(d) = ToSet(S.c) \cup {y} /\ Alike(y, z)
  <2>1. PICK c \in Seq(Locks) : c = S.c /\ Sorted(c) /\ x \in ToSet(c)
    BY <1>1
  <2>2. \A y \in ToSet(c) : y.start <= x.start \/ y.start > z.start
    BY <1>6, <2>1
  <2>3. d = insflck(c, x, z)
    BY <1>7, <2>1
  <2>4. /\ d \in Seq(Locks) /\ Sorted(d) /\ Len(d) = Len(c) + 1
        /\ \E y \in Locks : ToSet(d) = ToSet(c) \cup {y} /\ Alike(y, z)
    <3>1. \/ x = NoLock /\ \A y \in ToSet(c) : y.start > z.start
          \/ /\ x \in ToSet(c) /\ x.start < z.start
             /\ \A y \in ToSet(c) : y.start <= x.start \/ y.start > z.start
      BY <1>6, <2>1, <2>2
    <3>2. Sorted(c)
      BY <2>1
    <3> QED
      BY <2>3, <3>1, <3>2, InsertedIs
  <2> QED
    BY <2>1, <2>4
<1>9. PICK y \in Locks : ToSet(d) = ToSet(S.c) \cup {y} /\ Alike(y, z)
  BY <1>8
<1>10. y.pid = x.pid /\ y.start = S.ld.end /\ y.end = x.end
  <2>1. z.pid = x.pid /\ z.end = x.end
    BY <1>2, <1>3 DEF Locks
  <2> QED
    BY <1>3, <1>9, <2>1 DEF Alike
<1> PICK R : R = Sever(S, x)
  OBVIOUS
<1>11. Now(R, S, Severed(S, x), S.at, S.free - 1, S.woken)
  BY <1>1, SeverIs
<1>12. /\ R.c = d /\ R.free = S.free - 1 /\ State(R) /\ R.ld = S.ld /\ R.rv = S.rv
       /\ R.done = S.done /\ R.at = S.at
  BY <1>7, <1>11 DEF Now
<1>13. R.free \in Nat /\ Len(R.c) + R.free = n
  <2>1. Len(S.c) \in Nat /\ Len(S.c) + S.free = n
    BY <1>1 DEF Shape
  <2>2. PICK a \in Nat \ {0}, b \in Nat : a = S.free /\ b = Len(S.c)
    BY <1>1, <2>1
  <2>3. b + a = n /\ R.free = a - 1 /\ Len(R.c) = b + 1
    BY <1>8, <1>12, <2>1, <2>2
  <2>4. a - 1 \in Nat
    OBVIOUS
  <2>5. (b + 1) + (a - 1) = b + a
    OBVIOUS
  <2> QED
    BY <2>3, <2>4, <2>5
<1>14. Shape(R, n, w)
  BY <1>8, <1>12, <1>13 DEF Shape
<1> QED
  BY <1>9, <1>10, <1>12, <1>14 DEF Turned

\* The loop is left; the range is joined with a lock.
LEMMA ShapeStop ==
  ASSUME NEW S, NEW n, NEW w, Shape(S, n, w)
  PROVE  /\ Shape(Stop(S), n, w) /\ Stop(S).done /\ Stop(S).c = S.c /\ Stop(S).ld = S.ld
         /\ Stop(S).rv = S.rv /\ Stop(S).at = S.at /\ Stop(S).free = S.free
<1> PICK R : R = Stop(S)
  OBVIOUS
<1>1. State(S)
  BY DEF Shape
<1>2. /\ State(R) /\ R.done /\ R.c = S.c /\ R.ld = S.ld
      /\ R.rv = S.rv /\ R.at = S.at /\ R.free = S.free
  BY <1>1 DEF State, Stop
<1> QED
  BY <1>2 DEF Shape

\* The range gets another end, or another start.
Ending(S, e) == [S EXCEPT !.ld.end = e]
Starting(S, s) == [S EXCEPT !.ld.start = s]

\* R is S with the range [s, e).
Moved(R, S, n, w, s, e) ==
  /\ Shape(R, n, w) /\ R.c = S.c /\ R.ld.start = s /\ R.ld.end = e
  /\ R.rv = S.rv /\ R.at = S.at /\ R.free = S.free /\ R.done = S.done

\* The chain is what it was.
LEMMA ShapeEnding ==
  ASSUME NEW S, NEW n, NEW w, Shape(S, n, w), NEW e \in Nat
  PROVE  Moved(Ending(S, e), S, n, w, S.ld.start, e)
<1> PICK R : R = Ending(S, e)
  OBVIOUS
<1>1. State(S)
  BY DEF Shape
<1>2. /\ State(R) /\ R.c = S.c /\ R.ld.start = S.ld.start /\ R.ld.end = e
      /\ R.ld.type = S.ld.type
      /\ R.rv = S.rv /\ R.at = S.at /\ R.free = S.free /\ R.done = S.done
  BY <1>1 DEF State, Ending
<1>3. Shape(R, n, w)
  BY <1>2 DEF Shape
<1> QED
  BY <1>2, <1>3 DEF Moved

LEMMA ShapeStarting ==
  ASSUME NEW S, NEW n, NEW w, Shape(S, n, w), NEW s \in Nat
  PROVE  Moved(Starting(S, s), S, n, w, s, S.ld.end)
<1> PICK R : R = Starting(S, s)
  OBVIOUS
<1>1. State(S)
  BY DEF Shape
<1>2. /\ State(R) /\ R.c = S.c /\ R.ld.start = s /\ R.ld.end = S.ld.end
      /\ R.ld.type = S.ld.type
      /\ R.rv = S.rv /\ R.at = S.at /\ R.free = S.free /\ R.done = S.done
  BY <1>1 DEF State, Starting
<1>3. Shape(R, n, w)
  BY <1>2 DEF Shape
<1> QED
  BY <1>2, <1>3 DEF Moved

\* The insertion point is the last lock before the range, or there is none.
At(S) ==
  \/ S.at = NoLock /\ \A z \in ToSet(S.c) : z.start >= S.ld.start
  \/ S.at \in ToSet(S.c) /\ S.at.start < S.ld.start

\* p has lost what it had locked of [s, e) up to some byte, and nothing else.
Torn(p, D0, D, s, e) ==
  \E m \in s .. e : \A b \in Nat : s <= b /\ b < e =>
    (Covered(D, p, b) <=> Covered(D0, p, b) /\ b >= m)

\* The invariant of the loop of flckadj, called by p with chain c and range
\* [s0, e0), to set (w) or to remove a lock; locks U are still to come.
Kept(p, w, c, s0, e0, n, U, S) ==
  /\ Shape(S, n, w)
  /\ Good(p, w, ToSet(c), s0, e0, ToSet(S.c), S.ld.start, S.ld.end)
  /\ w /\ S.rv = "set" => (S.c = c \/ S.free > 0) /\ At(S)
  /\ ~S.done => S.rv = "set" /\ Left(p, w, ToSet(S.c), S.ld.start, U)
  /\ S.done /\ S.rv = "set" => Out(p, w, ToSet(S.c), S.ld.start, S.ld.end)
  /\ S.rv = "ENOSPC" => ~w /\ Torn(p, ToSet(c), ToSet(S.c), s0, e0)
  /\ S.rv = "none" => w /\ \E x \in ToSet(S.c) :
                             x.pid = p /\ x.start <= S.ld.start /\ S.ld.end <= x.end

\* What a turn starts from, and the locks that are still to come.
Turns0(p, w, c, s0, e0, n, U, S, x) ==
  /\ w \in BOOLEAN /\ s0 \in Nat /\ e0 \in Nat /\ s0 < e0
  /\ Kept(p, w, c, s0, e0, n, U, S) /\ ~S.done
  /\ x \in U /\ \A u \in U : u # x => u.start > x.start

\* What is known of lock x when its turn comes.
LEMMA TurnFacts ==
  ASSUME NEW p, NEW w, NEW c, NEW s0, NEW e0, NEW n, NEW U, NEW S, NEW x,
         Turns0(p, w, c, s0, e0, n, U, S, x)
  PROVE  /\ w \in BOOLEAN /\ Shape(S, n, w) /\ S.rv = "set" /\ Spaced(ToSet(S.c))
         /\ S.ld.start \in Nat /\ S.ld.end \in Nat /\ S.ld.start < S.ld.end
         /\ x \in ToSet(S.c) /\ x \in Locks /\ x.start \in Nat /\ x.end \in Nat
         /\ x.start < x.end /\ Left(p, w, ToSet(S.c), S.ld.start, U)
         /\ Good(p, w, ToSet(c), s0, e0, ToSet(S.c), S.ld.start, S.ld.end)
         /\ w => (S.c = c \/ S.free > 0) /\ At(S)
<1>1. /\ w \in BOOLEAN /\ Shape(S, n, w) /\ S.rv = "set" /\ x \in U
      /\ Left(p, w, ToSet(S.c), S.ld.start, U)
      /\ Good(p, w, ToSet(c), s0, e0, ToSet(S.c), S.ld.start, S.ld.end)
      /\ w => (S.c = c \/ S.free > 0) /\ At(S)
      /\ s0 \in Nat /\ e0 \in Nat /\ s0 < e0
  BY DEF Turns0, Kept
<1>2. Spaced(ToSet(S.c)) /\ S.ld.start \in Nat /\ S.ld.end \in Nat
      /\ S.ld.start <= s0 /\ e0 <= S.ld.end
  BY <1>1 DEF Good
<1>3. S.ld.start < S.ld.end
  BY <1>1, <1>2
<1>4. x \in ToSet(S.c)
  BY <1>1 DEF Left
<1>5. x \in Locks /\ x.start \in Nat /\ x.end \in Nat /\ x.start < x.end
  BY <1>2, <1>4, Numbers DEF Spaced
<1> QED
  BY <1>1, <1>2, <1>3, <1>4, <1>5

\* Nothing of x is lost but what is in the range or the pieces; the pieces are
\* not in the way.
Filled(x, N, R) ==
  \A b \in Nat : x.start <= b /\ b < x.end =>
    (R.ld.start <= b /\ b < R.ld.end) \/ \E m \in N : m.start <= b /\ b < m.end
Placed(w, x, N, R) ==
  /\ ~R.done => \A m \in N : Behind(m, R.ld.start, w)
  /\ R.done => /\ x.end >= R.ld.end
               /\ \A m \in N : Behind(m, R.ld.start, w) \/ Beyond(m, R.ld.end, w)

\* Lock x of p gives way to pieces of it, and the range may grow.
LEMMA KeptPieces ==
  ASSUME NEW p, NEW w, NEW c, NEW s0, NEW e0, NEW n, NEW U, NEW S, NEW x,
         Turns0(p, w, c, s0, e0, n, U, S, x), x.pid = p,
         NEW N, Pieces(p, x, N), NEW R, Shape(R, n, w), R.rv = "set",
         ToSet(R.c) = (ToSet(S.c) \ {x}) \cup N,
         Grown(w, x, S.ld.start, S.ld.end, R.ld.start, R.ld.end),
         Filled(x, N, R), w => R.free > 0 /\ At(R), Placed(w, x, N, R)
  PROVE  Kept(p, w, c, s0, e0, n, U \ {x}, R)
<1>1. /\ w \in BOOLEAN /\ Shape(S, n, w) /\ S.rv = "set" /\ Spaced(ToSet(S.c))
      /\ S.ld.start \in Nat /\ S.ld.end \in Nat /\ S.ld.start < S.ld.end
      /\ x \in ToSet(S.c) /\ x \in Locks /\ Left(p, w, ToSet(S.c), S.ld.start, U)
      /\ Good(p, w, ToSet(c), s0, e0, ToSet(S.c), S.ld.start, S.ld.end)
  BY TurnFacts
<1>2. PICK D : D = ToSet(S.c)
  OBVIOUS
<1>3. PICK s \in Nat, e \in Nat : s = S.ld.start /\ e = S.ld.end
  BY <1>1
<1>4. PICK s1, e1 : s1 = R.ld.start /\ e1 = R.ld.end
  OBVIOUS
<1>5. PICK D0 : D0 = ToSet(c)
  OBVIOUS
<1>6. /\ s0 \in Nat /\ e0 \in Nat /\ s0 < e0 /\ x \in U
      /\ \A u \in U : u # x => u.start > x.start
  BY DEF Turns0
<1>7. Grown(w, x, s, e, s1, e1)
  BY <1>3, <1>4
<1>8. Good(p, w, D0, s0, e0, (D \ {x}) \cup N, s1, e1)
  <2>1. Good(p, w, D0, s0, e0, D, s, e)
    BY <1>1, <1>2, <1>3, <1>5
  <2>2. \A b \in Nat : x.start <= b /\ b < x.end =>
            (s1 <= b /\ b < e1) \/ \E m \in N : m.start <= b /\ b < m.end
    BY <1>4 DEF Filled
  <2>3. x \in D
    BY <1>1, <1>2
  <2> QED
    BY <1>1, <1>6, <1>7, <2>1, <2>2, <2>3, GoodPieces
<1>9. Spaced(D) /\ Left(p, w, D, s, U)
  BY <1>1, <1>2, <1>3
<1>10. ~R.done => Left(p, w, (D \ {x}) \cup N, s1, U \ {x})
  <2> SUFFICES ASSUME ~R.done PROVE Left(p, w, (D \ {x}) \cup N, s1, U \ {x})
    OBVIOUS
  <2>1. \A m \in N : Behind(m, s1, w)
    BY <1>4 DEF Placed
  <2> QED
    BY <1>1, <1>6, <1>7, <1>9, <2>1, LeftPieces
<1>11. R.done => Out(p, w, (D \ {x}) \cup N, s1, e1)
  <2> SUFFICES ASSUME R.done PROVE Out(p, w, (D \ {x}) \cup N, s1, e1)
    OBVIOUS
  <2>1. x.end >= e1 /\ \A m \in N : Behind(m, s1, w) \/ Beyond(m, e1, w)
    BY <1>4 DEF Placed
  <2> QED
    BY <1>1, <1>6, <1>7, <1>9, <2>1, OutPieces
<1> QED
  BY <1>2, <1>4, <1>5, <1>8, <1>10, <1>11 DEF Kept

\* The insertion point when a lock is gone ...
LEMMA AtGone ==
  ASSUME NEW S, S.c \in Seq(Locks), Sorted(S.c), NEW x \in ToSet(S.c), NEW R,
         ToSet(R.c) = ToSet(S.c) \ {x}, R.at = prev(S.c, x), R.ld.start = x.start
  PROVE  At(R)
<1>1. PICK d \in Seq(Locks) : d = S.c /\ Sorted(d) /\ x \in ToSet(d)
  OBVIOUS
<1>2. \/ prev(d, x) = NoLock /\ \A z \in ToSet(d) : z.start >= x.start
      \/ prev(d, x) \in ToSet(d) /\ prev(d, x).start < x.start
  BY <1>1, PrevIs
<1>3. x.start \in Nat
  BY <1>1, Members
<1> QED
  BY <1>1, <1>2, <1>3 DEF At

\* ... or a later one.
LEMMA AtDropped ==
  ASSUME NEW S, S.c \in Seq(Locks), At(S), S.ld.start \in Nat,
         NEW x \in ToSet(S.c), S.ld.start < x.start, NEW R,
         ToSet(R.c) = ToSet(S.c) \ {x}, S.at # x => R.at = S.at, R.ld.start = S.ld.start
  PROVE  At(R)
<1>1. PICK d \in Seq(Locks) : d = S.c /\ x \in ToSet(d)
  OBVIOUS
<1>2. x \in Locks /\ x.start \in Nat
  BY <1>1, Members
<1>3. x # NoLock
  BY <1>2, ConstAssumption DEF ConstAssumption
<1> QED
  BY <1>2, <1>3 DEF At

\* Nothing happens to the chain: the loop is left, ...
LEMMA KeptStop ==
  ASSUME NEW p, NEW w, NEW c, NEW s0, NEW e0, NEW n, NEW U, NEW S, NEW x,
         Turns0(p, w, c, s0, e0, n, U, S, x), Beyond(x, S.ld.end, w)
  PROVE  Kept(p, w, c, s0, e0, n, U \ {x}, Stop(S))
<1>1. /\ w \in BOOLEAN /\ Shape(S, n, w) /\ S.rv = "set" /\ Spaced(ToSet(S.c))
      /\ S.ld.start \in Nat /\ S.ld.end \in Nat /\ S.ld.start < S.ld.end
      /\ x \in ToSet(S.c) /\ x.start \in Nat
      /\ Left(p, w, ToSet(S.c), S.ld.start, U)
      /\ Good(p, w, ToSet(c), s0, e0, ToSet(S.c), S.ld.start, S.ld.end)
      /\ w => (S.c = c \/ S.free > 0) /\ At(S)
  BY TurnFacts
<1>2. /\ Shape(Stop(S), n, w) /\ Stop(S).done /\ Stop(S).c = S.c /\ Stop(S).ld = S.ld
      /\ Stop(S).rv = S.rv /\ Stop(S).at = S.at /\ Stop(S).free = S.free
  BY <1>1, ShapeStop
<1>3. ASSUME NEW z \in ToSet(S.c), z.pid = p
      PROVE  Behind(z, S.ld.start, w) \/ Beyond(z, S.ld.end, w)
  <2>1. z \in U \/ Behind(z, S.ld.start, w)
    BY <1>1, <1>3 DEF Left
  <2>2. z = x \/ (z \in U => z.start > x.start)
    BY DEF Turns0
  <2>3. z.start \in Nat
    BY <1>1, Numbers DEF Spaced
  <2> QED
    BY <1>1, <2>1, <2>2, <2>3 DEF Beyond
<1>4. Out(p, w, ToSet(S.c), S.ld.start, S.ld.end)
  BY <1>3 DEF Out
<1> QED
  BY <1>1, <1>2, <1>4 DEF Kept, At

\* ... the next lock is looked at, ...
LEMMA KeptOn ==
  ASSUME NEW p, NEW w, NEW c, NEW s0, NEW e0, NEW n, NEW U, NEW S, NEW x,
         Turns0(p, w, c, s0, e0, n, U, S, x),
         \/ S.ld.start \in Nat /\ x.end < S.ld.start
         \/ x.pid # p
  PROVE  Left(p, w, ToSet(S.c), S.ld.start, U \ {x})
<1>1. x.pid = p => Behind(x, S.ld.start, w)
  BY TurnFacts DEF Behind
<1>2. Left(p, w, ToSet(S.c), S.ld.start, U)
  BY TurnFacts
<1> QED
  BY <1>1, <1>2 DEF Left

\* ... the insertion point is the lock looked at, ...
LEMMA KeptAt ==
  ASSUME NEW p, NEW w, NEW c, NEW s0, NEW e0, NEW n, NEW U, NEW S, NEW x,
         Turns0(p, w, c, s0, e0, n, U, S, x), x.end < S.ld.start
  PROVE  Kept(p, w, c, s0, e0, n, U \ {x}, [S EXCEPT !.at = x])
<1>1. /\ w \in BOOLEAN /\ Shape(S, n, w) /\ S.rv = "set"
      /\ S.ld.start \in Nat /\ x \in ToSet(S.c) /\ x.start \in Nat /\ x.end \in Nat
      /\ x.start < x.end
      /\ Good(p, w, ToSet(c), s0, e0, ToSet(S.c), S.ld.start, S.ld.end)
      /\ w => S.c = c \/ S.free > 0
  BY TurnFacts
<1> PICK R : R = [S EXCEPT !.at = x]
  OBVIOUS
<1>2. /\ State(R) /\ R.c = S.c /\ R.ld = S.ld /\ R.at = x /\ R.free = S.free
      /\ R.rv = S.rv /\ R.done = S.done
  BY <1>1 DEF Shape, State
<1>3. Shape(R, n, w)
  BY <1>1, <1>2 DEF Shape
<1>4. At(R)
  BY <1>1, <1>2 DEF At
<1>5. Left(p, w, ToSet(S.c), S.ld.start, U \ {x})
  BY <1>1, KeptOn
<1>6. ~R.done
  BY <1>2 DEF Turns0
<1> QED
  BY <1>1, <1>2, <1>3, <1>4, <1>5, <1>6 DEF Kept

\* ... a lock has all of the range already, ...
LEMMA KeptLeave ==
  ASSUME NEW p, NEW w, NEW c, NEW s0, NEW e0, NEW n, NEW U, NEW S, NEW x,
         Turns0(p, w, c, s0, e0, n, U, S, x), x.pid = p, w,
         x.start <= S.ld.start, S.ld.end <= x.end
  PROVE  Kept(p, w, c, s0, e0, n, U \ {x}, Leave(S, "none"))
<1>1. /\ Shape(S, n, w) /\ x \in ToSet(S.c)
      /\ Good(p, w, ToSet(c), s0, e0, ToSet(S.c), S.ld.start, S.ld.end)
  BY TurnFacts
<1> PICK R : R = Leave(S, "none")
  OBVIOUS
<1>2. /\ State(R) /\ R.c = S.c /\ R.ld = S.ld /\ R.free = S.free
      /\ R.rv = "none" /\ R.done
  BY <1>1 DEF Shape, State, Leave
<1>3. Shape(R, n, w)
  BY <1>1, <1>2 DEF Shape
<1> QED
  BY <1>1, <1>2, <1>3 DEF Kept

\* ... or there is no record for a piece of the lock.
LEMMA KeptFail ==
  ASSUME NEW p, NEW w, NEW c, NEW s0, NEW e0, NEW n, NEW U, NEW S, NEW x,
         Turns0(p, w, c, s0, e0, n, U, S, x), x.pid = p, ~w, S.free = 0,
         x.start < S.ld.end, S.ld.end < x.end
  PROVE  Kept(p, w, c, s0, e0, n, U \ {x}, Sever(S, x))
<1>1. /\ Shape(S, n, w) /\ x \in ToSet(S.c) /\ x.start \in Nat /\ x.end \in Nat
      /\ Good(p, w, ToSet(c), s0, e0, ToSet(S.c), S.ld.start, S.ld.end)
      /\ Left(p, w, ToSet(S.c), S.ld.start, U)
  BY TurnFacts
<1> PICK R : R = Sever(S, x)
  OBVIOUS
<1>2. /\ State(R) /\ R.c = S.c /\ R.ld = S.ld /\ R.free = S.free
      /\ R.rv = "ENOSPC" /\ R.done
  <2>1. State(S)
    BY <1>1 DEF Shape
  <2> QED
    BY <2>1, SeverIs
<1>3. Shape(R, n, w)
  BY <1>1, <1>2 DEF Shape
<1>4. PICK D, D0 : D = ToSet(S.c) /\ D0 = ToSet(c)
  OBVIOUS
<1>5. PICK s \in Nat, e \in Nat : s = s0 /\ e = e0 /\ s < e /\ S.ld.start = s /\ S.ld.end = e
  BY <1>1 DEF Turns0, Good
<1>6. PICK m \in s .. e : m = IF x.start < s THEN s ELSE x.start
  BY <1>1, <1>5
<1>7. ASSUME NEW b \in Nat, s <= b, b < e
      PROVE  Covered(D, p, b) <=> Covered(D0, p, b) /\ b >= m
  <2>1. Covered(D, p, b) => Covered(D0, p, b)
    BY <1>1, <1>4 DEF Good
  <2>2. CASE b >= m
    <3>1. x.start <= b /\ b < x.end
      BY <1>1, <1>5, <1>6, <1>7, <2>2
    <3>2. Covered(D, p, b)
      BY <1>1, <1>4, <3>1 DEF Covered
    <3> QED
      BY <2>1, <2>2, <3>2
  <2>3. CASE ~(b >= m)
    <3>1. SUFFICES ASSUME NEW y \in D, y.pid = p, y.start <= b, b < y.end PROVE FALSE
      BY <2>3 DEF Covered
    <3>2. y.start \in Nat /\ y.end \in Nat
      BY <1>1, <1>4, Numbers DEF Good, Spaced
    <3>3. b < x.start
      BY <1>1, <1>6, <1>7, <2>3
    <3>4. y \in U \/ Behind(y, s, w)
      BY <1>1, <1>4, <1>5, <3>1 DEF Left
    <3>5. y # x
      BY <1>1, <3>1, <3>3
    <3>6. y \in U => y.start > x.start
      BY <3>5 DEF Turns0
    <3>7. Behind(y, s, w) => y.end <= s
      BY DEF Behind
    <3> QED
      BY <1>1, <1>7, <3>1, <3>2, <3>3, <3>4, <3>6, <3>7
  <2> QED
    BY <2>2, <2>3
<1>8. Torn(p, D0, D, s, e)
  BY <1>7 DEF Torn
<1> QED
  BY <1>1, <1>2, <1>3, <1>4, <1>5, <1>8 DEF Kept

\* A lock within the range goes.
LEMMA KeptLess ==
  ASSUME NEW p, NEW w, NEW c, NEW s0, NEW e0, NEW n, NEW U, NEW S, NEW x,
         Turns0(p, w, c, s0, e0, n, U, S, x), x.pid = p,
         NEW R, Shape(R, n, w), R.rv = "set", ToSet(R.c) = ToSet(S.c) \ {x},
         Grown(w, x, S.ld.start, S.ld.end, R.ld.start, R.ld.end),
         R.ld.start <= x.start, x.end <= R.ld.end, R.done => x.end >= R.ld.end,
         w => R.free > 0 /\ At(R)
  PROVE  Kept(p, w, c, s0, e0, n, U \ {x}, R)
<1> PICK N : N = {}
  OBVIOUS
<1>1. Pieces(p, x, N) /\ ToSet(R.c) = (ToSet(S.c) \ {x}) \cup N
  BY DEF Pieces
<1>2. x.start \in Nat /\ x.end \in Nat /\ R.ld.start \in Nat /\ R.ld.end \in Nat
  BY TurnFacts DEF Grown
<1>3. Filled(x, N, R)
  BY <1>2 DEF Filled
<1>4. Placed(w, x, N, R)
  BY DEF Placed
<1> QED
  BY <1>1, <1>3, <1>4, KeptPieces

\* It goes, and the insertion point is the lock before it.
LEMMA KeptGone ==
  ASSUME NEW p, NEW w, NEW c, NEW s0, NEW e0, NEW n, NEW U, NEW S, NEW x,
         Turns0(p, w, c, s0, e0, n, U, S, x), x.pid = p,
         x.start = S.ld.start, x.end <= S.ld.end
  PROVE  Kept(p, w, c, s0, e0, n, U \ {x}, Gone(S, x))
<1>1. /\ Shape(S, n, w) /\ S.rv = "set" /\ x \in ToSet(S.c)
      /\ S.ld.start \in Nat /\ S.ld.end \in Nat
  BY TurnFacts
<1>2. PICK R : R = Gone(S, x) /\ Turned(R, S, n, w, ToSet(S.c) \ {x}) /\ R.free > 0
               /\ R.at = prev(S.c, x)
  BY <1>1, ShapeGone
<1>3. /\ Shape(R, n, w) /\ R.rv = "set" /\ ToSet(R.c) = ToSet(S.c) \ {x} /\ R.ld = S.ld
      /\ ~R.done
  BY <1>1, <1>2 DEF Turned, Turns0
<1>4. Grown(w, x, S.ld.start, S.ld.end, R.ld.start, R.ld.end)
  BY <1>1, <1>3 DEF Grown
<1>5. At(R)
  <2>1. S.c \in Seq(Locks) /\ Sorted(S.c)
    BY <1>1 DEF Shape
  <2>2. R.ld.start = x.start
    BY <1>3
  <2> QED
    BY <1>1, <1>2, <1>3, <2>1, <2>2, AtGone
<1>6. R.ld.start <= x.start /\ x.end <= R.ld.end
  BY <1>1, <1>3
<1>7. Kept(p, w, c, s0, e0, n, U \ {x}, R)
  BY <1>2, <1>3, <1>4, <1>5, <1>6, KeptLess
<1> QED
  BY <1>2, <1>7

\* The same of a lock that starts later; it may be the last one in the range.
LEMMA KeptDropped ==
  ASSUME NEW p, NEW w, NEW c, NEW s0, NEW e0, NEW n, NEW U, NEW S, NEW x,
         Turns0(p, w, c, s0, e0, n, U, S, x), x.pid = p,
         S.ld.start < x.start, x.end <= S.ld.end
  PROVE  /\ Kept(p, w, c, s0, e0, n, U \ {x}, Dropped(S, x))
         /\ x.end = S.ld.end => Kept(p, w, c, s0, e0, n, U \ {x}, Stop(Dropped(S, x)))
<1>1. /\ Shape(S, n, w) /\ S.rv = "set" /\ x \in ToSet(S.c)
      /\ S.ld.start \in Nat /\ S.ld.end \in Nat /\ x.start \in Nat /\ x.end \in Nat
      /\ w => At(S)
  BY TurnFacts
<1>2. PICK R : R = Dropped(S, x) /\ Turned(R, S, n, w, ToSet(S.c) \ {x}) /\ R.free > 0
               /\ (S.at # x => R.at = S.at)
  BY <1>1, ShapeDropped
<1>3. /\ Shape(R, n, w) /\ R.rv = "set" /\ ToSet(R.c) = ToSet(S.c) \ {x} /\ R.ld = S.ld
      /\ ~R.done
  BY <1>1, <1>2 DEF Turned, Turns0
<1>4. Grown(w, x, S.ld.start, S.ld.end, R.ld.start, R.ld.end)
  BY <1>1, <1>3 DEF Grown
<1>5. w => At(R)
  <2> SUFFICES ASSUME w PROVE At(R)
    OBVIOUS
  <2>1. S.c \in Seq(Locks)
    BY <1>1 DEF Shape
  <2>2. R.ld.start = S.ld.start /\ At(S)
    BY <1>1, <1>3
  <2> QED
    BY <1>1, <1>2, <1>3, <2>1, <2>2, AtDropped
<1>6. R.ld.start <= x.start /\ x.end <= R.ld.end
  BY <1>1, <1>3
<1>7. Kept(p, w, c, s0, e0, n, U \ {x}, R)
  BY <1>2, <1>3, <1>4, <1>5, <1>6, KeptLess
<1>8. ASSUME x.end = S.ld.end
      PROVE  Kept(p, w, c, s0, e0, n, U \ {x}, Stop(R))
  <2>1. PICK T : /\ T = Stop(R) /\ Shape(T, n, w) /\ T.done /\ T.c = R.c /\ T.ld = R.ld
                 /\ T.rv = R.rv /\ T.at = R.at /\ T.free = R.free
    BY <1>3, ShapeStop
  <2>2. /\ T.rv = "set" /\ ToSet(T.c) = ToSet(S.c) \ {x} /\ (w => T.free > 0 /\ At(T))
        /\ Grown(w, x, S.ld.start, S.ld.end, T.ld.start, T.ld.end)
        /\ T.ld.start <= x.start /\ x.end <= T.ld.end
    BY <1>2, <1>3, <1>4, <1>5, <1>6, <2>1 DEF At
  <2>3. T.done => x.end >= T.ld.end
    BY <1>1, <1>3, <1>8, <2>1
  <2>4. Kept(p, w, c, s0, e0, n, U \ {x}, T)
    BY <2>1, <2>2, <2>3, KeptLess
  <2> QED
    BY <2>1, <2>4
<1> QED
  BY <1>2, <1>7, <1>8

\* The range is joined with a lock that ends behind it ...
LEMMA KeptJoinEnd ==
  ASSUME NEW p, NEW w, NEW c, NEW s0, NEW e0, NEW n, NEW U, NEW S, NEW x,
         Turns0(p, w, c, s0, e0, n, U, S, x), x.pid = p, w,
         S.ld.start < x.start, x.start <= S.ld.end, S.ld.end < x.end
  PROVE  Kept(p, w, c, s0, e0, n, U \ {x}, JoinEnd(S, x))
<1>1. /\ Shape(S, n, w) /\ S.rv = "set" /\ x \in ToSet(S.c)
      /\ S.ld.start \in Nat /\ S.ld.end \in Nat /\ x.start \in Nat /\ x.end \in Nat
      /\ x.start < x.end /\ At(S)
  BY TurnFacts
<1>2. PICK R : R = Dropped(S, x) /\ Turned(R, S, n, w, ToSet(S.c) \ {x}) /\ R.free > 0
               /\ (S.at # x => R.at = S.at)
  BY <1>1, ShapeDropped
<1>3. Shape(R, n, w) /\ R.rv = "set" /\ ToSet(R.c) = ToSet(S.c) \ {x} /\ R.ld = S.ld
  BY <1>1, <1>2 DEF Turned
<1>4. PICK T : /\ T = Stop(R) /\ Shape(T, n, w) /\ T.done /\ T.c = R.c /\ T.ld = R.ld
               /\ T.rv = R.rv /\ T.at = R.at /\ T.free = R.free
  BY <1>3, ShapeStop
<1>5. PICK s \in Nat, e \in Nat : s = T.ld.start /\ e = x.end
  BY <1>1, <1>3, <1>4
<1> PICK V : V = Ending(T, e)
  OBVIOUS
<1>6. /\ Shape(V, n, w) /\ V.c = T.c /\ V.ld.start = s /\ V.ld.end = e
      /\ V.rv = T.rv /\ V.at = T.at /\ V.free = T.free /\ V.done = T.done
  <2>1. Shape(T, n, w)
    BY <1>4
  <2>2. Moved(Ending(T, e), T, n, w, T.ld.start, e)
    BY <2>1, ShapeEnding
  <2> QED
    BY <1>5, <2>2 DEF Moved
<1>7. JoinEnd(S, x) = V
  BY <1>2, <1>4, <1>5 DEF JoinEnd, Ending
<1>8. /\ V.rv = "set" /\ ToSet(V.c) = ToSet(S.c) \ {x} /\ V.free > 0
      /\ V.ld.start = S.ld.start /\ V.ld.end = x.end
  BY <1>2, <1>3, <1>4, <1>5, <1>6
<1>9. At(V)
  <2>1. S.c \in Seq(Locks)
    BY <1>1 DEF Shape
  <2>2. S.at # x => V.at = S.at
    BY <1>2, <1>4, <1>6
  <2> QED
    BY <1>1, <1>8, <2>1, <2>2, AtDropped
<1>10. Grown(w, x, S.ld.start, S.ld.end, V.ld.start, V.ld.end)
  BY <1>1, <1>8 DEF Grown
<1>11. V.ld.start <= x.start /\ x.end <= V.ld.end /\ x.end >= V.ld.end
  BY <1>1, <1>8
<1>12. Kept(p, w, c, s0, e0, n, U \ {x}, V)
  BY <1>6, <1>8, <1>9, <1>10, <1>11, KeptLess
<1> QED
  BY <1>7, <1>12

\* ... or starts before it.
LEMMA KeptJoinStart ==
  ASSUME NEW p, NEW w, NEW c, NEW s0, NEW e0, NEW n, NEW U, NEW S, NEW x,
         Turns0(p, w, c, s0, e0, n, U, S, x), x.pid = p, w,
         x.start < S.ld.start, S.ld.start <= x.end, x.end < S.ld.end
  PROVE  Kept(p, w, c, s0, e0, n, U \ {x}, JoinStart(S, x))
<1>1. /\ Shape(S, n, w) /\ S.rv = "set" /\ x \in ToSet(S.c)
      /\ S.ld.start \in Nat /\ S.ld.end \in Nat /\ x.start \in Nat /\ x.end \in Nat
      /\ x.start < x.end
  BY TurnFacts
<1>2. PICK T : T = Gone(S, x) /\ Turned(T, S, n, w, ToSet(S.c) \ {x}) /\ T.free > 0
               /\ T.at = prev(S.c, x)
  BY <1>1, ShapeGone
<1>3. /\ Shape(T, n, w) /\ T.rv = "set" /\ ToSet(T.c) = ToSet(S.c) \ {x} /\ T.ld = S.ld
      /\ ~T.done
  BY <1>1, <1>2 DEF Turned, Turns0
<1>4. PICK s \in Nat, e \in Nat : s = x.start /\ e = T.ld.end
  BY <1>1, <1>3
<1> PICK V : V = Starting(T, s)
  OBVIOUS
<1>5. /\ Shape(V, n, w) /\ V.c = T.c /\ V.ld.start = s /\ V.ld.end = e
      /\ V.rv = T.rv /\ V.at = T.at /\ V.free = T.free /\ V.done = T.done
  <2>1. Shape(T, n, w)
    BY <1>3
  <2>2. Moved(Starting(T, s), T, n, w, s, T.ld.end)
    BY <2>1, ShapeStarting
  <2> QED
    BY <1>4, <2>2 DEF Moved
<1>6. JoinStart(S, x) = V
  BY <1>2, <1>4 DEF JoinStart, Starting
<1>7. /\ V.rv = "set" /\ ToSet(V.c) = ToSet(S.c) \ {x} /\ V.free > 0 /\ ~V.done
      /\ V.ld.start = x.start /\ V.ld.end = S.ld.end
  BY <1>2, <1>3, <1>4, <1>5
<1>8. At(V)
  <2>1. S.c \in Seq(Locks) /\ Sorted(S.c)
    BY <1>1 DEF Shape
  <2>2. V.at = prev(S.c, x)
    BY <1>2, <1>5
  <2> QED
    BY <1>1, <1>7, <2>1, <2>2, AtGone
<1>9. Grown(w, x, S.ld.start, S.ld.end, V.ld.start, V.ld.end)
  BY <1>1, <1>7 DEF Grown
<1>10. V.ld.start <= x.start /\ x.end <= V.ld.end
  BY <1>1, <1>7
<1>11. Kept(p, w, c, s0, e0, n, U \ {x}, V)
  BY <1>5, <1>7, <1>8, <1>9, <1>10, KeptLess
<1> QED
  BY <1>6, <1>11

\* A lock is cut where the range to be unlocked starts.
LEMMA KeptCut ==
  ASSUME NEW p, NEW w, NEW c, NEW s0, NEW e0, NEW n, NEW U, NEW S, NEW x,
         Turns0(p, w, c, s0, e0, n, U, S, x), x.pid = p, ~w,
         x.start < S.ld.start, S.ld.start <= x.end, x.end <= S.ld.end
  PROVE  Kept(p, w, c, s0, e0, n, U \ {x}, Cut(S, x))
<1>1. /\ Shape(S, n, w) /\ S.rv = "set" /\ x \in ToSet(S.c)
      /\ S.ld.start \in Nat /\ S.ld.end \in Nat /\ x.start \in Nat /\ x.end \in Nat
  BY TurnFacts
<1>2. PICK y \in Locks :
        /\ y.pid = x.pid /\ y.start = x.start /\ y.end = S.ld.start
        /\ Turned(Cut(S, x), S, n, w, (ToSet(S.c) \ {x}) \cup {y})
  BY <1>1, ShapeCut
<1>3. PICK R : R = Cut(S, x) /\ Turned(R, S, n, w, (ToSet(S.c) \ {x}) \cup {y})
  BY <1>2
<1>4. PICK N : N = {y}
  OBVIOUS
<1>5. /\ Shape(R, n, w) /\ R.rv = "set" /\ ToSet(R.c) = (ToSet(S.c) \ {x}) \cup N
      /\ R.ld = S.ld /\ ~R.done
  BY <1>1, <1>3, <1>4 DEF Turned, Turns0
<1>6. Pieces(p, x, N)
  BY <1>1, <1>2, <1>4 DEF Pieces
<1>7. Grown(w, x, S.ld.start, S.ld.end, R.ld.start, R.ld.end)
  BY <1>1, <1>5 DEF Grown
<1>8. Filled(x, N, R)
  BY <1>1, <1>2, <1>4, <1>5 DEF Filled
<1>9. Placed(w, x, N, R)
  <2>1. Behind(y, R.ld.start, w)
    BY <1>1, <1>2, <1>5 DEF Behind
  <2> QED
    BY <1>4, <1>5, <2>1 DEF Placed
<1>10. Kept(p, w, c, s0, e0, n, U \ {x}, R)
  BY <1>5, <1>6, <1>7, <1>8, <1>9, KeptPieces
<1> QED
  BY <1>3, <1>10

\* The part of a lock behind the range to be unlocked becomes a lock; the lock
\* itself goes, or keeps the part before.
Severing(p, w, c, s0, e0, n, V, S, x) ==
  /\ Sever(S, x).rv = "set"
  /\ S.ld.start <= x.start =>
       /\ Kept(p, w, c, s0, e0, n, V, Stop(Dropped(Sever(S, x), x)))
       /\ Kept(p, w, c, s0, e0, n, V, Stop(Gone(Sever(S, x), x)))
  /\ x.start < S.ld.start => Kept(p, w, c, s0, e0, n, V, Stop(Cut(Sever(S, x), x)))

\* A piece of it is severed, and then it goes or is shortened.
LEMMA KeptSevered ==
  ASSUME NEW p, NEW w, NEW c, NEW s0, NEW e0, NEW n, NEW U, NEW S, NEW x,
         Turns0(p, w, c, s0, e0, n, U, S, x), x.pid = p, ~w, S.free # 0,
         x.start < S.ld.end, S.ld.end < x.end
  PROVE  Severing(p, w, c, s0, e0, n, U \ {x}, S, x)
<1>1. /\ Shape(S, n, w) /\ S.rv = "set" /\ x \in ToSet(S.c) /\ Spaced(ToSet(S.c))
      /\ S.ld.start \in Nat /\ S.ld.end \in Nat /\ x.start \in Nat /\ x.end \in Nat
      /\ S.ld.start < S.ld.end
  BY TurnFacts
<1>2. PICK y \in Locks :
        /\ y.pid = x.pid /\ y.start = S.ld.end /\ y.end = x.end
        /\ Turned(Sever(S, x), S, n, w, ToSet(S.c) \cup {y})
  BY <1>1, ShapeSever
<1>3. PICK T : T = Sever(S, x) /\ Turned(T, S, n, w, ToSet(S.c) \cup {y})
  BY <1>2
<1>4. /\ Shape(T, n, w) /\ T.rv = "set" /\ ToSet(T.c) = ToSet(S.c) \cup {y} /\ T.ld = S.ld
      /\ x \in ToSet(T.c)
  BY <1>1, <1>3 DEF Turned
<1>5. y # x
  BY <1>1, <1>2
<1>6. ASSUME NEW V, NEW N, Turned(V, T, n, w, (ToSet(S.c) \ {x}) \cup N),
             Pieces(p, x, N), y \in N,
             \A b \in Nat : x.start <= b /\ b < x.end =>
                (S.ld.start <= b /\ b < S.ld.end) \/ \E m \in N : m.start <= b /\ b < m.end,
             \A m \in N : Behind(m, S.ld.start, w) \/ Beyond(m, S.ld.end, w)
      PROVE  Kept(p, w, c, s0, e0, n, U \ {x}, Stop(V))
  <2>1. /\ Shape(V, n, w) /\ V.rv = "set" /\ ToSet(V.c) = (ToSet(S.c) \ {x}) \cup N
        /\ V.ld = S.ld
    BY <1>4, <1>6 DEF Turned
  <2>2. PICK R : /\ R = Stop(V) /\ Shape(R, n, w) /\ R.done /\ R.c = V.c /\ R.ld = V.ld
                 /\ R.rv = V.rv
    BY <2>1, ShapeStop
  <2>3. R.rv = "set" /\ ToSet(R.c) = (ToSet(S.c) \ {x}) \cup N /\ R.ld = S.ld
    BY <2>1, <2>2
  <2>4. Grown(w, x, S.ld.start, S.ld.end, R.ld.start, R.ld.end)
    BY <1>1, <2>3 DEF Grown
  <2>5. Filled(x, N, R)
    BY <1>6, <2>3 DEF Filled
  <2>6. Placed(w, x, N, R)
    BY <1>1, <1>6, <2>2, <2>3 DEF Placed
  <2>7. Kept(p, w, c, s0, e0, n, U \ {x}, R)
    BY <1>6, <2>2, <2>3, <2>4, <2>5, <2>6, KeptPieces
  <2> QED
    BY <2>2, <2>7
<1>7. ASSUME S.ld.start <= x.start
      PROVE  /\ Kept(p, w, c, s0, e0, n, U \ {x}, Stop(Dropped(T, x)))
             /\ Kept(p, w, c, s0, e0, n, U \ {x}, Stop(Gone(T, x)))
  <2>1. PICK N : N = {y}
    OBVIOUS
  <2>2. ToSet(T.c) \ {x} = (ToSet(S.c) \ {x}) \cup N
    BY <1>4, <1>5, <2>1
  <2>3. Pieces(p, x, N) /\ y \in N
    BY <1>1, <1>2, <2>1 DEF Pieces
  <2>4. \A b \in Nat : x.start <= b /\ b < x.end =>
           (S.ld.start <= b /\ b < S.ld.end) \/ \E m \in N : m.start <= b /\ b < m.end
    BY <1>1, <1>2, <1>7, <2>1
  <2>5. \A m \in N : Behind(m, S.ld.start, w) \/ Beyond(m, S.ld.end, w)
    BY <1>1, <1>2, <2>1 DEF Beyond
  <2>6. Turned(Dropped(T, x), T, n, w, (ToSet(S.c) \ {x}) \cup N)
    BY <1>4, <2>2, ShapeDropped
  <2>7. Turned(Gone(T, x), T, n, w, (ToSet(S.c) \ {x}) \cup N)
    BY <1>4, <2>2, ShapeGone
  <2> QED
    BY <1>6, <2>3, <2>4, <2>5, <2>6, <2>7
<1>8. ASSUME x.start < S.ld.start
      PROVE  Kept(p, w, c, s0, e0, n, U \ {x}, Stop(Cut(T, x)))
  <2>1. PICK z \in Locks :
          /\ z.pid = x.pid /\ z.start = x.start /\ z.end = S.ld.start
          /\ Turned(Cut(T, x), T, n, w, (ToSet(T.c) \ {x}) \cup {z})
    BY <1>4, ShapeCut
  <2>2. PICK N : N = {y, z}
    OBVIOUS
  <2>3. (ToSet(T.c) \ {x}) \cup {z} = (ToSet(S.c) \ {x}) \cup N
    BY <1>4, <1>5, <2>2
  <2>4. Pieces(p, x, N) /\ y \in N
    <3>1. Before(z, y)
      BY <1>1, <1>2, <2>1 DEF Before
    <3>2. \A m \in N : m.pid = p /\ x.start <= m.start /\ m.start < m.end /\ m.end <= x.end
      BY <1>1, <1>2, <1>8, <2>1, <2>2
    <3> QED
      BY <2>2, <3>1, <3>2 DEF Pieces
  <2>5. \A b \in Nat : x.start <= b /\ b < x.end =>
           (S.ld.start <= b /\ b < S.ld.end) \/ \E m \in N : m.start <= b /\ b < m.end
    BY <1>1, <1>2, <2>1, <2>2
  <2>6. \A m \in N : Behind(m, S.ld.start, w) \/ Beyond(m, S.ld.end, w)
    BY <1>1, <1>2, <2>1, <2>2 DEF Beyond, Behind
  <2>7. Turned(Cut(T, x), T, n, w, (ToSet(S.c) \ {x}) \cup N)
    BY <2>1, <2>3
  <2> QED
    BY <1>6, <2>4, <2>5, <2>6, <2>7
<1> QED
  BY <1>3, <1>4, <1>7, <1>8 DEF Severing

\* A turn for a lock of the caller, when a lock is to be set ...
LEMMA KeptSetting ==
  ASSUME Types \subseteq {"WR"},
         NEW p, NEW w, NEW c, NEW s0, NEW e0, NEW n, NEW U, NEW S, NEW x,
         Turns0(p, w, c, s0, e0, n, U, S, x), x.pid = p, w
  PROVE  Kept(p, w, c, s0, e0, n, U \ {x}, Own(S, x))
<1>1. /\ Shape(S, n, w) /\ x \in Locks /\ x.start \in Nat /\ x.end \in Nat
      /\ x.start < x.end
      /\ S.ld.start \in Nat /\ S.ld.end \in Nat /\ S.ld.start < S.ld.end
  BY TurnFacts
<1>2. PICK s \in Nat, e \in Nat : s = S.ld.start /\ e = S.ld.end /\ s < e
  BY <1>1
<1>3. S.ld.type = "WR" /\ x.type = "WR"
  BY <1>1 DEF Shape, Locks
<1>4. PICK same : same = (S.ld.type = x.type)
  OBVIOUS
<1>5. same
  BY <1>3, <1>4
<1>6. PICK cut : cut = Sever(S, x)
  OBVIOUS
<1>7. /\ e < x.start => Own(S, x) = Stop(S)
      /\ s < x.start /\ x.start <= e /\ e < x.end => Own(S, x) = JoinEnd(S, x)
      /\ e > x.start /\ s = x.start /\ e > x.end => Own(S, x) = Gone(S, x)
      /\ s < x.start /\ x.start < e /\ e >= x.end =>
           Own(S, x) = IF e = x.end THEN Stop(Dropped(S, x)) ELSE Dropped(S, x)
      /\ x.start <= s /\ e <= x.end => Own(S, x) = Leave(S, "none")
      /\ x.start < s /\ s <= x.end /\ e > x.end => Own(S, x) = JoinStart(S, x)
      /\ x.end < s => Own(S, x) = [S EXCEPT !.at = x]
  BY <1>1, <1>2, <1>4, <1>5, <1>6, OwnIs
<1>8. CASE e < x.start
  <2>1. Beyond(x, S.ld.end, w)
    BY <1>1, <1>2, <1>8 DEF Beyond
  <2>2. Kept(p, w, c, s0, e0, n, U \ {x}, Stop(S))
    BY <2>1, KeptStop
  <2>3. Own(S, x) = Stop(S)
    BY <1>7, <1>8
  <2> QED
    BY <2>2, <2>3
<1>9. CASE s < x.start /\ x.start <= e /\ e < x.end
  <2>1. Kept(p, w, c, s0, e0, n, U \ {x}, JoinEnd(S, x))
    BY <1>2, <1>9, KeptJoinEnd
  <2>2. Own(S, x) = JoinEnd(S, x)
    BY <1>7, <1>9
  <2> QED
    BY <2>1, <2>2
<1>10. CASE s = x.start /\ e > x.end
  <2>1. e > x.start /\ x.end <= e
    BY <1>1, <1>2, <1>10
  <2>2. Kept(p, w, c, s0, e0, n, U \ {x}, Gone(S, x))
    BY <1>2, <1>10, <2>1, KeptGone
  <2>3. Own(S, x) = Gone(S, x)
    BY <1>7, <1>10, <2>1
  <2> QED
    BY <2>2, <2>3
<1>11. CASE s < x.start /\ e >= x.end
  <2>1. x.start < e /\ x.end <= e
    BY <1>1, <1>11
  <2>2. /\ Kept(p, w, c, s0, e0, n, U \ {x}, Dropped(S, x))
        /\ x.end = e => Kept(p, w, c, s0, e0, n, U \ {x}, Stop(Dropped(S, x)))
    BY <1>2, <1>11, <2>1, KeptDropped
  <2> QED
    BY <1>7, <1>11, <2>1, <2>2
<1>12. CASE x.start <= s /\ e <= x.end
  <2>1. Kept(p, w, c, s0, e0, n, U \ {x}, Leave(S, "none"))
    BY <1>2, <1>12, KeptLeave
  <2>2. Own(S, x) = Leave(S, "none")
    BY <1>7, <1>12
  <2> QED
    BY <2>1, <2>2
<1>13. CASE x.start < s /\ s <= x.end /\ e > x.end
  <2>1. x.end < e
    BY <1>1, <1>13
  <2>2. Kept(p, w, c, s0, e0, n, U \ {x}, JoinStart(S, x))
    BY <1>2, <1>13, <2>1, KeptJoinStart
  <2>3. Own(S, x) = JoinStart(S, x)
    BY <1>7, <1>13
  <2> QED
    BY <2>2, <2>3
<1>14. CASE x.end < s
  <2>1. Kept(p, w, c, s0, e0, n, U \ {x}, [S EXCEPT !.at = x])
    BY <1>2, <1>14, KeptAt
  <2>2. Own(S, x) = [S EXCEPT !.at = x]
    BY <1>7, <1>14
  <2> QED
    BY <2>1, <2>2
<1>15. \/ e < x.start
       \/ s < x.start /\ x.start <= e /\ e < x.end
       \/ s = x.start /\ e > x.end
       \/ s < x.start /\ e >= x.end
       \/ x.start <= s /\ e <= x.end
       \/ x.start < s /\ s <= x.end /\ e > x.end
       \/ x.end < s
  BY <1>1
<1> QED
  BY <1>8, <1>9, <1>10, <1>11, <1>12, <1>13, <1>14, <1>15

\* ... and when one is to be removed.
LEMMA KeptRemoving ==
  ASSUME Types \subseteq {"WR"},
         NEW p, NEW w, NEW c, NEW s0, NEW e0, NEW n, NEW U, NEW S, NEW x,
         Turns0(p, w, c, s0, e0, n, U, S, x), x.pid = p, ~w
  PROVE  Kept(p, w, c, s0, e0, n, U \ {x}, Own(S, x))
<1>1. /\ Shape(S, n, w) /\ x \in Locks /\ x.start \in Nat /\ x.end \in Nat
      /\ x.start < x.end /\ S.rv = "set"
      /\ S.ld.start \in Nat /\ S.ld.end \in Nat /\ S.ld.start < S.ld.end
  BY TurnFacts
<1>2. PICK s \in Nat, e \in Nat : s = S.ld.start /\ e = S.ld.end /\ s < e
  BY <1>1
<1>3. S.ld.type = "UN" /\ x.type = "WR"
  BY <1>1 DEF Shape, Locks
<1>4. PICK same : same = (S.ld.type = x.type)
  OBVIOUS
<1>5. ~same
  BY <1>3, <1>4
<1>6. PICK cut : cut = Sever(S, x)
  OBVIOUS
<1>7. /\ e <= x.start => Own(S, x) = Stop(S)
      /\ e > x.start /\ s = x.start /\ e >= x.end => Own(S, x) = Gone(S, x)
      /\ s < x.start /\ x.start < e /\ e >= x.end => Own(S, x) = Dropped(S, x)
      /\ s < x.start /\ x.start < e /\ e < x.end =>
           Own(S, x) = IF cut.rv # "set" THEN cut ELSE Stop(Dropped(cut, x))
      /\ x.start <= s /\ e < x.end =>
           Own(S, x) = IF cut.rv # "set" THEN cut
                       ELSE Stop(IF x.start < s THEN Cut(cut, x) ELSE Gone(cut, x))
      /\ x.start < s /\ s <= x.end /\ e >= x.end => Own(S, x) = Cut(S, x)
      /\ x.end < s => Own(S, x) = [S EXCEPT !.at = x]
  BY <1>1, <1>2, <1>4, <1>5, <1>6, OwnIs
<1>8. CASE e <= x.start
  <2>1. Beyond(x, S.ld.end, w)
    BY <1>1, <1>2, <1>8 DEF Beyond
  <2>2. Kept(p, w, c, s0, e0, n, U \ {x}, Stop(S))
    BY <2>1, KeptStop
  <2>3. Own(S, x) = Stop(S)
    BY <1>7, <1>8
  <2> QED
    BY <2>2, <2>3
<1>9. CASE s = x.start /\ e >= x.end
  <2>1. e > x.start /\ x.end <= e
    BY <1>1, <1>2, <1>9
  <2>2. Kept(p, w, c, s0, e0, n, U \ {x}, Gone(S, x))
    BY <1>2, <1>9, <2>1, KeptGone
  <2>3. Own(S, x) = Gone(S, x)
    BY <1>7, <1>9, <2>1
  <2> QED
    BY <2>2, <2>3
<1>10. CASE s < x.start /\ e >= x.end
  <2>1. x.start < e /\ x.end <= e
    BY <1>1, <1>10
  <2>2. Kept(p, w, c, s0, e0, n, U \ {x}, Dropped(S, x))
    BY <1>2, <1>10, <2>1, KeptDropped
  <2> QED
    BY <1>7, <1>10, <2>1, <2>2
<1>11. CASE x.start < e /\ e < x.end
  <2>1. CASE S.free = 0
    <3>1. Sever(S, x).rv = "ENOSPC"
      BY <1>1, <2>1, SeverIs DEF Shape
    <3>2. Own(S, x) = cut
      BY <1>1, <1>6, <1>7, <1>11, <3>1
    <3>3. x.start < S.ld.end /\ S.ld.end < x.end
      BY <1>2, <1>11
    <3>4. Kept(p, w, c, s0, e0, n, U \ {x}, Sever(S, x))
      BY <2>1, <3>3, KeptFail
    <3> QED
      BY <1>6, <3>2, <3>4
  <2>2. CASE S.free # 0
    <3>1. /\ Sever(S, x).rv = "set"
          /\ S.ld.start <= x.start =>
               /\ Kept(p, w, c, s0, e0, n, U \ {x}, Stop(Dropped(Sever(S, x), x)))
               /\ Kept(p, w, c, s0, e0, n, U \ {x}, Stop(Gone(Sever(S, x), x)))
          /\ x.start < S.ld.start =>
               Kept(p, w, c, s0, e0, n, U \ {x}, Stop(Cut(Sever(S, x), x)))
      <4>1. x.start < S.ld.end /\ S.ld.end < x.end
        BY <1>2, <1>11
      <4>2. Severing(p, w, c, s0, e0, n, U \ {x}, S, x)
        BY <2>2, <4>1, KeptSevered
      <4> QED
        BY <4>2 DEF Severing
    <3>2. CASE s < x.start
      <4>1. Own(S, x) = Stop(Dropped(cut, x)) /\ s <= x.start
        BY <1>1, <1>6, <1>7, <1>11, <3>1, <3>2
      <4> QED
        BY <1>2, <1>6, <3>1, <4>1
    <3>3. CASE s = x.start
      <4>1. Own(S, x) = Stop(Gone(cut, x)) /\ s <= x.start
        BY <1>1, <1>6, <1>7, <1>11, <3>1, <3>3
      <4> QED
        BY <1>2, <1>6, <3>1, <4>1
    <3>4. CASE x.start < s
      <4>1. Own(S, x) = Stop(Cut(cut, x))
        BY <1>1, <1>6, <1>7, <1>11, <3>1, <3>4
      <4> QED
        BY <1>2, <1>6, <3>1, <3>4, <4>1
    <3>5. s < x.start \/ s = x.start \/ x.start < s
      BY <1>1
    <3> QED
      BY <3>2, <3>3, <3>4, <3>5
  <2> QED
    BY <2>1, <2>2
<1>12. CASE x.start < s /\ s <= x.end /\ e >= x.end
  <2>1. x.end <= e
    BY <1>1, <1>12
  <2>2. Kept(p, w, c, s0, e0, n, U \ {x}, Cut(S, x))
    BY <1>2, <1>12, <2>1, KeptCut
  <2>3. Own(S, x) = Cut(S, x)
    BY <1>7, <1>12
  <2> QED
    BY <2>2, <2>3
<1>13. CASE x.end < s
  <2>1. Kept(p, w, c, s0, e0, n, U \ {x}, [S EXCEPT !.at = x])
    BY <1>2, <1>13, KeptAt
  <2>2. Own(S, x) = [S EXCEPT !.at = x]
    BY <1>7, <1>13
  <2> QED
    BY <2>1, <2>2
<1>14. \/ e <= x.start
       \/ s = x.start /\ e >= x.end
       \/ s < x.start /\ e >= x.end
       \/ x.start < e /\ e < x.end
       \/ x.start < s /\ s <= x.end /\ e >= x.end
       \/ x.end < s
  BY <1>1
<1> QED
  BY <1>8, <1>9, <1>10, <1>11, <1>12, <1>13, <1>14

\* A turn of the loop.
LEMMA KeptTurn ==
  ASSUME Types \subseteq {"WR"},
         NEW p, NEW w, NEW c, NEW s0, NEW e0, NEW n, NEW U, NEW S, NEW x,
         Turns0(p, w, c, s0, e0, n, U, S, x)
  PROVE  Kept(p, w, c, s0, e0, n, U \ {x}, Adjust(p, S, x))
<1>1. w \in BOOLEAN /\ Kept(p, w, c, s0, e0, n, U, S) /\ ~S.done
  BY DEF Turns0
<1>2. S.ld.end \in Nat /\ x.start \in Nat
  BY TurnFacts
<1>3. CASE x.pid = p
  BY <1>1, <1>3, KeptSetting, KeptRemoving DEF Adjust
<1>4. CASE x.pid # p /\ x.start > S.ld.end
  <2>1. Beyond(x, S.ld.end, w)
    BY <1>2, <1>4 DEF Beyond
  <2> QED
    BY <1>1, <1>4, <2>1, KeptStop DEF Adjust
<1>5. CASE x.pid # p /\ ~(x.start > S.ld.end)
  <2>1. Left(p, w, ToSet(S.c), S.ld.start, U \ {x})
    BY <1>5, KeptOn
  <2>2. Adjust(p, S, x) = S
    BY <1>1, <1>5 DEF Adjust
  <2>3. Kept(p, w, c, s0, e0, n, U \ {x}, S)
    BY <1>1, <2>1 DEF Kept
  <2> QED
    BY <2>2, <2>3
<1> QED
  BY <1>3, <1>4, <1>5

\* The locks from place k of a chain on.
Rest(c, k) == {c[j] : j \in k .. Len(c)}

\* Place by place, the locks from k on get fewer.
LEMMA RestIs ==
  ASSUME NEW c \in Seq(Locks), Sorted(c)
  PROVE  /\ Rest(c, Len(c) + 1) = {}
         /\ \A k \in 1 .. Len(c) : /\ c[k] \in Rest(c, k)
                                   /\ Rest(c, k) \ {c[k]} = Rest(c, k + 1)
                                   /\ \A u \in Rest(c, k) : u # c[k] => u.start > c[k].start
<1>1. Len(c) \in Nat
  BY Members
<1>2. Rest(c, Len(c) + 1) = {}
  BY <1>1 DEF Rest
<1>3. ASSUME NEW k \in 1 .. Len(c)
      PROVE  /\ c[k] \in Rest(c, k)
             /\ Rest(c, k) \ {c[k]} = Rest(c, k + 1)
             /\ \A u \in Rest(c, k) : u # c[k] => u.start > c[k].start
  <2>1. k \in k .. Len(c)
    BY <1>1
  <2>2. c[k] \in Rest(c, k)
    BY <2>1 DEF Rest
  <2>3. ASSUME NEW u \in Rest(c, k), u # c[k]
        PROVE  u \in Rest(c, k + 1) /\ u.start > c[k].start
    <3>1. PICK j \in k .. Len(c) : u = c[j]
      BY DEF Rest
    <3>2. j # k
      BY <2>3, <3>1
    <3>3. j \in k + 1 .. Len(c) /\ j \in 1 .. Len(c) /\ k < j
      BY <1>1, <3>2
    <3>4. u \in Rest(c, k + 1)
      BY <3>1, <3>3 DEF Rest
    <3>5. c[k].start < c[j].start
      BY <3>3 DEF Sorted
    <3>6. c[k].start \in Nat /\ c[j].start \in Nat
      BY <3>3, Members
    <3> QED
      BY <3>1, <3>4, <3>5, <3>6
  <2>4. ASSUME NEW u \in Rest(c, k + 1)
        PROVE  u \in Rest(c, k) /\ u # c[k]
    <3>1. PICK j \in k + 1 .. Len(c) : u = c[j]
      BY DEF Rest
    <3>2. j \in k .. Len(c) /\ j \in 1 .. Len(c) /\ j # k
      BY <1>1
    <3>3. c[j] # c[k]
      BY <3>2, OneEach
    <3> QED
      BY <3>1, <3>2, <3>3 DEF Rest
  <2> QED
    BY <2>2, <2>3, <2>4
<1> QED
  BY <1>2, <1>3

\* The loop, from place k of the chain on.
LEMMA KeptLoop ==
  ASSUME Types \subseteq {"WR"},
         NEW p, NEW w \in BOOLEAN, NEW c \in Seq(Locks), Sorted(c),
         NEW s0 \in Nat, NEW e0 \in Nat, s0 < e0, NEW n,
         NEW k \in 1 .. Len(c) + 1, NEW S0, Kept(p, w, c, s0, e0, n, Rest(c, k), S0),
         NEW h, Turning(p, S0, c, k, h)
  PROVE  Kept(p, w, c, s0, e0, n, {}, h[Len(c) - k + 1])
<1> DEFINE Holds(i) == Kept(p, w, c, s0, e0, n, Rest(c, k + i), h[i])
           l == Len(c) - k + 1
           Bad == {i \in 0 .. l : ~Holds(i)}
<1>1. Len(c) \in Nat /\ l \in Nat
  BY Members
<1>2. \A i \in 0 .. l : Holds(i)
  <2>1. SUFFICES ASSUME Bad # {} PROVE FALSE
    OBVIOUS
  <2>2. Bad \in SUBSET Nat
    BY <1>1
  <2>3. PICK i \in Bad : \A j \in Bad : i <= j
    BY <2>1, <2>2, LeastNat
  <2>4. i \in 0 .. l /\ ~Holds(i)
    OBVIOUS
  <2>5. i # 0
    <3>1. h[0] = S0 /\ k + 0 = k
      BY DEF Turning
    <3> QED
      BY <2>4, <3>1
  <2>6. i \in 1 .. l /\ i - 1 \in 0 .. l /\ ~(i <= i - 1)
    BY <1>1, <2>4, <2>5
  <2>7. Holds(i - 1)
    BY <2>3, <2>6
  <2>8. PICK j \in 1 .. Len(c) : j = k + i - 1
    BY <1>1, <2>6
  <2>9. j = k + (i - 1) /\ j + 1 = k + i
    BY <1>1, <2>6, <2>8
  <2>10. PICK S : S = h[i - 1]
    OBVIOUS
  <2>11. PICK x : x = c[j]
    OBVIOUS
  <2>12. PICK U : U = Rest(c, j) /\ x \in U /\ U \ {x} = Rest(c, j + 1)
                  /\ \A u \in U : u # x => u.start > x.start
    BY <2>11, RestIs
  <2>13. Kept(p, w, c, s0, e0, n, U, S)
    BY <2>7, <2>9, <2>10, <2>12
  <2>14. h[i] = Adjust(p, S, x)
    BY <2>6, <2>8, <2>10, <2>11 DEF Turning
  <2>15. Kept(p, w, c, s0, e0, n, U \ {x}, Adjust(p, S, x))
    <3>1. CASE S.done
      <4>1. Adjust(p, S, x) = S
        BY <3>1 DEF Adjust
      <4>2. Kept(p, w, c, s0, e0, n, U \ {x}, S)
        BY <2>13, <3>1 DEF Kept
      <4> QED
        BY <4>1, <4>2
    <3>2. CASE ~S.done
      <4>1. Turns0(p, w, c, s0, e0, n, U, S, x)
        BY <2>12, <2>13, <3>2 DEF Turns0
      <4> QED
        BY <4>1, KeptTurn
    <3> QED
      BY <3>1, <3>2
  <2>16. Holds(i)
    BY <2>9, <2>12, <2>14, <2>15
  <2> QED
    BY <2>4, <2>16
<1>3. l \in 0 .. l /\ k + l = Len(c) + 1
  BY <1>1
<1>4. Rest(c, k + l) = {}
  BY <1>3, RestIs
<1>5. Holds(l)
  BY <1>2, <1>3
<1> QED
  BY <1>4, <1>5

\* What a call has to find: the chain is good, no lock of another process is in
\* the way of one to be set, the loop starts behind the last lock before it,
\* and skips no lock of the caller that matters.
Ready(p, w, c, s, e, at) ==
  /\ Sorted(c) /\ Spaced(ToSet(c))
  /\ w => \A x \in ToSet(c) : x.pid # p => x.end <= s \/ x.start >= e
  /\ w => \/ at = NoLock /\ \A z \in ToSet(c) : z.start >= s
          \/ at \in ToSet(c) /\ at.start < s
  /\ \A j \in 1 .. Len(c) : j < FromAt(c, at) /\ c[j].pid = p => Behind(c[j], s, w)

\* The request of the loop.
Asked(w, s, e) == [type |-> IF w THEN "WR" ELSE "UN", start |-> s, end |-> e]

\* The loop starts with its invariant.
LEMMA KeptFirst ==
  ASSUME NEW p, NEW w \in BOOLEAN, NEW c \in Seq(Locks),
         NEW s \in Nat, NEW e \in Nat, s < e, NEW at, Ready(p, w, c, s, e, at),
         NEW k \in 1 .. Len(c) + 1, k = FromAt(c, at), NEW free \in Nat
  PROVE  Kept(p, w, c, s, e, Len(c) + free, Rest(c, k), Start0(c, at, Asked(w, s, e), free))
<1> PICK ld : ld = Asked(w, s, e)
  OBVIOUS
<1> PICK S : S = Start0(c, at, ld, free)
  OBVIOUS
<1>1. ld.type = (IF w THEN "WR" ELSE "UN") /\ ld.start = s /\ ld.end = e
      /\ ld = [type |-> ld.type, start |-> ld.start, end |-> ld.end]
  BY DEF Asked
<1>2. /\ State(S) /\ S.c = c /\ S.ld = ld /\ S.at = at /\ S.free = free /\ S.rv = "set"
      /\ S.done = FALSE
  BY <1>1 DEF Start0, State
<1>3. Shape(S, Len(c) + free, w)
  BY <1>1, <1>2 DEF Shape, Ready
<1>4. Good(p, w, ToSet(c), s, e, ToSet(c), s, e)
  BY DEF Good, Ready
<1>5. w => At(S)
  BY <1>1, <1>2 DEF At, Ready
<1>6. Left(p, w, ToSet(c), s, Rest(c, k))
  <2>1. Len(c) \in Nat
    BY Members
  <2>2. Rest(c, k) \subseteq ToSet(c)
    <3> SUFFICES ASSUME NEW u \in Rest(c, k) PROVE u \in ToSet(c)
      OBVIOUS
    <3>1. PICK j \in k .. Len(c) : u = c[j]
      BY DEF Rest
    <3>2. j \in 1 .. Len(c)
      BY <2>1
    <3> QED
      BY <3>1, <3>2, Members
  <2>3. ASSUME NEW x \in ToSet(c), x.pid = p
        PROVE  x \in Rest(c, k) \/ Behind(x, s, w)
    <3>1. PICK j \in 1 .. Len(c) : x = c[j]
      BY Members
    <3>2. CASE j < k
      BY <2>3, <3>1, <3>2 DEF Ready
    <3>3. CASE ~(j < k)
      <4>1. j \in k .. Len(c)
        BY <2>1, <3>3
      <4> QED
        BY <3>1, <4>1 DEF Rest
    <3> QED
      BY <3>2, <3>3
  <2> QED
    BY <2>2, <2>3 DEF Left
<1> QED
  BY <1>1, <1>2, <1>3, <1>4, <1>5, <1>6 DEF Kept

\* flckadj, called by p with locks D0 to set (w) or remove a lock on [s, e),
\* leaves locks D and returns rv: the locks of others stay, and p has locked what
\* it had, but for the range.
Result(p, w, D0, s, e, D, rv) ==
  /\ \A x : x.pid # p => (x \in D <=> x \in D0)
  /\ \A b \in Nat : ~(s <= b /\ b < e) => (Covered(D, p, b) <=> Covered(D0, p, b))
  /\ \/ /\ rv = "none"
        /\ \A b \in Nat : s <= b /\ b < e => (Covered(D, p, b) <=> w)
     \/ rv = "ENOSPC" /\ Torn(p, D0, D, s, e)

\* Nothing is done, or the lock was there.
LEMMA ResultSame ==
  ASSUME NEW p, NEW w \in BOOLEAN, NEW D0, NEW s \in Nat, NEW e \in Nat, s < e
  PROVE  Result(p, w, D0, s, e, D0, "ENOSPC")
<1>1. s \in s .. e /\ \A b \in Nat : s <= b => b >= s
  OBVIOUS
<1>2. Torn(p, D0, D0, s, e)
  BY <1>1 DEF Torn
<1> QED
  BY <1>2 DEF Result

\* The whole range was locked already.
LEMMA ResultFound ==
  ASSUME NEW p, NEW w \in BOOLEAN, w, NEW D0, NEW s0 \in Nat, NEW e0 \in Nat,
         NEW D, NEW s, NEW e, Good(p, w, D0, s0, e0, D, s, e),
         NEW x \in D, x.pid = p, x.start <= s, e <= x.end
  PROVE  Result(p, w, D0, s0, e0, D, "none")
<1>1. s \in Nat /\ e \in Nat /\ x.start \in Nat /\ x.end \in Nat /\ s <= s0 /\ e0 <= e
  BY Numbers DEF Good, Spaced
<1>2. \A b \in Nat : s <= b /\ b < e => Covered(D, p, b)
  <2> SUFFICES ASSUME NEW b \in Nat, s <= b, b < e PROVE Covered(D, p, b)
    OBVIOUS
  <2>1. x.start <= b /\ b < x.end
    BY <1>1
  <2> QED
    BY <2>1 DEF Covered
<1>3. \A y : y.pid # p => (y \in D <=> y \in D0)
  BY DEF Good
<1>4. \A b \in Nat : Covered(D0, p, b) => Covered(D, p, b) \/ (s <= b /\ b < e)
  BY DEF Good
<1>5. \A b \in Nat : Covered(D, p, b) => Covered(D0, p, b)
  BY DEF Good
<1>6. \A b \in Nat : s0 <= b /\ b < e0 => s <= b /\ b < e
  BY <1>1
<1> QED
  BY <1>2, <1>3, <1>4, <1>5, <1>6 DEF Result

\* Nothing of the range is locked any more.
LEMMA ResultRemoved ==
  ASSUME NEW p, NEW w \in BOOLEAN, ~w, NEW D0, NEW s0 \in Nat, NEW e0 \in Nat,
         NEW D, NEW s, NEW e, Good(p, w, D0, s0, e0, D, s, e)
  PROVE  /\ Torn(p, D0, D, s0, e0) => Result(p, w, D0, s0, e0, D, "ENOSPC")
         /\ Out(p, w, D, s, e) => Result(p, w, D0, s0, e0, D, "none")
<1>1. s = s0 /\ e = e0 /\ D \subseteq Locks
  BY DEF Good, Spaced
<1>2. \A y : y.pid # p => (y \in D <=> y \in D0)
  BY DEF Good
<1>3. \A b \in Nat : Covered(D0, p, b) => Covered(D, p, b) \/ (s <= b /\ b < e)
  BY DEF Good
<1>4. \A b \in Nat : Covered(D, p, b) => Covered(D0, p, b)
  BY DEF Good
<1>5. ASSUME Out(p, w, D, s, e), NEW b \in Nat, s <= b, b < e
      PROVE  ~Covered(D, p, b)
  <2>1. SUFFICES ASSUME NEW x \in D, x.pid = p, x.start <= b, b < x.end PROVE FALSE
    BY DEF Covered
  <2>2. x.end <= s \/ x.start >= e
    BY <1>5, <2>1 DEF Out, Behind, Beyond
  <2>3. x.start \in Nat /\ x.end \in Nat
    BY <1>1, Numbers
  <2> QED
    BY <1>1, <1>5, <2>1, <2>2, <2>3
<1>6. Torn(p, D0, D, s0, e0) => Result(p, w, D0, s0, e0, D, "ENOSPC")
  BY <1>1, <1>2, <1>3, <1>4 DEF Result
<1>7. ASSUME Out(p, w, D, s, e)
      PROVE  Result(p, w, D0, s0, e0, D, "none")
  <2>1. \A b \in Nat : s <= b /\ b < e => ~Covered(D, p, b)
    BY <1>5, <1>7
  <2> QED
    BY <1>1, <1>2, <1>3, <1>4, <2>1 DEF Result
<1> QED
  BY <1>6, <1>7

\* A call that returns success leaves locks D of D0.
Done(p, w, D0, s, e, D) == Spaced(D) /\ Result(p, w, D0, s, e, D, "none")

\* A lock for the range comes in, as no own lock touches it.
LEMMA SpacedSet ==
  ASSUME NEW p, NEW w \in BOOLEAN, w, NEW D0, NEW s0 \in Nat, NEW e0 \in Nat, s0 < e0,
         NEW D, NEW s, NEW e, Good(p, w, D0, s0, e0, D, s, e), Out(p, w, D, s, e),
         NEW y \in Locks, y.pid = p, y.start = s, y.end = e
  PROVE  /\ \A z \in D : z.start >= s => z.start > s
         /\ Done(p, w, D0, s0, e0, D \cup {y})
<1>1. /\ Spaced(D) /\ D \subseteq Locks /\ s \in Nat /\ e \in Nat /\ s < e
      /\ s <= s0 /\ e0 <= e
  BY DEF Good, Spaced
<1>2. ASSUME NEW z \in D
      PROVE  (Before(z, y) \/ Before(y, z)) /\ (z.start >= s => z.start > s)
  <2>1. z.start \in Nat /\ z.end \in Nat /\ z.start < z.end
    BY <1>1, Numbers DEF Spaced
  <2>2. CASE z.pid = p
    <3>1. z.end < s \/ z.start > e
      BY <2>2 DEF Out, Behind, Beyond
    <3> QED
      BY <1>1, <2>1, <3>1 DEF Before
  <2>3. CASE z.pid # p
    <3>1. z.end <= s \/ z.start >= e
      BY <2>3 DEF Good
    <3> QED
      BY <1>1, <2>1, <2>3, <3>1 DEF Before
  <2> QED
    BY <2>2, <2>3
<1>3. Spaced(D \cup {y})
  BY <1>1, <1>2 DEF Spaced
<1> PICK E : E = D \cup {y}
  OBVIOUS
<1>4. \A b \in Nat : Covered(E, p, b) <=> Covered(D, p, b) \/ (s <= b /\ b < e)
  BY DEF Covered
<1>5. \A z : z.pid # p => (z \in E <=> z \in D0)
  BY DEF Good
<1>6. \A b \in Nat : Covered(D0, p, b) => Covered(D, p, b) \/ (s <= b /\ b < e)
  BY DEF Good
<1>7. \A b \in Nat : Covered(D, p, b) => Covered(D0, p, b)
  BY DEF Good
<1>8. \A b \in Nat : s <= b /\ b < e => Covered(D0, p, b) \/ (s0 <= b /\ b < e0)
  BY DEF Good
<1>9. \A b \in Nat : s0 <= b /\ b < e0 => s <= b /\ b < e
  BY <1>1
<1>10. Result(p, w, D0, s0, e0, E, "none")
  BY <1>4, <1>5, <1>6, <1>7, <1>8, <1>9 DEF Result
<1>11. Done(p, w, D0, s0, e0, D \cup {y})
  BY <1>3, <1>10 DEF Done
<1> QED
  BY <1>2, <1>11

\* What a call returns: a good chain with no more records than there are, and
\* what was asked for.
Outcome(p, w, c, s, e, n, R) ==
  /\ R.c \in Seq(Locks) /\ Sorted(R.c) /\ Spaced(ToSet(R.c)) /\ Len(R.c) <= n
  /\ R.rv \in {"none", "ENOSPC"} /\ Result(p, w, ToSet(c), s, e, ToSet(R.c), R.rv)

\* Where Insert starts.
Inserting(p, w, c, s0, e0, n, S) ==
  /\ w /\ Shape(S, n, w) /\ S.free > 0 /\ At(S)
  /\ Good(p, w, ToSet(c), s0, e0, ToSet(S.c), S.ld.start, S.ld.end)
  /\ Out(p, w, ToSet(S.c), S.ld.start, S.ld.end)

\* Insert puts the lock where the chain stays sorted.
LEMMA InsertIs ==
  ASSUME "WR" \in Types, NEW p \in Procs, NEW w \in BOOLEAN,
         NEW c, NEW s0 \in Nat, NEW e0 \in Nat, s0 < e0, NEW n, NEW S,
         Inserting(p, w, c, s0, e0, n, S)
  PROVE  Outcome(p, w, c, s0, e0, n, Insert(p, S))
<1>1. /\ w /\ Shape(S, n, w) /\ S.free > 0 /\ At(S)
      /\ Good(p, w, ToSet(c), s0, e0, ToSet(S.c), S.ld.start, S.ld.end)
      /\ Out(p, w, ToSet(S.c), S.ld.start, S.ld.end)
  BY DEF Inserting
<1>2. /\ State(S) /\ S.c \in Seq(Locks) /\ Sorted(S.c) /\ S.free \in Nat
      /\ Len(S.c) + S.free = n /\ S.ld.type = "WR"
  BY <1>1 DEF Shape
<1>3. PICK d \in Seq(Locks) : d = S.c /\ Sorted(d)
  BY <1>2
<1>4. PICK s \in Nat, e \in Nat : s = S.ld.start /\ e = S.ld.end
  BY <1>2 DEF State
<1>5. PICK D0 : D0 = ToSet(c)
  OBVIOUS
<1>6. Good(p, w, D0, s0, e0, ToSet(d), s, e) /\ Out(p, w, ToSet(d), s, e)
  BY <1>1, <1>3, <1>4, <1>5
<1>7. PICK y \in Locks : y = Lock(p, "WR", s, e)
  BY DEF Lock, Locks
<1>8. y.pid = p /\ y.start = s /\ y.end = e
  BY <1>7 DEF Lock
<1>9. \A z \in ToSet(d) : z.start >= s => z.start > s
  BY <1>1, <1>6, <1>8, SpacedSet
<1> PICK x : x = IF S.at = NoLock THEN NoLock ELSE LastBefore(S.c, S.at, S.ld.start)
  OBVIOUS
<1>10. \/ x = NoLock /\ \A z \in ToSet(d) : z.start > y.start
       \/ /\ x \in ToSet(d) /\ x.start < y.start
          /\ \A z \in ToSet(d) : z.start <= x.start \/ z.start > y.start
  <2>1. CASE S.at = NoLock
    <3>1. NoLock \notin ToSet(d)
      BY Members, ConstAssumption DEF ConstAssumption
    <3>2. \A z \in ToSet(d) : z.start >= s
      BY <1>1, <1>3, <1>4, <2>1, <3>1 DEF At
    <3> QED
      BY <1>8, <1>9, <2>1, <3>2
  <2>2. CASE S.at # NoLock
    <3>1. S.at \in ToSet(d) /\ S.at.start < s
      BY <1>1, <1>3, <1>4, <2>2 DEF At
    <3>2. PICK a \in ToSet(d) : a = S.at /\ a.start < s /\ a.start \in Nat
      BY <3>1, Members
    <3>3. x = LastBefore(d, a, s)
      BY <1>3, <1>4, <2>2, <3>2
    <3>4. /\ LastBefore(d, a, s) \in ToSet(d)
          /\ a.start < s => /\ LastBefore(d, a, s).start < s
                            /\ \A z \in ToSet(d) : \/ z.start <= LastBefore(d, a, s).start
                                                   \/ z.start >= s
      BY <1>3, LastBeforeIs
    <3>5. x \in ToSet(d) /\ x.start < s /\ \A z \in ToSet(d) : z.start <= x.start \/ z.start >= s
      BY <3>2, <3>3, <3>4
    <3> QED
      BY <1>8, <1>9, <3>5
  <2> QED
    BY <2>1, <2>2
<1>11. PICK g : g = insflck(d, x, y)
  OBVIOUS
<1>12. /\ g \in Seq(Locks) /\ Sorted(g) /\ Len(g) = Len(d) + 1
       /\ \E z \in Locks : ToSet(g) = ToSet(d) \cup {z} /\ Alike(z, y)
  <2>1. Sorted(d)
    BY <1>3
  <2> QED
    BY <1>10, <1>11, <2>1, InsertedIs
<1>13. PICK z \in Locks : ToSet(g) = ToSet(d) \cup {z} /\ Alike(z, y)
  BY <1>12
<1>14. z.pid = p /\ z.start = s /\ z.end = e
  BY <1>8, <1>13 DEF Alike
<1>15. Spaced(ToSet(g)) /\ Result(p, w, D0, s0, e0, ToSet(g), "none")
  <2>1. PICK E : E = ToSet(d)
    OBVIOUS
  <2>2. w /\ Good(p, w, D0, s0, e0, E, s, e) /\ Out(p, w, E, s, e)
    BY <1>1, <1>6, <2>1
  <2>3. Done(p, w, D0, s0, e0, E \cup {z})
    BY <1>14, <2>2, SpacedSet
  <2> QED
    BY <1>13, <2>1, <2>3 DEF Done
<1> PICK m : m = S.free - 1
  OBVIOUS
<1> PICK R : R = [S EXCEPT !.c = g, !.free = m, !.rv = "none"]
  OBVIOUS
<1>16. R.c = g /\ R.rv = "none"
  BY <1>2 DEF State
<1>17. Insert(p, S) = R
  <2>1. S.free # 0 /\ S.ld.type # "UN"
    BY <1>1, <1>2
  <2>2. g = insflck(S.c, x, Lock(p, S.ld.type, S.ld.start, S.ld.end))
    BY <1>2, <1>3, <1>4, <1>7, <1>11
  <2> QED
    BY <1>2, <2>1, <2>2 DEF Insert, State
<1>18. Len(g) <= n
  <2>1. PICK a \in Nat, b \in Nat : a = Len(S.c) /\ b = S.free /\ b > 0
    <3>1. S.free \in Nat /\ S.free > 0
      BY <1>1, <1>2
    <3>2. Len(S.c) \in Nat
      BY <1>3
    <3> QED
      BY <3>1, <3>2
  <2>2. Len(g) = a + 1 /\ n = a + b
    BY <1>2, <1>3, <1>12, <2>1
  <2> QED
    BY <2>1, <2>2
<1>19. Insert(p, S).c = g /\ Insert(p, S).rv = "none"
  BY <1>16, <1>17
<1> QED
  BY <1>5, <1>12, <1>15, <1>18, <1>19 DEF Outcome

\* A call of flckadj keeps the chain good and does what it is asked.
LEMMA CallIs ==
  ASSUME Types \subseteq {"WR"}, NEW p \in Procs, NEW w \in BOOLEAN, w => "WR" \in Types,
         NEW c \in Seq(Locks), NEW s \in Nat, NEW e \in Nat, s < e,
         NEW at, Ready(p, w, c, s, e, at), NEW free \in Nat,
         FromAt(c, at) \in 1 .. Len(c) + 1,
         NEW R, R = flckadj(p, c, at, Asked(w, s, e), free)
  PROVE  Outcome(p, w, c, s, e, Len(c) + free, R)
<1>1. PICK k \in 1 .. Len(c) + 1 : k = FromAt(c, at)
  OBVIOUS
<1>2. PICK n : n = Len(c) + free
  OBVIOUS
<1>3. PICK S0 : S0 = Start0(c, at, Asked(w, s, e), free)
  OBVIOUS
<1>4. Kept(p, w, c, s, e, n, Rest(c, k), S0)
  BY <1>1, <1>2, <1>3, KeptFirst
<1>5. PICK h : /\ Turning(p, S0, c, k, h)
               /\ flckadj(p, c, at, Asked(w, s, e), free) = Finish(p, h[Len(c) - k + 1])
  BY <1>1, <1>3, Calls
<1> PICK S : S = h[Len(c) - k + 1]
  OBVIOUS
<1>6. Kept(p, w, c, s, e, n, {}, S)
  <2>1. Sorted(c)
    BY DEF Ready
  <2> QED
    BY <1>4, <1>5, <2>1, KeptLoop
<1>7. R = Finish(p, S)
  BY <1>5
<1> HIDE DEF Ready
<1> PICK D, D0, s1, e1 : D = ToSet(S.c) /\ D0 = ToSet(c) /\ s1 = S.ld.start /\ e1 = S.ld.end
  OBVIOUS
<1>8. /\ Shape(S, n, w) /\ Good(p, w, D0, s, e, D, s1, e1)
      /\ w /\ S.rv = "set" => (S.c = c \/ S.free > 0) /\ At(S)
  BY <1>6 DEF Kept
<1>9. S.rv = "set" => Out(p, w, D, s1, e1)
  BY <1>6 DEF Kept, Left, Out
<1>10. State(S) /\ S.c \in Seq(Locks) /\ Sorted(S.c) /\ Len(S.c) + S.free = n /\ S.free \in Nat
  BY <1>8 DEF Shape
<1>11. Spaced(D) /\ Len(S.c) <= n
  <2>1. Len(S.c) \in Nat
    BY <1>10
  <2> QED
    BY <1>8, <1>10, <2>1 DEF Good
<1>12. S.rv \in {"set", "none", "ENOSPC"}
  BY <1>10 DEF State
<1>13. CASE S.rv = "none"
  <2>1. w /\ \E x \in D : x.pid = p /\ x.start <= s1 /\ e1 <= x.end
    BY <1>6, <1>13 DEF Kept
  <2>2. Result(p, w, D0, s, e, D, "none")
    BY <1>8, <2>1, ResultFound
  <2>3. R = S
    BY <1>7, <1>13 DEF Finish
  <2> QED
    BY <1>2, <1>10, <1>11, <1>13, <2>2, <2>3 DEF Outcome
<1>14. CASE S.rv = "ENOSPC"
  <2>1. ~w /\ Torn(p, D0, D, s, e)
    BY <1>6, <1>14 DEF Kept
  <2>2. Result(p, w, D0, s, e, D, "ENOSPC")
    BY <1>8, <2>1, ResultRemoved
  <2>3. R = S
    BY <1>7, <1>14 DEF Finish
  <2> QED
    BY <1>2, <1>10, <1>11, <1>14, <2>2, <2>3 DEF Outcome
<1>15. CASE S.rv = "set" /\ ~w
  <2>1. Result(p, w, D0, s, e, D, "none")
    BY <1>8, <1>9, <1>15, ResultRemoved
  <2>2. S.ld.type = "UN"
    BY <1>8, <1>15 DEF Shape
  <2> PICK T : T = [S EXCEPT !.rv = "none"]
    OBVIOUS
  <2>3. T.c = S.c /\ T.rv = "none"
    BY <1>10 DEF State
  <2>4. R = T
    BY <1>7, <1>15, <2>2 DEF Finish, Insert
  <2> QED
    BY <1>2, <1>10, <1>11, <2>1, <2>3, <2>4 DEF Outcome
<1>16. CASE S.rv = "set" /\ w /\ S.free = 0
  <2>1. S.c = c
    BY <1>8, <1>16
  <2>2. S.ld.type = "WR"
    BY <1>8, <1>16 DEF Shape
  <2> PICK T : T = [S EXCEPT !.rv = "ENOSPC"]
    OBVIOUS
  <2>3. T.c = S.c /\ T.rv = "ENOSPC"
    BY <1>10 DEF State
  <2>4. R = T
    BY <1>7, <1>16, <2>2 DEF Finish, Insert
  <2>5. Result(p, w, D0, s, e, D0, "ENOSPC")
    BY ResultSame
  <2> QED
    BY <1>2, <1>10, <1>11, <2>1, <2>3, <2>4, <2>5 DEF Outcome
<1>17. CASE S.rv = "set" /\ w /\ S.free # 0
  <2>1. S.free > 0 /\ At(S) /\ "WR" \in Types
    BY <1>8, <1>10, <1>17
  <2>2. Inserting(p, w, c, s, e, n, S)
    BY <1>8, <1>9, <1>17, <2>1 DEF Inserting
  <2>3. R = Insert(p, S)
    BY <1>7, <1>17 DEF Finish
  <2>4. Outcome(p, w, c, s, e, n, Insert(p, S))
    BY <2>1, <2>2, InsertIs
  <2> QED
    BY <1>2, <2>3, <2>4
<1> QED
  BY <1>12, <1>13, <1>14, <1>15, <1>16, <1>17

\* The loop of cleanlocks keeps a chain sorted, and p has no lock in it.
LEMMA CleanedIs ==
  ASSUME NEW p, NEW c \in Seq(Locks), Sorted(c)
  PROVE  /\ Cleaned(p, c) \in Seq(Locks) /\ Sorted(Cleaned(p, c))
         /\ Len(Cleaned(p, c)) <= Len(c)
         /\ ToSet(Cleaned(p, c)) = {x \in ToSet(c) : x.pid # p}
<1> PICK h : Clean(p, c, h) /\ Cleaned(p, c) = h[Len(c)]
  BY Drops
<1> PICK l \in Nat : l = Len(c)
  BY Members
<1> DEFINE Own0(i) == {c[j] : j \in {m \in 1 .. i : c[m].pid = p}}
           Ok(i) == /\ h[i] \in Seq(Locks) /\ Sorted(h[i]) /\ Len(h[i]) <= l
                    /\ ToSet(h[i]) = ToSet(c) \ Own0(i)
           Bad == {i \in 0 .. l : ~Ok(i)}
<1>1. \A i \in 0 .. l : Ok(i)
  <2>1. SUFFICES ASSUME Bad # {} PROVE FALSE
    OBVIOUS
  <2>2. Bad \in SUBSET Nat
    OBVIOUS
  <2>3. PICK i \in Bad : \A j \in Bad : i <= j
    BY <2>1, <2>2, LeastNat
  <2>4. i \in 0 .. l /\ ~Ok(i)
    OBVIOUS
  <2>5. i # 0
    <3>1. h[0] = c /\ Own0(0) = {}
      BY DEF Clean
    <3> QED
      BY <2>4, <3>1
  <2>6. i \in 1 .. l /\ i - 1 \in 0 .. l /\ ~(i <= i - 1)
    BY <2>4, <2>5
  <2>7. Ok(i - 1)
    BY <2>3, <2>6
  <2>8. PICK d \in Seq(Locks) : d = h[i - 1]
    BY <2>7
  <2>9. Sorted(d) /\ Len(d) <= l /\ ToSet(d) = ToSet(c) \ Own0(i - 1)
    BY <2>7, <2>8
  <2>10. PICK x : x = c[i] /\ x \in ToSet(c)
    BY <2>6, Members
  <2>11. h[i] = Drop(p, d, x)
    BY <2>6, <2>8, <2>10 DEF Clean
  <2>12. CASE x.pid # p
    <3>1. h[i] = d
      BY <2>11, <2>12 DEF Drop
    <3>2. \A m \in 1 .. i : m \in 1 .. i - 1 \/ m = i
      BY <2>6
    <3>3. {m \in 1 .. i : c[m].pid = p} = {m \in 1 .. i - 1 : c[m].pid = p}
      BY <2>6, <2>10, <2>12, <3>2
    <3>4. Own0(i) = Own0(i - 1)
      BY <3>3
    <3> QED
      BY <2>4, <2>9, <3>1, <3>4
  <2>13. CASE x.pid = p
    <3>1. h[i] = Without(d, x)
      BY <2>11, <2>13 DEF Drop
    <3>2. {m \in 1 .. i : c[m].pid = p} = {m \in 1 .. i - 1 : c[m].pid = p} \cup {i}
      BY <2>6, <2>10, <2>13
    <3>3. Own0(i) = Own0(i - 1) \cup {x}
      BY <2>10, <3>2
    <3>4. x \notin Own0(i - 1)
      <4>1. SUFFICES ASSUME NEW m \in 1 .. i - 1, x = c[m] PROVE FALSE
        OBVIOUS
      <4>2. m \in 1 .. Len(c) /\ i \in 1 .. Len(c) /\ m # i
        BY <2>6
      <4> QED
        BY <2>10, <4>1, <4>2, OneEach
    <3>5. x \in ToSet(d)
      BY <2>9, <2>10, <3>4
    <3>6. /\ Without(d, x) \in Seq(Locks) /\ Sorted(Without(d, x))
          /\ Len(Without(d, x)) = Len(d) - 1
          /\ ToSet(Without(d, x)) = ToSet(d) \ {x}
      BY <2>9, <3>5, WithoutIs
    <3>7. Len(d) \in Nat
      BY Members
    <3>8. Len(Without(d, x)) <= l
      BY <2>9, <3>6, <3>7
    <3>9. ToSet(Without(d, x)) = ToSet(c) \ Own0(i)
      BY <2>9, <3>3, <3>6
    <3> QED
      BY <2>4, <3>1, <3>6, <3>8, <3>9
  <2> QED
    BY <2>12, <2>13
<1> HIDE DEF Ok
<1>2. Ok(l)
  BY <1>1
<1>3. ToSet(c) \ Own0(l) = {x \in ToSet(c) : x.pid # p}
  <2>1. \A x \in ToSet(c) : \E j \in 1 .. l : x = c[j]
    BY Members
  <2>2. \A x \in ToSet(c) : x.pid = p => x \in Own0(l)
    BY <2>1
  <2> QED
    BY <2>2
<1>4. PICK d : d = h[l] /\ d = Cleaned(p, c)
  OBVIOUS
<1>5. /\ d \in Seq(Locks) /\ Sorted(d) /\ Len(d) <= l
      /\ ToSet(d) = ToSet(c) \ Own0(l)
  BY <1>2, <1>4 DEF Ok
<1> HIDE DEF Own0, Bad
<1>6. ToSet(d) = {x \in ToSet(c) : x.pid # p} /\ Len(d) <= Len(c)
  BY <1>3, <1>5
<1> QED
  BY <1>4, <1>5, <1>6

\* A request to remove locks starts at the head of the chain.
LEMMA ReadyToRemove ==
  ASSUME NEW p, NEW w \in BOOLEAN, ~w, NEW c \in Seq(Locks), Sorted(c), Spaced(ToSet(c)),
         NEW s, NEW e, NEW at, at = IF c = <<>> THEN NoLock ELSE c[1]
  PROVE  FromAt(c, at) = 1 /\ Ready(p, w, c, s, e, at)
<1>1. FromAt(c, at) = 1
  <2>1. CASE c = <<>>
    BY <2>1 DEF FromAt
  <2>2. CASE c # <<>>
    <3>1. 1 \in 1 .. Len(c)
      BY <2>2
    <3>2. at = c[1] /\ at \in ToSet(c) /\ at \in Locks
      BY <2>2, <3>1, Members
    <3>3. at # NoLock
      BY <3>2, ConstAssumption DEF ConstAssumption
    <3>4. Index(c, at) = 1
      BY <3>1, <3>2, IndexIs
    <3> QED
      BY <3>3, <3>4 DEF FromAt
  <2> QED
    BY <2>1, <2>2
<1> QED
  BY <1>1 DEF Ready

\* When nothing blocks a request to set an exclusive lock, no lock of another
\* process is in its way.
LEMMA NotBlocked ==
  ASSUME Types \subseteq {"WR"}, NEW c \in Seq(Locks), Sorted(c), Spaced(ToSet(c)),
         NEW p \in Procs, NEW s \in Nat, NEW e \in Nat,
         blocked(c, p, "WR", s, e) = NoLock
  PROVE  \A x \in ToSet(c) : x.pid # p => x.end <= s \/ x.start >= e
<1> PICK n : n = SelectInSubSeq(c, Turn(c, p, s, e), Len(c), LAMBDA x : x.start > e)
  OBVIOUS
<1> PICK m : m = IF n = 0 THEN Len(c) ELSE n
  OBVIOUS
<1> DEFINE I == {i \in 1 .. m : Conflict(c[i], p, "WR", s, e)}
           N == {i \in Turn(c, p, s, e) .. Len(c) : c[i].start > e}
<1>1. Turn(c, p, s, e) \in 1 .. Len(c) + 1 /\ Len(c) \in Nat /\ DOMAIN c = 1 .. Len(c)
  BY TurnIs
<1>2. m \in 0 .. Len(c) /\ (m = Len(c) \/ (m \in 1 .. Len(c) /\ c[m].start > e))
  <2>1. n = IF N # {} THEN Min(N) ELSE 0
    BY DEF SelectInSubSeq
  <2>2. N \in SUBSET (1 .. Len(c)) /\ \A i \in N : c[i].start > e
    BY <1>1
  <2>3. PICK M \in SUBSET (1 .. Len(c)) : M = N /\ \A i \in M : c[i].start > e
    BY <2>2
  <2> HIDE DEF N
  <2>4. M # {} => Min(M) \in M /\ Min(M) \in 1 .. Len(c)
    BY <1>1, FirstIn
  <2>5. n = IF M # {} THEN Min(M) ELSE 0
    BY <2>1, <2>3
  <2>6. CASE M = {}
    BY <1>1, <2>5, <2>6
  <2>7. CASE M # {}
    <3>1. m = Min(M)
      BY <2>4, <2>5, <2>7
    <3> QED
      BY <1>1, <2>3, <2>4, <2>7, <3>1
  <2> QED
    BY <2>6, <2>7
<1>3. \A i \in 1 .. m : ~Conflict(c[i], p, "WR", s, e)
  <2>1. m \in Nat
    BY <1>1, <1>2
  <2>2. PICK J \in SUBSET (1 .. m) : J = I
    OBVIOUS
  <2> PICK i : i = SelectInSubSeq(c, 1, m, LAMBDA x : Conflict(x, p, "WR", s, e))
    OBVIOUS
  <2>3. i = IF J # {} THEN Min(J) ELSE 0
    BY <2>2 DEF SelectInSubSeq
  <2>4. NoLock = IF i = 0 THEN NoLock ELSE c[i]
    BY DEF blocked
  <2>5. J # {} => Min(J) \in 1 .. m /\ Min(J) # 0
    <3>1. J # {} => Min(J) \in 1 .. m
      BY <2>1, FirstIn
    <3> QED
      BY <3>1
  <2>6. J = {}
    <3>1. SUFFICES ASSUME J # {} PROVE FALSE
      OBVIOUS
    <3>2. i \in 1 .. m /\ c[i] = NoLock
      BY <2>3, <2>4, <2>5, <3>1
    <3>3. i \in 1 .. Len(c)
      BY <1>1, <1>2, <3>2
    <3>4. NoLock \in Locks
      BY <3>2, <3>3, Members
    <3> QED
      BY <3>4, ConstAssumption DEF ConstAssumption
  <2> QED
    BY <2>2, <2>6
<1> HIDE DEF I, N
<1> SUFFICES ASSUME NEW x \in ToSet(c), x.pid # p PROVE x.end <= s \/ x.start >= e
  OBVIOUS
<1>4. PICK j \in 1 .. Len(c) : x = c[j]
  BY Members
<1>5. x \in Locks /\ x.start \in Nat /\ x.end \in Nat
  BY Members
<1>6. x.type = "WR"
  BY <1>5 DEF Locks
<1>7. CASE j \in 1 .. m
  <2>1. ~Conflict(x, p, "WR", s, e)
    BY <1>3, <1>4, <1>7
  <2> QED
    BY <1>5, <1>6, <2>1 DEF Conflict
<1>8. CASE j \notin 1 .. m
  <2>1. m \in 1 .. Len(c) /\ c[m].start > e /\ m < j
    BY <1>1, <1>2, <1>8
  <2>2. c[m].start < x.start
    BY <1>4, <2>1 DEF Sorted
  <2>3. c[m].start \in Nat
    BY <2>1, Members
  <2> QED
    BY <1>5, <2>1, <2>2, <2>3
<1> QED
  BY <1>7, <1>8

\* It starts behind the last lock that starts before it, or touches it.
LEMMA ReadyToSet ==
  ASSUME Types \subseteq {"WR"}, NEW c \in Seq(Locks), Sorted(c), Spaced(ToSet(c)),
         NEW w \in BOOLEAN, w,
         NEW p \in Procs, NEW s \in Nat, NEW e \in Nat, s < e,
         blocked(c, p, "WR", s, e) = NoLock
  PROVE  Ready(p, w, c, s, e, insrt(c, p, s, e))
<1> PICK k : k = Turn(c, p, s, e)
  OBVIOUS
<1> PICK at : at = insrt(c, p, s, e)
  OBVIOUS
<1>1. \A j \in 1 .. Len(c) : j < k =>
        ~(c[j].start >= s \/ (c[j].pid = p /\ s <= c[j].end /\ e >= c[j].start))
  BY TurnIs
<1>2. k \in 1 .. Len(c) + 1 /\ Len(c) \in Nat
  BY TurnIs, Members
<1>3. PICK i \in 0 .. Len(c) : i = IF k <= Len(c) /\ c[k].start < s THEN k ELSE k - 1
  BY <1>2
<1>4. at = IF i = 0 THEN NoLock ELSE c[i]
  BY <1>3 DEF insrt
<1>5. \A j \in 1 .. Len(c) : j < k => c[j].start < s /\ (c[j].pid = p => c[j].end < s)
  <2> SUFFICES ASSUME NEW j \in 1 .. Len(c), j < k
               PROVE  c[j].start < s /\ (c[j].pid = p => c[j].end < s)
    OBVIOUS
  <2>1. c[j].start \in Nat /\ c[j].end \in Nat
    BY Members
  <2> QED
    BY <1>1, <2>1
<1>6. \A z \in ToSet(c) : z.start \in Nat /\ z.end \in Nat /\ z.start < z.end
  BY Members DEF Spaced
<1>7. CASE i = 0
  <2>1. k = 1 /\ ~(k <= Len(c) /\ c[k].start < s)
    BY <1>2, <1>3, <1>7
  <2>2. ASSUME NEW z \in ToSet(c)
        PROVE  z.start >= s
    <3>1. PICK j \in 1 .. Len(c) : z = c[j]
      BY Members
    <3>2. 1 \in 1 .. Len(c) /\ c[1].start >= s /\ c[1].start \in Nat
      <4>1. 1 \in 1 .. Len(c)
        BY <1>2, <3>1
      <4>2. c[1].start \in Nat
        BY <4>1, Members
      <4> QED
        BY <2>1, <4>1, <4>2
    <3>3. j = 1 \/ c[1].start < c[j].start
      BY <3>2 DEF Sorted
    <3> QED
      BY <1>6, <3>1, <3>2, <3>3
  <2>3. at = NoLock /\ FromAt(c, at) = 1
    BY <1>4, <1>7 DEF FromAt
  <2>4. \A j \in 1 .. Len(c) : ~(j < 1)
    OBVIOUS
  <2> QED
    BY <2>2, <2>3, <2>4, NotBlocked DEF Ready
<1>8. CASE i # 0
  <2>1. i \in 1 .. Len(c) /\ i <= k
    BY <1>2, <1>3, <1>8
  <2>2. at = c[i] /\ at \in ToSet(c) /\ at \in Locks
    BY <1>4, <1>8, <2>1, Members
  <2>3. at # NoLock
    BY <2>2, ConstAssumption DEF ConstAssumption
  <2>4. Index(c, at) = i
    BY <2>1, <2>2, IndexIs
  <2>5. FromAt(c, at) = i
    BY <2>3, <2>4 DEF FromAt
  <2>6. at.start < s
    <3>1. CASE k <= Len(c) /\ c[k].start < s
      BY <1>3, <2>2, <3>1
    <3>2. CASE ~(k <= Len(c) /\ c[k].start < s)
      <4>1. i < k
        BY <1>2, <1>3, <3>2
      <4> QED
        BY <1>5, <2>1, <2>2, <4>1
    <3> QED
      BY <3>1, <3>2
  <2>7. ASSUME NEW j \in 1 .. Len(c), j < i, c[j].pid = p
        PROVE  Behind(c[j], s, w)
    <3>1. c[j].end \in Nat /\ c[j].end < s
      BY <1>2, <1>5, <2>1, <2>7, Members
    <3> QED
      BY <3>1 DEF Behind
  <2> QED
    BY <2>2, <2>5, <2>6, <2>7, NotBlocked DEF Ready
<1> QED
  BY <1>7, <1>8

\* The places of the chains k of files F.
Places(F, k) == UNION {{f} \X (1 .. Len(k[f])) : f \in F}

\* The places of one chain are as many as it is long.
LEMMA PlacesIs ==
  ASSUME NEW F, NEW f \in F, NEW k, Len(k[f]) \in Nat, IsFiniteSet(Places(F \ {f}, k))
  PROVE  /\ IsFiniteSet(Places(F, k))
         /\ Cardinality(Places(F, k)) = Cardinality(Places(F \ {f}, k)) + Len(k[f])
<1> PICK A : A = Places(F \ {f}, k)
  OBVIOUS
<1> PICK n \in Nat : n = Len(k[f])
  OBVIOUS
<1> PICK B : B = {f} \X (1 .. n)
  OBVIOUS
<1>1. IsFiniteSet(A) /\ Cardinality(A) \in Nat
  BY FS_CardinalityType
<1>2. IsFiniteSet(B) /\ Cardinality(B) = n
  <2>1. IsFiniteSet({f}) /\ Cardinality({f}) = 1
    BY FS_Singleton
  <2>2. IsFiniteSet(1 .. n) /\ Cardinality(1 .. n) = n
    <3>1. 1 \in Int /\ n \in Int
      OBVIOUS
    <3>2. IsFiniteSet(1 .. n) /\ Cardinality(1 .. n) = IF 1 > n THEN 0 ELSE n - 1 + 1
      BY <3>1, FS_Interval
    <3> QED
      BY <3>2
  <2>3. IsFiniteSet(B) /\ Cardinality(B) = Cardinality({f}) * Cardinality(1 .. n)
    BY <2>1, <2>2, FS_Product
  <2> QED
    BY <2>1, <2>2, <2>3
<1>3. A \cap B = {}
  <2>1. \A z \in A : z[1] # f
    BY DEF Places
  <2>2. \A z \in B : z[1] = f
    OBVIOUS
  <2> QED
    BY <2>1, <2>2
<1>4. Places(F, k) = A \cup B
  <2>1. \A z : z \in Places(F, k) <=> \E g \in F : z \in {g} \X (1 .. Len(k[g]))
    BY DEF Places
  <2>2. \A z : z \in A <=> \E g \in F \ {f} : z \in {g} \X (1 .. Len(k[g]))
    BY DEF Places
  <2>3. \A z : z \in B <=> z \in {f} \X (1 .. Len(k[f]))
    OBVIOUS
  <2> HIDE DEF Places
  <2>4. ASSUME NEW z
        PROVE  z \in Places(F, k) <=> z \in A \/ z \in B
    <3>1. ASSUME NEW g \in F, z \in {g} \X (1 .. Len(k[g])) PROVE z \in A \/ z \in B
      <4>1. CASE g = f
        BY <2>3, <3>1, <4>1
      <4>2. CASE g # f
        BY <2>2, <3>1, <4>2
      <4> QED
        BY <4>1, <4>2
    <3>2. z \in A \/ z \in B => \E g \in F : z \in {g} \X (1 .. Len(k[g]))
      BY <2>2, <2>3
    <3> QED
      BY <2>1, <3>1, <3>2
  <2> QED
    BY <2>4
<1>5. /\ IsFiniteSet(A \cup B)
      /\ Cardinality(A \cup B) = Cardinality(A) + Cardinality(B) - Cardinality(A \cap B)
  BY <1>1, <1>2, FS_Union
<1>6. Cardinality(A \cap B) = 0
  BY <1>3, FS_EmptySet
<1> QED
  BY <1>1, <1>2, <1>4, <1>5, <1>6

\* A chain changes, and the count of records with it.
LEMMA ChainRecs ==
  ASSUME ChainsOK, IsFiniteSet(OnChains), NEW f \in Files, NEW c \in Seq(Locks),
         flck' = [flck EXCEPT ![f] = c]
  PROVE  /\ IsFiniteSet(OnChains')
         /\ \E a \in Nat : /\ Cardinality(OnChains) = a + Len(flck[f])
                           /\ Cardinality(OnChains') = a + Len(c)
<1>1. OnChains = Places(Files, flck) /\ OnChains' = Places(Files, flck')
  BY DEF OnChains, Places
<1> PICK A : A = Places(Files \ {f}, flck)
  OBVIOUS
<1>2. A = Places(Files \ {f}, flck')
  <2>1. \A g \in Files \ {f} : flck'[g] = flck[g]
    BY DEF ChainsOK
  <2> QED
    BY <2>1 DEF Places
<1>3. flck'[f] = c /\ Len(c) \in Nat /\ Len(flck[f]) \in Nat
  BY DEF ChainsOK
<1>4. IsFiniteSet(A)
  <2>1. A \in SUBSET OnChains
    BY <1>1 DEF Places
  <2> QED
    BY <2>1, FS_Subset
<1>5. Cardinality(A) \in Nat
  BY <1>4, FS_CardinalityType
<1>6. /\ IsFiniteSet(Places(Files, flck))
      /\ Cardinality(Places(Files, flck)) = Cardinality(A) + Len(flck[f])
  BY <1>3, <1>4, PlacesIs
<1>7. /\ IsFiniteSet(Places(Files, flck'))
      /\ Cardinality(Places(Files, flck')) = Cardinality(A) + Len(c)
  <2>1. PICK k : k = flck'
    OBVIOUS
  <2>2. k[f] = c /\ A = Places(Files \ {f}, k)
    BY <1>2, <1>3, <2>1
  <2>3. /\ IsFiniteSet(Places(Files, k))
        /\ Cardinality(Places(Files, k)) = Cardinality(Places(Files \ {f}, k)) + Len(k[f])
    <3>1. Len(k[f]) \in Nat
      BY <1>3, <2>2
    <3>2. IsFiniteSet(Places(Files \ {f}, k))
      BY <1>4, <2>2
    <3> QED
      BY <3>1, <3>2, PlacesIs
  <2> QED
    BY <2>1, <2>2, <2>3
<1> QED
  BY <1>1, <1>5, <1>6, <1>7

\* The chains are sorted and their locks apart, and the records are counted.
OrderInv == /\ ChainsOK /\ AsksOK
            /\ DOMAIN sleeplcks \subseteq Procs
            /\ IsFiniteSet(OnChains) /\ reccnt <= Recs
            /\ \A f \in Files : Sorted(flck[f]) /\ Spaced(ToSet(flck[f]))

\* The records in use and to be had.
LEMMA Counts ==
  ASSUME OrderInv
  PROVE  /\ IsFiniteSet(DOMAIN sleeplcks)
         /\ Cardinality(DOMAIN sleeplcks) \in Nat /\ Cardinality(OnChains) \in Nat
         /\ reccnt = Cardinality(OnChains) + Cardinality(DOMAIN sleeplcks)
         /\ reccnt <= Recs /\ Recs \in Nat
         /\ \A p : Free(p) \in Nat
<1>1. DOMAIN sleeplcks \in SUBSET Procs /\ IsFiniteSet(OnChains) /\ reccnt <= Recs
  BY DEF OrderInv
<1>2. IsFiniteSet(DOMAIN sleeplcks)
  BY <1>1, FS_Subset, ConstAssumption DEF ConstAssumption
<1>3. PICK a \in Nat, b \in Nat : a = Cardinality(OnChains) /\ b = Cardinality(DOMAIN sleeplcks)
  BY <1>1, <1>2, FS_CardinalityType
<1>4. reccnt = a + b /\ Recs \in Nat
  BY <1>3, ConstAssumption DEF reccnt, ConstAssumption
<1>5. \A p : Free(p) \in Nat
  BY <1>1, <1>4 DEF Free
<1> QED
  BY <1>1, <1>2, <1>3, <1>4, <1>5

\* A call ends with a chain that is good and no more records than there are.
LEMMA EndOrder ==
  ASSUME OrderInv, NEW p \in Procs, NEW f \in Files, NEW L, NEW c \in Seq(Locks),
         Sorted(c), Spaced(ToSet(c)), Len(c) <= Len(flck[f]) + Free(p),
         flck' = [flck EXCEPT ![f] = c], Wake(p, f, L)
  PROVE  OrderInv'
<1>1. /\ DOMAIN sleeplcks' = DOMAIN sleeplcks \ {p}
      /\ \A q \in DOMAIN sleeplcks' : sleeplcks'[q].req = sleeplcks[q].req
  BY DEF Wake
<1>2. ChainsOK' /\ AsksOK'
  BY <1>1 DEF OrderInv, ChainsOK, AsksOK
<1>3. DOMAIN sleeplcks' \subseteq Procs
  BY <1>1 DEF OrderInv
<1>4. \A g \in Files : Sorted(flck'[g]) /\ Spaced(ToSet(flck'[g]))
  <2> SUFFICES ASSUME NEW g \in Files PROVE Sorted(flck'[g]) /\ Spaced(ToSet(flck'[g]))
    OBVIOUS
  <2>1. g = f => flck'[g] = c
    BY DEF OrderInv, ChainsOK
  <2>2. g # f => flck'[g] = flck[g]
    BY DEF OrderInv, ChainsOK
  <2> QED
    BY <2>1, <2>2 DEF OrderInv
<1>5. IsFiniteSet(OnChains') /\ reccnt' <= Recs
  <2>1. ChainsOK /\ IsFiniteSet(OnChains)
    BY DEF OrderInv
  <2>2. IsFiniteSet(OnChains')
    BY <2>1, ChainRecs
  <2>3. PICK a \in Nat : /\ Cardinality(OnChains) = a + Len(flck[f])
                         /\ Cardinality(OnChains') = a + Len(c)
    BY <2>1, ChainRecs
  <2>4. PICK l \in Nat, l1 \in Nat : l = Len(flck[f]) /\ l1 = Len(c)
    BY <2>1 DEF ChainsOK
  <2>5. PICK d \in Nat : d = Cardinality(DOMAIN sleeplcks)
    BY Counts
  <2>6. PICK o \in 0 .. 1 : o = IF p \in DOMAIN sleeplcks THEN 1 ELSE 0
    OBVIOUS
  <2>7. Cardinality(DOMAIN sleeplcks \ {p}) = d - o
    <3>1. IsFiniteSet(DOMAIN sleeplcks)
      BY Counts
    <3>2. Cardinality(DOMAIN sleeplcks \ {p}) = IF p \in DOMAIN sleeplcks THEN d - 1 ELSE d
      BY <2>5, <3>1, FS_RemoveElement
    <3> QED
      BY <2>6, <3>2
  <2>8. reccnt = (a + l) + d /\ reccnt <= Recs /\ Recs \in Nat
    BY <2>3, <2>4, <2>5, Counts
  <2>9. Free(p) = (Recs - reccnt) + o
    BY <2>6 DEF Free
  <2>10. reccnt' = (a + l1) + (d - o)
    BY <1>1, <2>3, <2>4, <2>7 DEF reccnt
  <2>11. l1 <= l + Free(p)
    BY <2>4
  <2>12. PICK m \in Nat : m = Recs
    BY <2>8
  <2>13. l1 <= l + ((m - ((a + l) + d)) + o)
    BY <2>8, <2>9, <2>11, <2>12
  <2>14. (a + l1) + (d - o) <= m
    BY <2>13
  <2> QED
    BY <2>2, <2>10, <2>12, <2>14
<1> QED
  BY <1>2, <1>3, <1>4, <1>5 DEF OrderInv

\* A request that nothing blocks is carried out.
LEMMA AdjustedOrder ==
  ASSUME Types \subseteq {"WR"}, OrderInv, NEW p \in Procs, NEW r \in Request,
         Found(p, r) = NoLock, NEW w \in BOOLEAN, w = (r.type # "UN")
  PROVE  Outcome(p, w, flck[r.file], r.range[1], r.range[2],
                 Len(flck[r.file]) + Free(p), Adjusted(p, r))
<1> PICK s \in Nat, e \in Nat : s = r.range[1] /\ e = r.range[2] /\ s < e
  BY RequestIs
<1>1. PICK c \in Seq(Locks) : c = flck[r.file] /\ Sorted(c) /\ Spaced(ToSet(c))
  BY RequestIs DEF OrderInv, ChainsOK
<1>2. r.type = IF w THEN "WR" ELSE "UN"
  BY RequestIs
<1>3. PICK free \in Nat : free = Free(p)
  BY Counts
<1> PICK at : at = IF r.type = "UN" THEN (IF c = <<>> THEN NoLock ELSE c[1])
                   ELSE insrt(c, p, s, e)
  OBVIOUS
<1>4. Ready(p, w, c, s, e, at) /\ FromAt(c, at) \in 1 .. Len(c) + 1
  <2>1. CASE w
    <3>1. blocked(c, p, "WR", s, e) = NoLock
      BY <1>1, <1>2, <2>1 DEF Found
    <3>2. at = insrt(c, p, s, e)
      BY <1>2, <2>1
    <3>3. Ready(p, w, c, s, e, insrt(c, p, s, e))
      BY <1>1, <2>1, <3>1, ReadyToSet
    <3>4. FromAt(c, insrt(c, p, s, e)) \in 1 .. Len(c) + 1
      BY StartIs
    <3> QED
      BY <3>2, <3>3, <3>4
  <2>2. CASE ~w
    <3>1. at = IF c = <<>> THEN NoLock ELSE c[1]
      BY <1>2, <2>2
    <3>2. FromAt(c, at) = 1 /\ Ready(p, w, c, s, e, at)
      BY <1>1, <2>2, <3>1, ReadyToRemove
    <3>3. 1 \in 1 .. Len(c) + 1
      OBVIOUS
    <3> QED
      BY <3>2, <3>3
  <2> QED
    BY <2>1, <2>2
<1> PICK R : R = flckadj(p, c, at, Asked(w, s, e), free)
  OBVIOUS
<1>5. Outcome(p, w, c, s, e, Len(c) + free, R)
  <2>1. w => "WR" \in Types
    BY <1>2, RequestIs
  <2> QED
    BY <1>4, <2>1, CallIs
<1>6. R = Adjusted(p, r)
  BY <1>1, <1>2, <1>3 DEF Adjusted, Asked
<1> QED
  BY <1>1, <1>3, <1>5, <1>6

\* Every action keeps OrderInv.
LEMMA OrderStep ==
  ASSUME Types \subseteq {"WR"}, OrderInv, [Next]_vars
  PROVE  OrderInv'
<1>1. \A f \in Files : /\ flck = [flck EXCEPT ![f] = flck[f]]
                       /\ flck[f] \in Seq(Locks) /\ Sorted(flck[f]) /\ Spaced(ToSet(flck[f]))
  BY DEF OrderInv, ChainsOK
<1>2. ASSUME NEW p \in Procs, NEW f \in Files, NEW L,
             flck' = flck, Wake(p, f, L)
      PROVE  OrderInv'
  <2>1. PICK n \in Nat, m \in Nat : n = Len(flck[f]) /\ m = Free(p)
    BY <1>1, Counts
  <2>2. Len(flck[f]) <= Len(flck[f]) + Free(p)
    BY <2>1
  <2>3. flck' = [flck EXCEPT ![f] = flck[f]]
    BY <1>1, <1>2
  <2> QED
    BY <1>1, <1>2, <2>2, <2>3, EndOrder
<1>3. CASE UNCHANGED vars
  BY <1>3 DEF OrderInv, ChainsOK, AsksOK, OnChains, reccnt, vars
<1>4. ASSUME NEW p \in Procs, NEW r \in Request, Set(p, r)
      PROVE  OrderInv'
  <2>1. PICK f \in Files : f = r.file
    BY RequestIs
  <2>2. PICK R : R = Adjusted(p, r)
    OBVIOUS
  <2>3. PICK w \in BOOLEAN : w = (r.type # "UN")
    OBVIOUS
  <2>4. Outcome(p, w, flck[f], r.range[1], r.range[2], Len(flck[f]) + Free(p), R)
    BY <1>4, <2>1, <2>2, <2>3, AdjustedOrder DEF Set
  <2>5. /\ R.c \in Seq(Locks) /\ Sorted(R.c) /\ Spaced(ToSet(R.c))
        /\ Len(R.c) <= Len(flck[f]) + Free(p)
    BY <2>4 DEF Outcome
  <2>6. flck' = [flck EXCEPT ![f] = R.c] /\ Wake(p, f, R.woken)
    BY <1>4, <2>1, <2>2 DEF Set
  <2> QED
    BY <2>5, <2>6, EndOrder
<1>5. ASSUME NEW p \in Procs, NEW r \in Request, Refuse(p, r) \/ Deadlk(p, r)
      PROVE  OrderInv'
  <2>1. r.file \in Files
    BY RequestIs
  <2>2. flck' = flck /\ Wake(p, r.file, {})
    BY <1>5 DEF Refuse, Deadlk
  <2> QED
    BY <1>2, <2>1, <2>2
<1>6. ASSUME NEW p \in Procs, NEW r \in Request, Sleep(p, r)
      PROVE  OrderInv'
  <2>1. /\ DOMAIN sleeplcks' = DOMAIN sleeplcks \cup {p} /\ flck' = flck
        /\ sleeplcks'[p].req = r /\ Free(p) > 0
        /\ \A q \in DOMAIN sleeplcks' \ {p} : sleeplcks'[q] = sleeplcks[q]
    BY <1>6 DEF Sleep
  <2>2. ChainsOK' /\ DOMAIN sleeplcks' \subseteq Procs
    BY <2>1 DEF OrderInv, ChainsOK
  <2>3. AsksOK'
    BY <2>1 DEF OrderInv, AsksOK
  <2>4. IsFiniteSet(OnChains') /\ OnChains' = OnChains
    BY <2>1 DEF OrderInv, OnChains
  <2>5. PICK d \in Nat, a \in Nat : d = Cardinality(DOMAIN sleeplcks) /\ a = Cardinality(OnChains)
    BY Counts
  <2>6. Cardinality(DOMAIN sleeplcks \cup {p}) = IF p \in DOMAIN sleeplcks THEN d ELSE d + 1
    BY <2>5, Counts, FS_AddElement
  <2>7. reccnt = a + d /\ reccnt <= Recs /\ Recs \in Nat
    BY <2>5, Counts
  <2>8. reccnt' = a + Cardinality(DOMAIN sleeplcks \cup {p})
    BY <2>1, <2>4, <2>5 DEF reccnt
  <2>9. reccnt' <= Recs
    <3>1. CASE p \in DOMAIN sleeplcks
      BY <2>6, <2>7, <2>8, <3>1
    <3>2. CASE p \notin DOMAIN sleeplcks
      <4>1. Free(p) = (Recs - (a + d)) + 0
        BY <2>7, <3>2 DEF Free
      <4>2. (Recs - (a + d)) + 0 > 0
        BY <2>1, <4>1
      <4> QED
        BY <2>6, <2>7, <2>8, <3>2, <4>2
    <3> QED
      BY <3>1, <3>2
  <2>10. \A f \in Files : Sorted(flck'[f]) /\ Spaced(ToSet(flck'[f]))
    BY <1>1, <2>1
  <2> QED
    BY <2>2, <2>3, <2>4, <2>9, <2>10 DEF OrderInv
<1>7. ASSUME NEW p \in Procs, Interrupt(p)
      PROVE  OrderInv'
  <2>1. PICK f \in Files : f = sleeplcks[p].req.file
    BY <1>7, RequestIs DEF Interrupt, OrderInv, AsksOK
  <2>2. flck' = flck /\ Wake(p, f, {})
    BY <1>7, <2>1 DEF Interrupt
  <2> QED
    BY <1>2, <2>2
<1>8. ASSUME NEW p \in Procs, NEW f \in Files, cleanlocks(p, f)
      PROVE  OrderInv'
  <2> PICK c : c = Cleaned(p, flck[f])
    OBVIOUS
  <2>1. /\ c \in Seq(Locks) /\ Sorted(c) /\ Len(c) <= Len(flck[f])
        /\ ToSet(c) = {x \in ToSet(flck[f]) : x.pid # p}
    BY <1>1, CleanedIs
  <2>2. Spaced(ToSet(c))
    <3>1. Spaced(ToSet(flck[f])) /\ ToSet(c) \subseteq ToSet(flck[f])
      BY <1>1, <2>1
    <3> QED
      BY <3>1 DEF Spaced
  <2>3. Len(c) <= Len(flck[f]) + Free(p)
    <3>1. PICK n \in Nat, m \in Nat, l \in Nat : n = Len(flck[f]) /\ m = Free(p) /\ l = Len(c)
      BY <1>1, <2>1, Counts
    <3> QED
      BY <2>1, <3>1
  <2>4. PICK L : flck' = [flck EXCEPT ![f] = c] /\ Wake(p, f, L)
    BY <1>8 DEF cleanlocks
  <2> QED
    BY <2>1, <2>2, <2>3, <2>4, EndOrder
<1>9. ASSUME NEW p \in Procs, NEW f \in Files, GetBadOffset(p, f)
      PROVE  OrderInv'
  BY <1>9 DEF GetBadOffset, OrderInv, ChainsOK, AsksOK, OnChains, reccnt
<1> QED
  BY <1>3, <1>4, <1>5, <1>6, <1>7, <1>8, <1>9 DEF Next, Setflck

\* It holds at the start.
LEMMA OrderFirst == Init => OrderInv
<1> SUFFICES ASSUME Init PROVE OrderInv
  OBVIOUS
<1>1. <<>> \in Seq(Locks) /\ Len(<<>>) = 0 /\ ToSet(<<>>) = {}
  BY DEF ToSet
<1>2. ChainsOK /\ \A f \in Files : flck[f] = <<>>
  BY <1>1 DEF Init, ChainsOK
<1>3. DOMAIN sleeplcks = {}
  BY DEF Init
<1>4. OnChains = {}
  <2>1. \A f \in Files : {f} \X (1 .. Len(flck[f])) = {}
    BY <1>1, <1>2
  <2> QED
    BY <2>1 DEF OnChains
<1>5. IsFiniteSet(OnChains) /\ reccnt = 0 + 0
  BY <1>3, <1>4, FS_EmptySet DEF reccnt
<1>6. reccnt <= Recs
  BY <1>5, ConstAssumption DEF ConstAssumption
<1>7. Sorted(<<>>) /\ Spaced({})
  BY <1>1 DEF Sorted, Spaced
<1> QED
  BY <1>1, <1>2, <1>3, <1>5, <1>6, <1>7 DEF OrderInv, AsksOK

\* No two processes have locks that exclude each other, when locks are exclusive.
THEOREM LocksExclude ==
  ASSUME Types \subseteq {"WR"}
  PROVE  Spec => []NoConflict
<1>1. Init => OrderInv
  BY OrderFirst
<1>2. OrderInv /\ [Next]_vars => OrderInv'
  BY OrderStep
<1>3. OrderInv => NoConflict
  <2> SUFFICES ASSUME OrderInv, NEW f \in Files,
                      NEW i \in DOMAIN flck[f], NEW j \in DOMAIN flck[f]
               PROVE  LET x == flck[f][i]  y == flck[f][j]
                      IN ~Conflict(x, y.pid, y.type, y.start, y.end)
    BY DEF NoConflict
  <2>1. PICK c \in Seq(Locks) : c = flck[f] /\ Spaced(ToSet(c))
    BY DEF OrderInv, ChainsOK
  <2>2. PICK x \in ToSet(c), y \in ToSet(c) : x = c[i] /\ y = c[j]
    BY <2>1, Members
  <2>3. x = y \/ Before(x, y) \/ Before(y, x)
    BY <2>1 DEF Spaced
  <2>4. x.start \in Nat /\ x.end \in Nat /\ y.start \in Nat /\ y.end \in Nat
    BY Members
  <2>5. ~Conflict(x, y.pid, y.type, y.start, y.end)
    BY <2>3, <2>4 DEF Conflict, Before
  <2> QED
    BY <2>1, <2>2, <2>5
<1> QED
  BY <1>1, <1>2, <1>3, PTL DEF Spec

\* Chains stay sorted, as blocked assumes when it stops early, and the locks of a
\* process stay apart: flckadj joins, cuts and severs them so.
THEOREM ChainsNormal ==
  ASSUME Types \subseteq {"WR"}
  PROVE  Spec => []Normal
<1>1. Init => OrderInv
  BY OrderFirst
<1>2. OrderInv /\ [Next]_vars => OrderInv'
  BY OrderStep
<1>3. OrderInv => Normal
  <2> SUFFICES ASSUME OrderInv, NEW f \in Files,
                      NEW i \in DOMAIN flck[f], NEW j \in DOMAIN flck[f], i < j
               PROVE  LET x == flck[f][i]  y == flck[f][j]
                      IN /\ x.start <= y.start
                         /\ x.pid = y.pid => x.end + (IF x.type = y.type THEN 1 ELSE 0)
                                               <= y.start
    BY DEF Normal
  <2>1. PICK c \in Seq(Locks) : c = flck[f] /\ Sorted(c) /\ Spaced(ToSet(c))
    BY DEF OrderInv, ChainsOK
  <2>2. i \in 1 .. Len(c) /\ j \in 1 .. Len(c)
    BY <2>1, Members
  <2>3. PICK x \in ToSet(c), y \in ToSet(c) : x = c[i] /\ y = c[j]
    BY <2>2, Members
  <2>4. x.start < y.start
    BY <2>1, <2>2, <2>3 DEF Sorted
  <2>5. x.start \in Nat /\ x.end \in Nat /\ y.start \in Nat /\ y.end \in Nat /\ y.start < y.end
    BY <2>1, Members DEF Spaced
  <2>6. x = y \/ Before(x, y) \/ Before(y, x)
    BY <2>1 DEF Spaced
  <2>7. Before(x, y)
    BY <2>4, <2>5, <2>6 DEF Before
  <2>8. /\ x.start <= y.start
        /\ x.pid = y.pid => x.end + (IF x.type = y.type THEN 1 ELSE 0) <= y.start
    BY <2>4, <2>5, <2>7 DEF Before
  <2> QED
    BY <2>1, <2>3, <2>8
<1> QED
  BY <1>1, <1>2, <1>3, PTL DEF Spec

\* What is locked of a byte, when locks are exclusive.
LEMMA ModeIs ==
  ASSUME Types \subseteq {"WR"}, NEW c \in Seq(Locks), NEW p, NEW b
  PROVE  Mode(c, p, b) = IF Covered(ToSet(c), p, b) THEN "WR" ELSE "UN"
<1> PICK X : X = {x \in ToSet(c) : x.pid = p /\ x.start <= b /\ b < x.end}
  OBVIOUS
<1>1. Mode(c, p, b) = IF X = {} THEN "UN" ELSE (CHOOSE x \in X : TRUE).type
  BY DEF Mode
<1>2. Covered(ToSet(c), p, b) <=> X # {}
  BY DEF Covered
<1>3. ASSUME X # {}
      PROVE  (CHOOSE x \in X : TRUE).type = "WR"
  <2>1. (CHOOSE x \in X : TRUE) \in X
    BY <1>3
  <2>2. (CHOOSE x \in X : TRUE) \in Locks
    BY <2>1, Members
  <2> QED
    BY <2>2 DEF Locks
<1> QED
  BY <1>1, <1>2, <1>3

\* What the mode of byte b is for q, when p asked for the bytes from s to e.
ByteIs(p, w, c, s, e, R, q, b) ==
  /\ q # p \/ b < s \/ b >= e => Mode(R.c, q, b) = Mode(c, q, b)
  /\ s <= b /\ b < e /\ R.rv # "ENOSPC" =>
       Mode(R.c, p, b) = IF w THEN "WR" ELSE "UN"
  /\ s <= b /\ b < e /\ R.rv = "ENOSPC" =>
       Mode(R.c, p, b) \in {Mode(c, p, b), "UN"}

\* What a request does to the modes of the bytes.
LEMMA ModesSet ==
  ASSUME Types \subseteq {"WR"}, NEW p, NEW w \in BOOLEAN, NEW c \in Seq(Locks),
         NEW s \in Nat, NEW e \in Nat, s < e, NEW n, NEW R, Outcome(p, w, c, s, e, n, R),
         NEW q, NEW b \in Nat
  PROVE  ByteIs(p, w, c, s, e, R, q, b)
<1>1. PICK d \in Seq(Locks) : d = R.c /\ Result(p, w, ToSet(c), s, e, ToSet(d), R.rv)
                              /\ R.rv \in {"none", "ENOSPC"}
  BY DEF Outcome
<1> PICK D, D0 : D = ToSet(d) /\ D0 = ToSet(c)
  OBVIOUS
<1>2. \A t, k : /\ Mode(d, t, k) = IF Covered(D, t, k) THEN "WR" ELSE "UN"
                /\ Mode(c, t, k) = IF Covered(D0, t, k) THEN "WR" ELSE "UN"
  BY ModeIs
<1>3. Result(p, w, D0, s, e, D, R.rv)
  BY <1>1
<1>4. ASSUME q # p
      PROVE  Covered(D, q, b) <=> Covered(D0, q, b)
  <2>1. \A x : x.pid = q => (x \in D <=> x \in D0)
    BY <1>3, <1>4 DEF Result
  <2> QED
    BY <2>1 DEF Covered
<1>5. ASSUME b < s \/ b >= e
      PROVE  Covered(D, p, b) <=> Covered(D0, p, b)
  <2>1. ~(s <= b /\ b < e)
    BY <1>5
  <2> QED
    BY <1>3, <2>1 DEF Result
<1>6. ASSUME s <= b, b < e, R.rv # "ENOSPC"
      PROVE  Covered(D, p, b) <=> w
  BY <1>3, <1>6 DEF Result
<1>7. ASSUME s <= b, b < e, R.rv = "ENOSPC", Covered(D, p, b)
      PROVE  Covered(D0, p, b)
  <2>1. Torn(p, D0, D, s, e)
    BY <1>3, <1>7 DEF Result
  <2> QED
    BY <1>7, <2>1 DEF Torn
<1>8. q # p \/ b < s \/ b >= e => Mode(d, q, b) = Mode(c, q, b)
  BY <1>2, <1>4, <1>5
<1>9. s <= b /\ b < e /\ R.rv # "ENOSPC" => Mode(d, p, b) = IF w THEN "WR" ELSE "UN"
  BY <1>2, <1>6
<1>10. s <= b /\ b < e /\ R.rv = "ENOSPC" => Mode(d, p, b) \in {Mode(c, p, b), "UN"}
  BY <1>2, <1>7
<1> QED
  BY <1>1, <1>8, <1>9, <1>10 DEF ByteIs

\* Whatever is split, joined or replaced, a call of fcntl sets exactly the bytes
\* asked for; one that runs out of records half way has at worst lost some of
\* the caller's own.
THEOREM CallsSetExactly ==
  ASSUME Types \subseteq {"WR"}
  PROVE  Spec => []SetsExactly
<1>1. Init => OrderInv
  BY OrderFirst
<1>2. OrderInv /\ [Next]_vars => OrderInv'
  BY OrderStep
<1>3. OrderInv => SetsExactly
  <2> SUFFICES ASSUME OrderInv, NEW p \in Procs, NEW r \in Request,
                      Found(p, r) = NoLock,
                      NEW q \in Procs, NEW b \in 0 .. Bytes - 1
               PROVE  LET S == Adjusted(p, r)
                          old == Mode(flck[r.file], q, b)
                          Allowed == IF q # p \/ b < r.range[1] \/ b >= r.range[2] THEN {old}
                                     ELSE IF S.rv = "ENOSPC" THEN {old, "UN"} ELSE {r.type}
                      IN Mode(S.c, q, b) \in Allowed
    BY DEF SetsExactly
  <2>1. PICK s \in Nat, e \in Nat : s = r.range[1] /\ e = r.range[2] /\ s < e
    BY RequestIs
  <2>2. PICK c \in Seq(Locks) : c = flck[r.file]
    BY RequestIs DEF OrderInv, ChainsOK
  <2>3. PICK w \in BOOLEAN : w = (r.type # "UN")
    OBVIOUS
  <2>4. PICK R : R = Adjusted(p, r)
    OBVIOUS
  <2>5. Outcome(p, w, c, s, e, Len(c) + Free(p), R)
    BY <2>1, <2>2, <2>3, <2>4, AdjustedOrder
  <2>6. b \in Nat
    OBVIOUS
  <2>7. PICK n : n = Len(c) + Free(p)
    OBVIOUS
  <2>8. s < e /\ Outcome(p, w, c, s, e, n, R)
    BY <2>1, <2>5, <2>7
  <2>9. ByteIs(p, w, c, s, e, R, q, b)
    BY <2>6, <2>8, ModesSet
  <2>10. /\ q # p \/ b < s \/ b >= e => Mode(R.c, q, b) = Mode(c, q, b)
         /\ s <= b /\ b < e /\ R.rv # "ENOSPC" =>
              Mode(R.c, p, b) = IF w THEN "WR" ELSE "UN"
         /\ s <= b /\ b < e /\ R.rv = "ENOSPC" =>
              Mode(R.c, p, b) \in {Mode(c, p, b), "UN"}
    BY <2>9 DEF ByteIs
  <2>11. r.type = IF w THEN "WR" ELSE "UN"
    BY <2>3, RequestIs
  <2>12. CASE q # p \/ b < r.range[1] \/ b >= r.range[2]
    <3>1. Mode(R.c, q, b) = Mode(c, q, b)
      BY <2>1, <2>10, <2>12
    <3> QED
      BY <2>2, <2>4, <2>12, <3>1
  <2>13. CASE ~(q # p \/ b < r.range[1] \/ b >= r.range[2])
    <3>1. q = p /\ s <= b /\ b < e
      BY <2>1, <2>6, <2>13
    <3>2. CASE R.rv = "ENOSPC"
      <4>1. Mode(R.c, q, b) \in {Mode(c, q, b), "UN"}
        BY <2>10, <3>1, <3>2
      <4> QED
        BY <2>2, <2>4, <2>13, <3>2, <4>1
    <3>3. CASE R.rv # "ENOSPC"
      <4>1. Mode(R.c, q, b) = r.type
        BY <2>10, <2>11, <3>1, <3>3
      <4> QED
        BY <2>2, <2>4, <2>13, <3>3, <4>1
    <3> QED
      BY <3>2, <3>3
  <2> QED
    BY <2>12, <2>13
<1> QED
  BY <1>1, <1>2, <1>3, PTL DEF Spec

\* Chain d gives p mode t of the bytes B, and is like c otherwise.
Becomes(c, d, p, B, t) ==
  \A q \in Procs, b \in 0 .. Bytes - 1 :
    Mode(d, q, b) = IF q = p /\ b \in B THEN t ELSE Mode(c, q, b)

\* The bytes B of p get mode t.
HeldSet(f, p, B, t) ==
  held' = [held EXCEPT ![f][p] = [b \in DOMAIN @ |-> IF b \in B THEN t ELSE @[b]]]

\* The chain of a file changes, and with it what one process holds of it.
LEMMA HeldStep ==
  ASSUME ChainsOK, NEW f \in Files, NEW d, flck' = [flck EXCEPT ![f] = d],
         NEW p \in Procs, NEW B, NEW t, Becomes(flck[f], d, p, B, t)
  PROVE  HeldSet(f, p, B, t)
<1>1. /\ flck'[f] = d
      /\ \A g \in Files : g # f => flck'[g] = flck[g]
  BY DEF ChainsOK
<1> PICK H0, H : H0 = held /\ H = held'
  OBVIOUS
<1> DEFINE M(g, q) == [b \in 0 .. Bytes - 1 |-> Mode(flck[g], q, b)]
           N(g, q) == IF g = f /\ q = p
                      THEN [b \in 0 .. Bytes - 1 |-> IF b \in B THEN t ELSE M(f, p)[b]]
                      ELSE M(g, q)
<1>2. H0 = [g \in Files |-> [q \in Procs |-> M(g, q)]]
  BY DEF held
<1>3. H = [g \in Files |-> [q \in Procs |-> N(g, q)]]
  <2>1. H = [g \in Files |-> [q \in Procs |-> [b \in 0 .. Bytes - 1 |-> Mode(flck'[g], q, b)]]]
    BY DEF held, Mode
  <2>2. ASSUME NEW g \in Files, NEW q \in Procs
        PROVE  [b \in 0 .. Bytes - 1 |-> Mode(flck'[g], q, b)] = N(g, q)
    <3>1. CASE g = f
      <4>1. \A b \in 0 .. Bytes - 1 :
              Mode(flck'[g], q, b) = IF q = p /\ b \in B THEN t ELSE Mode(flck[f], q, b)
        BY <1>1, <3>1 DEF Becomes
      <4> HIDE DEF Mode
      <4>2. CASE q = p
        BY <3>1, <4>1, <4>2
      <4>3. CASE q # p
        BY <3>1, <4>1, <4>3
      <4> QED
        BY <4>2, <4>3
    <3>2. CASE g # f
      BY <1>1, <3>2
    <3> QED
      BY <3>1, <3>2
  <2> HIDE DEF N
  <2> QED
    BY <2>1, <2>2
<1>4. M(f, p) = H0[f][p] /\ DOMAIN M(f, p) = 0 .. Bytes - 1
  BY <1>2
<1>5. [H0 EXCEPT ![f][p] = [b \in DOMAIN @ |-> IF b \in B THEN t ELSE @[b]]]
        = [g \in Files |-> [q \in Procs |-> N(g, q)]]
  <2>1. PICK V : V = [b \in 0 .. Bytes - 1 |-> IF b \in B THEN t ELSE M(f, p)[b]]
    OBVIOUS
  <2>2. [b \in DOMAIN H0[f][p] |-> IF b \in B THEN t ELSE H0[f][p][b]] = V
    BY <1>4, <2>1
  <2>3. \A g, q : N(g, q) = IF g = f /\ q = p THEN V ELSE M(g, q)
    BY <2>1
  <2> HIDE DEF M, N
  <2>4. [H0 EXCEPT ![f][p] = V] = [g \in Files |-> [q \in Procs |-> N(g, q)]]
    BY <1>2, <2>3
  <2> QED
    BY <2>2, <2>4
<1> QED
  BY <1>3, <1>5 DEF HeldSet

\* What the table allows: nobody else has locked one of the bytes.
LEMMA AllowedIs ==
  ASSUME NEW f \in Files, NEW p, NEW B \in SUBSET (0 .. Bytes - 1), NEW t,
         \A q \in Procs \ {p}, b \in B : Mode(flck[f], q, b) = "UN"
  PROVE  Table!Allowed(f, p, B, t)
<1>1. \A q \in Procs, b \in 0 .. Bytes - 1 : held[f][q][b] = Mode(flck[f], q, b)
  BY DEF held
<1> HIDE DEF Mode, held
<1> QED
  BY <1>1 DEF Table!Allowed

\* A step that gives p mode t of the bytes from s to e, and may, is one of the
\* table; if there are no such bytes, it is none.
LEMMA TableStep ==
  ASSUME ChainsOK, NEW f \in Files, NEW d, flck' = [flck EXCEPT ![f] = d],
         NEW p \in Procs, NEW s \in Nat, NEW e \in Nat, s <= e, e <= Bytes,
         NEW t \in Types \cup {"UN"}, Becomes(flck[f], d, p, s .. e - 1, t),
         \/ t = "UN"
         \/ \A q \in Procs \ {p}, b \in s .. e - 1 : Mode(flck[f], q, b) = "UN"
  PROVE  [Table!Next]_held
<1> PICK B : B = s .. e - 1
  OBVIOUS
<1>1. Bytes \in Nat
  BY ConstAssumption DEF ConstAssumption
<1>2. held' = [held EXCEPT ![f][p] = [b \in DOMAIN @ |-> IF b \in B THEN t ELSE @[b]]]
  <2>1. Becomes(flck[f], d, p, B, t)
    OBVIOUS
  <2>2. HeldSet(f, p, B, t)
    BY <2>1, HeldStep
  <2> QED
    BY <2>2 DEF HeldSet
<1>3. CASE s = e
  <2>1. B = {}
    BY <1>3
  <2>2. PICK H : H = held
    OBVIOUS
  <2>3. /\ H = [g \in Files |-> [q \in Procs |-> H[g][q]]]
        /\ H[f][p] = [b \in DOMAIN H[f][p] |-> H[f][p][b]]
    BY <2>2 DEF held
  <2>4. [H EXCEPT ![f][p] = [b \in DOMAIN @ |-> IF b \in B THEN t ELSE @[b]]] = H
    <3>1. [b \in DOMAIN H[f][p] |-> IF b \in B THEN t ELSE H[f][p][b]] = H[f][p]
      BY <2>1, <2>3
    <3>2. [H EXCEPT ![f][p] = H[f][p]] = H
      BY <2>3
    <3> QED
      BY <3>1, <3>2
  <2>5. held' = held
    BY <1>2, <2>2, <2>4
  <2> QED
    BY <2>5
<1>4. CASE s < e
  <2>1. B \in SUBSET (0 .. Bytes - 1)
    BY <1>1
  <2>2. t # "UN" => Table!Allowed(f, p, B, t)
    BY <2>1, AllowedIs
  <2>3. Table!Lock(f, p, B, t)
    BY <1>2, <2>2 DEF Table!Lock
  <2>4. PICK l \in 0 .. Bytes - 1 : l = e - 1
    BY <1>1, <1>4
  <2>5. s \in 0 .. Bytes - 1 /\ s <= l
    BY <1>1, <1>4, <2>4
  <2>6. Table!Lock(f, p, s .. l, t)
    BY <2>3, <2>4
  <2>7. Table!Next
    BY <2>4, <2>5, <2>6 DEF Table!Next
  <2> QED
    BY <2>7
<1> QED
  BY <1>3, <1>4

\* Closing a descriptor takes all the bytes from the caller.
LEMMA CleanedBecomes ==
  ASSUME Types \subseteq {"WR"}, NEW p, NEW c \in Seq(Locks), Sorted(c)
  PROVE  Becomes(c, Cleaned(p, c), p, 0 .. Bytes - 1, "UN")
<1>1. PICK d \in Seq(Locks) : d = Cleaned(p, c) /\ ToSet(d) = {x \in ToSet(c) : x.pid # p}
  BY CleanedIs
<1> PICK D, C : D = ToSet(d) /\ C = ToSet(c)
  OBVIOUS
<1>2. \A q, b : /\ Mode(d, q, b) = IF Covered(D, q, b) THEN "WR" ELSE "UN"
                /\ Mode(c, q, b) = IF Covered(C, q, b) THEN "WR" ELSE "UN"
  BY ModeIs
<1>3. \A x : x \in D <=> x \in C /\ x.pid # p
  BY <1>1
<1>4. \A q, b : Covered(D, q, b) <=> q # p /\ Covered(C, q, b)
  BY <1>3 DEF Covered
<1>5. \A q, b : Mode(d, q, b) = IF q = p THEN "UN" ELSE Mode(c, q, b)
  BY <1>2, <1>4
<1> QED
  BY <1>1, <1>5 DEF Becomes

\* Setting or removing a lock gives the caller the bytes of the range; without
\* a record left, it may lose some from the start of the range on.
LEMMA SetBecomes ==
  ASSUME Types \subseteq {"WR"}, NEW p, NEW w \in BOOLEAN, NEW c \in Seq(Locks),
         NEW s \in Nat, NEW e \in Nat, s < e, NEW n, NEW R, Outcome(p, w, c, s, e, n, R)
  PROVE  \/ Becomes(c, R.c, p, s .. e - 1, IF w THEN "WR" ELSE "UN")
         \/ \E m \in s .. e : Becomes(c, R.c, p, s .. m - 1, "UN")
<1>1. PICK d \in Seq(Locks) : d = R.c /\ Result(p, w, ToSet(c), s, e, ToSet(d), R.rv)
  BY DEF Outcome
<1> PICK D, C : D = ToSet(d) /\ C = ToSet(c)
  OBVIOUS
<1>2. \A q, b : /\ Mode(d, q, b) = IF Covered(D, q, b) THEN "WR" ELSE "UN"
                /\ Mode(c, q, b) = IF Covered(C, q, b) THEN "WR" ELSE "UN"
  BY ModeIs
<1>3. Result(p, w, C, s, e, D, R.rv)
  BY <1>1
<1>4. ASSUME NEW q, q # p, NEW b
      PROVE  Mode(d, q, b) = Mode(c, q, b)
  <2>1. \A x : x.pid = q => (x \in D <=> x \in C)
    BY <1>3, <1>4 DEF Result
  <2>2. Covered(D, q, b) <=> Covered(C, q, b)
    BY <2>1 DEF Covered
  <2> QED
    BY <1>2, <2>2
<1>5. \A b \in Nat : ~(s <= b /\ b < e) => Mode(d, p, b) = Mode(c, p, b)
  BY <1>2, <1>3 DEF Result
<1>6. Bytes \in Nat
  BY ConstAssumption DEF ConstAssumption
<1>7. CASE R.rv = "none"
  <2>1. \A b \in Nat : s <= b /\ b < e => Mode(d, p, b) = IF w THEN "WR" ELSE "UN"
    BY <1>2, <1>3, <1>7 DEF Result
  <2>2. Becomes(c, d, p, s .. e - 1, IF w THEN "WR" ELSE "UN")
    <3> SUFFICES ASSUME NEW q \in Procs, NEW b \in 0 .. Bytes - 1
                 PROVE  Mode(d, q, b) = IF q = p /\ b \in s .. e - 1
                                        THEN (IF w THEN "WR" ELSE "UN") ELSE Mode(c, q, b)
      BY DEF Becomes
    <3>1. b \in Nat /\ (b \in s .. e - 1 <=> s <= b /\ b < e)
      BY <1>6
    <3> QED
      BY <1>4, <1>5, <2>1, <3>1
  <2> QED
    BY <1>1, <2>2
<1>8. CASE R.rv # "none"
  <2>1. PICK m \in s .. e : \A b \in Nat : s <= b /\ b < e =>
                              (Covered(D, p, b) <=> Covered(C, p, b) /\ b >= m)
    BY <1>3, <1>8 DEF Result, Torn
  <2>2. \A b \in Nat : s <= b /\ b < e =>
          Mode(d, p, b) = IF b >= m THEN Mode(c, p, b) ELSE "UN"
    BY <1>2, <2>1
  <2>3. Becomes(c, d, p, s .. m - 1, "UN")
    <3> SUFFICES ASSUME NEW q \in Procs, NEW b \in 0 .. Bytes - 1
                 PROVE  Mode(d, q, b) = IF q = p /\ b \in s .. m - 1
                                        THEN "UN" ELSE Mode(c, q, b)
      BY DEF Becomes
    <3>1. /\ b \in Nat /\ m \in Nat /\ m <= e
          /\ b \in s .. m - 1 <=> s <= b /\ b < m
      BY <1>6
    <3>2. CASE s <= b /\ b < e
      BY <1>4, <2>2, <3>1, <3>2
    <3>3. CASE ~(s <= b /\ b < e)
      BY <1>4, <1>5, <3>1, <3>3
    <3> QED
      BY <3>2, <3>3
  <2> QED
    BY <1>1, <2>3
<1> QED
  BY <1>7, <1>8

\* Every step maps to one of the table, or to none.
LEMMA RefineStep ==
  ASSUME Types \subseteq {"WR"}, OrderInv, [Next]_vars
  PROVE  [Table!Next]_held
<1>1. ASSUME flck' = flck
      PROVE  [Table!Next]_held
  BY <1>1 DEF held, Mode
<1>2. ASSUME NEW p \in Procs, NEW r \in Request, Set(p, r)
      PROVE  [Table!Next]_held
  <2>1. PICK f \in Files, s \in Nat, e \in Nat :
               f = r.file /\ s = r.range[1] /\ e = r.range[2] /\ s < e
    BY RequestIs
  <2>2. e <= Bytes
    <3>1. r.range \in Range0
      BY DEF Request
    <3>2. r.range \in (0 .. Bytes) \X (0 .. Bytes)
      BY <3>1 DEF Range0
    <3> QED
      BY <2>1, <3>2
  <2>3. PICK R : R = Adjusted(p, r)
    OBVIOUS
  <2>4. PICK w \in BOOLEAN : w = (r.type # "UN")
    OBVIOUS
  <2>5. PICK c \in Seq(Locks) : c = flck[f] /\ Sorted(c) /\ Spaced(ToSet(c))
    BY DEF OrderInv, ChainsOK
  <2>6. PICK n : n = Len(c) + Free(p)
    OBVIOUS
  <2>7. Found(p, r) = NoLock /\ flck' = [flck EXCEPT ![f] = R.c]
    BY <1>2, <2>1, <2>3 DEF Set
  <2>8. Outcome(p, w, c, s, e, n, R)
    BY <2>1, <2>3, <2>4, <2>5, <2>6, <2>7, AdjustedOrder
  <2>9. r.type = IF w THEN "WR" ELSE "UN"
    BY <2>4, RequestIs
  <2>10. PICK t \in Types \cup {"UN"} : t = r.type
    BY RequestIs
  <2>11. w => \A q \in Procs \ {p}, b \in s .. e - 1 : Mode(c, q, b) = "UN"
    <3> SUFFICES ASSUME w, NEW q \in Procs \ {p}, NEW b \in s .. e - 1
                 PROVE  Mode(c, q, b) = "UN"
      OBVIOUS
    <3>1. blocked(c, p, "WR", s, e) = NoLock
      BY <2>1, <2>5, <2>7, <2>9 DEF Found
    <3>2. \A x \in ToSet(c) : x.pid # p => x.end <= s \/ x.start >= e
      BY <2>5, <3>1, NotBlocked
    <3>3. \A x \in ToSet(c) : x.start \in Nat /\ x.end \in Nat
      BY Members
    <3>4. b \in Nat /\ s <= b /\ b < e
      OBVIOUS
    <3>5. ~Covered(ToSet(c), q, b)
      BY <3>2, <3>3, <3>4 DEF Covered
    <3> QED
      BY <3>5, ModeIs
  <2>12. ChainsOK
    BY DEF OrderInv
  <2>13. \/ Becomes(c, R.c, p, s .. e - 1, t)
         \/ \E m \in s .. e : Becomes(c, R.c, p, s .. m - 1, "UN")
    BY <2>1, <2>8, <2>9, <2>10, SetBecomes
  <2>14. CASE Becomes(c, R.c, p, s .. e - 1, t)
    <3>1. \/ t = "UN"
          \/ \A q \in Procs \ {p}, b \in s .. e - 1 : Mode(flck[f], q, b) = "UN"
      BY <2>5, <2>9, <2>10, <2>11
    <3>2. Becomes(flck[f], R.c, p, s .. e - 1, t) /\ s <= e
      BY <2>1, <2>5, <2>14
    <3> QED
      BY <2>2, <2>7, <2>12, <3>1, <3>2, TableStep
  <2>15. CASE \E m \in s .. e : Becomes(c, R.c, p, s .. m - 1, "UN")
    <3>1. PICK m \in Nat : s <= m /\ m <= e /\ Becomes(flck[f], R.c, p, s .. m - 1, "UN")
      BY <2>5, <2>15
    <3>2. m <= Bytes
      BY <2>2, <3>1, ConstAssumption DEF ConstAssumption
    <3>3. PICK u \in Types \cup {"UN"} : u = "UN"
      OBVIOUS
    <3>4. Becomes(flck[f], R.c, p, s .. m - 1, u)
      BY <3>1, <3>3
    <3> QED
      BY <2>7, <2>12, <3>1, <3>2, <3>3, <3>4, TableStep
  <2> QED
    BY <2>13, <2>14, <2>15
<1>3. ASSUME NEW p \in Procs, NEW f \in Files, cleanlocks(p, f)
      PROVE  [Table!Next]_held
  <2>1. PICK c \in Seq(Locks) : c = flck[f] /\ Sorted(c)
    BY DEF OrderInv, ChainsOK
  <2>2. PICK d : d = Cleaned(p, c)
    OBVIOUS
  <2>3. ChainsOK /\ flck' = [flck EXCEPT ![f] = d]
    BY <1>3, <2>1, <2>2 DEF cleanlocks, OrderInv
  <2>4. Becomes(c, d, p, 0 .. Bytes - 1, "UN")
    BY <2>1, <2>2, CleanedBecomes
  <2>5. PICK z \in Nat, B \in Nat, u \in Types \cup {"UN"} : z = 0 /\ B = Bytes /\ u = "UN"
    BY ConstAssumption DEF ConstAssumption
  <2>6. Becomes(flck[f], d, p, z .. B - 1, u) /\ z <= B /\ B <= Bytes
    BY <2>1, <2>4, <2>5
  <2> QED
    BY <2>3, <2>5, <2>6, TableStep
<1>4. ASSUME NEW p \in Procs, NEW r \in Request, Refuse(p, r) \/ Deadlk(p, r) \/ Sleep(p, r)
      PROVE  [Table!Next]_held
  BY <1>1, <1>4 DEF Refuse, Deadlk, Sleep
<1>5. ASSUME NEW p \in Procs, Interrupt(p) \/ \E f \in Files : GetBadOffset(p, f)
      PROVE  [Table!Next]_held
  BY <1>1, <1>5 DEF Interrupt, GetBadOffset
<1>6. CASE UNCHANGED vars
  BY <1>1, <1>6 DEF vars
<1> HIDE DEF held
<1> QED
  BY <1>2, <1>3, <1>4, <1>5, <1>6 DEF Next, Setflck

\* The chains of locks behave like a table of what each process has locked.
THEOREM LockTableKept ==
  ASSUME Types \subseteq {"WR"}
  PROVE  Spec => ImplementsLockTable
<1>1. Init => OrderInv
  BY OrderFirst
<1>2. OrderInv /\ [Next]_vars => OrderInv'
  BY OrderStep
<1>3. Init => Table!Init
  <2> SUFFICES ASSUME Init PROVE Table!Init
    OBVIOUS
  <2>1. \A f \in Files : flck[f] = <<>> /\ ToSet(flck[f]) = {}
    BY DEF Init, ToSet
  <2>2. \A f \in Files : \A q, b : Mode(flck[f], q, b) = "UN"
    BY <2>1 DEF Mode
  <2> HIDE DEF Mode
  <2> QED
    BY <2>2 DEF held, Table!Init
<1>4. OrderInv /\ [Next]_vars => [Table!Next]_held
  BY RefineStep
<1> QED
  BY <1>1, <1>2, <1>3, <1>4, PTL DEF Spec, ImplementsLockTable, Table!Spec
=============================================================================
