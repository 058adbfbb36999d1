----------------------------- MODULE BlockStore -----------------------------
(***************************************************************************)
(* What the buffer cache promises its callers: a memory of blocks.  A      *)
(* process asks for some blocks of a device, has them for itself, may      *)
(* store in them, and gives them back.  There are no buffers here, no      *)
(* lists, no transfers, no flags.                                          *)
(***************************************************************************)
EXTENDS Naturals

CONSTANTS Procs, Vnodes, NBlks, Vals, Junk, NoView

VARIABLES store,  \* the contents of each block of each device
          view    \* the blocks a process has, and what it sees in them

Blks == 0 .. NBlks - 1

\* Nobody else has any of the blocks S of vp.
Free(p, vp, S) ==
  \A q \in Procs \ {p} :
    view[q] # NoView /\ view[q].vp = vp => S \cap DOMAIN view[q].data = {}

Give(p, op, vp, data) ==
  view' = [view EXCEPT ![p] = [op |-> op, vp |-> vp, data |-> data]]

\* bread, breada: p gets the blocks S of vp with their contents.
Read(p, vp, S) ==
  /\ view[p] = NoView /\ Free(p, vp, S)
  /\ Give(p, "read", vp, [d \in S |-> store[vp][d]])
  /\ UNCHANGED store

\* getblk: p gets the blocks S of vp to store in; what it sees may be anything.
Take(p, vp, S) ==
  /\ view[p] = NoView /\ Free(p, vp, S)
  /\ \E data \in [S -> Vals \cup {Junk}] : Give(p, "take", vp, data)
  /\ UNCHANGED store

\* p stores v in the blocks it has.
Store(p, v) ==
  /\ view[p] # NoView
  /\ LET S == DOMAIN view[p].data IN
     /\ Give(p, view[p].op, view[p].vp, [d \in S |-> v])
     /\ store' = [store EXCEPT ![view[p].vp] =
                    [d \in Blks |-> IF d \in S THEN v ELSE @[d]]]

\* brelse and the writes: p gives its blocks back.
GiveBack(p) ==
  /\ view[p] # NoView
  /\ view' = [view EXCEPT ![p] = NoView]
  /\ UNCHANGED store

Init == /\ store \in [Vnodes -> [Blks -> Vals]]
        /\ view = [p \in Procs |-> NoView]

Next == \E p \in Procs :
          \/ view[p] = NoView /\ view'[p] # NoView
               /\ \E vp \in Vnodes, S \in (SUBSET Blks) \ {{}} : Read(p, vp, S) \/ Take(p, vp, S)
          \/ \E v \in Vals : Store(p, v)
          \/ GiveBack(p)

Spec == Init /\ [][Next]_<<store, view>>
=============================================================================
