----------------------------- MODULE LockTable -----------------------------
(***************************************************************************)
(* What record locking promises: for each file and process the bytes it    *)
(* has locked, for reading or for writing.  A process may lock bytes that  *)
(* nobody has locked in a way that excludes it, and unlock what it has;    *)
(* there are no lock records, chains or pools.                             *)
(***************************************************************************)
EXTENDS Naturals

CONSTANTS Procs, Files, Bytes, Types

VARIABLE held

\* Nobody else's lock of the bytes B excludes type t.
Allowed(f, p, B, t) ==
  \A q \in Procs \ {p}, b \in B :
    held[f][q][b] = "UN" \/ (held[f][q][b] = "RD" /\ t = "RD")

Lock(f, p, B, t) ==
  /\ t # "UN" => Allowed(f, p, B, t)
  /\ held' = [held EXCEPT ![f][p] = [b \in DOMAIN @ |-> IF b \in B THEN t ELSE @[b]]]

Init == held = [f \in Files |-> [p \in Procs |-> [b \in 0 .. Bytes - 1 |-> "UN"]]]

\* A call that sleeps, fails or asks for what there is changes nothing.
Next ==
  \/ held' = held
  \/ \E f \in Files, p \in Procs, t \in Types \cup {"UN"} :
       \E s, e \in 0 .. Bytes - 1 : s <= e /\ Lock(f, p, s .. e, t)

Spec == Init /\ [][Next]_held
=============================================================================
