------------------------------- MODULE Kernel -------------------------------
(***************************************************************************)
(* Processes and their sleep and wakeup (PAGING/os/slp.c), as the kernel's *)
(* facilities use them.  The kernel is not preempted: a process runs from  *)
(* its call, or from being woken, until it returns or sleeps.              *)
(* A facility keeps a function w from the processes that sleep in it to    *)
(* records whose chan is the address slept on (p_wchan), Run once wakeup   *)
(* has taken the process off the sleep queue and it has not run yet.       *)
(***************************************************************************)
EXTENDS Integers, FiniteSets, SequencesExt

CONSTANT Procs  \* processes

Run == <<"run">>

Put(f, k, x) == [j \in DOMAIN f \cup {k} |-> IF j = k THEN x ELSE f[j]]
Drop(f, k) == [j \in DOMAIN f \ {k} |-> f[j]]

sleep(w, p, wait) == Put(w, p, wait)
unsleep(w, p) == Drop(w, p)

\* Everyone who sleeps on one of the addresses is made runnable.
wakeup(w, chans) ==
  [p \in DOMAIN w |-> IF w[p].chan \in chans THEN [w[p] EXCEPT !.chan = Run]
                      ELSE w[p]]

Asleep(w) == {p \in DOMAIN w : w[p].chan # Run}
=============================================================================
