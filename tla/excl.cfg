\* Exclusive locks of three processes on two files, with one header; one
\* query fails and keeps its reference.
CONSTANTS
  Procs = {p1, p2, p3}
  Files = {f1, f2}
  Recs = 5
  Heads = 1
  Bytes = 3
  Types = {"WR"}
  Leaks = 1
  NoLock = NoLock
SPECIFICATION Spec
SYMMETRY Symmetric
INVARIANTS Normal SleeperBlocked SetsExactly NoCircle RefsKept
PROPERTIES ImplementsLockTable
