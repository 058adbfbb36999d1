\* A query with a bad offset: does fl_refcnt count the calls under way?
CONSTANTS
  Procs = {p1, p2, p3}
  Files = {f1}
  Recs = 5
  Heads = 1
  Bytes = 3
  Types = {"WR"}
  Leaks = 1
  NoLock = NoLock
SPECIFICATION Spec
SYMMETRY Symmetric
INVARIANTS RefsExact
