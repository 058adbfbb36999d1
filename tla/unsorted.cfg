\* Shared and exclusive locks: is a chain ever searched in the wrong order?
CONSTANTS
  Procs = {p1, p2, p3}
  Files = {f1}
  Recs = 9
  Heads = 1
  Bytes = 3
  Types = {"RD", "WR"}
  Leaks = 0
  NoLock = NoLock
SPECIFICATION Spec
SYMMETRY Symmetric
INVARIANTS NoConflict
