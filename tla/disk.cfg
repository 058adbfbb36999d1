\* One local disk, one block size: bread, breada and the routines that flush and
\* invalidate free buffers.
CONSTANTS
  Procs = {p1, p2}
  Bufs = {b1, b2}
  Vnodes = {vp1}
  NBlks = 2
  Sizes = {1}
  Vals = {x, y}
  Junk = junk
  Ops <- FlushOps
  Remote = FALSE
  IOErrors = FALSE
  SyncBSize = 2
  NoProc = NoProc
  NoBuf = NoBuf
  NoVnode = NoVnode
  NoView = NoView
SPECIFICATION Spec
SYMMETRY Symmetric
INVARIANTS NoFault
PROPERTIES FlushDurable ImplementsBlockStore
