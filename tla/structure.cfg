\* A remote vnode, transfers that fail, buffers without a vnode, bflush and
\* binval at any time.
CONSTANTS
  Procs = {p1, p2}
  Bufs = {b1, b2}
  Vnodes = {vp1}
  NBlks = 2
  Sizes = {1}
  Vals = {x}
  Junk = junk
  Ops <- EveryOps
  Remote = TRUE
  IOErrors = TRUE
  SyncBSize = 2
  NoProc = NoProc
  NoBuf = NoBuf
  NoVnode = NoVnode
  NoView = NoView
SPECIFICATION Spec
SYMMETRY Symmetric
INVARIANTS SInv ExclusiveUse NoDupBiodone NoStrandedSleeper
\* The system stops where the code panics.
CHECK_DEADLOCK FALSE
