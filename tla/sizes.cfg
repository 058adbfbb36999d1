\* A remote vnode with two block sizes: overlapping buffers, and the caller or
\* an NFS daemon does the I/O.
CONSTANTS
  Procs = {p1, p2}
  Bufs = {b1, b2}
  Vnodes = {vp1}
  NBlks = 2
  Sizes = {1, 2}
  Vals = {x}
  Junk = junk
  Ops <- SizeOps
  Remote = TRUE
  IOErrors = FALSE
  SyncBSize = 2
  NoProc = NoProc
  NoBuf = NoBuf
  NoVnode = NoVnode
  NoView = NoView
SPECIFICATION Spec
SYMMETRY Symmetric
INVARIANTS UniqueMapping
