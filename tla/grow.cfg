\* Two block sizes on one device: is a delayed write ever read over?
CONSTANTS
  Procs = {p1, p2}
  Bufs = {b1, b2}
  Vnodes = {vp1}
  NBlks = 2
  Sizes = {1, 2}
  Vals = {x, y}
  Junk = junk
  Ops <- SizeOps
  Remote = FALSE
  IOErrors = FALSE
  SyncBSize = 2
  NoProc = NoProc
  NoBuf = NoBuf
  NoVnode = NoVnode
  NoView = NoView
SPECIFICATION Spec
SYMMETRY Symmetric
INVARIANTS DelayedWriteKept
