\* One local disk: is every sleeper woken, for a buffer, a free one or a transfer?
CONSTANTS
  Procs = {p1, p2}
  Bufs = {b1, b2}
  Vnodes = {vp1}
  NBlks = 2
  Sizes = {1}
  Vals = {x}
  Junk = junk
  Ops <- LiveOps
  Remote = FALSE
  IOErrors = FALSE
  SyncBSize = 3
  NoProc = NoProc
  NoBuf = NoBuf
  NoVnode = NoVnode
  NoView = NoView
SPECIFICATION FairSpec
PROPERTIES SleeperWakes
