\* dnlc_purge waits for the block of an inode.
CONSTANTS
  Procs = {p1, p2}
  Names = {a, b}
  Slots = {s1, s2}
  Inos = 3
  NICINOD = 2
  NcSize = 1
  PurgeSleeps = TRUE
  Root = root
  None = none
  Nobody = nobody
  Parts = {{"mkdir", "open", "read", "fhtovp"}}
SPECIFICATION PartSpec
INVARIANTS UniqueInode
