\* Two processes, two names, two slots of the inode table for two inodes.
CONSTANTS
  Procs = {p1, p2}
  Names = {a, b}
  Slots = {s1, s2}
  Inos = 2
  NICINOD = 2
  NcSize = 1
  PurgeSleeps = FALSE
  Root = root
  None = none
  Nobody = nobody
  Parts = {{"mkdir", "open", "unlink", "rmdir"}, {"creat", "link", "unlink"},
           {"mkdir", "rmdir", "rename"}, {"mknod", "unlink", "rename"},
           {"mknod", "unlink", "fhtovp", "read"}}
SPECIFICATION PartSpec
SYMMETRY DirSymmetric
INVARIANTS UniqueInode RefsCounted LinksCounted DiskSafe NamesTrue NoInodeLost InodeSleeper
PROPERTIES OpenFileKept
