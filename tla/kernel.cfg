\* Remote calls on one handle to a server of one process, user-level locks on
\* three bytes with three records, and a pipe of two blocks.
CONSTANTS
  Parts = {"rpc", "lock", "pipe"}
  Procs = {p1, p2, p3}
  MAXCLIENTS = 1
  Mounts <- MountKinds
  Requests <- Calls
  Nfsds = {n1}
  MAXDUPREQS = 1
  MaxXid = 2
  MaxCalls = 2
  MaxRcv = 1
  LockFiles = {f1}
  Records = {1, 2, 3}
  MAXSIZE = 3
  Asked <- Spans
  PIPSIZ = 4
  BSIZE = 2
  Amounts = {1, 5}
SPECIFICATION Spec
SYMMETRY KernelSymmetric
INVARIANTS OneCaller OwnReply NoAfterYes RpcSleeper ListsOrdered LockSleeper NoLockCircle PipeFifo PipeSleeperBlocked
PROPERTIES ImplementsTable
