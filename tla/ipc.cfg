\* Semaphores, messages and a stream of three processes.
CONSTANTS
  Parts = {"sem", "msg", "stream"}
  Procs = {p1, p2, p3}
  SemSlots = {0}
  Nums = {0, 1}
  semvmx = 2
  semaem = 1
  semume = 1
  semmnu = 2
  SemCalls <- Lists
  SetVals = {0, 2}
  SemRemovals = 1
  Queues = {q1, q2}
  msgseg = 2
  msgtql = 3
  msgmnb = 2
  MsgKinds <- Kinds
  Wanted <- Types
  MsgRemovals = 1
  HIWAT = 1
  strmsgsz = 2
  Chunks = {1, 3}
  MaxChars = 3
  MaxAllocs = 1
SPECIFICATION Spec
SYMMETRY IpcSymmetric
INVARIANTS CharsKept NothingStuck SemSleeperBlocked MsgSpace MsgSleeperBlocked
PROPERTIES ImplementsSemSet MsgOrder
