# A verification of parts of the A/UX kernel

This directory specifies parts of the A/UX kernel (the sources under `src/`) in
TLA+, checks the specifications on small instances with TLC, and proves the main
results for every instance with TLAPS.

## The system

The kernel is a System V kernel with 4.2BSD networking and the SunOS vnode, NFS
and RPC code. It runs on one processor and is not preemptive: a process in the
kernel runs until it sleeps (`sleep`, `PAGING/os/slp.c`) or returns to user mode,
and only interrupts come between two of its instructions, unless it raises the
processor priority (`spl6`). Nearly every hard behaviour of this code comes from
that rule: a routine may assume what it has checked until it sleeps, directly or
in something it calls, and must check again afterwards. So an action of a module is,
with few exceptions, the code from one place where a process can sleep, or can be
interrupted with consequences, to the next.

### Inventory

| Component | Source | State | Operations | What is hard | Module |
|---|---|---|---|---|---|
| Buffer cache | `COMMON/os/vfs_bio.c`, `PAGING/os/bio.c`, `include/sys/buf.h` | buffer headers, hash chains, free lists, `B_*` flags | `bread`, `breada`, `getblk`, `geteblk`, `brealloc`, `getnewbuf`, `bwrite`, `bdwrite`, `bawrite`, `brelse`, `biowait`, `biodone`, `blkflush`, `bflush`, `binvalfree`, `binval` | sleeps between lookup and use, release by the interrupt, delayed writes, several block sizes, strategy routines that sleep | `BufCache` |
| NFS client I/O | `NFS/sys/nfs_vnodeops.c`, `nfs_subr.c` | rnodes, the daemons' queue | `nfs_strategy`, `do_bio`, `async_daemon` | I/O that sleeps in the caller, errors kept in the rnode | `BufCache` (strategy only) |
| Record locks | `COMMON/os/flock.c` | a sorted chain of locks per file, sleeping requests, a pool of records and of headers | `setflck`, `getflck`, `cleanlocks` | splitting and joining of locks, order of the chain, deadlock detection, lost wakeups, a pool that runs out in the middle of an update | `RecordLock` |
| User-level locking | `PAGING/os/ulocking.c`, `svfs_rdwr` | a list of locked regions per file, one pool | `locking`, `locked`, `unlock` | the same, with other algorithms, and records that change under a sleeper | `UserLocks` |
| Sleep, wakeup | `PAGING/os/slp.c` | sleep queues, run queue | `sleep`, `wakeup`, `unsleep` | signal against wakeup | `Kernel` |
| System V IPC | `PAGING/os/sem.c`, `msg.c`, `shm.c`, `ipc.c` | semaphore sets, undo lists, message queues, segments | `semop`, `semctl`, `semexit`, `msgsnd`, `msgrcv`, `msgctl`, `shmat` | all or nothing with sleeps, removal while others sleep, pools that run out | `Semaphores`, `Messages` |
| Pipes | `SVFS/sys/5_pipe.c`, `rwip` of `5_vnodeops.c` | an inode used as a ring, counts of readers and writers | `openp`, `closep`, `rwip`, `p_wakeup` | closes in the middle of a transfer, places kept in local variables | `Pipes` |
| Streams | `COMMON/os/stream.c`, `streamio.c` | queues, message blocks, the run list | `putq`, `getq`, `canput`, `flushq`, `queuerun`, `strwrite`, `strread`, `strioctl` | flow control and back-enabling across interrupt level | `Streams` (write side) |
| Terminals | `COMMON/io/line.c`, `ttx.c`, `psn/io/keyboard.c` and others | the line discipline, the driver's message and flags | output and input processing, delays, flushes, stop and start | keyboard interrupts in the middle of the output | `Streams` (write side) |
| System V file system | `SVFS/sys/5_*.c` | the inode table, the free lists, directories | `iget`, `iput`, `ialloc`, `ifree`, `iupdat`, `dirlook`, `direnter`, `dirremove`, `alloc`, `free` | inode locks, reuse while sleeping, crashes between writes | `Inodes`, `Directory` |
| Vnodes, name cache | `COMMON/os/vfs*.c` | mount table, name cache | lookup, enter, purge | stale names | `Inodes` (name cache) |
| RPC, NFS server | `RPC/sys`, `NET/sys/nfs_server.c`, `NFS/sys/nfs_server.c` | client handles, transactions, remembered requests | `rfscall`, `clntkudp_callit`, `svckudp_dupsave` | lost, late and repeated messages, timeouts | `Rpc` |
| Callouts | `PAGING/os/clock.c` | a list of relative times | `timeout`, `untimeout`, the clock interrupt | relative times when entries are removed | - |
| Signals | `PAGING/os/sig.c` | pending signals | `issig`, `psignal` | signals during a sleep | as the end of a sleep |
| Memory | `PAGING/os/region.c`, `page.c`, `getpages.c`, `fault.c`, `swapalloc.c`, `grow.c` | regions, page tables, the page hash, swap maps | attach, detach, fault, steal | reference counts, locks across sleeps | - |
| Processes | `PAGING/os/fork.c`, `exit.c`, `exec.c` | the process table | `fork`, `exit`, `wait` | parents and children in any order | - |
| Sockets, Internet protocols | `NET/sys`, `NETinet/sys` | sockets, mbufs, protocol blocks | the 4.2BSD network | a project of its own | - |
| Slot manager, drivers | `slots`, `psn` | hardware | configuration, drivers | hardware | - |

`PROJECT.json` lists the components with their status, and under `hazards` what
is hard to test in the code that is modelled, each at its line.

### The modules

`Kernel` has what the smaller facilities share: a function from the processes that sleep
in a facility to what they sleep on and what they do next, with `sleep`, `wakeup` and
`unsleep`. `Semaphores`, `Messages`, `Pipes`, `Streams`, `UserLocks` and `Rpc` extend it;
`BufCache`, `RecordLock` and `Inodes` with `Directory`, written around the sleeps of their
own code, keep that state themselves. `BlockStore`, `LockTable` and `SemSet` are abstract
specifications; `LockTable` is implemented twice, by `RecordLock` and by `UserLocks`.
`BufCacheProofs`, `BufStoreProofs`, `RecordLockProofs`, `UserLockProofs`, `PipeProofs`,
`MessageProofs`, `RpcProofs` and `StreamProofs` have the proofs. The `MC` modules make instances. `MCIpc` and
`MCKernel` put several facilities in one instance: they share nothing but the processes, so a behaviour has the steps of one of them
(`part`).

The suite is kept at a dozen runs, so that all of it can be checked after every change.

## The plan

Done: the buffer cache, record locks, System V semaphores and messages, pipes, the
inode table with the name cache and the operations of a directory, RPC, user-level
locks, the write side of a terminal's stream; the proofs named below.

Next, in this order:

1. `Callouts`: the delta list of `clock.c`, which `Streams` and `Rpc` use as "some time later".
2. The read side of a stream and its ioctls (`strdoioctl` with `str2time` and `str3time`,
   `streamio.c` 1155-1330, where a timeout meets a late acknowledgement).
3. Regions and the page cache (`region.c`, `page.c`).
4. Proofs: the inode table's `UniqueInode` (without a purge that waits).

## The buffer cache

### `BufCache.tla`

The state is the fields of `struct buf` that the routines read (`b_flags`, `b_vp`,
`b_dev`, `b_blkno`, `b_bcount`, the contents `b_data`), the free list a buffer is on
(`freeq`), `B_WANTED` of the list head (`listWanted`), the buffers a driver has
(`io`), the devices (`disk`), and for each process where it is in which call
(`pc`, `call`) with the local variables of the routines (`bp`, `first`, `gret`, `wb`,
`wflag`, `wret`, `group`). A hash chain is not kept: the searches look at all
buffers with the right vnode and block, which is what the chain holds as long as
callers ask for blocks aligned to their size (`Block`).

`cpu` is the process running in the kernel. An action is the code from one place
where a process can sleep, or can be interrupted with consequences, to the next:
`Goto` keeps the processor, `Yield` and `Sleep` give it up. `Biodone` is the disk
interrupt and is enabled in between, also while a process keeps the processor. With
`Remote` the strategy routine is `nfs_strategy`: an asynchronous request may be left
to a daemon, any other is done by the caller, who sleeps in it (`rpc`); `Biodone`
then needs the processor like every process.

The loops of the code that start again from the top (`goto loop`) are labels: a
process stays at its label and takes the next action that is enabled there. A
search that stops at the first match takes any match; there is at most one
(`UniqueMapping`) for the exact searches, and the order in which overlapping buffers
are handled does not matter to what is stated.

`Modify` is the caller, who stores what it likes in a buffer it holds. Whether a
transfer fails is chosen by `Biodone` when `IOErrors` allows it. A panic, or a step
that has no defined effect, sets `fault` and stops the system.

### `BlockStore.tla`

What the cache promises: a memory of blocks, read and written directly, in which
a block is had by one process at a time. There are no buffers in it. `BufCache` maps
to it with `Stores(vp, d)`, the contents of the buffer that stands for block d if
there is one and of the device otherwise, and `View(p)`, what a process sees in the
buffer it holds. That every behaviour of `BufCache` is one of `BlockStore` says that
no write is lost and none read stale, whatever is cached, delayed, read ahead,
flushed or invalidated on the way, and that a flush, a transfer or the reuse of a
buffer changes nothing a caller can see.

### What was found

* `bflush` (line 607) looks again only at `B_DELWRI` of the buffers it noted, although
  its comment reckons with a strategy routine that sleeps. With NFS, where it does,
  another process can take a noted buffer in the meantime; `notavail` then takes a
  busy buffer off a free list it is not on. `NoFault` fails with a remote vnode and `bflush`;
  `disk`, where it is checked, is local, and the comment promises nothing.
* `brealloc` (line 394) clears `B_DONE` of a cached buffer that has to grow, dirty or
  not; `bread` then reads the larger block over the delayed write (`grow`). The other
  runs use one block size per device, or check only the mapping.

### Proofs

`BufCacheProofs.tla` proves, for any number of processes, buffers, vnodes, blocks and
sizes, local or remote, with or without errors:

* `TypeCorrect`: `Spec => []TypeOK`,
* `BuffersExclusive`: `Spec => []ExclusiveUse`,
* `NoDoubleBiodone`: `Spec => []NoDupBiodone`,
* `OneMapping`: `Spec => []UniqueMapping`,

from `ConstAssumption` alone. None of the first three is inductive. `IInv` adds what each
label implies about the buffers a process has (`Control`: for instance that `wb` is set
exactly in `bwrite`, at the label `wret` otherwise), that a busy buffer has an owner
(`Owned`) and only one, in one role (`OnlyOwner`), and the state of a buffer under I/O
(`UnderWay`: busy, not done, of a known device; `B_ASYNC` is set only between `bwrite` or
`breada` and `biodone`, so that `biodone` releases exactly the buffers nobody waits
for). `IInv` holds initially (`InitI`), every action preserves it (one lemma per action,
one step per conjunct, combined in `NextI`), and it implies the three properties
(`SafeI`).

`UniqueMapping` is inductive, given the types and that `bp` is a buffer in `brealloc`. Every
step but `BreallocDone` leaves each buffer with no more blocks than it had: it loses its
vnode, becomes `B_INVAL`, has its size set to 0, or keeps what it is (`Fades`, `NextFades`);
such a step makes no new overlap (`FadeStep`). `BreallocDone` grows a buffer only when its
search found no other one in the way, and it has not slept since (`BreallocDoneMaps`); this
is where the code's `goto loop` after each sleep is needed: the mutant of `InTheWay` that
does not wait for a busy buffer in the way breaks the property.

The second part of the module proves that there is no lost wakeup, `NobodyStranded`:
`Spec => []NoStrandedSleeper`, under the further assumption `ChanAssumption`, that the wait
channel of the free list is not the address of a buffer. The invariant `SInv` adds two things
to `IInv`. `Started`: when a process is at `biowait`, in the read of a buffer it has or of
`breada`'s block proper, or in a synchronous `bwrite`, the transfer has ended or is under way;
without it a process could wait for the end of a transfer nobody began. `Waiting`: a buffer
somebody sleeps on is busy and either `B_WANTED` or under a synchronous transfer, and a free
list somebody sleeps on is empty and marked. It is stronger than the property: an
*asynchronous* transfer alone is no promise of a wakeup, because `brelse`, which `biodone`
then calls, wakes only the sleepers of a `B_WANTED` buffer. The steps fall into seven kinds,
with a lemma each: those that change nothing sleepers rely on (`StillS`), that only set flags
(`MarkS`), that take a free buffer (`TakeS`), start a transfer (`AskS`), release (`BrelseS`,
`BiodoneS`), and the sleeps themselves (`WaitForS`, `BiowaitS`, `GetnewbufWaitS`). The run
`structure` checks `SInv`, and with it `IInv`.

`BufStoreProofs.tla` proves `FlushReachesDevice`: `Spec => FlushDurable` for any sizes, local or
remote, with failing transfers, in a system where nobody calls `binval` (`"binval" \notin Ops`).
The invariant `StoreInv` says what the flags mean: a buffer that is `B_DONE` and neither `B_INVAL`,
`B_ERROR` nor `B_DELWRI`, and that no process has stored in since (`Clean`), has what its blocks
have on the device (`Coherent`). Three facts keep it so. An invalid buffer is clean and free or
has no vnode, a failed one loses its vnode with its owner, and a transfer has one (`Placed`).
A buffer that is to grow is not `B_DONE` (`Growing`): the first assignment of `brealloc`. And a transfer that ends stores in no block of another buffer,
because of `UniqueMapping` (`BiodoneStore`). Most steps make no buffer clean and touch no
contents (`KeepsStep`). The hypothesis is needed: `binval` marks a buffer invalid while it is
written, a second buffer may then be given the block and read it, and the write reaches the
device after the read.

The second half of the module proves the refinement, `CacheIsMemory`: `Spec => ImplementsBlockStore`, for
any processes, buffers, vnodes and blocks, local or remote, if `Plain` holds: there is one block
size, transfers succeed, and nobody calls `binval`. Each of the three is needed. A failed
delayed write loses what was written, `binval` loses it on purpose, and with several sizes
a delayed write is lost when its buffer grows (the run `grow`). Everything else is allowed: all the calls but `binval`,
read-ahead, delayed and asynchronous writes, the flushes, `binvalfree`, reuse of buffers.
The argument: `MemInv` adds to `StoreInv` that
no transfer failed, that a delayed write is complete (`Delayed`), and where a process has a
buffer with memory (`Placing`; a buffer that `getblk` gives its caller without a read is for a
caller of `getblk`). At most one buffer stands for a block (`OneHolder`), so `Stores` is what that buffer
has, or the device (`StoresServed`, `StoresUnserved`). A step of a process, but for the caller's own store, is
`Calm`: each buffer stands for its blocks as before (`Stands`), or is given up and was
clean (`Gone`); hence the memory stays (`StoreKept`) and only the view of that process may
change (`CalmStep`), which is a stutter, the end of a view (`GiveBackStep`), or a view of blocks nobody
else sees (`GivenStep`, from `Alone`), with the memory's contents if it is a read. `Modify` is the store of `BlockStore`
(`ModifyMemory`), and `Biodone` moves contents between a buffer and the device without a change of what the two
store together (`BiodoneMemory`). `ViewAssumption` says that `NoView` is not a view.

The third part proves `NoPanic`: `Spec => []NoFault` for local disks (`~ Remote`) and a `Steady`
system: nobody calls `binval`, and transfers do not fail or all buffers have one size. Both
hypotheses are needed. With a remote vnode `bflush` does take a busy buffer off a list (above).
With two sizes and a failing disk, a delayed write that grows is read over (the run `grow`), the
read fails, `brelse` takes its vnode, and the write it still owes goes through a null one. The
invariant has two halves. `FaultInv`: what owes a delayed write has a vnode and is not a
failed transfer (`Owing`), and so has every buffer a process has on its way to a strategy
routine (`Named`; only the buffer of `geteblk` has none, and that is never stored in). A step
of a process touches no vnode and no size of a buffer another one has (`Tame`, one lemma per
family of steps); `brelse` takes vnodes only from failed transfers and `biodone` only from
buffers no process has (`BrelseTame`, `BiodoneNamed`). `Grouped`: from the time `bflush` notes a
group to the last of its writes it keeps the processor, because the writes are
`B_ASYNC` and a local strategy routine does not sleep, so the members it has not come to
stay on their lists; interrupts only add to them (`NextGrouped`).

### What is only model-checked, and what is left out

`SleeperWakes` is checked on the instances above. Liveness is out of the prover's reach: `NobodyStranded` proves that the wakeup of
a sleeper is still to come, not that it comes.

Left out: reference counts of vnodes (`VN_HOLD`, `VN_RELE`), accounting (`sysinfo`),
error codes, physical and swap I/O, the order within a free list (any buffer of the
list may come first), `B_LOCKED`, `B_NOCACHE` and `B_CALL` (nothing sets them), buffers
without memory (`allocbuf` always succeeds) and the memory that `bflush`
overwrites behind `buflist[]` (line 601).

## Record locks

### `RecordLock.tla`

The state is the chain of locks of each file (`flck`, in the order of the chain), the
files that have a header (`fids`), `fl_refcnt`, and the records of the processes that
sleep (`sleeplcks`). A process sleeps in `setflck` only and there is no interrupt in
this code, so an action is a whole call, or the part of it after a wakeup: `Set` (a lock
is set or removed), `Refuse` (`EACCES`, or `ENOSPC` for the record to sleep on), `Deadlk`,
`Sleep`, `Interrupt` (a signal), `cleanlocks` (a descriptor is closed) and
`GetBadOffset`, the one `F_GETLK` that changes anything. A process that was woken still
has its record, with the old `blkpid`, until it runs.

`flckadj` is a fold of `Adjust` over the chain from the insertion point on, followed by
`Insert`; `cleanlocks` folds `Drop` over it. `Own` follows the cases of `regflck`, with an operator
for each thing that happens to a lock (`Dropped`, `Gone`, `Cut`, `Sever`, `JoinEnd`, `JoinStart`). The search loops of `blocked` (`Turn`,
`blocked`, `insrt`) and of `flckadj` (`LastBefore`) stop where the code stops, which
is what matters once a chain is not sorted. `rec` tells apart equal locks of a chain; two
locks of the code are never the same record. `stat.wakeflg` is not kept: who sleeps on a
lock is read off `sleeplcks`, and a lock with `wakeflg` set and nobody asleep on it
wakes nobody.

### `LockTable.tla`

What record locks promise: for each process and file, which bytes it has locked and how.
`RecordLock` maps to it with `held`. `SetsExactly` says more of single calls: the bytes of
the range, and no others, get the type asked for.

There is no liveness property: whether a sleeper gets its lock is up to the process
that has it, which need never give it up, and a process may be overtaken.
`SleeperBlocked` and `NoCircle` say what the code can be held to: whoever sleeps has
somebody's lock in its way, whose removal wakes it, and no set of sleepers waits for
itself.

### What was found

* `flckadj` (lines 320 and 345) looks for the place of a severed tail by the start of
  the request and not of the tail, so that the tail may come before a lock of another process
  that starts earlier. `blocked` stops at the tail and grants an exclusive lock on a byte
  that other process has locked for reading (`unsorted`).
* `getflck` (line 487) forgets `freefid` when the offset is bad: `fl_refcnt`, which `flock.h` calls
  the number of processes currently referencing the header, counts that call for ever
  (`leaks`). What the code does keep, such calls included, is `RefsKept`: no header goes too early,
  none stays without a reference or a lock.
* `deadflck` (line 642) believes the `blkpid` of a process that has been woken and has
  not run: `EDEADLK` without a deadlock.
* A call that fails with `ENOSPC` may have cut or dropped locks of the caller in its range
  (`SetsExactly` allows it; nothing in the sources promises otherwise).

### Proofs

`RecordLockProofs.tla` proves, for any processes, files, records and ranges:

* `NoWaitCircle`: `Spec => []NoCircle`. `CircleInv` adds that only processes are on
  `sleeplcks`. A wakeup or a signal takes a process off and cannot close a circle;
  in `Sleep`, the set that shows that `deadflck` does not come to p, cut with a circle
  through p, would be a circle that was there before.
* `HeadersKept`: `Spec => []RefsKept`. `HeaderInv` adds types. Every call that ends gives up its
  reference and its record together (`EndOfCall`); a call that sleeps has both (`SleepHeader`); a
  failing query adds a reference of nobody (`LeakHeader`).
* `HeadersCounted`: if no `F_GETLK` fails (`Leaks = 0`), the references are exactly the
  sleepers (`RefsExact`): the failing query is the only way to what `leaks` shows.

* `NobodySleepsOnNothing`: `Spec => []SleeperBlocked`, for shared and exclusive locks, and
  although chains get out of order. `BlockInv` adds types. `blocked` returns a lock of the chain
  that conflicts (`BlockedIs`). A chain changes in `flckadj` and `cleanlocks` only; `Follows`
  says of two states of `flckadj` that every lock of the first chain is in the second or among the
  locks woken. Everything `Own` does to a lock is such a step (`FollowsGone` to `FollowsJoin`),
  so is a turn of the loop (`FollowsTurn`), `Follows` is transitive, and a call is its turns
  one after the other (`Turns`, `Calls`, `FollowsCall`).

`deadflck` is stated as membership in every set that is closed under "waits for the
owner", which is what the walk along `sleeplcks` computes when it ends; `NoCircle` is
why it ends.

Four theorems are about exclusive locks (`Types` without `"RD"`), for any processes, files,
sizes of the pools and ranges. With shared locks they are false: `unsorted` shows two locks that
exclude each other on a chain that is out of order.

* `ChainsNormal`: `Spec => []Normal`, chains stay sorted and the locks of a process apart.
* `LocksExclude`: `Spec => []NoConflict`.
* `CallsSetExactly`: `Spec => []SetsExactly`, whatever is split, joined, shortened or dropped on
  the way, and although the pool may run out in the middle.
* `LockTableKept`: `Spec => ImplementsLockTable`, every step of the chains is one of the table
  or none.

The inductive invariant is `OrderInv`: every chain is `Sorted` and its locks are `Spaced` (two
locks overlap in no byte, and those of one process do not even touch), and no more records are in use
than there are. `Normal` and `NoConflict` follow from it at once. That a call keeps it is an
argument about `flckadj` alone, in these parts:

* *Where it starts.* When `blocked` finds nothing, no lock of another process overlaps the range
  (`NotBlocked`; this is where the chain has to be sorted, as the loop stops early), and
  `insrt` is a place with nothing of the caller's before it that the range touches (`ReadyToSet`).
* *The loop.* `Kept` relates the chain and the range, as a turn leaves them, to the chain and range of the
  call: other processes' locks are what they were and out of the way; what the caller has locked is
  what it had, but for the range; the range has grown by nothing the caller had not locked (`Good`);
  the locks still to come are those from the next place on (`Left`); and once the loop is left, no lock
  of the caller is in the range (`Out`) or, when there was no record to sever one, a first part of the
  range is lost (`Torn`). Each case of `Own` replaces a lock by its `Pieces` or moves the ends of the
  range, and keeps it (`KeptGone` to `KeptSevered`, `KeptSetting`, `KeptRemoving`, `KeptTurn`, `KeptLoop`).
* *The end.* `Insert` comes behind the last lock that starts before the range (`InsertIs`). The
  outcome of any call is `Outcome` (`CallIs`), and it says what happens to the mode of each byte
  (`ModesSet`).
* *The table.* A call that succeeds is `Table!Lock` on its range; one that ran out of records is
  `Table!Lock` with `"UN"` on the part it has lost, or no step; a closed descriptor is
  `"UN"` on all bytes (`SetBecomes`, `CleanedBecomes`, `RefineStep`).

The theorems do not need the loop's number of turns: `KeptLoop` takes the first
place at which a fold's state is not `Kept`, which there cannot be.

With locks of both kinds nothing is claimed of the chains' order, or of the bytes a call sets; what holds
then is `SleeperBlocked`, `NoCircle` and `RefsKept`. Neither a run nor a theorem shows what a call that fails
half done, which takes locks of both kinds, leaves of the caller's locks.

Left out: `convoff` (requests are absolute ranges), negative lengths and the width of
offsets (line 542), the access mode of the descriptor, the answer of `F_GETLK`.

## System V IPC

### `Semaphores.tla` and `SemSet.tla`

The state is the slots (`sema`: allocated, sequence number), the semaphores (`sem`:
`semval`, `semncnt`, `semzcnt`), the undo entries (`sem_undo`) and who sleeps (`semwait`).
`semop` runs from its first operation to its end or its sleep: `Try` is one operation,
`semundo` takes back what was done, `semaoe` keeps the undo entries and may fail.
`SemResume` is a sleeper that runs again and starts from its first operation,
`SemInterrupt` one that a signal wakes. `semctl` (`SETVAL`, `SETALL`, `IPC_RMID`), `semget` and
`semexit` are the other actions.

`SemSet` is what this promises: a call changes all semaphores it names or none, and an exit
adds exactly what the `SEM_UNDO` operations since the last `semctl` sum up to. That
`Semaphores` implements it (`ImplementsSemSet`) says that the taking back is complete, whichever
operation failed and why. `SemSleeperBlocked` is the other half: nobody sleeps while all his
operations could be done.

### `Messages.tla`

`msgmap` is the pool of segments with first fit (`malloc`), `msgfp` the free headers; the text
of a message is a set of segments. The actions are `msgsnd` and `msgrcv` from their call or
from being woken to their end or sleep, an interrupted sleep, `msgget` and `IPC_RMID`.
`MsgSpace` accounts for every segment and header, `MsgOrder` says that messages of one
type are received in the order sent, `MsgSleeperBlocked` that nobody sleeps who could go on.

### `Pipes.tla`

`ip` has the fields of the inode, `ring` the bytes (each by its number), `rw` the call that
has the inode locked. Opens and closes do not lock and come between the blocks of a
transfer. `PipeFifo` relates the ring, `i_size` and the two places, one of which may be in
a local variable; `PipeSleeperBlocked` says who may sleep.

A transfer may fail in three ways, and the code keeps the pipe consistent in none of them:

* `uiomove` copies only part of a block (`CopyFails`): the place moves by what was copied, `i_size`
  by all of it (`5_vnodeops.c` 517-542, 553-566);
* `bmap` finds no block (463-467), or the buffer has an error (512-515) (`BlockFails`): if earlier blocks
  were moved, they are in `i_size`, the place is not kept, and nobody is woken.

And `closep` (`5_pipe.c` 145-157) resets the inode after `free`, which may sleep: `PipeClose` leaves the
process `"closing"`, any steps of others may come, and `PipeReset` wipes what they wrote if they opened the
pipe meanwhile. Every last close is allowed to sleep; in the code it does when the super block is
locked or its list of free blocks is full.

`odds` remembers which of these has happened. `"bytes"`: a failure; the bytes in the ring are then not
followed, until a read has emptied the pipe, which sets both places back and so mends it. `PipeFifo`
is about pipes that are not at odds; `PipeSleeperBlocked` allows after a failure that a sleeper
could go on, but only with the flag (`IFIR`, `IFIW`) set that makes the end of the next transfer, or the last
close of the other side, wake him. `"wiped"`: an open during the last close; the reset loses that flag with
the bytes, and nothing more is claimed of that pipe until it is closed by everybody again.

### What was seen

* A list that names a semaphore twice can sleep for zero on a value that only its own
  undone operations produced, and is not woken by what would let it through (`sem.c` 591). The
  instance has no such lists.
* `semop` waits in `uiomove` with one buffer (`semtmp`) for all callers (`sem.c` 517); `msgrcv`
  uses the message chosen after `uiomove` (`msg.c` 308), and `msgfree`'s comment (137-140)
  speaks of a lock nobody takes. The caller's memory is resident in the models.
* With fewer headers than segments `msgsnd` loses the segments it has (`msg.c` 397: `malloc` comes
  before the test of `msgfp`). `SendTry` does so; the instance has enough headers, and
  `MsgSpace` fails otherwise.
* `msgfree` wakes `&msgfp` when it fills an empty header list (`msg.c` 167-168), on which nobody
  sleeps: a sender without a header sleeps on `msgmap` (402-403), and is woken by the segments
  that are freed with it. The receipt of an empty message wakes nobody. The instance has no empty
  messages; with them `MsgSleeperBlocked` fails.
* An interrupted sender resets `MSG_WWAIT` for all (`msg.c` 391), and wakes them too, which is what
  `MsgSleeperBlocked` needs.
* `IPC_SET` may raise `msg_qbytes` while senders sleep and wakes nobody (`msg.c` 118); not modelled.
* A pipe at odds (above): after a partial failure `i_size` counts bytes that are not between the two
  places, so that readers get old contents of the ring.
* Undo entries that run out, or an adjustment out of range, end a call in the middle
  (`sem.c` 56); the instance has one entry per process, two processes that may have any, and
  adjustments of one.

### Proofs

`PipeProofs.tla` proves, for any sizes of a pipe and its blocks, any amounts and processes (none
of them the name that stands for no process, `PipeAssumption`), with the failures above at any time:

* `BytesInOrder`: `PipeSpec => []PipeFifo`,
* `PipeWakesAll`: `PipeSpec => []PipeSleeperBlocked`.

Both come from `PipeInv`: types; who has the inode locked has the pipe open, a read has something left
to read, a write has room for what is left of it (`Locked`); the two counts are the numbers of
processes that have the pipe open or wait in open (`Counted`), so that `closep` cannot reset the pipe
under a transfer; the bytes in the ring (`Ring`, which also says where a full pipe's next byte
goes); and for each sleeper the flag or the count that gets him woken (`Waiter`). `PipeFifo` alone is
not inductive: a close in the middle of a transfer would break it if the counts could be
wrong. Remainders are found by one subtraction (`Rounds`), blocks end within the pipe because
`PIPSIZ` is a multiple of `BSIZE` (`BlockEnd`), and `RingRead` and `RingWritten` are the two steps
on the ring.

`MessageProofs.tla` proves, for any queues, processes, types and sizes of the pools:

* `NothingShared`: `MsgSpec => []SpaceApart`, `MsgSpace` without "nothing is lost", of every instance;
* `FirstOfItsType`: `MsgSpec => MsgOrder`;
* `NobodyWaitsInVain`: `MsgSpec => []MsgSleeperBlocked`, if there are no empty messages;
* `SpaceAccounted`: `MsgSpec => []MsgSpace`, if also there is a header for each segment.

The hypotheses are what the code needs. With fewer headers than segments it does lose segments, and an
empty message gives back a header without waking who waits for one (both under "What was seen"
above); so the last two say under which tuning the code is right, the first two hold whatever it is.

`MsgInv` is the invariant below all four: types, and `Apartness`, which speaks of places (the i-th
message of a queue) and not of messages, because two places could hold equal ones. The three
things that can happen to a queue's messages have a lemma each (`ArrivesApart`, `LeavesApart`,
`EmptiesApart`), and `SendCases`, `ReceiveCases`, `RemoveCases`, `ResumeCases` and `InterruptCases`
reduce the actions to them. `Sized` adds that no text is empty, neither on a queue nor of a call that
waits. `SleepInv` says of each sleeper what blocks him (`Blocked`) with the flag that will get
him woken; a step that keeps that for all it does not wake is `Steady` (`Steadies` says how to see it).
`MsgSleeperBlocked` alone is not inductive: it leaves out the flags. `Whole` says that every segment
and header is somewhere. A sender finds segments and no header only if each header is with a
message, which has at least one segment; there would be one segment more than headers
(`NoSpaceEither`, by the pigeonhole principle), so that with enough headers the line that loses
segments has none to lose.

Semaphores are only model-checked. Left out of pipes: opens with `FNDELAY` or for both reading and
writing, `select`, `O_SYNC`.

## Streams and the terminal's output

### `Streams.tla`

A write goes from the stream head (`strwrite`) to the queue of the line discipline, whose
service procedure takes messages, edits them (`line_transmit`) and puts them on the queue
of the display driver; its service procedure hands them to `disp_proc`, which prints. `queue` has
the two queues with `QFULL`, `QWANTR` and `QWANTW`, `qhead` the list of queues to run, `srv` the service
procedure that runs and where it is, `tty` the driver's message (`t_xm`) and flags. Service
procedures run at base priority with `queueflag` set: no other process runs then, callouts
wait, but the keyboard interrupts anywhere. It echoes (`Echo` puts a character on the
line's queue), flushes (`Flush`: `line_flush`, and `M_FLUSH` on its way through all queues), stops and
starts the output. So a service procedure is cut wherever it has read something a
keyboard interrupt can change: `LineCanput` and `LineFull` are the test of `QFULL` and the store
of `QWANTW` in `canput`, between which nothing is locked.

`CharsKept` says that what was put is printed, flushed or on its way, once, and that what is
not flushed keeps its order. `NothingStuck` says that when nothing is left that would run by
itself, the output is done and no writer sleeps.

What was seen: a writer whose sleep is interrupted resets `WSLEEP`, which stands for all
that sleep there (`streamio.c` 1950); `strwsrv`, whose comment (2064-2069) promises to wake any
sleeping writers, then wakes nobody until another writer goes to sleep. `NothingStuck`
excepts exactly this (`chars.reset`), and the instance reaches it.

Left out: every message is one block and counts 1 against the marks; what `line_transmit`
does to the characters, but for the delays it asks for; `select`, `M_ERROR`, hangup, job control,
open and close, ioctls, the read side. Seen while reading, and not modelled: in `line.c`
a test `v == 1 && v == 2` (`TCFLSH`) is never true; `ttx_close` tests `t_xm` and then sleeps without
raising the priority (`ttx.c` 388).

### Proofs

`StreamProofs.tla` proves `OutputNeverStuck`: `StreamSpec => []NothingStuck`, for any marks, message sizes,
delays and writers. `NothingStuck` speaks only of states in which nothing runs; what is inductive
is `Scheduled`, that at any moment whoever has something left to do is busy or about to be
woken. If the driver or its queue has something, its service procedure is on the run list or
runs, or the output is stopped or delayed; if the line's queue has something, its
procedure is on the run list or runs, or has asked for a callout, or waits for the driver's queue
(`QWANTW`), which is then not idle either; if writers sleep, `WSLEEP` is set and the stream head
is to be served, or a queue that will have it served is. Between the test and
the store of `canput` (`LineCanput`, `LineFull`) the procedure itself is the one that is busy. The effect
of `putq`, `putbq`, `getq` and `flushq` on one queue is stated once (`PutPuts`, `GetGets` and the like), the
steps of the service procedures from it.

`NothingLostOnTheWay` is `StreamSpec => []CharsKept`. The way of the characters is six places one behind
the other (`Path`): printed, in the hands of the driver's service procedure, its block (`t_xm`), its
queue, in the hands of the line's procedure, its queue. A step moves characters from one place
to the next or back, which is a matter of where the brackets stand (`SamePath`), puts the next ones
behind all others (`KeptMore`) or cuts some out of the middle (`KeptLess`). What `CharsInv` adds is that the
step may overwrite nothing: a procedure about to take a message has nothing in its hands (the
other procedure's may well be full while the keyboard flushes both queues), and `t_xm` is empty
when `ttx_wsrvc` stores a message in it. A delay on a queue has no characters (`Message`), so nothing
is lost when it is taken. The characters of a queue are a recursive function over its messages
(`FlattenSeq`); what `putq`, `putbq`, `getq` and `flushq` do to them (`CharsAppend`, `CharsBefore`, `CharsHead`, `CharsNone`)
is shown by giving the function for the new queue, and that there is only one (`Flattened`,
`Flattens`) by the least number for which there is not, `LeastNat`, in place of induction.

## The file system's inodes and names

### `Inodes.tla` and `Directory.tla`

`core` is the inode table, with the directory's own inode, `freel` the free list of slots, `buf`
the inodes in their blocks, `disk` what may be on the disk, `dir` and `ddir` the directory and
what of it has been written, `sb` the super block's list of free inodes, `nc` the name cache.
The routines call each other (`iget` calls `dnlc_purge`, which releases vnodes, which calls
`iinactive`, which calls `iupdat`), so each process has a stack of frames; a step is the code
of the topmost frame to the next call, sleep or wait for the disk. `Inodes` has `iget`,
`iinactive`, `iupdat`, `ialloc`, `ifree`, `ilock` and the name cache; `Directory` has `dirlook`, `direnter`,
`dirremove` and `dirrename` and the calls that use them: `open`, `creat`, `mknod`, `mkdir`, `link`,
`rename`, `unlink`, `rmdir`, a read, a close, and `fhtovp` of the NFS server.

Delayed writes are done at any time or never, so `disk` keeps for each inode the fewest links
it may have there; a directory block is written where the code waits for it. `DiskSafe` is then
what a crash at any time must leave: no name of an inode that is free, or has fewer
links than names. `LinksCounted` and `RefsCounted` say that `i_nlink` and `v_count` are exact on
every path, errors included, counting what the calls under way hold. `UniqueInode`,
`NamesTrue`, `NoInodeLost`, `InodeSleeper` and `OpenFileKept` say that an inode is in core once, that
the name cache agrees with the directory, that an inode nobody holds has been written
and freed if it has no links, that a sleeper's lock is held, and that an open file is kept.

What was found: with every slot in use `iget` purges the name cache. That may wait for a block
of an inode that is released; another process may bring the same inode in core
meanwhile, and `iget` does not look again (`twins`). In `files` the purge does not wait
(`PurgeSleeps`), as when the block is in the buffer cache. Also seen: `dirremove` writes
the name out before it takes the link, so that a crash leaves a link too many; `idrop` (`5_inode.c`
312) drops an inode without regard to its links and changes; `iunlock` (711) wakes all who
wait, in any order.

Left out: the contents of files, blocks (`alloc`, `free`), directories of several blocks and
subdirectories with entries, mount points, quotas, times, read errors of `iget`. The generation of
an inode is compared with either result (`FhtovpGot`).

## RPC

### `Rpc.tla`

The client's handles (`chtable`) with their buffer, which the network interface may hold
(`held`) after a call has ended, and their socket; the calls under way; the net, from
which nothing ever disappears, so that messages are lost, repeated, delayed and
reordered; the server with its directory of names and its cache of answered requests.
`rfscall` takes a handle (`clget`), `clntkudp_callit` takes an xid and sends until an answer
with that xid has come or its tries are used up; a hard mount then calls again with a new
xid. `Timeout`, `Deliver` and `Transmit` are the timer, the arrival of a reply and the
interface.

`OneCaller` is why a handle has one process; `OwnReply` says that the reply a call takes is
to its own request; `NoAfterYes` that a server of one process does not deny what it has
carried out and still remembers; `RpcSleeper` that nobody sleeps while there is something for
him.

What was seen:

* `clntkudp_init` resets `CKU_BUFBUSY` of a handle whose buffer the interface may still hold, and
  the next call encodes its arguments into it: a request goes out under the old or the
  new xid with parts of both. Without the exception for such handles (`torn`) `OwnReply` fails in
  12 steps.
* With two server processes the second can ask the cache before the first has entered
  the request, and `NoAfterYes` fails in 6 steps. The cache is asked only after a failure, so
  a copy that comes late enough is carried out again. The server that `psn/Makefile` builds
  (`NFS/sys/nfs_server.c`) does not ask the cache at all; `NET/sys/nfs_server.c`, modelled here, does.

Left out: XDR and authentication, `CKU_BUSY` (which `OneCaller` shows not to be needed), all requests
of the server but `remove` and `mkdir`, the back-off of the timers.

### Proofs

`RpcProofs.tla` proves, for any handles, processes, requests and server processes:

* `HandleHasOneCaller`: `RpcSpec => []OneCaller`,
* `ReplyIsOwn`: `RpcSpec => []OwnReply`,
* `RpcSleeperBlocked`: `RpcSpec => []RpcSleeper`,
* `DoneIsNotDenied`: `RpcSpec => []NoAfterYes` if the server has at most one process (`OneNfsd`),

each from `RpcInv`. An xid is given out once, so that in a message, in a handle's buffer, or with a
caller it stands for one handle and one list of arguments (`Sent`, `Named`); a reply that arrives
with the xid of the call under way is therefore an answer to its arguments. The exception is a
handle whose buffer was given on while the interface held it (`torn`): there the arguments
in the buffer change under an xid, and only the handle it stands for is certain.
`Placed` says where a caller is in relation to its handle, `Busy` and `Buffered` who has a handle
and its buffer.

`DoneIsNotDenied` adds `ServerInv`: what has been carried out and not forgotten is in `drcache`,
or is the request the server is busy with and will say yes to. When the one process takes the
next request it is busy with nothing, so that a repeated one is found; that what is found is the
same request, and not another with its xid, is `Sent` again. `OneNfsd` is needed: with a second
process "busy with" is not yet "in `drcache`" (see above). The size of `drcache` is any, its loss of
the oldest entry is in `forgot`.

## User-level locks

### `UserLocks.tla`

`locklist` has the regions of each file in order, each in a record of the pool; `want` the
records somebody sleeps on. `Bounds` is the region of an offset and a size, with the 32 bits of
their sum. `locked` is called from `locking` and from a read or write; it
finds the first lock in the way (`Blocking`), looks for a deadlock, and sleeps on the record. `deadlock`
walks from the owner of a lock to the owner of the lock it sleeps on (`WaitsFor`); it is stated as
membership in every set the walk cannot leave, as for record locks.
`Unlock` cuts a lock, which may need a record, and wakes who sleeps on what it changes. `Lock`
enters a region and joins it with its owner's neighbours (`Compacted`); when there is no record it
may have moved the start of the first lock already (line 202), which changes nothing, because that
lock is then the caller's or starts no later. `ImplementsTable`
is the refinement of `LockTable`; `ListsOrdered`, `LockSleeper` and `NoLockCircle` are the analogues of
the record locks' properties. There is one kind of lock, and the lists stay in order.

All this is about regions that have bytes, below `MAXSIZE` (`ProperRegions`). `locking` says at line 77 that it
validates ranges, and does not (80-85): a negative size, or an offset of `MAXSIZE` or more without a size,
gives a region that ends before or where it starts, and it is entered. With offset 2 and size -1 among the spans
of the run, `ListsOrdered` and `ImplementsTable` fail: a list is then out of order, `locked` stops
at such a region, and grants what another process has behind it. `LockSleeper` and `NoLockCircle` still hold there.

`svfs_rdwr` lets go of the inode before it calls `locked` and takes it again after
(`5_vnodeops.c` 311-317), so a region locked in between does not stop the transfer, and the offset
of an append may be stale. When the pool is empty (`ulocking.c` 421) an unlock of a middle changes
nothing and still wakes everybody.

### Proofs

`UserLockProofs.tla` proves, for any files, processes, records and regions with `ProperRegions`:

* `ListsStayOrdered`: `LockSpec => []ListsOrdered`,
* `LockSleepersWoken`: `LockSpec => []LockSleeper`,
* `NoWaitCircle`: `LockSpec => []NoLockCircle`,
* `UserLockTableKept`: `LockSpec => ImplementsTable`.

None of them is inductive. `LockInv` is: types; the records somebody sleeps on are in use; every sleeper
sleeps on a lock in his way (`LockSleeper`); no circles; and `Lists`, that each list is `Neat` (its
regions have bytes and are in order, the regions of one owner apart) and no record is in two
places. What a call does to a list is one of two things:

* `Unlock` cuts: what is left of a lock is `Within` it and has its owner (`UnlockCuts`, `WithoutCuts`).
* `Lock` adds a region, at the head, by moving a lock's start or end, or in a record of its own
  (`Adds`, `AddedIs`), and joins it with its neighbours, which replaces a stretch of the list by one
  region of the caller (`Compacted`, `CompactedIs`). Here the list must be in order, since `Blocking`
  stops early: a lock of somebody else that it passes would be in the way.

For the sleepers it is enough that whoever is not woken finds the record he sleeps on with at least the bytes it
had, and the same owner (`RemainInv`, `ListStep`): his lock is still in his way, and `WaitsFor` has no new pairs
among those asleep. The one step that has is the sleep itself, where the set closed under `WaitsFor`
that shows that `deadlock` does not come to the caller rules the circle out (`SleepStep`). The table follows
from the same two lemmas: what is held after a cut or an addition is what was held, without or with the
bytes of the region (`UnlockHeld`, `LockHeld`, `CloseHeld`), and each step is one of `LockTable` or none
(`TableStep`). `ProperRegions` is used where a call enters (`RegionIs`, `CallIs`): the region asked for has bytes.

## The runs

| Run | Instance | Checks |
|---|---|---|
| `disk` | the buffer cache on a local disk: `bread`, `breada`, `bflush`, `blkflush`, `binvalfree`, and the writes | `ImplementsBlockStore`, `FlushDurable`, `NoFault` |
| `sizes` | a remote vnode, two block sizes | `UniqueMapping` |
| `structure` | a remote vnode, failing transfers, `geteblk`, `bflush`, `binval` | `SInv`, `ExclusiveUse`, `NoDupBiodone`, `NoStrandedSleeper` |
| `live` | a local disk, two buffers, `geteblk`, fair | `SleeperWakes` |
| `grow` | two block sizes, two values | `DelayedWriteKept` is violated |
| `excl` | exclusive record locks on two files, a failing `F_GETLK` | `Normal`, `SleeperBlocked`, `SetsExactly`, `NoCircle`, `RefsKept`, `ImplementsLockTable` |
| `leaks` | a failing `F_GETLK` | `RefsExact` is violated |
| `unsorted` | both kinds of record locks on 3 bytes | `NoConflict` is violated |
| `ipc` | semaphores, messages, a stream, each by itself | `ImplementsSemSet`, `SemSleeperBlocked`, `MsgSpace`, `MsgOrder`, `MsgSleeperBlocked`, `CharsKept`, `NothingStuck` |
| `files` | two processes on a directory of two names | `UniqueInode`, `RefsCounted`, `LinksCounted`, `DiskSafe`, `NamesTrue`, `NoInodeLost`, `InodeSleeper`, `OpenFileKept` |
| `twins` | `files` with a purge that waits | `UniqueInode` is violated |
| `kernel` | remote calls, user-level locks, a pipe, each by itself | `OneCaller`, `OwnReply`, `NoAfterYes`, `RpcSleeper`, `ListsOrdered`, `LockSleeper`, `NoLockCircle`, `ImplementsTable`, `PipeFifo`, `PipeSleeperBlocked` |

### Bounds

*Buffer cache.* Two processes and two buffers are the least with which a process waits for a
buffer another one has, for a free buffer while both are held, and takes a buffer that was
another's. Two blocks give two identities to two buffers, and two values tell an old write
from a new one; runs that only look at the structure have one value. `SyncBSize` is small
enough (2 or 3) for a group of `bflush` to fill up. In `live` two processes take buffers of two blocks
and buffers without a block (`geteblk`): while both are held or being written, a call sleeps for a free
one, and the mutant that does not mark the free list strands it.

*Record locks.* Three bytes are the least on which a lock is severed in the middle, with a part
left on both sides; two give every other relative position of two ranges. Three processes
are the least of whom two share a byte that a third wants, and the least for a circle that
is not closed by its first two. Five records are the least for that circle (three locks and two
sleepers), and there is always one for the locks of these ranges; what happens without one is
left to `CallsSetExactly`. With one header for two files, calls on the
second file fail (`EMFILE`) while the first has one, so that the locks of a state are on one file. One query
fails (`Leaks`), and its header stays. `Bytes` stands for the end of a file that
may grow (`MAXEND`).

*IPC.* One set of two semaphores with values up to 2, and lists that post, wait, wait for zero,
do both at once, with and without `SEM_UNDO`; `SemRemovals` lets the slot be used once again.
Two message queues share a pool of two segments, so that a sender waits for room and
another for the pool. Messages are of two types; those of the second are short only while one queue is in
service (`Few`), so that two types come together on a queue and in one order as in the other. A stream's queues are full with one message
(`HIWAT`), a message has 2 characters (`strmsgsz`), so that a write of 3 (`Chunks`) is two messages and
is overtaken by echoes; three characters (`MaxChars`) are in the two queues, the driver and the
hands of a service procedure at once; memory fails once (`MaxAllocs`).

*Files.* Two names and two slots for two inodes: a process needs the slot another has, inodes run
out, the list of free inodes (`NICINOD` 2) is refilled, and the name cache (`NcSize` 1) replaces
its one entry at each use. A behaviour has the calls of one `Part`; the five parts bring
together the calls that share a variable: names and directories, links, renames
of directories and of files, and the NFS server's with removal.

*RPC.* One handle for two calls at a time (`MaxCalls`) of three processes, two transaction ids
(`MaxXid`), a socket that holds one reply, a hard mount that sends twice and a soft one that
sends once, two requests on one name (one succeeds exactly when the other has been done), one
server process that remembers one request. *Pipe.* 4 bytes in blocks of 2; amounts of 1 and 5 are less
than a block, and more than the pipe, which is written in two pieces that begin and end anywhere in a
block; three processes are two readers or writers and one of the other side. *User-level locks.* Three records on three bytes; a
region that is all, one in the middle, one at the end (`Spans`), so that a lock is cut in
the middle, at its head and at its tail, and the pool runs out. All of them are `ProperRegions`.

Processes, and whatever else is interchangeable, are permuted in the safety runs
(`SYMMETRY`); `live` uses no symmetry.

`CHECK_DEADLOCK FALSE` is said in `structure` alone: `binval` may make the code panic there, and
the system stops. In the other runs TLC finds no deadlock; in `kernel` a stutter is allowed
(`RpcDone`) once the transaction ids are used up.

### Fairness

`FairSpec` of `BufCache`: a process that can go on in the kernel does (the scheduler runs
whatever is on the run queue; sleeps in this code are at priorities no signal
breaks), and a transfer ends (a disk driver or the RPC time-out gives up at last).
Nobody has to make a call. Weak fairness is enough for `SleeperWakes` because a waiter
is only promised to be woken; that it gets the buffer is not promised by the code,
another process may take it first. The other facilities promise their sleepers
nothing of that kind: a lock, a message, room in a pipe may never come. What they can be held
to is a matter of safety: nobody sleeps while what he waits for is there.
