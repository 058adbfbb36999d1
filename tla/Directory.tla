----------------------------- MODULE Directory -----------------------------
(***************************************************************************)
(* System calls on the names of a directory (SVFS/sys/5_dir.c and the      *)
(* operations of 5_vnodeops.c that call it), over the inode cache and the  *)
(* name cache.  The directory holds files and empty directories.           *)
(***************************************************************************)
EXTENDS Inodes

\* p enters the kernel with q, to run the frames in stk.
Begin(p, q, stk) ==
  /\ Continue(p, [q EXCEPT !.stk = stk])
  /\ UNCHANGED fsVars

F(l, arg) == [at |-> l, x |-> arg]
Locking(l) == <<F("ilock", Root), F(l, None)>>  \* ilock(dp), then l

Open(p, name) ==
  /\ proc[p].fd = None
  /\ Begin(p, [proc[p] EXCEPT !.op = "open"], <<F("dirlook", name), F("opened", None)>>)
\* creat, mknod and mkdir
Makes == {"creat", "mknod", "mkdir"}
Make(p, to, op) ==
  /\ proc[p].fd = None
  /\ Begin(p, [proc[p] EXCEPT !.op = op, !.to = to,
                              !.mode = IF op = "mkdir" THEN "dir" ELSE "file"],
           Locking("enter"))
\* unlink and rmdir
Unlink(p, name, op) ==
  Begin(p, [proc[p] EXCEPT !.op = op, !.name = name], Locking("dirremove"))
Link(p, to) ==
  /\ proc[p].fd # None
  /\ Begin(p, [proc[p] EXCEPT !.op = "link", !.to = to, !.sip = proc[p].fd],
           <<F("ilock", proc[p].fd), F("direnter", None)>>)
Rename(p, name, to) ==
  Begin(p, [proc[p] EXCEPT !.op = "rename", !.name = name, !.to = to],
        <<F("dirlook", name), F("source", None)>>)
\* fhtovp: the NFS server has the number of an inode (and its generation).
Fhtovp(p, n) ==
  /\ proc[p].fd = None
  /\ Begin(p, [proc[p] EXCEPT !.op = "fhtovp"], <<F("iget", n), F("fhtovp", None)>>)
\* svfs_rdwr, which does not lock a directory.
Read(p) ==
  /\ proc[p].fd # None
  /\ Begin(p, [proc[p] EXCEPT !.op = "read"],
           (IF core[proc[p].fd].mode = "file" THEN <<F("ilock", proc[p].fd)>> ELSE <<>>)
             \o <<F("rwip", proc[p].fd)>>)
Close(p) ==
  /\ proc[p].fd # None
  /\ LET s == proc[p].fd  c == rele(core, s)
     IN core' = c /\ Continue(p, inactive(Idle, c, s))
  /\ UNCHANGED <<freel, buf, disk, dir, ddir, sb, nc>>
-----------------------------------------------------------------------------
\* dirlook: the name is in the cache, ...
LookCached(p) ==
  /\ At(p, "dirlook")
  /\ \E i \in Entries(Arg(p)) :
       /\ core' = [core EXCEPT ![nc[i].vp].count = @ + 1]
       /\ nc' = Append(RemoveAt(nc, i), nc[i])
       /\ Continue(p, [proc[p] EXCEPT !.stk[1] = F("ilockhit", nc[i].vp)])
  /\ UNCHANGED <<freel, buf, disk, dir, ddir, sb>>

\* ... or the directory is locked and searched, ...
LookSearch(p) ==
  /\ At(p, "dirlook") /\ Entries(Arg(p)) = {}
  /\ Continue(p, call(goto(proc[p], "lookdir"), "ilock", Root))
  /\ UNCHANGED fsVars

LookFind(p) ==
  /\ At(p, "lookdir")
  /\ IF dir[Arg(p)] = 0
     THEN /\ core' = iunlock(core, Root)
          /\ Unlocking(p, return(proc[p], None), {Root})
     ELSE core' = core /\ Continue(p, call(goto(proc[p], "looked"), "iget", dir[Arg(p)]))
  /\ UNCHANGED <<freel, buf, disk, dir, ddir, sb, nc>>

\* ... unlocked, and the name of a directory put in the cache.
LookFound(p) ==
  /\ At(p, "looked")
  /\ core' = iunlock(core, Root)
  /\ LET s == proc[p].got  q == [proc[p] EXCEPT !.got = None]
         r == [q EXCEPT !.stk[1] = F("result", s)]
     IN Unlocking(p, IF s # None /\ core[s].mode = "dir"
                     THEN call(r, "dnlc_enter", [name |-> Arg(p), vp |-> s]) ELSE r,
                  {Root})
  /\ UNCHANGED <<freel, buf, disk, dir, ddir, sb, nc>>

\* The file stays open.
Keep(q, s) == [finish(q) EXCEPT !.fd = s]

Opened(p) ==
  /\ At(p, "opened")
  /\ LET s == proc[p].got
     IN IF s = None THEN core' = core /\ Continue(p, finish(proc[p]))
        ELSE core' = iunlock(core, s) /\ Unlocking(p, Keep(proc[p], s), {s})
  /\ UNCHANGED <<freel, buf, disk, dir, ddir, sb, nc>>

\* fhtovp: the inode is the one the handle was made for, or it is dropped
\* (idrop), which takes no notice of its links and changes.
FhtovpGot(p) ==
  /\ At(p, "fhtovp")
  /\ LET s == proc[p].got  q == finish(proc[p])
         c == iunlock(core, s)
         last == core[s].count = 1
     IN \/ s = None /\ Continue(p, q) /\ UNCHANGED <<core, freel>>
        \/ /\ s # None /\ core[s].mode # "free"
           /\ core' = c /\ Unlocking(p, Keep(q, s), {s}) /\ UNCHANGED freel
        \/ /\ s # None
           /\ core' = [c EXCEPT ![s].count = @ - 1, ![s].mark = @ /\ ~last]
           /\ freel' = IF last THEN Append(freel, s) ELSE freel
           /\ Unlocking(p, q, {s})
  /\ UNCHANGED <<buf, disk, dir, ddir, sb, nc>>

ReadMarks(p) ==
  /\ At(p, "rwip")
  /\ LET s == Arg(p)  c == [core EXCEPT ![s].mark = TRUE]
     IN IF core[s].mode = "file"
        THEN core' = iunlock(c, s) /\ Unlocking(p, finish(proc[p]), {s})
        ELSE core' = c /\ Continue(p, finish(proc[p]))
  /\ UNCHANGED <<freel, buf, disk, dir, ddir, sb, nc>>

\* svfs_rename: the source is looked up, unlocked and locked again.
Source(p) ==
  /\ At(p, "source")
  /\ LET s == proc[p].got  q == [proc[p] EXCEPT !.got = None, !.sip = s]
     IN IF s = None THEN core' = core /\ Continue(p, finish(q))
        ELSE /\ core' = iunlock(core, s)
             /\ Unlocking(p, call(goto(q, "direnter"), "ilock", s), {s})
  /\ UNCHANGED <<freel, buf, disk, dir, ddir, sb, nc>>

\* svfs_rename's irele(sip); the other calls just return.  w is woken.
EndOf(p, c, w) ==
  LET q == proc[p]  s == q.sip
  IN IF q.op = "rename" /\ s # None
     THEN core' = rele(c, s) /\ Unlocking(p, inactive(finish(q), rele(c, s), s), w)
     ELSE core' = c /\ Unlocking(p, finish(q), w)

\* Faulty: the link is written some day, like any other change.
EnterLinkDelayed(p) ==
  /\ At(p, "direnter")
  /\ LET s == proc[p].sip
     IN IF core[s].nlink = 0 THEN EndOf(p, iunlock(core, s), {s})
        ELSE /\ core' = [core EXCEPT ![s].nlink = @ + 1, ![s].mark = TRUE]
             /\ Wait(p, call(goto(proc[p], "bumped"), "ipack", s))
  /\ UNCHANGED <<freel, buf, disk, dir, ddir, sb, nc>>

\* direnter: a link or rename first counts the new name, and writes that.
EnterLink(p) ==
  /\ At(p, "direnter")
  /\ LET s == proc[p].sip
     IN IF core[s].nlink = 0 THEN EndOf(p, iunlock(core, s), {s})
        ELSE /\ core' = [core EXCEPT ![s].nlink = @ + 1, ![s].mark = TRUE]
             /\ Wait(p, call(goto(proc[p], "bumped"), "ipackw", s))
  /\ UNCHANGED <<freel, buf, disk, dir, ddir, sb, nc>>

EnterBumped(p) ==
  /\ At(p, "bumped")
  /\ core' = iunlock(core, proc[p].sip)
  /\ Unlocking(p, call(goto(proc[p], "enter"), "ilock", Root), {proc[p].sip})
  /\ UNCHANGED <<freel, buf, disk, dir, ddir, sb, nc>>

\* With the directory locked the target is searched, and an inode made.
EnterSearch(p) ==
  /\ At(p, "enter")
  /\ LET n == dir[proc[p].to]
     IN Continue(p, IF n # 0 THEN call(goto(proc[p], "exists"), "iget", n)
                    ELSE IF proc[p].op \in Makes THEN call(goto(proc[p], "made"), "ialloc", None)
                    ELSE goto(proc[p], "diraddentry"))
  /\ UNCHANGED fsVars

\* iput(s) in table c, and on with q.
iput(c, s) == rele(iunlock(c, s), s)
Putting(p, q, s) ==
  LET c == iput(core, s)
  IN core' = c /\ Unlocking(p, inactive(q, c, s), {s})

\* creat has its file, locked, and may truncate it (which writes the inode).
Created(p, q, s) ==
  LET r == [q EXCEPT !.sip = None, !.stk = <<F("result", s), F("opened", None)>>]
      c == iunlock(core, Root)
  IN \/ core' = c /\ Unlocking(p, r, {Root})
     \/ /\ core' = [c EXCEPT ![s].mark = TRUE]
        /\ Step(p, call(r, "ipackw", s), Waiting(Root), Nobody)

\* The target exists: creat opens a file, a rename replaces what is of the
\* same kind, all else is an error.
EnterExists(p) ==
  /\ At(p, "exists") /\ proc[p].got # None
  /\ LET t == proc[p].got  s == proc[p].sip
         q == [proc[p] EXCEPT !.got = None]
     IN \/ /\ q.op = "creat" /\ core[t].mode = "file"
           /\ Created(p, q, t)
           /\ UNCHANGED <<dir, nc>>
        \/ /\ q.op \in Makes /\ (q.op # "creat" \/ core[t].mode = "dir")
           /\ LET c == iput(iunlock(core, Root), t)
              IN core' = c /\ Unlocking(p, inactive(finish(q), c, t), {t, Root})
           /\ UNCHANGED <<dir, nc>>
        \/ /\ q.op \notin Makes
           /\ \/ q.op = "link" \/ s = t \/ core[s].mode # core[t].mode
              \/ core[t].mode = "dir" /\ core[t].nlink > 2
           /\ Putting(p, goto(q, "undo"), t)
           /\ UNCHANGED <<dir, nc>>
        \/ /\ q.op = "rename" /\ s # t /\ core[s].mode = core[t].mode
           /\ core[t].mode = "dir" => core[t].nlink <= 2
           /\ dnlc_remove(q.to)
           /\ dir' = [dir EXCEPT ![q.to] = core[s].num]
           /\ LET r == goto([q EXCEPT !.tip = t], "renaming")
              IN Continue(p, IF core[s].mode = "file" THEN r
                             ELSE call(r, "dnlc_enter", [name |-> q.to, vp |-> s]))
  /\ UNCHANGED <<freel, buf, disk, ddir, sb>>

\* bwrite of the directory's block.
DirWrite(p, from, to) ==
  /\ At(p, from) /\ Wait(p, goto(proc[p], to)) /\ UNCHANGED fsVars

\* dirrename: the target has lost its name, and is truncated if a directory.
Renamed(p) ==
  /\ At(p, "renamed")
  /\ ddir' = dir
  /\ LET t == proc[p].tip  q == goto(proc[p], "renameput")
     IN /\ core' = [core EXCEPT ![t].mark = TRUE,
                      ![t].nlink = @ - (IF core[t].mode = "dir" THEN 2 ELSE 1)]
        /\ IF core[t].mode = "dir" THEN Wait(p, call(q, "ipackw", t)) ELSE Continue(p, q)
  /\ UNCHANGED <<freel, buf, disk, dir, sb, nc>>

RenamePut(p) ==
  /\ At(p, "renameput")
  /\ Putting(p, goto([proc[p] EXCEPT !.tip = None], "entered"), proc[p].tip)
  /\ UNCHANGED <<freel, buf, disk, dir, ddir, sb, nc>>

\* dirmakeinode has the inode, and writes it before any name of it.
MakeInode(p) ==
  /\ At(p, "made") /\ proc[p].got # None
  /\ LET s == proc[p].got
     IN /\ core' = [core EXCEPT ![s].mark = TRUE]
        /\ Wait(p, call(goto([proc[p] EXCEPT !.got = None, !.sip = s], "dirmake"), "ipackw", s))
  /\ UNCHANGED <<freel, buf, disk, dir, ddir, sb, nc>>

\* It gives up a directory it has no block for.
MakeDirect(p) ==
  /\ At(p, "dirmake")
  /\ LET s == proc[p].sip  q == proc[p]
     IN \/ /\ core' = iunlock(core, s)
           /\ Unlocking(p, goto(q, "diraddentry"), {s})
        \/ /\ q.mode = "dir"
           /\ LET c == iput([core EXCEPT ![s].nlink = 0, ![s].mark = TRUE], s)
              IN core' = c /\ Unlocking(p, inactive(goto([q EXCEPT !.sip = None], "undo"), c, s), {s})
  /\ UNCHANGED <<freel, buf, disk, dir, ddir, sb, nc>>

\* diraddentry: the name goes into the block, ...
AddEntry(p) ==
  /\ At(p, "diraddentry")
  /\ LET s == proc[p].sip  q == goto(proc[p], "adding")
     IN /\ dir' = [dir EXCEPT ![q.to] = core[s].num]
        /\ Continue(p, IF core[s].mode = "file" THEN q
                       ELSE call(q, "dnlc_enter", [name |-> q.to, vp |-> s]))
  /\ UNCHANGED <<core, freel, buf, disk, ddir, sb, nc>>

\* ... or there is no space for it, and a new inode is unmade.
AddEntryFails(p) ==
  /\ At(p, "diraddentry")
  /\ LET s == proc[p].sip  q == goto(proc[p], "undo")
         c == rele([core EXCEPT ![s].nlink = 0, ![s].mark = TRUE], s)
     IN IF q.op \notin Makes THEN core' = core /\ Continue(p, q)
        ELSE core' = c /\ Continue(p, inactive([q EXCEPT !.sip = None], c, s))
  /\ UNCHANGED <<freel, buf, disk, dir, ddir, sb, nc>>

AddEntryWritten(p) ==
  /\ At(p, "added")
  /\ ddir' = dir
  /\ LET q == goto(proc[p], "entered")
     IN Continue(p, IF q.op \in Makes THEN call(q, "ilock", q.sip) ELSE q)
  /\ UNCHANGED <<core, freel, buf, disk, dir, sb, nc>>

\* direnter is over: creat opens its file, mkdir releases its directory, link
\* returns, and rename goes on to remove the source.
Entered(p) ==
  /\ At(p, "entered")
  /\ LET q == proc[p]  s == q.sip  c == iunlock(core, Root)
     IN CASE q.op = "creat" -> Created(p, q, s)
          [] q.op \in {"mknod", "mkdir"} ->
               LET d == iput(c, s)
               IN core' = d /\ Unlocking(p, inactive(finish(q), d, s), {s, Root})
          [] q.op = "link" -> EndOf(p, c, {Root})
          [] q.op = "rename" ->
               core' = c /\ Unlocking(p, call(goto(q, "dirremove"), "ilock", Root), {Root})
  /\ UNCHANGED <<freel, buf, disk, dir, ddir, sb, nc>>

\* Faulty: the count of the new name is not taken back.
EnterFailsCounted(p) ==
  /\ At(p, "undo") \/ (At(p, "exists") /\ proc[p].got = None)
     \/ (At(p, "made") /\ proc[p].got = None)
  /\ EndOf(p, iunlock(core, Root), {Root})
  /\ UNCHANGED <<freel, buf, disk, dir, ddir, sb, nc>>

\* direnter fails; the count of the new name is taken back.
EnterFails(p) ==
  /\ At(p, "undo") \/ (At(p, "exists") /\ proc[p].got = None)
     \/ (At(p, "made") /\ proc[p].got = None)
  /\ LET s == proc[p].sip  c == iunlock(core, Root)
     IN EndOf(p, IF proc[p].op \in Makes THEN c
                 ELSE [c EXCEPT ![s].nlink = @ - 1, ![s].mark = TRUE], {Root})
  /\ UNCHANGED <<freel, buf, disk, dir, ddir, sb, nc>>

\* dirremove: nothing to remove, ...
RemoveNothing(p) ==
  /\ \/ At(p, "dirremove") /\ dir[proc[p].name] = 0
     \/ At(p, "target") /\ proc[p].got = None
     \/ At(p, "removeend")
  /\ EndOf(p, iunlock(core, Root), {Root})
  /\ UNCHANGED <<freel, buf, disk, dir, ddir, sb, nc>>

RemoveSearch(p) ==
  /\ At(p, "dirremove") /\ dir[proc[p].name] # 0
  /\ Continue(p, call(goto(proc[p], "target"), "iget", dir[proc[p].name]))
  /\ UNCHANGED fsVars

\* ... the name is another one's now (of a rename), or of a directory that
\* has links, or it leaves the cache and the directory.
RemoveTarget(p) ==
  /\ At(p, "target") /\ proc[p].got # None
  /\ LET t == proc[p].got
         q == [proc[p] EXCEPT !.got = None, !.tip = t]
         refused == \/ q.op = "rename" /\ q.sip # t
                    \/ q.op = "rmdir" /\ core[t].mode = "dir" /\ core[t].nlink # 2
     IN IF refused THEN Continue(p, goto(q, "removeput")) /\ UNCHANGED <<core, nc, dir>>
        ELSE /\ dnlc_remove(q.name)
             /\ dir' = [dir EXCEPT ![q.name] = 0]
             /\ Wait(p, goto(q, "removed"))
  /\ UNCHANGED <<freel, buf, disk, ddir, sb>>

\* The inode has lost its name; rmdir truncates it.
Removed(p) ==
  /\ At(p, "removed")
  /\ ddir' = dir
  /\ LET t == proc[p].tip  q == goto(proc[p], "removeput")
         trash == q.op = "rmdir" /\ core[t].mode = "dir" /\ core[t].nlink > 0
     IN /\ core' = [core EXCEPT ![t].mark = TRUE,
                      ![t].nlink = IF trash THEN @ - 2 ELSE IF @ > 0 THEN @ - 1 ELSE @]
        /\ IF trash THEN Wait(p, call(q, "ipackw", t)) ELSE Continue(p, q)
  /\ UNCHANGED <<freel, buf, disk, dir, sb, nc>>

RemovePut(p) ==
  /\ At(p, "removeput")
  /\ Putting(p, goto([proc[p] EXCEPT !.tip = None], "removeend"), proc[p].tip)
  /\ UNCHANGED <<freel, buf, disk, dir, ddir, sb, nc>>
-----------------------------------------------------------------------------
Init ==
  /\ core = [s \in Slots \cup {Root} |->
               [num |-> 0, lock |-> FALSE, want |-> FALSE, count |-> 0,
                mode |-> "free", nlink |-> 0, mark |-> FALSE]]
  /\ freel = SetToSeq(Slots)
  /\ buf = [n \in Ino |-> [mode |-> "free", nlink |-> 0]]
  /\ disk = [n \in Ino |-> 0]
  /\ dir = [name \in Names |-> 0] /\ ddir = dir
  /\ sb = [inode |-> [i \in 0 .. NICINOD - 1 |-> 0], n |-> 0, ilock |-> FALSE]
  /\ nc = [i \in 1 .. NcSize |-> NoEntry]
  /\ proc = [p \in Procs |-> Idle] /\ cpu = Nobody

Call(p) ==
  /\ proc[p].stk = <<>> /\ cpu = Nobody
  /\ \/ \E name \in Names : \/ Open(p, name) \/ Link(p, name)
                            \/ \E op \in {"unlink", "rmdir"} : Unlink(p, name, op)
                            \/ \E op \in Makes : Make(p, name, op)
                            \/ \E to \in Names : Rename(p, name, to)
     \/ \E n \in Ino : Fhtovp(p, n)
     \/ Read(p) \/ Close(p)

InodeStep(p) ==
  \/ Ilock(p) \/ IgetHit(p) \/ IgetPurge(p) \/ IgetFails(p) \/ IgetFree(p)
  \/ IgetRead(p) \/ Iupdat(p) \/ IupdatWritten(p)
  \/ InactiveStart(p) \/ InactiveFree(p) \/ InactiveEnd(p)
  \/ Ialloc(p) \/ IallocScan(p) \/ IallocScanned(p) \/ IallocGot(p)
  \/ IallocPut(p) \/ Result(p)
  \/ DnlcEnter(p) \/ DnlcFill(p) \/ DnlcPurge(p) \/ DnlcPurged(p)

DirStep(p) ==
  \/ LookCached(p) \/ LookSearch(p) \/ LookFind(p) \/ LookFound(p)
  \/ Opened(p) \/ FhtovpGot(p) \/ ReadMarks(p) \/ Source(p)
  \/ EnterLink(p) \/ EnterBumped(p) \/ EnterSearch(p) \/ EnterExists(p)
  \/ DirWrite(p, "renaming", "renamed") \/ Renamed(p) \/ RenamePut(p)
  \/ MakeInode(p) \/ MakeDirect(p) \/ AddEntry(p) \/ AddEntryFails(p)
  \/ DirWrite(p, "adding", "added") \/ AddEntryWritten(p)
  \/ Entered(p) \/ EnterFails(p)
  \/ RemoveNothing(p) \/ RemoveSearch(p) \/ RemoveTarget(p) \/ Removed(p)
  \/ RemovePut(p)

Next == \E p \in Procs : Call(p) \/ (Running(p) /\ (InodeStep(p) \/ DirStep(p)))

Spec == Init /\ [][Next]_vars
-----------------------------------------------------------------------------
In(p, l) == \E i \in DOMAIN proc[p].stk : proc[p].stk[i].at = l
Frames(p, labels, s) ==
  {i \in DOMAIN proc[p].stk : proc[p].stk[i].at \in labels /\ proc[p].stk[i].x = s}
One(b) == IF b THEN 1 ELSE 0

\* An inode is in one slot of the table only, although iget may wait between
\* looking for it and taking a slot.
UniqueInode ==
  \A s, t \in Slots : s # t /\ core[s].num = core[t].num => core[s].num = 0

\* References p holds to s in its variables and frames.
Held(p, s) ==
  LET q == proc[p]
  IN One(q.fd = s) + One(q.sip = s /\ q.op # "link") + One(q.tip = s) + One(q.got = s)
     + Cardinality(Frames(p, {"result", "iallocput", "ilockhit"}, s))

\* v_count counts the open files, the names in the cache and what the calls
\* hold on their way, errors included; the slots nobody holds are the free
\* list, each once, unless iget or iinactive has them locked.
RefsCounted ==
  \A s \in Slots :
    /\ core[s].count = MapThenSumSet(LAMBDA p : Held(p, s), Procs)
                       + Cardinality({i \in DOMAIN nc : nc[i].vp = s})
    /\ Cardinality({i \in DOMAIN freel : freel[i] = s})
         = One(/\ core[s].count = 0 /\ ~core[s].lock
               /\ \A p \in Procs : Frames(p, {"inactive"}, s) = {})

\* Slots whose inode has been read.
Valid == {s \in Slots : /\ core[s].num # 0
                        /\ \A p \in Procs : Frames(p, {"igetslot"}, s) = {}}

\* p has counted a name of s that is not in the directory, yet or any more.
Pending(p, s) ==
  LET q == proc[p]
  IN \/ /\ q.sip = s /\ q.op \in {"link", "rename"}
        /\ \E l \in {"bumped", "enter", "exists", "undo", "diraddentry"} : In(p, l)
     \/ /\ q.sip = s /\ q.op \in Makes
        /\ \E l \in {"dirmake", "diraddentry"} : In(p, l)
     \/ /\ In(p, "made")
        /\ (q.got = s /\ ~In(p, "ialloced")) \/ Frames(p, {"result"}, s) # {}
     \/ q.tip = s /\ \E l \in {"renaming", "renamed", "removed"} : In(p, l)

\* i_nlink is the number of names, those being made or removed included, and
\* one more for a directory's own until rmdir trashes that.
LinksCounted ==
  \A s \in Valid :
    LET names == Cardinality({name \in Names : dir[name] = core[s].num})
                 + Cardinality({p \in Procs : Pending(p, s)})
    IN CASE core[s].mode = "free" -> names = 0
         [] core[s].mode = "file" -> core[s].nlink = names
         [] core[s].mode = "dir"  -> core[s].nlink = names + One(core[s].nlink > 0)

\* After a crash at any time, whatever delayed writes were done: each name on
\* the disk is one of an allocated inode, with links for all its names.
DiskSafe ==
  \A name \in Names :
    ddir[name] # 0 =>
      disk[ddir[name]] >= Cardinality({m \in Names : ddir[m] = ddir[name]})

\* The name cache agrees with the directory, although it is filled and purged
\* with the directory unlocked.
NamesTrue ==
  \A i \in DOMAIN nc :
    nc[i] # NoEntry =>
      /\ dir[nc[i].name] # 0 /\ dir[nc[i].name] = core[nc[i].vp].num
      /\ Cardinality(Entries(nc[i].name)) = 1

\* An inode nobody holds has been copied to its buffer, and freed if it has
\* no links.
NoInodeLost ==
  \A s \in ToSet(freel) :
    core[s].num # 0 =>
      /\ buf[core[s].num] = [mode |-> core[s].mode, nlink |-> core[s].nlink]
      /\ core[s].mode # "free" => core[s].nlink > 0

\* A sleeper's lock is held, and its holder will wake it.
InodeSleeper ==
  \A p \in Procs :
    /\ proc[p].chan \in Slots \cup {Root} => core[proc[p].chan].lock /\ core[proc[p].chan].want
    /\ proc[p].chan = Ilist => sb.ilock

\* An open file keeps its inode, whatever happens to its names.
OpenFileKept ==
  [][\A p \in Procs : LET s == proc[p].fd
                      IN s # None /\ proc'[p].fd = s =>
                           /\ core'[s].num = core[s].num /\ core'[s].mode = core[s].mode
                           /\ s \notin ToSet(freel')]_vars
=============================================================================
