--------------------------- MODULE FileTransaction ---------------------------
(***************************************************************************)
(* src/exifmodern/file_transaction.py: the three transactional writers     *)
(* every metadata write ends in.                                           *)
(*                                                                         *)
(*   "write"               write_bytes_transactionally                     *)
(*   "create_backup",                                                      *)
(*   "overwrite_original"  write_bytes_in_place_transactionally            *)
(*   "copy_back"           copy_back_bytes_in_place_transactionally        *)
(*                                                                         *)
(* Several writers work on one target path in one directory.  A step is    *)
(* one system call (or a few that touch only the writer's own files), so   *)
(* that failures and other writers fit between any two of them.            *)
(*                                                                         *)
(* The file system is POSIX: names lead to inodes, a rename moves a name   *)
(* atomically, an open handle follows the inode and not the name, file     *)
(* contents are durable after fsync, and a power loss keeps the directory  *)
(* as it was at some moment since the last fsync of the directory.         *)
(***************************************************************************)
EXTENDS Naturals, FiniteSets

CONSTANTS
  Writers,       \* concurrent callers
  Pids,          \* process ids; temp and rollback names carry os.getpid()
  PidOf,         \* PidOf[w]: the process writer w runs in
  Ops,           \* the writers (see above) this instance calls
  Data,          \* what callers may write
  Original,      \* the content of the target before the first call
  Torn,          \* partly written content
  None,          \* no file under a name, no open handle
  Inodes,
  TargetExists,  \* whether the target is there before the first call
  Failures,      \* which of AllFailures can strike
  MaxFailures,   \* bound: failures in a behaviour
  MaxCalls       \* bound: calls in a behaviour

AllOps == {"write", "create_backup", "overwrite_original", "copy_back"}
AllFailures == {"oserror", "interrupt", "kill", "power"}

ASSUME ConstantsAssumption ==
  /\ PidOf \in [Writers -> Pids]
  /\ Ops \subseteq AllOps
  /\ Torn \notin Data \cup {Original, None}
  /\ None \notin Inodes \cup Data \cup {Original}
  /\ Inodes # {}
  /\ TargetExists \in BOOLEAN
  /\ Failures \subseteq AllFailures
  /\ MaxFailures \in Nat
  /\ MaxCalls \in Nat

VARIABLES
  dir,       \* the directory: what each name leads to
  snaps,     \* directories a power loss may leave: all since the last fsync
  content,   \* the content of each inode, as a reader sees it
  synced,    \* whether an inode's content is on disk
  pc,        \* the next system call of each writer
  op, data,  \* the call in progress or the last one: which, writing what
  handle,    \* the inode a writer has open for writing
  found,     \* history: the content of the target when the call began,
  solid,     \* ... and whether it was on disk then
  outcome,   \* how the call ended; "raised" as soon as an exception is raised
  calls, failures

vars == <<dir, snaps, content, synced, pc, op, data, handle, found, solid,
          outcome, calls, failures>>
disk == <<dir, snaps, content, synced>>
args == <<op, data, found, solid, calls>>

Entry == Inodes \cup {None}
Content == Data \cup {Original, Torn}
Directory == [target : Entry, backup : Entry,
              temp : [Pids -> Entry], rollback : [Pids -> Entry]]
Steps == {"idle", "check", "create", "fill", "fsync", "backup_check", "backup",
          "commit", "undo", "save_rollback", "copy_open", "copy_fill",
          "copy_fsync", "restore_open", "restore_fill", "restore_sync",
          "utime", "sync_dir", "unlink_temp", "unlink_rollback"}

\* The steps inside a `with open(...)` block, and inside copy2's.
Writing == {"fill", "fsync", "copy_fill", "copy_fsync", "restore_fill"}

\* Type invariant; a file is open while a writer writes it and at no other time,
\* after an exception neither.
TypeOK ==
  /\ dir \in Directory
  /\ snaps \in SUBSET Directory
  /\ content \in [Inodes -> Content]
  /\ synced \in [Inodes -> BOOLEAN]
  /\ pc \in [Writers -> Steps]
  /\ op \in [Writers -> AllOps]
  /\ data \in [Writers -> Content]
  /\ handle \in [Writers -> Entry]
  /\ \A w \in Writers : handle[w] # None <=> pc[w] \in Writing
  /\ found \in [Writers -> Content \cup {None}]
  /\ solid \in [Writers -> BOOLEAN]
  /\ outcome \in [Writers -> {"ok", "running", "raised", "killed"}]
  /\ calls \in Nat
  /\ failures \in Nat

InodesOf(d) == {d.target, d.backup} \cup {d.temp[p] : p \in Pids}
                                    \cup {d.rollback[p] : p \in Pids}
Free == Inodes \ ((UNION {InodesOf(s) : s \in snaps}) \cup {handle[w] : w \in Writers})
ContentOf(entry) == IF entry = None THEN None ELSE content[entry]
Temp(w) == dir.temp[PidOf[w]]
Rollback(w) == dir.rollback[PidOf[w]]

Init ==
  /\ LET first == CHOOSE i \in Inodes : TRUE IN
       /\ dir = [target |-> IF TargetExists THEN first ELSE None, backup |-> None,
                 temp |-> [p \in Pids |-> None], rollback |-> [p \in Pids |-> None]]
       /\ content = [i \in Inodes |-> IF i = first THEN Original ELSE Torn]
       /\ synced = [i \in Inodes |-> i = first]
  /\ snaps = {dir}
  /\ pc = [w \in Writers |-> "idle"]
  /\ op = [w \in Writers |-> "write"]
  /\ data = [w \in Writers |-> Original]
  /\ handle = [w \in Writers |-> None]
  /\ found = [w \in Writers |-> None]
  /\ solid = [w \in Writers |-> FALSE]
  /\ outcome = [w \in Writers |-> "ok"]
  /\ calls = 0
  /\ failures = 0

-----------------------------------------------------------------------------
Goto(w, step) == pc' = [pc EXCEPT ![w] = step] /\ UNCHANGED outcome
Open(w, i) == handle' = [handle EXCEPT ![w] = i]
Close(w) == Open(w, None)
Relink(d) == dir' = d /\ snaps' = snaps \cup {d}
Fill(i, c) == /\ content' = [content EXCEPT ![i] = c]
              /\ synced' = [synced EXCEPT ![i] = FALSE]
Fsync(i) == synced' = [synced EXCEPT ![i] = TRUE] /\ UNCHANGED content

\* open("wb") of a name that leads to `entry`: that inode, or a fresh one.
Creatable(entry) == entry # None \/ Free # {}
Create(entry) == IF entry # None THEN entry ELSE CHOOSE i \in Free : TRUE

\* The call is over: it returns, or the exception in flight reaches the caller.
Finish(w) ==
  /\ pc' = [pc EXCEPT ![w] = "idle"]
  /\ outcome' = [outcome EXCEPT ![w] = IF @ = "running" THEN "ok" ELSE @]

\* Raise an exception whose handler, finally clause or caller is at `step`.
Raise(w, step) ==
  /\ pc' = [pc EXCEPT ![w] = step]
  /\ outcome' = [outcome EXCEPT ![w] = "raised"]
  /\ Close(w)
  /\ UNCHANGED <<disk, args>>

\* Where an exception raised by the system call at `step` is handled; an
\* OSError in the inner try blocks has a handler of its own.
Finally(step) == IF step \in {"check", "unlink_temp", "unlink_rollback"}
                   THEN "idle" ELSE "unlink_temp"
HandlerWithoutRollback(w, step) == Finally(step)  \* Mutant: no except OSError
Handler(w, step) ==
  CASE step = "commit" /\ op[w] = "create_backup" -> "undo"
    [] step \in {"copy_open", "copy_fill", "copy_fsync"} -> "restore_open"
    [] OTHER -> Finally(step)

-----------------------------------------------------------------------------
Begin(w) ==
  /\ pc[w] = "idle"
  /\ calls < MaxCalls
  /\ \E o \in Ops, d \in Data : op' = [op EXCEPT ![w] = o] /\ data' = [data EXCEPT ![w] = d]
  /\ found' = [found EXCEPT ![w] = ContentOf(dir.target)]
  /\ solid' = [solid EXCEPT ![w] = dir.target # None /\ synced[dir.target]]
  /\ calls' = calls + 1
  /\ pc' = [pc EXCEPT ![w] = "check"]
  /\ outcome' = [outcome EXCEPT ![w] = "running"]
  /\ UNCHANGED <<disk, handle, failures>>

\* mkdir and exists() for an output path; is_file() and stat() in place.
Check(w) ==
  /\ pc[w] = "check"
  /\ op[w] # "write" => dir.target # None
  /\ Goto(w, "create")
  /\ UNCHANGED <<disk, handle>>

\* The name the system call at the writer's step needs.
Needed(w) ==
  CASE pc[w] = "check" -> IF op[w] = "write" THEN {} ELSE {dir.target}
    [] pc[w] \in {"backup", "save_rollback", "copy_open", "utime"} -> {dir.target}
    [] pc[w] \in {"commit", "copy_fill"} -> {Temp(w)}
    [] pc[w] = "undo" -> {dir.backup}
    [] pc[w] \in {"restore_open", "restore_fill"} -> {Rollback(w)}
    [] OTHER -> {}

\* ... and the FileNotFoundError, an OSError, when nothing is there.
NotFound(w) == None \in Needed(w) /\ Raise(w, Handler(w, pc[w]))

\* Mutant: flush() taken for fsync().
SyncTempFlushOnly(w) ==
  /\ pc[w] = "fsync"
  /\ Close(w)
  /\ Goto(w, IF op[w] = "create_backup" THEN "backup_check"
              ELSE IF op[w] = "copy_back" THEN "save_rollback" ELSE "commit")
  /\ UNCHANGED <<dir, snaps, content, synced>>
\* Mutant: the backup is taken whether or not there is one.
CheckBackupSkipped(w) ==
  pc[w] = "backup_check" /\ Goto(w, "backup") /\ UNCHANGED <<disk, handle>>
\* Mutant: the directory is never synced.
SyncDirSkipped(w) ==
  pc[w] \in {"sync_dir", "restore_sync"} /\ Goto(w, "unlink_temp")
  /\ UNCHANGED <<disk, handle>>
\* Mutant: the temp file is not closed, as without the `with`.
SyncTempUnclosed(w) ==
  /\ pc[w] = "fsync"
  /\ Fsync(handle[w])
  /\ Goto(w, CASE op[w] = "create_backup" -> "backup_check"
               [] op[w] = "copy_back" -> "save_rollback"
               [] OTHER -> "commit")
  /\ UNCHANGED <<dir, snaps, handle>>
\* Mutant: the temp file is removed on the normal path only.
UnlinkTempOnSuccess(w) ==
  /\ pc[w] = "unlink_temp"
  /\ IF outcome[w] = "raised" THEN UNCHANGED <<dir, snaps>>
                              ELSE Relink([dir EXCEPT !.temp[PidOf[w]] = None])
  /\ IF op[w] = "copy_back" THEN Goto(w, "unlink_rollback") ELSE Finish(w)
  /\ UNCHANGED <<content, synced, handle>>

\* open("wb") of the temp name: a dead process may have left one.
OpenTemp(w) ==
  /\ pc[w] = "create"
  /\ Creatable(Temp(w))
  /\ LET i == Create(Temp(w)) IN
       Relink([dir EXCEPT !.temp[PidOf[w]] = i]) /\ Fill(i, Torn) /\ Open(w, i)
  /\ Goto(w, "fill")

FillTemp(w) ==
  /\ pc[w] = "fill"
  /\ Fill(handle[w], data[w])
  /\ Goto(w, "fsync")
  /\ UNCHANGED <<dir, snaps, handle>>

SyncTemp(w) ==
  /\ pc[w] = "fsync"
  /\ Fsync(handle[w])
  /\ Close(w)
  /\ Goto(w, CASE op[w] = "create_backup" -> "backup_check"
               [] op[w] = "copy_back" -> "save_rollback"
               [] OTHER -> "commit")
  /\ UNCHANGED <<dir, snaps>>

\* backup_path.exists(), and the FileExistsError, which no inner try catches.
CheckBackup(w) ==
  /\ pc[w] = "backup_check"
  /\ \/ dir.backup = None /\ Goto(w, "backup") /\ UNCHANGED <<disk, handle>>
     \/ dir.backup # None /\ Raise(w, "unlink_temp")

\* target_path.replace(backup_path)
MoveToBackup(w) ==
  /\ pc[w] = "backup"
  /\ dir.target # None
  /\ Relink([dir EXCEPT !.backup = dir.target, !.target = None])
  /\ Goto(w, "commit")
  /\ UNCHANGED <<content, synced, handle>>

\* temp_path.replace(target_path)
Commit(w) ==
  /\ pc[w] = "commit"
  /\ Temp(w) # None
  /\ Relink([dir EXCEPT !.target = Temp(w), !.temp[PidOf[w]] = None])
  /\ Goto(w, IF op[w] = "write" THEN "sync_dir" ELSE "utime")
  /\ UNCHANGED <<content, synced, handle>>

\* except OSError: backup_path.replace(target_path); raise
UndoBackup(w) ==
  /\ pc[w] = "undo"
  /\ dir.backup # None
  /\ Relink([dir EXCEPT !.target = dir.backup, !.backup = None])
  /\ Goto(w, "unlink_temp")
  /\ UNCHANGED <<content, synced, handle>>

\* shutil.copy2(target_path, rollback_path): the copy is never synced.
SaveRollback(w) ==
  /\ pc[w] = "save_rollback"
  /\ dir.target # None
  /\ Creatable(Rollback(w))
  /\ LET i == Create(Rollback(w)) IN
       Relink([dir EXCEPT !.rollback[PidOf[w]] = i]) /\ Fill(i, content[dir.target])
  /\ Goto(w, "copy_open")
  /\ UNCHANGED handle

\* open("r+b") on the target, and the first bytes written through it.
OpenTarget(w) ==
  /\ pc[w] = "copy_open"
  /\ dir.target # None
  /\ Open(w, dir.target) /\ Fill(dir.target, Torn)
  /\ Goto(w, "copy_fill")
  /\ UNCHANGED <<dir, snaps>>

\* The rest of copyfileobj from the temp file, truncate, flush.
FillTarget(w) ==
  /\ pc[w] = "copy_fill"
  /\ Temp(w) # None
  /\ Fill(handle[w], content[Temp(w)])
  /\ Goto(w, "copy_fsync")
  /\ UNCHANGED <<dir, snaps, handle>>

SyncTarget(w) ==
  /\ pc[w] = "copy_fsync"
  /\ Fsync(handle[w])
  /\ Close(w)
  /\ Goto(w, "utime")
  /\ UNCHANGED <<dir, snaps>>

\* restore_file_from_backup: copy2 opens the target by name, truncating it ...
RestoreOpen(w) ==
  /\ pc[w] = "restore_open"
  /\ Rollback(w) # None
  /\ Creatable(dir.target)
  /\ LET i == Create(dir.target) IN
       Relink([dir EXCEPT !.target = i]) /\ Fill(i, Torn) /\ Open(w, i)
  /\ Goto(w, "restore_fill")

\* ... and fills it from the rollback copy, without an fsync of the file.
RestoreFill(w) ==
  /\ pc[w] = "restore_fill"
  /\ Rollback(w) # None
  /\ Fill(handle[w], content[Rollback(w)])
  /\ Close(w)
  /\ Goto(w, "restore_sync")
  /\ UNCHANGED <<dir, snaps>>

\* os.utime(target_path), when preserve_file_times asks for it (NotFound then).
Utime(w) ==
  /\ pc[w] = "utime"
  /\ Goto(w, "sync_dir")
  /\ UNCHANGED <<disk, handle>>

\* fsync_directory, after the commit or after a restore.
SyncDir(w) ==
  /\ pc[w] \in {"sync_dir", "restore_sync"}
  /\ snaps' = {dir}
  /\ Goto(w, "unlink_temp")
  /\ UNCHANGED <<dir, content, synced, handle>>

\* finally: unlink the temp file if it is there; copy_back has its rollback too.
UnlinkTemp(w) ==
  /\ pc[w] = "unlink_temp"
  /\ Relink([dir EXCEPT !.temp[PidOf[w]] = None])
  /\ IF op[w] = "copy_back" THEN Goto(w, "unlink_rollback") ELSE Finish(w)
  /\ UNCHANGED <<content, synced, handle>>

UnlinkRollback(w) ==
  /\ pc[w] = "unlink_rollback"
  /\ Relink([dir EXCEPT !.rollback[PidOf[w]] = None])
  /\ Finish(w)
  /\ UNCHANGED <<content, synced, handle>>

SystemCall(w) ==
  /\ \/ Check(w) \/ NotFound(w) \/ OpenTemp(w) \/ FillTemp(w) \/ SyncTemp(w)
     \/ CheckBackup(w) \/ MoveToBackup(w) \/ Commit(w) \/ UndoBackup(w)
     \/ SaveRollback(w) \/ OpenTarget(w) \/ FillTarget(w) \/ SyncTarget(w)
     \/ RestoreOpen(w) \/ RestoreFill(w)
     \/ Utime(w) \/ SyncDir(w) \/ UnlinkTemp(w) \/ UnlinkRollback(w)
  /\ UNCHANGED <<args, failures>>

-----------------------------------------------------------------------------
Strike(kind) ==
  /\ kind \in Failures
  /\ failures < MaxFailures
  /\ failures' = failures + 1

\* The system call fails with OSError and has no effect.
Fails(w) ==
  /\ pc[w] # "idle"
  /\ Strike("oserror")
  /\ Raise(w, Handler(w, pc[w]))

\* Any other exception (KeyboardInterrupt, MemoryError): no `except OSError`
\* catches it, only the finally clause runs.
Interrupted(w) ==
  /\ pc[w] # "idle"
  /\ Strike("interrupt")
  /\ Raise(w, Finally(pc[w]))

\* The process dies: no handler and no finally clause runs in its threads.
Killed(p) ==
  LET dead == {w \in Writers : PidOf[w] = p /\ pc[w] # "idle"} IN
  /\ dead # {}
  /\ Strike("kill")
  /\ pc' = [w \in Writers |-> IF w \in dead THEN "idle" ELSE pc[w]]
  /\ outcome' = [w \in Writers |-> IF w \in dead THEN "killed" ELSE outcome[w]]
  /\ handle' = [w \in Writers |-> IF w \in dead THEN None ELSE handle[w]]
  /\ UNCHANGED <<disk, args>>

\* Unsynced contents may be lost, the directory falls back to a snapshot.
PowerLoss ==
  /\ Strike("power")
  /\ \E s \in snaps : dir' = s /\ snaps' = {s}
  /\ \E lost \in SUBSET {i \in Inodes : ~synced[i]} :
       content' = [i \in Inodes |-> IF i \in lost THEN Torn ELSE content[i]]
  /\ synced' = [i \in Inodes |-> TRUE]
  /\ pc' = [w \in Writers |-> "idle"]
  /\ outcome' = [w \in Writers |-> IF pc[w] = "idle" THEN outcome[w] ELSE "killed"]
  /\ handle' = [w \in Writers |-> None]
  /\ UNCHANGED args

Next == \/ PowerLoss
        \/ \E p \in Pids : Killed(p)
        \/ \E w \in Writers : Begin(w) \/ SystemCall(w) \/ Fails(w) \/ Interrupted(w)

Spec == Init /\ [][Next]_vars

-----------------------------------------------------------------------------
Whole(entry) == entry # None => content[entry] # Torn /\ synced[entry]

\* The rename-based writers never expose a partly written or unsynced target,
\* to any reader or after any power loss, whatever other processes do.
TargetWhole == \A s \in snaps : Whole(s.target)

\* Why TargetWhole is inductive: a file that still has a temp name is, in no
\* directory a power loss may leave, also the target or the backup, so writing it
\* harms neither; and a writer about to commit has synced the file it will commit.
Apart(d, after) ==
  \A p \in Pids : d.temp[p] # None =>
    /\ \A s \in after : d.temp[p] \notin {s.target, s.backup}
    /\ \A q \in Pids \ {p} : d.temp[q] # d.temp[p]
WriterReady(w) ==
  /\ pc[w] \in {"fill", "fsync"} => Temp(w) # None /\ handle[w] = Temp(w)
  /\ pc[w] = "fsync" => content[handle[w]] # Torn
  /\ pc[w] \in {"backup_check", "backup", "commit"} => Temp(w) # None /\ Whole(Temp(w))
  /\ pc[w] \notin {"save_rollback", "copy_open", "copy_fill", "copy_fsync",
                   "restore_open", "restore_fill", "restore_sync",
                   "unlink_rollback"}
  /\ op[w] # "copy_back" /\ data[w] # Torn
WholeInv ==
  /\ dir \in snaps
  /\ \A s \in snaps : Whole(s.target) /\ Whole(s.backup) /\ Apart(s, {s})
  /\ Apart(dir, snaps)
  /\ \A w \in Writers : WriterReady(w)

\* With backups on, the file the user started with survives every failure, kill
\* and power loss of one caller, however often it retries: under the target's
\* name, or under the backup's.
OriginalKept ==
  \A s \in snaps : \E i \in {s.target, s.backup} \ {None} :
    content[i] = Original /\ synced[i]

\* What a returned call leaves in directory d: its data, on disk, and the backup of
\* what it replaced.  A backup is the renamed target and is never synced itself: it
\* is as durable as the target was.
DoneIn(w, d) ==
  /\ d.target # None /\ content[d.target] = data[w] /\ synced[d.target]
  /\ op[w] = "create_backup" =>
       /\ d.backup # None
       /\ content[d.backup] \in {found[w]} \cup (IF solid[w] THEN {} ELSE {Torn})
       /\ solid[w] => synced[d.backup]

\* A call that returned is durable, in every directory a power loss may leave: the
\* new content, and the backup of the old one if that was on disk when the call
\* began.  What a failed copy_back restored was not: its backup may be torn.
OkIsDurable ==
  \A w \in Writers : pc[w] = "idle" /\ outcome[w] = "ok" /\ calls > 0 =>
    \A s \in snaps : DoneIn(w, s)

\* At the moment a call raises, the target is as the call found it or fully
\* rewritten.  Only a second failure, of the call's own rollback, can leave it
\* missing, and then the backup holds what the call found.
AllOrNothing ==
  [][\A w \in Writers : pc[w] # "idle" /\ pc'[w] = "idle" /\ outcome'[w] = "raised" =>
       \/ ContentOf(dir.target)' \in {found[w], data[w]}
       \/ failures' > 1 /\ op[w] = "create_backup" /\ dir'.target = None
                        /\ ContentOf(dir.backup)' = found[w]]_vars

\* A call that ends by itself, not by a failure of its own clean-up, removes its
\* temp file and its rollback copy, a stale one of a dead process included.
CleansUp ==
  [][\A w \in Writers :
       pc[w] \notin {"idle", "check"} /\ pc'[w] = "idle" /\ failures' = failures =>
         Temp(w)' = None /\ (op[w] = "copy_back" => Rollback(w)' = None)]_vars

\* The write plan's rewrite_container_transactionally action: "Container mutation
\* must use temp-file, backup, and rollback semantics" (write_plan.py:279).  A
\* copy_back that raises leaves the target whole, or a copy to roll back to.
RollbackSemantics ==
  \A w \in Writers : pc[w] = "idle" /\ outcome[w] = "raised" /\ op[w] = "copy_back" =>
    \/ ContentOf(dir.target) \in {found[w], data[w]}
    \/ ContentOf(Rollback(w)) = found[w]

\* The guard of file_transaction.py:61-62, "Backup path already exists": no call
\* puts another file in the place of a backup that is there.
BackupNotOverwritten ==
  [][dir.backup # None => dir'.backup \in {dir.backup, None}]_dir

\* Without backups the writers implement the atomic register.
Phase(w) ==
  CASE pc[w] = "idle" -> "idle"
    [] pc[w] \in {"utime", "sync_dir"} -> "replaced"
    [] pc[w] = "unlink_temp" -> IF outcome[w] = "raised" THEN "failed" ELSE "durable"
    [] OTHER -> "pending"
Atomic == INSTANCE AtomicReplace WITH
  Values <- Data \cup {Original, None},
  value <- ContentOf(dir.target),
  durable <- {ContentOf(s.target) : s \in snaps},
  phase <- [w \in Writers |-> Phase(w)]
AtomicSpec == Atomic!Spec
=============================================================================
