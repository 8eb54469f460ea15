------------------------ MODULE FileTransactionProofs ------------------------
(***************************************************************************)
(* Proofs about FileTransaction, for every number of writers, inodes and   *)
(* failures: type correctness, and that the rename-based writers never     *)
(* expose a partly written or unsynced target.                             *)
(***************************************************************************)
EXTENDS FileTransaction, TLAPS

LEMMA FreeIsFresh ==
  ASSUME Free # {}
  PROVE  /\ (CHOOSE i \in Free : TRUE) \in Inodes
         /\ (CHOOSE i \in Free : TRUE) \in Free
BY DEF Free

\* Opening a name for writing yields an inode.
LEMMA CreateType ==
  ASSUME NEW entry \in Entry, Creatable(entry)
  PROVE  Create(entry) \in Inodes
BY FreeIsFresh DEF Creatable, Create, Entry

LEMMA InitType == Init => TypeOK
<1> SUFFICES ASSUME Init PROVE TypeOK
  OBVIOUS
<1> DEFINE first == CHOOSE i \in Inodes : TRUE
<1>1. first \in Inodes
  BY ConstantsAssumption
<1>2. dir \in Directory
  BY <1>1 DEF Init, Directory, Entry
<1>3. /\ content \in [Inodes -> Content]
      /\ synced \in [Inodes -> BOOLEAN]
  BY DEF Init, Content
<1>4. /\ snaps \in SUBSET Directory
      /\ pc \in [Writers -> Steps]
      /\ op \in [Writers -> AllOps]
      /\ data \in [Writers -> Content]
      /\ handle \in [Writers -> Entry]
      /\ found \in [Writers -> Content \cup {None}]
      /\ solid \in [Writers -> BOOLEAN]
      /\ \A w \in Writers : handle[w] # None <=> pc[w] \in Writing
      /\ outcome \in [Writers -> {"ok", "running", "raised", "killed"}]
      /\ calls \in Nat
      /\ failures \in Nat
  BY <1>2 DEF Init, Content, Steps, AllOps, Entry, Writing
<1> QED
  BY <1>2, <1>3, <1>4 DEF TypeOK

\* Every way a system call can end in an exception keeps the types.
LEMMA RaiseType ==
  ASSUME TypeOK, NEW w \in Writers, NEW step \in Steps \ Writing, Raise(w, step),
         failures' \in Nat
  PROVE  TypeOK'
BY ConstantsAssumption DEF TypeOK, Raise, Close, Open, disk, args, Entry, Writing

LEMMA HandlerType ==
  ASSUME TypeOK, NEW w \in Writers
  PROVE  Handler(w, pc[w]) \in Steps \ Writing /\ Finally(pc[w]) \in Steps \ Writing
BY DEF TypeOK, Handler, Finally, Steps, Writing

LEMMA StrikeType ==
  ASSUME TypeOK, NEW kind, Strike(kind)
  PROVE  failures' \in Nat
BY DEF TypeOK, Strike

\* A directory with one name led elsewhere is a directory.
LEMMA RelinkType ==
  ASSUME NEW d \in Directory, NEW e \in Entry, NEW p \in Pids
  PROVE  /\ [d EXCEPT !.target = e] \in Directory
         /\ [d EXCEPT !.temp[p] = e] \in Directory
         /\ [d EXCEPT !.rollback[p] = e] \in Directory
         /\ [d EXCEPT !.backup = d.target, !.target = None] \in Directory
         /\ [d EXCEPT !.target = d.backup, !.backup = None] \in Directory
         /\ [d EXCEPT !.target = d.temp[p], !.temp[p] = None] \in Directory
         /\ d.target \in Entry /\ d.backup \in Entry
         /\ d.temp[p] \in Entry /\ d.rollback[p] \in Entry
BY DEF Directory, Entry

\* A writer that opens a file goes on to write it.
LEMMA OpenType ==
  ASSUME TypeOK, NEW w \in Writers, NEW i \in Inodes, NEW step \in Writing,
         Open(w, i), Goto(w, step)
  PROVE  /\ handle' \in [Writers -> Entry] /\ pc' \in [Writers -> Steps]
         /\ \A v \in Writers : handle'[v] # None <=> pc'[v] \in Writing
BY ConstantsAssumption DEF TypeOK, Open, Goto, Steps, Writing, Entry

LEMMA SystemCallType ==
  ASSUME TypeOK, NEW w \in Writers, SystemCall(w)
  PROVE  TypeOK'
<1> USE ConstantsAssumption DEF TypeOK, Goto, args, disk, Writing
<1>a. PidOf[w] \in Pids /\ None \in Entry /\ dir \in Directory
  BY DEF Entry
<1>b. failures' \in Nat
  BY DEF SystemCall
<1>1. CASE Check(w)
  BY <1>1 DEF Check, SystemCall, Steps
<1>2. CASE NotFound(w)
  BY <1>2, <1>b, RaiseType, HandlerType DEF NotFound
<1>3. CASE OpenTemp(w)
  <2>1. Create(Temp(w)) \in Inodes
    BY <1>3, <1>a, RelinkType, CreateType DEF OpenTemp, Temp
  <2>2. [dir EXCEPT !.temp[PidOf[w]] = Create(Temp(w))] \in Directory
    BY <1>a, <2>1, RelinkType DEF Entry
  <2>3. dir' \in Directory /\ snaps' \in SUBSET Directory
    BY <1>3, <2>2 DEF OpenTemp, Relink
  <2>4. /\ handle' \in [Writers -> Entry] /\ pc' \in [Writers -> Steps]
        /\ \A v \in Writers : handle'[v] # None <=> pc'[v] \in Writing
    BY ONLY TypeOK, <1>3, <2>1, OpenType DEF OpenTemp, Writing
  <2>5. /\ content' \in [Inodes -> Content] /\ synced' \in [Inodes -> BOOLEAN]
        /\ op' = op /\ data' = data /\ found' = found /\ solid' = solid
        /\ outcome' = outcome /\ calls' = calls /\ failures' = failures
    BY <1>3, <2>1 DEF OpenTemp, Fill, SystemCall, Content
  <2> QED
    BY ONLY TypeOK, <2>3, <2>4, <2>5 DEF TypeOK
<1>4. CASE FillTemp(w)
  BY <1>4 DEF FillTemp, Fill, SystemCall, Steps
<1>5. CASE SyncTemp(w)
  BY <1>5 DEF SyncTemp, Fsync, Close, Open, SystemCall, Steps, Entry
<1>6. CASE CheckBackup(w)
  <2>1. CASE dir.backup = None /\ Goto(w, "backup") /\ UNCHANGED <<disk, handle>>
    <3>1. pc[w] = "backup_check"
      BY <1>6 DEF CheckBackup
    <3> QED BY <2>1, <3>1 DEF SystemCall, Steps
  <2>2. CASE Raise(w, "unlink_temp")
    BY <2>2, <1>b, RaiseType DEF Steps
  <2> QED
    BY <1>6, <2>1, <2>2 DEF CheckBackup
<1>7. CASE MoveToBackup(w)
  BY <1>7, <1>a, RelinkType DEF MoveToBackup, Relink, SystemCall, Steps
<1>8. CASE Commit(w)
  <2>1. [dir EXCEPT !.target = dir.temp[PidOf[w]], !.temp[PidOf[w]] = None] \in Directory
    BY <1>a, RelinkType
  <2>2. dir' \in Directory /\ snaps' \in SUBSET Directory
    BY <1>8, <2>1 DEF Commit, Relink, Temp
  <2> QED
    BY <1>8, <2>2 DEF Commit, SystemCall, Steps
<1>9. CASE UndoBackup(w)
  BY <1>9, <1>a, RelinkType DEF UndoBackup, Relink, SystemCall, Steps
<1>10. CASE SaveRollback(w)
  <2>1. Create(Rollback(w)) \in Inodes
    BY <1>10, <1>a, RelinkType, CreateType DEF SaveRollback, Rollback
  <2>2. [dir EXCEPT !.rollback[PidOf[w]] = Create(Rollback(w))] \in Directory
    BY <1>a, <2>1, RelinkType DEF Entry
  <2>3. dir' \in Directory /\ snaps' \in SUBSET Directory
    BY <1>10, <2>2 DEF SaveRollback, Relink
  <2>4. dir.target \in Inodes
    BY <1>10, <1>a, RelinkType DEF SaveRollback, Entry
  <2> QED
    BY <1>10, <2>1, <2>3, <2>4 DEF SaveRollback, Fill, SystemCall, Steps
<1>11. CASE OpenTarget(w)
  <2>1. dir.target \in Inodes
    BY <1>11, <1>a, RelinkType DEF OpenTarget, Entry
  <2>2. /\ handle' \in [Writers -> Entry] /\ pc' \in [Writers -> Steps]
        /\ \A v \in Writers : handle'[v] # None <=> pc'[v] \in Writing
    BY ONLY TypeOK, <1>11, <2>1, OpenType DEF OpenTarget, Writing
  <2>3. /\ content' \in [Inodes -> Content] /\ synced' \in [Inodes -> BOOLEAN]
        /\ op' = op /\ data' = data /\ found' = found /\ solid' = solid
        /\ outcome' = outcome /\ calls' = calls /\ failures' = failures
        /\ dir' = dir /\ snaps' = snaps
    BY <1>11, <2>1 DEF OpenTarget, Fill, SystemCall, Content
  <2> QED
    BY ONLY TypeOK, <2>2, <2>3 DEF TypeOK
<1>12. CASE FillTarget(w)
  <2>1. Temp(w) \in Inodes
    BY ONLY <1>12, <1>a, RelinkType DEF FillTarget, Temp, Entry
  <2>2. /\ content' \in [Inodes -> Content] /\ synced' \in [Inodes -> BOOLEAN]
        /\ op' = op /\ data' = data /\ found' = found /\ solid' = solid
        /\ outcome' = outcome /\ calls' = calls /\ failures' = failures
        /\ dir' = dir /\ snaps' = snaps
    BY <1>12, <2>1 DEF FillTarget, Fill, SystemCall, Content
  <2>3. /\ handle' \in [Writers -> Entry] /\ pc' \in [Writers -> Steps]
        /\ \A v \in Writers : handle'[v] # None <=> pc'[v] \in Writing
    BY <1>12 DEF FillTarget, Close, Open, Steps, Entry
  <2> QED
    BY ONLY TypeOK, <2>2, <2>3 DEF TypeOK
<1>13. CASE SyncTarget(w)
  BY <1>13 DEF SyncTarget, Fsync, Close, Open, SystemCall, Steps, Entry
<1>14. CASE RestoreOpen(w)
  <2>1. Create(dir.target) \in Inodes
    BY <1>14, <1>a, RelinkType, CreateType DEF RestoreOpen
  <2>2. [dir EXCEPT !.target = Create(dir.target)] \in Directory
    BY <1>a, <2>1, RelinkType DEF Entry
  <2>3. dir' \in Directory /\ snaps' \in SUBSET Directory
    BY <1>14, <2>2 DEF RestoreOpen, Relink
  <2>4. /\ handle' \in [Writers -> Entry] /\ pc' \in [Writers -> Steps]
        /\ \A v \in Writers : handle'[v] # None <=> pc'[v] \in Writing
    BY ONLY TypeOK, <1>14, <2>1, OpenType DEF RestoreOpen, Writing
  <2>5. /\ content' \in [Inodes -> Content] /\ synced' \in [Inodes -> BOOLEAN]
        /\ op' = op /\ data' = data /\ found' = found /\ solid' = solid
        /\ outcome' = outcome /\ calls' = calls /\ failures' = failures
    BY <1>14, <2>1 DEF RestoreOpen, Fill, SystemCall, Content
  <2> QED
    BY ONLY TypeOK, <2>3, <2>4, <2>5 DEF TypeOK
<1>15. CASE RestoreFill(w)
  <2>1. Rollback(w) \in Inodes
    BY ONLY <1>15, <1>a, RelinkType DEF RestoreFill, Rollback, Entry
  <2>2. /\ content' \in [Inodes -> Content] /\ synced' \in [Inodes -> BOOLEAN]
        /\ op' = op /\ data' = data /\ found' = found /\ solid' = solid
        /\ outcome' = outcome /\ calls' = calls /\ failures' = failures
        /\ dir' = dir /\ snaps' = snaps
    BY <1>15, <2>1 DEF RestoreFill, Fill, SystemCall, Content
  <2>3. /\ handle' \in [Writers -> Entry] /\ pc' \in [Writers -> Steps]
        /\ \A v \in Writers : handle'[v] # None <=> pc'[v] \in Writing
    BY <1>15 DEF RestoreFill, Close, Open, Steps, Entry
  <2> QED
    BY ONLY TypeOK, <2>2, <2>3 DEF TypeOK
<1>16. CASE Utime(w)
  BY <1>16 DEF Utime, SystemCall, Steps
<1>17. CASE SyncDir(w)
  BY <1>17 DEF SyncDir, SystemCall, Steps
<1>18. CASE UnlinkTemp(w)
  <2>1. [dir EXCEPT !.temp[PidOf[w]] = None] \in Directory
    BY <1>a, RelinkType
  <2>2. dir' \in Directory /\ snaps' \in SUBSET Directory
    BY <1>18, <2>1 DEF UnlinkTemp, Relink
  <2> QED
    BY <1>18, <2>2 DEF UnlinkTemp, Finish, SystemCall, Steps
<1>19. CASE UnlinkRollback(w)
  <2>1. [dir EXCEPT !.rollback[PidOf[w]] = None] \in Directory
    BY <1>a, RelinkType
  <2>2. dir' \in Directory /\ snaps' \in SUBSET Directory
    BY <1>19, <2>1 DEF UnlinkRollback, Relink
  <2> QED
    BY <1>19, <2>2 DEF UnlinkRollback, Finish, SystemCall, Steps
<1> QED
  BY <1>1, <1>2, <1>3, <1>4, <1>5, <1>6, <1>7, <1>8, <1>9, <1>10, <1>11, <1>12,
     <1>13, <1>14, <1>15, <1>16, <1>17, <1>18, <1>19 DEF SystemCall

LEMMA NextType == TypeOK /\ [Next]_vars => TypeOK'
<1> SUFFICES ASSUME TypeOK, [Next]_vars PROVE TypeOK'
  OBVIOUS
<1> USE ConstantsAssumption DEF TypeOK, args, disk, Writing
<1>1. CASE PowerLoss
  <2>1. failures' \in Nat
    BY <1>1, StrikeType DEF PowerLoss
  <2> QED
    BY <1>1, <2>1 DEF PowerLoss, Steps, Content, Entry
<1>2. ASSUME NEW p \in Pids, Killed(p) PROVE TypeOK'
  <2>1. failures' \in Nat
    BY <1>2, StrikeType DEF Killed
  <2> QED
    BY <1>2, <2>1 DEF Killed, Steps, Entry
<1>3. ASSUME NEW w \in Writers, Begin(w) PROVE TypeOK'
  <2>1. ContentOf(dir.target) \in Content \cup {None}
    BY DEF ContentOf, Directory, Entry
  <2>2. Data \subseteq Content /\ Ops \subseteq AllOps
    BY DEF Content
  <2> QED
    BY <1>3, <2>1, <2>2 DEF Begin, Steps
<1>4. ASSUME NEW w \in Writers, SystemCall(w) PROVE TypeOK'
  BY <1>4, SystemCallType
<1>5. ASSUME NEW w \in Writers, Fails(w) PROVE TypeOK'
  BY <1>5, RaiseType, HandlerType, StrikeType DEF Fails
<1>6. ASSUME NEW w \in Writers, Interrupted(w) PROVE TypeOK'
  BY <1>6, RaiseType, HandlerType, StrikeType DEF Interrupted
<1>7. CASE UNCHANGED vars
  BY <1>7 DEF vars
<1> QED
  BY <1>1, <1>2, <1>3, <1>4, <1>5, <1>6, <1>7 DEF Next

\* Type correctness: in particular every name leads to an inode or to nothing
\* and every writer is at a known system call, in every reachable state.
THEOREM Typing == Spec => []TypeOK
BY InitType, NextType, PTL DEF Spec

-----------------------------------------------------------------------------
(***************************************************************************)
(* TargetWhole, for instances that call only the rename-based writers and  *)
(* whose writers are processes with process ids of their own: a thread     *)
(* sharing the process id would share the temp name.                       *)
(***************************************************************************)
RenameOnly == Ops \subseteq {"write", "create_backup", "overwrite_original"}
OwnPids == \A v, w \in Writers : PidOf[v] = PidOf[w] => v = w

LEMMA InitWhole == Init => WholeInv
<1> SUFFICES ASSUME Init PROVE WholeInv
  OBVIOUS
<1>1. TypeOK
  BY InitType
<1>2. Whole(dir.target) /\ Whole(dir.backup)
  BY <1>1, ConstantsAssumption DEF Init, Whole, TypeOK
<1>3. Apart(dir, {dir})
  BY DEF Init, Apart
<1>4. \A w \in Writers : WriterReady(w)
  BY ConstantsAssumption DEF Init, WriterReady
<1> QED
  BY <1>2, <1>3, <1>4 DEF Init, WholeInv

\* Steps that leave the disk alone only have to keep the writers ready.
LEMMA DiskSame ==
  ASSUME WholeInv, UNCHANGED disk, \A v \in Writers : WriterReady(v)'
  PROVE  WholeInv'
BY DEF WholeInv, disk, Whole, Apart

\* A step of one writer that leaves the other temp names and the files other
\* writers use alone keeps the other writers ready.
LEMMA OthersReady ==
  ASSUME TypeOK, WholeInv, OwnPids, NEW w \in Writers, NEW v \in Writers \ {w},
         pc'[v] = pc[v], op'[v] = op[v], data'[v] = data[v], handle'[v] = handle[v],
         dir'.temp[PidOf[v]] = dir.temp[PidOf[v]],
         dir.temp[PidOf[v]] # None =>
           /\ content'[dir.temp[PidOf[v]]] = content[dir.temp[PidOf[v]]]
           /\ synced'[dir.temp[PidOf[v]]] = synced[dir.temp[PidOf[v]]]
  PROVE  WriterReady(v)'
BY DEF WholeInv, WriterReady, Whole, Temp

\* An exception leaves the writer at a step that needs nothing.
LEMMA RaiseWhole ==
  ASSUME TypeOK, WholeInv, OwnPids, NEW w \in Writers,
         NEW step \in {"idle", "unlink_temp", "undo"}, Raise(w, step)
  PROVE  WholeInv'
<1>1. WriterReady(w)'
  BY DEF TypeOK, WholeInv, WriterReady, Raise, args
<1>2. ASSUME NEW v \in Writers \ {w} PROVE WriterReady(v)'
  BY <1>2, OthersReady DEF TypeOK, Raise, Close, Open, disk, args
<1> QED
  BY <1>1, <1>2, DiskSame DEF Raise

LEMMA HandlerWhole ==
  ASSUME WholeInv, NEW w \in Writers
  PROVE  /\ Handler(w, pc[w]) \in {"idle", "unlink_temp", "undo"}
         /\ Finally(pc[w]) \in {"idle", "unlink_temp", "undo"}
BY DEF WholeInv, WriterReady, Handler, Finally

\* Linking an inode no directory names to a temp name.
LEMMA OpenTempWhole ==
  ASSUME TypeOK, WholeInv, OwnPids, NEW w \in Writers, OpenTemp(w), UNCHANGED args
  PROVE  WholeInv'
<1> DEFINE i == Create(Temp(w))
           d == [dir EXCEPT !.temp[PidOf[w]] = i]
<1> USE ConstantsAssumption
<1>1. PidOf[w] \in Pids /\ dir \in Directory /\ dir \in snaps
  BY DEF TypeOK, WholeInv
<1>2. i \in Inodes
  BY <1>1, CreateType DEF OpenTemp, Temp, Directory
<1>3. /\ dir' = d /\ snaps' = snaps \cup {d}
      /\ content' = [content EXCEPT ![i] = Torn]
      /\ synced' = [synced EXCEPT ![i] = FALSE]
      /\ handle' = [handle EXCEPT ![w] = i]
      /\ pc' = [pc EXCEPT ![w] = "fill"]
      /\ op' = op /\ data' = data
  BY DEF OpenTemp, Relink, Fill, Open, Goto, args
<1>4. /\ d.target = dir.target /\ d.backup = dir.backup
      /\ d.temp[PidOf[w]] = i
      /\ \A p \in Pids \ {PidOf[w]} : d.temp[p] = dir.temp[p]
  BY <1>1 DEF Directory
<1>5. /\ \A s \in snaps : i \notin {s.target, s.backup}
      /\ \A p \in Pids \ {PidOf[w]} : dir.temp[p] # i
  <2>1. CASE Temp(w) = None
    <3>1. i \in Free
      BY <2>1, FreeIsFresh DEF OpenTemp, Creatable, Create
    <3> QED
      <4>1. \A s \in snaps : i \notin InodesOf(s)
        BY <3>1 DEF Free
      <4> QED
        BY <1>1, <4>1 DEF InodesOf
  <2>2. CASE Temp(w) # None
    <3>1. i = dir.temp[PidOf[w]]
      BY <2>2 DEF Create, Temp
    <3> QED
      BY <1>1, <2>2, <3>1 DEF WholeInv, Apart, Temp
  <2> QED
    BY <2>1, <2>2
<1>6. \A s \in snaps' : Whole(s.target)' /\ Whole(s.backup)'
  <2>1. ASSUME NEW e \in Entry \ {i}, Whole(e) PROVE Whole(e)'
    BY <2>1, <1>2, <1>3 DEF Whole, TypeOK, Entry
  <2>2. ASSUME NEW s \in snaps PROVE Whole(s.target)' /\ Whole(s.backup)'
    <3>1. s.target \in Entry \ {i} /\ s.backup \in Entry \ {i}
      BY <1>5 DEF TypeOK, Directory
    <3>2. Whole(s.target) /\ Whole(s.backup)
      BY DEF WholeInv
    <3> QED
      BY <2>1, <3>1, <3>2
  <2> QED
    BY <1>1, <1>3, <1>4, <2>2
<1>7. Apart(d, snaps')
  <2> SUFFICES ASSUME NEW p \in Pids, d.temp[p] # None
               PROVE  /\ \A s \in snaps' : d.temp[p] \notin {s.target, s.backup}
                      /\ \A q \in Pids \ {p} : d.temp[q] # d.temp[p]
    BY DEF Apart
  <2>1. CASE p = PidOf[w]
    BY <2>1, <1>1, <1>3, <1>4, <1>5
  <2>2. CASE p # PidOf[w]
    <3>1. d.temp[p] = dir.temp[p]
      BY <2>2, <1>4
    <3>2. /\ \A s \in snaps : dir.temp[p] \notin {s.target, s.backup}
          /\ \A q \in Pids \ {p} : dir.temp[q] # dir.temp[p]
      BY <3>1 DEF WholeInv, Apart
    <3>3. i # dir.temp[p]
      BY <1>5, <2>2
    <3> QED
      BY <1>1, <1>3, <1>4, <3>1, <3>2, <3>3
  <2> QED
    BY <2>1, <2>2
<1>8. \A s \in snaps' : Apart(s, {s})
  BY <1>3, <1>7 DEF WholeInv, Apart
<1>9. WriterReady(w)'
  BY <1>1, <1>2, <1>3, <1>4 DEF WholeInv, WriterReady, Temp, TypeOK
<1>10. ASSUME NEW v \in Writers \ {w} PROVE WriterReady(v)'
  <2>1. PidOf[v] \in Pids \ {PidOf[w]}
    BY <1>10 DEF OwnPids
  <2>2. dir.temp[PidOf[v]] # i /\ dir.temp[PidOf[v]] \in Entry
    BY <1>1, <1>5, <2>1 DEF Directory
  <2> QED
    BY <1>2, <1>3, <1>4, <2>1, <2>2, OthersReady DEF TypeOK, Entry
<1>11. dir' \in snaps' /\ Apart(dir, snaps)'
  BY <1>3, <1>7 DEF Apart
<1> QED
  BY <1>6, <1>8, <1>9, <1>10, <1>11 DEF WholeInv

\* Writing or syncing the writer's own temp file.
LEMMA OwnFileWhole ==
  ASSUME TypeOK, WholeInv, OwnPids, NEW w \in Writers, FillTemp(w) \/ SyncTemp(w),
         UNCHANGED args
  PROVE  WholeInv'
<1> DEFINE i == handle[w]
<1> USE ConstantsAssumption
<1>1. /\ i = dir.temp[PidOf[w]] /\ i \in Inodes /\ PidOf[w] \in Pids
      /\ dir \in Directory /\ dir \in snaps
  BY DEF FillTemp, SyncTemp, WholeInv, WriterReady, Temp, TypeOK, Entry
<1>2. /\ dir' = dir /\ snaps' = snaps /\ op' = op /\ data' = data
      /\ \A j \in Inodes \ {i} : content'[j] = content[j] /\ synced'[j] = synced[j]
      /\ \A v \in Writers \ {w} : pc'[v] = pc[v] /\ handle'[v] = handle[v]
  BY <1>1 DEF FillTemp, SyncTemp, Fill, Fsync, Close, Open, Goto, args, TypeOK
<1>3. \A s \in snaps : i \notin {s.target, s.backup}
  BY <1>1 DEF WholeInv, Apart
<1>4. \A s \in snaps' : Whole(s.target)' /\ Whole(s.backup)'
  <2>1. ASSUME NEW e \in Entry \ {i}, Whole(e) PROVE Whole(e)'
    BY <2>1, <1>2 DEF Whole, Entry
  <2>2. ASSUME NEW s \in snaps PROVE Whole(s.target)' /\ Whole(s.backup)'
    <3>1. s.target \in Entry \ {i} /\ s.backup \in Entry \ {i}
      BY <1>3 DEF TypeOK, Directory
    <3>2. Whole(s.target) /\ Whole(s.backup)
      BY DEF WholeInv
    <3> QED
      BY <2>1, <3>1, <3>2
  <2> QED
    BY <1>2, <2>2
<1>5. WriterReady(w)'
  <2>1. CASE FillTemp(w)
    <3>1. content'[i] = data[w] /\ handle' = handle /\ pc'[w] = "fsync"
      BY <1>1, <2>1 DEF FillTemp, Fill, Goto, TypeOK
    <3> QED
      BY <1>1, <1>2, <3>1 DEF WholeInv, WriterReady, Temp
  <2>2. CASE SyncTemp(w)
    <3>1. /\ pc'[w] \in {"backup_check", "commit"}
          /\ content' = content /\ synced'[i] = TRUE /\ content[i] # Torn
      BY <1>1, <2>2 DEF SyncTemp, Fsync, Goto, TypeOK, WholeInv, WriterReady
    <3> QED
      BY <1>1, <1>2, <3>1 DEF WholeInv, WriterReady, Temp, Whole
  <2> QED
    BY <2>1, <2>2
<1>6. ASSUME NEW v \in Writers \ {w} PROVE WriterReady(v)'
  <2>1. PidOf[v] \in Pids \ {PidOf[w]}
    BY DEF OwnPids
  <2>2. dir.temp[PidOf[v]] # i /\ dir.temp[PidOf[v]] \in Entry
    BY <1>1, <2>1 DEF WholeInv, Apart, Directory
  <2> QED
    BY <1>1, <1>2, <2>1, <2>2, OthersReady DEF Entry
<1> QED
  BY <1>2, <1>4, <1>5, <1>6 DEF WholeInv, Apart

\* A new directory whose target and backup are whole, and whose temp names are
\* apart from every target and backup, the new ones included, changes nothing.
LEMMA RelinkWhole ==
  ASSUME TypeOK, WholeInv, NEW d \in Directory, Relink(d),
         UNCHANGED <<content, synced>>,
         Whole(d.target), Whole(d.backup), Apart(d, snaps \cup {d}),
         \A v \in Writers : WriterReady(v)'
  PROVE  WholeInv'
<1>1. \A e \in Entry : Whole(e)' <=> Whole(e)
  BY DEF Whole
<1>2. \A s \in snaps' : s.target \in Entry /\ s.backup \in Entry
  BY DEF Relink, TypeOK, Directory
<1>3. \A s \in snaps' : Whole(s.target)' /\ Whole(s.backup)'
  BY <1>1, <1>2 DEF Relink, WholeInv
<1>4. \A s \in snaps' : Apart(s, {s})
  BY DEF Relink, WholeInv, Apart
<1>5. Apart(dir, snaps)'
  BY DEF Relink, Apart
<1> QED
  BY <1>3, <1>4, <1>5 DEF WholeInv, Relink

LEMMA MoveToBackupWhole ==
  ASSUME TypeOK, WholeInv, OwnPids, NEW w \in Writers, MoveToBackup(w), UNCHANGED args
  PROVE  WholeInv'
<1> DEFINE d == [dir EXCEPT !.backup = dir.target, !.target = None]
<1>1. dir \in Directory /\ dir \in snaps /\ d \in Directory
  BY ConstantsAssumption DEF TypeOK, WholeInv, Directory, Entry
<1>2. d.target = None /\ d.backup = dir.target /\ d.temp = dir.temp
  BY <1>1 DEF Directory
<1>3. Apart(d, snaps \cup {d}) /\ Whole(d.target) /\ Whole(d.backup)
  BY <1>1, <1>2 DEF WholeInv, Apart, Whole
<1>4. Relink(d) /\ UNCHANGED <<content, synced, handle, op, data>>
  BY DEF MoveToBackup, args
<1>5. WriterReady(w)'
  BY <1>2, <1>4 DEF MoveToBackup, Goto, Relink, WholeInv, WriterReady, Whole, Temp, TypeOK
<1>6. ASSUME NEW v \in Writers \ {w} PROVE WriterReady(v)'
  BY <1>2, <1>4, OthersReady DEF MoveToBackup, Goto, Relink, TypeOK
<1> QED
  BY <1>1, <1>3, <1>4, <1>5, <1>6, RelinkWhole

LEMMA UndoBackupWhole ==
  ASSUME TypeOK, WholeInv, OwnPids, NEW w \in Writers, UndoBackup(w), UNCHANGED args
  PROVE  WholeInv'
<1> DEFINE d == [dir EXCEPT !.target = dir.backup, !.backup = None]
<1>1. dir \in Directory /\ dir \in snaps /\ d \in Directory
  BY ConstantsAssumption DEF TypeOK, WholeInv, Directory, Entry
<1>2. d.target = dir.backup /\ d.backup = None /\ d.temp = dir.temp
  BY <1>1 DEF Directory
<1>3. Apart(d, snaps \cup {d}) /\ Whole(d.target) /\ Whole(d.backup)
  BY <1>1, <1>2 DEF WholeInv, Apart, Whole
<1>4. Relink(d) /\ UNCHANGED <<content, synced, handle, op, data>>
  BY DEF UndoBackup, args
<1>5. WriterReady(w)'
  BY <1>2, <1>4 DEF UndoBackup, Goto, Relink, WholeInv, WriterReady, Temp, TypeOK
<1>6. ASSUME NEW v \in Writers \ {w} PROVE WriterReady(v)'
  BY <1>2, <1>4, OthersReady DEF UndoBackup, Goto, Relink, TypeOK
<1> QED
  BY <1>1, <1>3, <1>4, <1>5, <1>6, RelinkWhole

LEMMA CommitWhole ==
  ASSUME TypeOK, WholeInv, OwnPids, NEW w \in Writers, Commit(w), UNCHANGED args
  PROVE  WholeInv'
<1> DEFINE i == dir.temp[PidOf[w]]
           d == [dir EXCEPT !.target = i, !.temp[PidOf[w]] = None]
<1>1. /\ dir \in Directory /\ dir \in snaps /\ PidOf[w] \in Pids
      /\ i # None /\ Whole(i)
  BY ConstantsAssumption DEF TypeOK, WholeInv, WriterReady, Commit, Temp
<1>2. d \in Directory
  <2>1. [dir EXCEPT !.target = dir.temp[PidOf[w]], !.temp[PidOf[w]] = None] \in Directory
    BY <1>1, RelinkType DEF Entry
  <2> QED
    BY <2>1
<1>3. /\ d.target = i /\ d.backup = dir.backup /\ d.temp[PidOf[w]] = None
      /\ \A p \in Pids \ {PidOf[w]} : d.temp[p] = dir.temp[p]
  BY <1>1 DEF Directory
<1>4. Apart(d, snaps \cup {d})
  <2> SUFFICES ASSUME NEW p \in Pids, d.temp[p] # None
               PROVE  /\ \A s \in snaps \cup {d} : d.temp[p] \notin {s.target, s.backup}
                      /\ \A q \in Pids \ {p} : d.temp[q] # d.temp[p]
    BY DEF Apart
  <2>1. p # PidOf[w] /\ d.temp[p] = dir.temp[p]
    BY <1>3
  <2>2. /\ \A s \in snaps : dir.temp[p] \notin {s.target, s.backup}
        /\ \A q \in Pids \ {p} : dir.temp[q] # dir.temp[p]
    BY <2>1 DEF WholeInv, Apart
  <2> QED
    BY <1>1, <1>3, <2>1, <2>2
<1>5. Whole(d.target) /\ Whole(d.backup)
  BY <1>1, <1>3 DEF WholeInv
<1>6. Relink(d) /\ UNCHANGED <<content, synced, handle, op, data>>
  BY DEF Commit, Temp, args
<1>7. WriterReady(w)'
  BY <1>6 DEF Commit, Goto, WholeInv, WriterReady, TypeOK
<1>8. ASSUME NEW v \in Writers \ {w} PROVE WriterReady(v)'
  <2>1. PidOf[v] \in Pids \ {PidOf[w]}
    BY ConstantsAssumption DEF OwnPids
  <2> QED
    BY <1>3, <1>6, <2>1, OthersReady DEF Commit, Goto, Relink, TypeOK
<1> QED
  BY <1>2, <1>4, <1>5, <1>6, <1>7, <1>8, RelinkWhole

LEMMA UnlinkTempWhole ==
  ASSUME TypeOK, WholeInv, OwnPids, NEW w \in Writers, UnlinkTemp(w), UNCHANGED args
  PROVE  WholeInv'
<1> DEFINE d == [dir EXCEPT !.temp[PidOf[w]] = None]
<1>1. dir \in Directory /\ dir \in snaps /\ PidOf[w] \in Pids
  BY ConstantsAssumption DEF TypeOK, WholeInv
<1>2. d \in Directory
  BY <1>1, ConstantsAssumption, RelinkType DEF Entry
<1>3. /\ d.target = dir.target /\ d.backup = dir.backup /\ d.temp[PidOf[w]] = None
      /\ \A p \in Pids \ {PidOf[w]} : d.temp[p] = dir.temp[p]
  BY <1>1 DEF Directory
<1>4. Apart(d, snaps \cup {d})
  <2> SUFFICES ASSUME NEW p \in Pids, d.temp[p] # None
               PROVE  /\ \A s \in snaps \cup {d} : d.temp[p] \notin {s.target, s.backup}
                      /\ \A q \in Pids \ {p} : d.temp[q] # d.temp[p]
    BY DEF Apart
  <2>1. p # PidOf[w] /\ d.temp[p] = dir.temp[p]
    BY <1>3
  <2>2. /\ \A s \in snaps : dir.temp[p] \notin {s.target, s.backup}
        /\ \A q \in Pids \ {p} : dir.temp[q] # dir.temp[p]
    BY <2>1 DEF WholeInv, Apart
  <2> QED
    BY <1>1, <1>3, <2>1, <2>2
<1>5. Whole(d.target) /\ Whole(d.backup)
  BY <1>1, <1>3 DEF WholeInv
<1>6. Relink(d) /\ UNCHANGED <<content, synced, handle, op, data>>
  BY DEF UnlinkTemp, args
<1>7. pc' = [pc EXCEPT ![w] = "idle"]
  BY DEF UnlinkTemp, WholeInv, WriterReady, Finish
<1>8. WriterReady(w)'
  BY <1>6, <1>7 DEF WholeInv, WriterReady, TypeOK
<1>9. ASSUME NEW v \in Writers \ {w} PROVE WriterReady(v)'
  <2>1. PidOf[v] \in Pids \ {PidOf[w]}
    BY ConstantsAssumption DEF OwnPids
  <2> QED
    BY <1>3, <1>6, <1>7, <2>1, OthersReady DEF Relink, TypeOK
<1> QED
  BY <1>2, <1>4, <1>5, <1>6, <1>8, <1>9, RelinkWhole

LEMMA SyncDirWhole ==
  ASSUME TypeOK, WholeInv, OwnPids, NEW w \in Writers, SyncDir(w), UNCHANGED args
  PROVE  WholeInv'
<1>1. WriterReady(w)'
  BY DEF SyncDir, Goto, args, WholeInv, WriterReady, TypeOK
<1>2. ASSUME NEW v \in Writers \ {w} PROVE WriterReady(v)'
  BY OthersReady DEF SyncDir, Goto, args, TypeOK
<1>3. snaps' = {dir} /\ dir' = dir /\ content' = content /\ synced' = synced
  BY DEF SyncDir
<1> QED
  BY <1>1, <1>2, <1>3 DEF WholeInv, Apart, Whole

LEMMA PowerLossWhole ==
  ASSUME TypeOK, WholeInv, PowerLoss
  PROVE  WholeInv'
<1>1. PICK s \in snaps : dir' = s /\ snaps' = {s}
  BY DEF PowerLoss
<1>2. \A e \in Entry : Whole(e) => Whole(e)'
  <2>1. PICK lost \in SUBSET {i \in Inodes : ~synced[i]} :
          content' = [i \in Inodes |-> IF i \in lost THEN Torn ELSE content[i]]
    BY DEF PowerLoss
  <2>2. synced' = [i \in Inodes |-> TRUE]
    BY DEF PowerLoss
  <2>3. ASSUME NEW e \in Inodes, synced[e] PROVE content'[e] = content[e]
    BY <2>1, <2>3
  <2> QED
    BY <2>2, <2>3 DEF Whole, Entry
<1>3. Whole(s.target)' /\ Whole(s.backup)'
  BY <1>2 DEF WholeInv, TypeOK, Directory
<1>4. \A v \in Writers : WriterReady(v)'
  BY DEF PowerLoss, WholeInv, WriterReady, args
<1> QED
  BY <1>1, <1>3, <1>4 DEF WholeInv, Apart

LEMMA SystemCallWhole ==
  ASSUME TypeOK, WholeInv, OwnPids, NEW w \in Writers, SystemCall(w)
  PROVE  WholeInv'
<1>a. UNCHANGED args
  BY DEF SystemCall
<1>b. ASSUME NEW step \in {"create", "backup", "sync_dir"}, Goto(w, step),
             UNCHANGED <<disk, handle>>,
             step = "backup" => pc[w] = "backup_check"
      PROVE  WholeInv'
  <2>1. WriterReady(w)'
    BY <1>a, <1>b DEF Goto, args, disk, TypeOK, WholeInv, WriterReady, Whole, Temp
  <2>2. ASSUME NEW v \in Writers \ {w} PROVE WriterReady(v)'
    BY <1>a, <1>b, OthersReady DEF Goto, args, disk, TypeOK
  <2> QED
    BY <1>b, <2>1, <2>2, DiskSame
<1>1. CASE Check(w)
  BY <1>1, <1>b DEF Check
<1>2. CASE NotFound(w)
  BY <1>2, RaiseWhole, HandlerWhole DEF NotFound
<1>3. CASE CheckBackup(w)
  BY <1>3, <1>b, RaiseWhole DEF CheckBackup
<1>4. CASE Utime(w)
  BY <1>4, <1>b DEF Utime
<1>5. CASE \/ SaveRollback(w) \/ OpenTarget(w) \/ FillTarget(w) \/ SyncTarget(w)
           \/ RestoreOpen(w) \/ RestoreFill(w) \/ UnlinkRollback(w)
  BY <1>5 DEF WholeInv, WriterReady, SaveRollback, OpenTarget, FillTarget, SyncTarget,
              RestoreOpen, RestoreFill, UnlinkRollback
<1> QED
  BY <1>a, <1>1, <1>2, <1>3, <1>4, <1>5, OpenTempWhole, OwnFileWhole, MoveToBackupWhole,
     CommitWhole, UndoBackupWhole, SyncDirWhole, UnlinkTempWhole DEF SystemCall

LEMMA NextWhole ==
  ASSUME TypeOK, WholeInv, OwnPids, RenameOnly, [Next]_vars
  PROVE  WholeInv'
<1>1. CASE PowerLoss
  BY <1>1, PowerLossWhole
<1>2. ASSUME NEW p \in Pids, Killed(p) PROVE WholeInv'
  <2>1. ASSUME NEW v \in Writers PROVE WriterReady(v)'
    BY <1>2 DEF Killed, WholeInv, WriterReady, Whole, Temp, disk, args
  <2> QED
    BY <1>2, <2>1, DiskSame DEF Killed
<1>3. ASSUME NEW w \in Writers, Begin(w) PROVE WholeInv'
  <2>1. WriterReady(w)'
    BY <1>3, ConstantsAssumption DEF Begin, RenameOnly, TypeOK, WholeInv, WriterReady
  <2>2. ASSUME NEW v \in Writers \ {w} PROVE WriterReady(v)'
    BY <1>3, OthersReady DEF Begin, disk, TypeOK
  <2> QED
    BY <1>3, <2>1, <2>2, DiskSame DEF Begin
<1>4. ASSUME NEW w \in Writers, SystemCall(w) PROVE WholeInv'
  BY <1>4, SystemCallWhole
<1>5. ASSUME NEW w \in Writers, Fails(w) \/ Interrupted(w) PROVE WholeInv'
  BY <1>5, RaiseWhole, HandlerWhole DEF Fails, Interrupted
<1>6. CASE UNCHANGED vars
  <2>1. \A v \in Writers : WriterReady(v)'
    BY <1>6 DEF vars, WholeInv, WriterReady, Whole, Temp
  <2> QED
    BY <1>6, <2>1, DiskSame DEF vars, disk
<1> QED
  BY <1>1, <1>2, <1>3, <1>4, <1>5, <1>6 DEF Next

\* write_bytes_transactionally and write_bytes_in_place_transactionally never
\* expose a partly written or unsynced target: not to a concurrent reader, not
\* after an exception, a kill or a power loss at any system call, however many
\* processes write the same target.
THEOREM TargetAlwaysWhole ==
  ASSUME OwnPids, RenameOnly
  PROVE  Spec => []TargetWhole
<1>1. WholeInv => TargetWhole
  BY DEF WholeInv, TargetWhole
<1>2. Init => WholeInv
  BY InitWhole
<1>3. TypeOK /\ WholeInv /\ [Next]_vars => WholeInv'
  BY NextWhole
<1> QED
  BY <1>1, <1>2, <1>3, Typing, PTL DEF Spec
=============================================================================
