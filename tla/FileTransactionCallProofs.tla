---------------------- MODULE FileTransactionCallProofs ----------------------
(***************************************************************************)
(* What the calls of FileTransaction promise, for any number of writers,   *)
(* calls and failures: the rename-based writers that keep no backup        *)
(* implement the atomic register of AtomicReplace, a caller that works     *)
(* alone has durable results, never loses the file it started with and     *)
(* does all or nothing when it raises, and every call that ends by itself  *)
(* cleans up.                                                              *)
(***************************************************************************)
EXTENDS FileTransactionProofs

NoBackups == Ops \subseteq {"write", "overwrite_original"}

\* Where a call without a backup is, how it stands, and what its temp file holds.
CallInv ==
  \A w \in Writers :
    /\ op[w] \in {"write", "overwrite_original"}
    /\ pc[w] \in {"idle", "check", "create", "fill", "fsync", "commit", "utime",
                  "sync_dir", "unlink_temp"}
    /\ pc[w] \notin {"idle", "unlink_temp"} => outcome[w] = "running"
    /\ pc[w] = "unlink_temp" => outcome[w] \in {"running", "raised"}
    /\ pc[w] = "fsync" => content[handle[w]] = data[w]
    /\ pc[w] = "commit" => content[Temp(w)] = data[w]

RegisterInv == TypeOK /\ WholeInv /\ CallInv

Value == ContentOf(dir.target)
Durable == {ContentOf(s.target) : s \in snaps}
Phases == [w \in Writers |-> Phase(w)]
Stutters == UNCHANGED <<Value, Durable, Phases, data, outcome>>

LEMMA CallInit == Init => CallInv
BY DEF Init, CallInv

LEMMA RegisterInit == Init => Atomic!Init
<1> SUFFICES ASSUME Init PROVE Atomic!Init
  OBVIOUS
<1> DEFINE first == CHOOSE i \in Inodes : TRUE
<1>1. first \in Inodes /\ first # None
  BY ConstantsAssumption
<1>2. dir.target \in {first, None} /\ content[first] = Original /\ snaps = {dir}
  BY <1>1 DEF Init
<1>3. ContentOf(dir.target) \in {Original, None}
  BY <1>2 DEF ContentOf
<1>4. {ContentOf(s.target) : s \in snaps} = {ContentOf(dir.target)}
  BY <1>2
<1>5. [w \in Writers |-> Phase(w)] = [w \in Writers |-> "idle"]
  BY DEF Init, Phase
<1> QED BY <1>3, <1>4, <1>5 DEF Init, Atomic!Init

-----------------------------------------------------------------------------
\* Lemmas about what a step shows of itself.

\* Writing files that are no target, and names that are none, shows nothing.
LEMMA Hidden ==
  ASSUME dir \in snaps, NEW d, d.target = dir.target, dir' = d, snaps' = snaps \cup {d},
         \A s \in snaps : s.target # None => content'[s.target] = content[s.target]
  PROVE  Value' = Value /\ Durable' = Durable
<1>1. \A s \in snaps : ContentOf(s.target)' = ContentOf(s.target)
  BY DEF ContentOf
<1>2. Value' = Value
  BY <1>1 DEF Value, ContentOf
<1>3. Durable' = {ContentOf(s.target)' : s \in snaps \cup {d}}
  BY DEF Durable, ContentOf
<1> QED BY <1>1, <1>2, <1>3 DEF Durable, ContentOf

LEMMA Kept ==
  ASSUME dir' = dir, snaps' = snaps, content' = content
  PROVE  Value' = Value /\ Durable' = Durable
BY DEF Value, Durable, ContentOf

LEMMA PhaseMoves ==
  ASSUME TypeOK, NEW w \in Writers,
         \A v \in Writers \ {w} : pc'[v] = pc[v] /\ outcome'[v] = outcome[v]
  PROVE  Phases' = [Phases EXCEPT ![w] = Phase(w)']
<1>1. \A v \in Writers \ {w} : Phase(v)' = Phase(v)
  BY DEF Phase
<1> QED BY <1>1 DEF Phases

LEMMA PhaseOf ==
  ASSUME NEW w \in Writers
  PROVE  /\ Phases[w] = Phase(w)
         /\ pc[w] = "idle" => Phase(w) = "idle"
         /\ pc[w] \in {"utime", "sync_dir"} => Phase(w) = "replaced"
         /\ pc[w] = "unlink_temp" =>
              Phase(w) = IF outcome[w] = "raised" THEN "failed" ELSE "durable"
         /\ pc[w] \notin {"idle", "utime", "sync_dir", "unlink_temp"} => Phase(w) = "pending"
BY DEF Phase, Phases

LEMMA PhaseStays ==
  ASSUME TypeOK, NEW w \in Writers, NEW step \in Steps,
         pc' = [pc EXCEPT ![w] = step], outcome' = outcome,
         \/ {pc[w], step} \subseteq {"utime", "sync_dir"}
         \/ {pc[w], step} \cap {"idle", "utime", "sync_dir", "unlink_temp"} = {}
  PROVE  Phases' = Phases
<1>1. pc'[w] = step /\ Phase(w)' = Phase(w)
  BY DEF TypeOK, Phase
<1>2. Phases' = [Phases EXCEPT ![w] = Phase(w)']
  BY PhaseMoves DEF TypeOK
<1> QED BY <1>1, <1>2 DEF Phases

\* A step of w that writes no file of another writer keeps the others' part.
LEMMA OthersCall ==
  ASSUME RegisterInv, NEW w \in Writers, NEW v \in Writers \ {w},
         pc'[v] = pc[v], op'[v] = op[v], data'[v] = data[v], handle'[v] = handle[v],
         outcome'[v] = outcome[v], dir'.temp[PidOf[v]] = dir.temp[PidOf[v]],
         dir.temp[PidOf[v]] # None => content'[dir.temp[PidOf[v]]] = content[dir.temp[PidOf[v]]]
  PROVE  /\ op'[v] \in {"write", "overwrite_original"}
         /\ pc'[v] \in {"idle", "check", "create", "fill", "fsync", "commit", "utime",
                        "sync_dir", "unlink_temp"}
         /\ pc'[v] \notin {"idle", "unlink_temp"} => outcome'[v] = "running"
         /\ pc'[v] = "unlink_temp" => outcome'[v] \in {"running", "raised"}
         /\ pc'[v] = "fsync" => content'[handle'[v]] = data'[v]
         /\ pc'[v] = "commit" => content'[dir'.temp[PidOf[v]]] = data'[v]
BY DEF RegisterInv, CallInv, WholeInv, WriterReady, Temp

LEMMA TempKept ==
  ASSUME RegisterInv, OwnPids, NEW w \in Writers, NEW v \in Writers \ {w},
         dir.temp[PidOf[w]] # None
  PROVE  dir.temp[PidOf[v]] # dir.temp[PidOf[w]] /\ PidOf[v] # PidOf[w]
BY ConstantsAssumption DEF RegisterInv, WholeInv, Apart, OwnPids

-----------------------------------------------------------------------------
\* One lemma per kind of step: it keeps CallInv, and shows as a step or a stutter.
Implements == CallInv' /\ (Atomic!Next \/ Stutters)

LEMMA BeginImplements ==
  ASSUME RegisterInv, NoBackups, NEW w \in Writers, Begin(w)
  PROVE  Implements
<1> USE DEF RegisterInv
<1>1. /\ pc[w] = "idle" /\ pc' = [pc EXCEPT ![w] = "check"]
      /\ outcome' = [outcome EXCEPT ![w] = "running"]
      /\ dir' = dir /\ snaps' = snaps /\ content' = content /\ handle' = handle
  BY DEF Begin, disk
<1>2. PICK o \in Ops, d \in Data : op' = [op EXCEPT ![w] = o] /\ data' = [data EXCEPT ![w] = d]
  BY DEF Begin
<1>3. CallInv'
  <2>1. /\ op'[w] \in {"write", "overwrite_original"} /\ pc'[w] = "check" /\ outcome'[w] = "running"
        /\ \A v \in Writers \ {w} : /\ op'[v] = op[v] /\ data'[v] = data[v]
                                    /\ pc'[v] = pc[v] /\ outcome'[v] = outcome[v]
    BY <1>1, <1>2 DEF NoBackups, TypeOK
  <2> QED BY <1>1, <2>1 DEF CallInv, Temp
<1>4. Phases' = [Phases EXCEPT ![w] = "pending"] /\ Phases[w] = "idle"
  <2>1. Phase(w)' = "pending"
    BY <1>1 DEF Phase, TypeOK
  <2> QED BY <1>1, <2>1, PhaseMoves, PhaseOf DEF TypeOK
<1>5. Value' = Value /\ Durable' = Durable
  BY <1>1, Kept
<1>6. Atomic!Invoke(w)
  BY <1>1, <1>2, <1>4, <1>5 DEF Atomic!Invoke, Atomic!Move, Atomic!Result, Value, Durable, Phases
<1> QED BY <1>3, <1>6 DEF Implements, Atomic!Next

\* An exception: the call fails, or ends as failed.
LEMMA RaiseImplements ==
  ASSUME RegisterInv, NEW w \in Writers, pc[w] # "idle", NEW step \in {"idle", "unlink_temp"},
         Raise(w, step), step = "idle" => pc[w] \in {"check", "unlink_temp"},
         step = "unlink_temp" => pc[w] # "unlink_temp"
  PROVE  Implements
<1> USE DEF RegisterInv
<1>1. /\ pc' = [pc EXCEPT ![w] = step] /\ outcome' = [outcome EXCEPT ![w] = "raised"]
      /\ dir' = dir /\ snaps' = snaps /\ content' = content /\ op' = op /\ data' = data
      /\ \A v \in Writers \ {w} : handle'[v] = handle[v]
  BY DEF Raise, Close, Open, disk, args, TypeOK
<1>2. pc'[w] = step /\ outcome'[w] = "raised"
      /\ \A v \in Writers \ {w} : pc'[v] = pc[v] /\ outcome'[v] = outcome[v]
  BY <1>1 DEF TypeOK
<1>3. CallInv'
  BY <1>1, <1>2 DEF CallInv, Temp
<1>4. Phases' = [Phases EXCEPT ![w] = Phase(w)']
  BY <1>2, PhaseMoves
<1>5. Value' = Value /\ Durable' = Durable
  BY <1>1, Kept
<1>6. Atomic!Move(w, {"pending", "replaced", "durable"}, "failed")
      \/ Atomic!Move(w, {"pending", "durable", "failed"}, "idle")
  <2>1. CASE step = "idle"
    <3>1. Phase(w)' = "idle"
      BY <1>2, <2>1 DEF Phase
    <3>2. Phases[w] \in {"pending", "durable", "failed"}
      BY <2>1, PhaseOf
    <3> QED BY <1>4, <3>1, <3>2 DEF Atomic!Move, Phases
  <2>2. CASE step = "unlink_temp"
    <3>1. Phase(w)' = "failed"
      BY <1>2, <2>2 DEF Phase
    <3>2. Phases[w] \in {"pending", "replaced", "durable"}
      BY <2>2, PhaseOf
    <3> QED BY <1>4, <3>1, <3>2 DEF Atomic!Move, Phases
  <2> QED BY <2>1, <2>2
<1>7. Atomic!Fail(w)
  BY <1>1, <1>5, <1>6 DEF Atomic!Fail, Atomic!Result, Value, Durable
<1> QED BY <1>3, <1>7 DEF Implements, Atomic!Next

LEMMA HandlerOf ==
  ASSUME RegisterInv, NEW w \in Writers, pc[w] # "idle"
  PROVE  /\ Handler(w, pc[w]) = Finally(pc[w])
         /\ Finally(pc[w]) \in {"idle", "unlink_temp"}
         /\ Finally(pc[w]) = "idle" => pc[w] \in {"check", "unlink_temp"}
         /\ Finally(pc[w]) = "unlink_temp" => pc[w] # "unlink_temp"
BY DEF RegisterInv, CallInv, Handler, Finally

\* Filling a temp file: no target changes.
LEMMA OpenTempImplements ==
  ASSUME RegisterInv, OwnPids, NEW w \in Writers, OpenTemp(w), UNCHANGED args
  PROVE  Implements
<1> USE DEF RegisterInv
<1> DEFINE i == Create(Temp(w))
           d == [dir EXCEPT !.temp[PidOf[w]] = i]
<1>1. PidOf[w] \in Pids /\ dir \in Directory /\ dir \in snaps
  BY ConstantsAssumption DEF TypeOK, WholeInv
<1>2. i \in Inodes /\ i # None
  BY <1>1, ConstantsAssumption, CreateType DEF OpenTemp, Temp, Directory
<1>3. /\ dir' = d /\ snaps' = snaps \cup {d} /\ content' = [content EXCEPT ![i] = Torn]
      /\ pc[w] = "create" /\ pc' = [pc EXCEPT ![w] = "fill"] /\ outcome' = outcome
      /\ op' = op /\ data' = data /\ \A v \in Writers \ {w} : handle'[v] = handle[v]
  BY DEF OpenTemp, Relink, Fill, Open, Goto, args, TypeOK
<1>4. d.target = dir.target /\ \A p \in Pids \ {PidOf[w]} : d.temp[p] = dir.temp[p]
  BY <1>1 DEF Directory
<1>5. /\ \A s \in snaps : i # s.target
      /\ \A p \in Pids \ {PidOf[w]} : dir.temp[p] # i
  <2>1. CASE Temp(w) = None
    <3>1. \A s \in snaps : i \notin InodesOf(s)
      BY <2>1, FreeIsFresh DEF OpenTemp, Creatable, Create, Free
    <3> QED BY <1>1, <3>1 DEF InodesOf
  <2>2. CASE Temp(w) # None
    BY <1>1, <2>2 DEF Create, WholeInv, Apart, Temp
  <2> QED BY <2>1, <2>2
<1> HIDE DEF i
<1>6. \A j \in Inodes \ {i} : content'[j] = content[j]
  BY <1>3 DEF TypeOK
<1>7. \A s \in snaps : s.target # None => content'[s.target] = content[s.target]
  BY <1>5, <1>6 DEF TypeOK, Directory, Entry
<1>8. Value' = Value /\ Durable' = Durable
  BY <1>1, <1>3, <1>4, <1>7, Hidden
<1>9. Phases' = Phases
  BY <1>3, PhaseStays DEF Steps
<1>10. CallInv'
  <2>1. ASSUME NEW v \in Writers \ {w}
        PROVE  /\ dir'.temp[PidOf[v]] = dir.temp[PidOf[v]]
               /\ dir.temp[PidOf[v]] # None =>
                    content'[dir.temp[PidOf[v]]] = content[dir.temp[PidOf[v]]]
    <3>1. PidOf[v] \in Pids \ {PidOf[w]}
      BY ConstantsAssumption DEF OwnPids
    <3>2. dir.temp[PidOf[v]] \in Entry
      BY <1>1, <3>1 DEF Directory
    <3> QED BY <1>3, <1>4, <1>5, <1>6, <3>1, <3>2 DEF Entry
  <2>2. pc'[w] = "fill" /\ op'[w] = op[w] /\ outcome'[w] = outcome[w]
        /\ \A v \in Writers \ {w} : pc'[v] = pc[v]
    BY <1>3 DEF TypeOK
  <2> QED BY <1>3, <2>1, <2>2, OthersCall DEF CallInv, Temp
<1> QED BY <1>3, <1>8, <1>9, <1>10 DEF Implements, Stutters

LEMMA OwnFileImplements ==
  ASSUME RegisterInv, OwnPids, NEW w \in Writers, FillTemp(w) \/ SyncTemp(w), UNCHANGED args
  PROVE  Implements
<1> USE DEF RegisterInv
<1> DEFINE i == handle[w]
<1>1. /\ i = dir.temp[PidOf[w]] /\ i \in Inodes /\ i # None /\ PidOf[w] \in Pids
      /\ dir \in Directory /\ dir \in snaps
  BY ConstantsAssumption DEF FillTemp, SyncTemp, WholeInv, WriterReady, Temp, TypeOK, Entry
<1>2. /\ dir' = dir /\ snaps' = snaps /\ op' = op /\ data' = data /\ outcome' = outcome
      /\ \A j \in Inodes \ {i} : content'[j] = content[j]
      /\ \A v \in Writers \ {w} : pc'[v] = pc[v] /\ handle'[v] = handle[v]
  BY <1>1 DEF FillTemp, SyncTemp, Fill, Fsync, Close, Open, Goto, args, TypeOK
<1>3. \/ /\ pc[w] = "fill" /\ pc' = [pc EXCEPT ![w] = "fsync"] /\ handle'[w] = i
         /\ content'[i] = data[w]
      \/ /\ pc[w] = "fsync" /\ pc' = [pc EXCEPT ![w] = "commit"] /\ content' = content
  BY <1>1 DEF FillTemp, SyncTemp, Fill, Fsync, Goto, TypeOK, CallInv
<1>4. \A s \in snaps : s.target # i
  BY <1>1 DEF WholeInv, Apart
<1>5. \A s \in snaps : s.target # None => content'[s.target] = content[s.target]
  BY <1>2, <1>4 DEF TypeOK, Directory, Entry
<1>6. Value' = Value /\ Durable' = Durable
  <2>1. snaps' = snaps \cup {dir}
    BY <1>1, <1>2
  <2> QED BY <1>1, <1>2, <1>5, <2>1, Hidden
<1>7. Phases' = Phases
  BY <1>2, <1>3, PhaseStays DEF Steps
<1>8. CallInv'
  <2>1. ASSUME NEW v \in Writers \ {w}
        PROVE  dir.temp[PidOf[v]] # None =>
                 content'[dir.temp[PidOf[v]]] = content[dir.temp[PidOf[v]]]
    <3>1. PidOf[v] \in Pids /\ dir.temp[PidOf[v]] \in Entry
      BY <1>1, ConstantsAssumption DEF Directory
    <3> QED BY <1>1, <1>2, <3>1, TempKept DEF Entry
  <2>2. /\ pc'[w] \in {"fsync", "commit"}
        /\ pc'[w] = "fsync" => content'[handle'[w]] = data[w]
        /\ pc'[w] = "commit" => content'[dir.temp[PidOf[w]]] = data[w]
    BY <1>1, <1>3 DEF TypeOK, CallInv
  <2>3. /\ op[w] \in {"write", "overwrite_original"} /\ outcome[w] = "running"
    BY <1>3 DEF CallInv
  <2> QED BY <1>2, <2>1, <2>2, <2>3, OthersCall DEF CallInv, Temp
<1> QED BY <1>2, <1>6, <1>7, <1>8 DEF Implements, Stutters

LEMMA QuietImplements ==
  ASSUME RegisterInv, NEW w \in Writers, Check(w) \/ Utime(w), UNCHANGED args
  PROVE  Implements
<1> USE DEF RegisterInv
<1>1. /\ dir' = dir /\ snaps' = snaps /\ content' = content /\ handle' = handle
      /\ op' = op /\ data' = data /\ outcome' = outcome
  BY DEF Check, Utime, Goto, disk, args
<1>2. \/ pc[w] = "check" /\ pc' = [pc EXCEPT ![w] = "create"]
      \/ pc[w] = "utime" /\ pc' = [pc EXCEPT ![w] = "sync_dir"]
  BY DEF Check, Utime, Goto
<1>3. Phases' = Phases
  BY <1>1, <1>2, PhaseStays DEF Steps
<1>4. Value' = Value /\ Durable' = Durable
  BY <1>1, Kept
<1>5. CallInv'
  <2>1. pc'[w] \in {"create", "sync_dir"} /\ \A v \in Writers \ {w} : pc'[v] = pc[v]
    BY <1>2 DEF TypeOK
  <2> QED BY <1>1, <1>2, <2>1 DEF CallInv, Temp
<1> QED BY <1>1, <1>3, <1>4, <1>5 DEF Implements, Stutters

\* The rename is the step that replaces the register.
LEMMA CommitImplements ==
  ASSUME RegisterInv, OwnPids, NEW w \in Writers, Commit(w), UNCHANGED args
  PROVE  Implements
<1> USE DEF RegisterInv
<1> DEFINE i == dir.temp[PidOf[w]]
           d == [dir EXCEPT !.target = i, !.temp[PidOf[w]] = None]
<1>1. PidOf[w] \in Pids /\ dir \in Directory /\ dir \in snaps /\ i # None /\ content[i] = data[w]
  BY ConstantsAssumption DEF TypeOK, WholeInv, Commit, CallInv, Temp
<1>2. /\ dir' = d /\ snaps' = snaps \cup {d} /\ content' = content /\ handle' = handle
      /\ op' = op /\ data' = data /\ outcome' = outcome /\ pc[w] = "commit"
      /\ pc' = [pc EXCEPT ![w] = IF op[w] = "write" THEN "sync_dir" ELSE "utime"]
  BY DEF Commit, Relink, Temp, Goto, args
<1>3. d.target = i /\ \A p \in Pids \ {PidOf[w]} : d.temp[p] = dir.temp[p]
  BY <1>1 DEF Directory
<1>4. pc'[w] \in {"sync_dir", "utime"} /\ \A v \in Writers \ {w} : pc'[v] = pc[v]
  BY <1>2 DEF TypeOK
<1>5. Phases' = [Phases EXCEPT ![w] = "replaced"] /\ Phases[w] = "pending"
  <2>1. Phase(w)' = "replaced"
    BY <1>4 DEF Phase
  <2> QED BY <1>2, <1>4, <2>1, PhaseMoves, PhaseOf
<1>6. Value' = data[w] /\ Durable' = Durable \cup {data[w]}
  <2>1. \A e : ContentOf(e)' = ContentOf(e)
    BY <1>2 DEF ContentOf
  <2>2. ContentOf(d.target) = data[w]
    BY <1>1, <1>3 DEF ContentOf
  <2> HIDE DEF d
  <2>3. Value' = data[w]
    BY <1>2, <2>1, <2>2 DEF Value, ContentOf
  <2>4. Durable' = {ContentOf(s.target) : s \in snaps \cup {d}}
    BY <1>2, <2>1 DEF Durable, ContentOf
  <2> QED BY <2>2, <2>3, <2>4 DEF Durable
<1>7. Atomic!Replace(w)
  BY <1>2, <1>5, <1>6 DEF Atomic!Replace, Atomic!Move, Value, Durable, Phases
<1>8. CallInv'
  <2>1. \A v \in Writers \ {w} : dir'.temp[PidOf[v]] = dir.temp[PidOf[v]]
    BY <1>2, <1>3, ConstantsAssumption DEF OwnPids
  <2> QED BY <1>2, <1>4, <2>1, OthersCall DEF CallInv, Temp
<1> QED BY <1>7, <1>8 DEF Implements, Atomic!Next

LEMMA SyncDirImplements ==
  ASSUME RegisterInv, NEW w \in Writers, SyncDir(w), UNCHANGED args
  PROVE  Implements
<1> USE DEF RegisterInv
<1>1. /\ dir' = dir /\ snaps' = {dir} /\ content' = content /\ handle' = handle
      /\ op' = op /\ data' = data /\ outcome' = outcome
      /\ pc[w] = "sync_dir" /\ pc' = [pc EXCEPT ![w] = "unlink_temp"] /\ outcome[w] = "running"
  <2>1. pc[w] = "sync_dir" /\ outcome[w] = "running"
    BY DEF SyncDir, CallInv
  <2> QED BY <2>1 DEF SyncDir, Goto, args
<1>2. pc'[w] = "unlink_temp" /\ \A v \in Writers \ {w} : pc'[v] = pc[v]
  BY <1>1 DEF TypeOK
<1>3. Phases' = [Phases EXCEPT ![w] = "durable"] /\ Phases[w] = "replaced"
  <2>1. Phase(w)' = "durable"
    BY <1>1, <1>2 DEF Phase
  <2> QED BY <1>1, <1>2, <2>1, PhaseMoves, PhaseOf
<1>4. Value' = Value /\ Durable' = {Value}
  BY <1>1 DEF Value, Durable, ContentOf
<1>5. Atomic!MakeDurable(w)
  BY <1>1, <1>3, <1>4 DEF Atomic!MakeDurable, Atomic!Move, Value, Durable, Phases
<1>6. CallInv'
  BY <1>1, <1>2 DEF CallInv, Temp
<1> QED BY <1>5, <1>6 DEF Implements, Atomic!Next

\* The end of a call: it returns, or raises what it has caught before.
LEMMA UnlinkTempImplements ==
  ASSUME RegisterInv, OwnPids, NEW w \in Writers, UnlinkTemp(w), UNCHANGED args
  PROVE  Implements
<1> USE DEF RegisterInv
<1> DEFINE d == [dir EXCEPT !.temp[PidOf[w]] = None]
           end == IF outcome[w] = "running" THEN "ok" ELSE outcome[w]
<1>1. PidOf[w] \in Pids /\ dir \in Directory /\ dir \in snaps
  BY ConstantsAssumption DEF TypeOK, WholeInv
<1>2. /\ dir' = d /\ snaps' = snaps \cup {d} /\ content' = content /\ handle' = handle
      /\ op' = op /\ data' = data /\ pc[w] = "unlink_temp" /\ pc' = [pc EXCEPT ![w] = "idle"]
      /\ outcome' = [outcome EXCEPT ![w] = end] /\ outcome[w] \in {"running", "raised"}
  BY DEF UnlinkTemp, Relink, Finish, args, CallInv
<1>3. d.target = dir.target /\ \A p \in Pids \ {PidOf[w]} : d.temp[p] = dir.temp[p]
  BY <1>1 DEF Directory
<1>4. pc'[w] = "idle" /\ \A v \in Writers \ {w} : pc'[v] = pc[v] /\ outcome'[v] = outcome[v]
  BY <1>2 DEF TypeOK
<1>5. Value' = Value /\ Durable' = Durable
  BY <1>1, <1>2, <1>3, Hidden
<1>6. Phases' = [Phases EXCEPT ![w] = "idle"]
  <2>1. Phase(w)' = "idle"
    BY <1>4 DEF Phase
  <2> QED BY <1>4, <2>1, PhaseMoves
<1>7. Atomic!Return(w) \/ Atomic!Fail(w)
  <2>1. CASE outcome[w] = "running"
    <3>1. Phases[w] = "durable"
      BY <1>2, <2>1, PhaseOf
    <3> QED BY <1>2, <1>5, <1>6, <2>1, <3>1
            DEF Atomic!Return, Atomic!Move, Atomic!Result, Value, Durable, Phases
  <2>2. CASE outcome[w] = "raised"
    <3>1. Phases[w] = "failed"
      BY <1>2, <2>2, PhaseOf
    <3> QED BY <1>2, <1>5, <1>6, <2>2, <3>1
            DEF Atomic!Fail, Atomic!Move, Atomic!Result, Value, Durable, Phases
  <2> QED BY <1>2, <2>1, <2>2
<1>8. CallInv'
  <2>1. \A v \in Writers \ {w} : dir'.temp[PidOf[v]] = dir.temp[PidOf[v]]
    BY <1>2, <1>3, ConstantsAssumption DEF OwnPids
  <2> QED BY <1>2, <1>4, <2>1, OthersCall DEF CallInv, Temp
<1> QED BY <1>7, <1>8 DEF Implements, Atomic!Next

LEMMA SystemCallImplements ==
  ASSUME RegisterInv, OwnPids, NEW w \in Writers, SystemCall(w)
  PROVE  Implements
<1>1. UNCHANGED args
  BY DEF SystemCall
<1>2. CASE NotFound(w)
  <2>1. pc[w] # "idle"
    BY <1>2 DEF NotFound, Needed
  <2> QED BY <1>2, <2>1, HandlerOf, RaiseImplements DEF NotFound
<1>3. CASE \/ CheckBackup(w) \/ MoveToBackup(w) \/ UndoBackup(w)
           \/ SaveRollback(w) \/ OpenTarget(w) \/ FillTarget(w) \/ SyncTarget(w)
           \/ RestoreOpen(w) \/ RestoreFill(w) \/ UnlinkRollback(w)
  BY <1>3 DEF RegisterInv, CallInv, CheckBackup, MoveToBackup, UndoBackup, SaveRollback,
              OpenTarget, FillTarget, SyncTarget, RestoreOpen, RestoreFill, UnlinkRollback
<1> QED BY <1>1, <1>2, <1>3, OpenTempImplements, OwnFileImplements, QuietImplements,
           CommitImplements, SyncDirImplements, UnlinkTempImplements DEF SystemCall

\* A process that dies takes one call with it, for it makes one at a time.
LEMMA KilledImplements ==
  ASSUME RegisterInv, OwnPids, NEW p \in Pids, Killed(p)
  PROVE  Implements
<1> USE DEF RegisterInv
<1>1. PICK w \in Writers : PidOf[w] = p /\ pc[w] # "idle"
  BY DEF Killed
<1>2. \A v \in Writers : PidOf[v] = p <=> v = w
  BY <1>1 DEF OwnPids
<1>3. /\ pc' = [pc EXCEPT ![w] = "idle"] /\ outcome' = [outcome EXCEPT ![w] = "killed"]
      /\ \A v \in Writers \ {w} : handle'[v] = handle[v]
      /\ dir' = dir /\ snaps' = snaps /\ content' = content /\ op' = op /\ data' = data
  BY <1>1, <1>2 DEF Killed, disk, args, TypeOK
<1>4. pc'[w] = "idle" /\ \A v \in Writers \ {w} : pc'[v] = pc[v] /\ outcome'[v] = outcome[v]
  BY <1>3 DEF TypeOK
<1>5. Phases' = [Phases EXCEPT ![w] = "idle"]
  <2>1. Phase(w)' = "idle"
    BY <1>4 DEF Phase
  <2> QED BY <1>4, <2>1, PhaseMoves
<1>6. Phases[w] \in {"pending", "replaced", "durable", "failed"}
  BY <1>1, PhaseOf
<1>7. Value' = Value /\ Durable' = Durable
  BY <1>3, Kept
<1>8. Atomic!Die(w)
  BY <1>3, <1>5, <1>6, <1>7 DEF Atomic!Die, Atomic!Move, Atomic!Result, Value, Durable, Phases
<1>9. CallInv'
  BY <1>3, <1>4 DEF CallInv, Temp
<1> QED BY <1>8, <1>9 DEF Implements, Atomic!Next

\* What a power loss leaves under the target's name was synced, so it is whole.
LEMMA PowerLossImplements ==
  ASSUME RegisterInv, PowerLoss
  PROVE  Implements
<1> USE DEF RegisterInv
<1>1. PICK s \in snaps : dir' = s /\ snaps' = {s}
  BY DEF PowerLoss
<1>2. /\ pc' = [w \in Writers |-> "idle"] /\ op' = op /\ data' = data
      /\ outcome' = [w \in Writers |-> IF pc[w] = "idle" THEN outcome[w] ELSE "killed"]
  BY DEF PowerLoss, args
<1>3. s.target # None => content'[s.target] = content[s.target]
  <2>1. s.target # None => s.target \in Inodes /\ synced[s.target]
    BY DEF WholeInv, Whole, TypeOK, Directory, Entry
  <2> QED BY <2>1 DEF PowerLoss
<1>4. Value' = ContentOf(s.target) /\ Durable' = {Value'}
  BY <1>1, <1>3 DEF Value, Durable, ContentOf
<1>5. Value' \in Durable
  BY <1>4 DEF Durable
<1>6. Phases' = [w \in Writers |-> "idle"]
  BY <1>2 DEF Phases, Phase
<1>7. \A w \in Writers : Phases[w] = "idle" <=> pc[w] = "idle"
  BY PhaseOf DEF CallInv
<1>8. outcome' = [w \in Writers |-> IF Phases[w] = "idle" THEN outcome[w] ELSE "killed"]
  BY <1>2, <1>7
<1>9. Atomic!PowerLoss
  BY <1>2, <1>4, <1>5, <1>6, <1>8 DEF Atomic!PowerLoss, Value, Durable, Phases
<1>10. CallInv'
  BY <1>2 DEF CallInv
<1> QED BY <1>9, <1>10 DEF Implements, Atomic!Next

LEMMA NextImplements ==
  ASSUME RegisterInv, OwnPids, NoBackups, [Next]_vars
  PROVE  Implements
<1>1. CASE UNCHANGED vars
  <2>1. Value' = Value /\ Durable' = Durable /\ Phases' = Phases
    BY <1>1 DEF vars, Value, Durable, Phases, Phase, ContentOf
  <2> QED BY <1>1, <2>1 DEF vars, Implements, Stutters, RegisterInv, CallInv, Temp
<1>2. ASSUME NEW w \in Writers, Fails(w) \/ Interrupted(w) PROVE Implements
  BY <1>2, HandlerOf, RaiseImplements DEF Fails, Interrupted
<1> QED BY <1>1, <1>2, BeginImplements, SystemCallImplements, KilledImplements,
           PowerLossImplements DEF Next

-----------------------------------------------------------------------------
\* write_bytes_transactionally, and write_bytes_in_place_transactionally without
\* a backup, replace the target like one atomic write: a reader sees the old bytes
\* or the new ones, once per call, and a call that returns is durable, for any
\* number of processes, calls, exceptions, kills and power losses.
THEOREM ImplementsRegister ==
  ASSUME OwnPids, NoBackups
  PROVE  Spec => AtomicSpec
<1>1. Init => RegisterInv /\ Atomic!Init
  BY InitType, InitWhole, CallInit, RegisterInit DEF RegisterInv
<1>2. RegisterInv /\ [Next]_vars => RegisterInv'
  <2>1. RenameOnly
    BY DEF NoBackups, RenameOnly
  <2> QED BY <2>1, NextType, NextWhole, NextImplements DEF RegisterInv, Implements
<1>3. RegisterInv /\ [Next]_vars => [Atomic!Next]_(Atomic!vars)
  BY NextImplements DEF Implements, Stutters, Atomic!vars, Value, Durable, Phases
<1> QED BY <1>1, <1>2, <1>3, PTL DEF Spec, AtomicSpec, Atomic!Spec

-----------------------------------------------------------------------------
(***************************************************************************)
(* One caller of the rename-based writers, with backups or without.        *)
(***************************************************************************)
OneCaller == \A v, w \in Writers : v = w

\* Which names are free when a call renames.
CallerReady(w) ==
  /\ pc[w] \in {"backup_check", "backup", "undo"} => op[w] = "create_backup"
  /\ pc[w] = "backup" => dir.backup = None
  /\ pc[w] \in {"commit", "undo"} /\ op[w] = "create_backup" => dir.target = None
CallerInv == \A w \in Writers : CallerReady(w)

LEMMA CallerInit == Init => CallerInv
BY DEF Init, CallerInv, CallerReady

\* No system call of the writer changes a file that is a target or a backup.
LEMMA FilesKept ==
  ASSUME TypeOK, WholeInv, NEW w \in Writers, SystemCall(w)
  PROVE  \A s \in snaps : \A e \in {s.target, s.backup} \ {None} :
           content'[e] = content[e] /\ (synced[e] => synced'[e])
<1>1. CASE OpenTemp(w)
  <2> DEFINE i == Create(Temp(w))
  <2>1. PidOf[w] \in Pids /\ dir \in Directory /\ dir \in snaps
    BY ConstantsAssumption DEF TypeOK, WholeInv
  <2>2. \A s \in snaps : i \notin {s.target, s.backup}
    <3>1. CASE Temp(w) = None
      <4>1. \A s \in snaps : i \notin InodesOf(s)
        BY <1>1, <3>1, FreeIsFresh DEF OpenTemp, Creatable, Create, Free
      <4> QED BY <2>1, <4>1 DEF InodesOf
    <3>2. CASE Temp(w) # None
      BY <2>1, <3>2 DEF Create, WholeInv, Apart, Temp
    <3> QED BY <3>1, <3>2
  <2>3. content' = [content EXCEPT ![i] = Torn] /\ synced' = [synced EXCEPT ![i] = FALSE]
    BY <1>1 DEF OpenTemp, Fill
  <2> HIDE DEF i
  <2> QED BY <2>2, <2>3 DEF TypeOK, Directory, Entry
<1>2. CASE FillTemp(w) \/ SyncTemp(w)
  <2>1. handle[w] = dir.temp[PidOf[w]] /\ handle[w] # None /\ PidOf[w] \in Pids
    BY <1>2, ConstantsAssumption DEF FillTemp, SyncTemp, WholeInv, WriterReady, Temp
  <2>2. \A s \in snaps : handle[w] \notin {s.target, s.backup}
    BY <2>1 DEF WholeInv, Apart
  <2> QED BY <1>2, <2>2 DEF FillTemp, SyncTemp, Fill, Fsync, TypeOK, Directory, Entry
<1>3. CASE content' = content /\ synced' = synced
  BY <1>3
<1>4. CASE \/ SaveRollback(w) \/ OpenTarget(w) \/ FillTarget(w) \/ SyncTarget(w)
           \/ RestoreOpen(w) \/ RestoreFill(w) \/ UnlinkRollback(w)
  BY <1>4 DEF WholeInv, WriterReady, SaveRollback, OpenTarget, FillTarget, SyncTarget,
              RestoreOpen, RestoreFill, UnlinkRollback
<1>5. CASE \/ Check(w) \/ NotFound(w) \/ CheckBackup(w) \/ MoveToBackup(w) \/ Commit(w)
           \/ UndoBackup(w) \/ Utime(w) \/ SyncDir(w) \/ UnlinkTemp(w)
  <2>1. content' = content /\ synced' = synced
    BY <1>5 DEF Check, NotFound, CheckBackup, MoveToBackup, Commit, UndoBackup, Utime, SyncDir,
                UnlinkTemp, Raise, disk
  <2> QED BY <1>3, <2>1
<1> QED BY <1>1, <1>2, <1>4, <1>5 DEF SystemCall

\* What the steps of a call do to the directory.
LEMMA TempStep ==
  ASSUME TypeOK, NEW w \in Writers, OpenTemp(w) \/ UnlinkTemp(w)
  PROVE  /\ dir'.target = dir.target /\ dir'.backup = dir.backup
         /\ snaps' = snaps \cup {dir'}
BY DEF OpenTemp, UnlinkTemp, Relink, TypeOK, Directory

LEMMA RenameStep ==
  ASSUME TypeOK, NEW w \in Writers
  PROVE  /\ MoveToBackup(w) =>
              /\ dir'.target = None /\ dir'.backup = dir.target /\ dir'.temp = dir.temp
              /\ snaps' = snaps \cup {dir'}
         /\ UndoBackup(w) =>
              /\ dir'.target = dir.backup /\ dir'.backup = None /\ snaps' = snaps \cup {dir'}
         /\ Commit(w) =>
              /\ dir'.target = Temp(w) /\ dir'.backup = dir.backup /\ snaps' = snaps \cup {dir'}
BY DEF MoveToBackup, UndoBackup, Commit, Relink, TypeOK, Directory

LEMMA RaiseCaller ==
  ASSUME TypeOK, CallerInv, NEW w \in Writers,
         NEW step \in {"idle", "unlink_temp", "undo"}, Raise(w, step),
         step = "undo" => pc[w] = "commit" /\ op[w] = "create_backup"
  PROVE  CallerReady(w)'
<1>1. pc'[w] = step /\ dir' = dir /\ op' = op
  BY DEF Raise, disk, args, TypeOK
<1>2. CallerReady(w)
  BY DEF CallerInv
<1> QED BY <1>1, <1>2 DEF CallerReady

LEMMA CallerHandler ==
  ASSUME WholeInv, NEW w \in Writers
  PROVE  /\ Handler(w, pc[w]) \in {"idle", "unlink_temp", "undo"}
         /\ Handler(w, pc[w]) = "undo" => pc[w] = "commit" /\ op[w] = "create_backup"
         /\ Finally(pc[w]) \in {"idle", "unlink_temp"}
BY DEF WholeInv, WriterReady, Handler, Finally

LEMMA SystemCallCaller ==
  ASSUME TypeOK, WholeInv, CallerInv, NEW w \in Writers, SystemCall(w)
  PROVE  CallerReady(w)'
<1>1. op' = op /\ CallerReady(w) /\ WriterReady(w)
  BY DEF SystemCall, args, CallerInv, WholeInv
<1>2. CASE NotFound(w)
  BY <1>2, CallerHandler, RaiseCaller DEF NotFound
<1>3. CASE SyncTemp(w)
  <2>1. \/ op[w] = "create_backup" /\ pc'[w] = "backup_check"
        \/ op[w] # "create_backup" /\ pc'[w] = "commit"
    BY <1>1, <1>3 DEF SyncTemp, Goto, TypeOK, WriterReady
  <2> QED BY <1>1, <2>1 DEF CallerReady
<1>4. CASE CheckBackup(w)
  <2>1. CASE dir.backup = None /\ Goto(w, "backup") /\ UNCHANGED <<disk, handle>>
    <3>1. pc'[w] = "backup" /\ pc[w] = "backup_check" /\ dir' = dir
      BY <1>4, <2>1 DEF CheckBackup, Goto, disk, TypeOK
    <3> QED BY <1>1, <2>1, <3>1 DEF CallerReady
  <2>2. CASE Raise(w, "unlink_temp")
    BY <2>2, RaiseCaller
  <2> QED BY <1>4, <2>1, <2>2 DEF CheckBackup
<1>5. CASE MoveToBackup(w)
  <2>1. pc'[w] = "commit" /\ dir'.target = None
    BY <1>5, RenameStep DEF MoveToBackup, Goto, TypeOK
  <2> QED BY <1>1, <2>1 DEF CallerReady
<1>6. CASE \/ Check(w) \/ OpenTemp(w) \/ FillTemp(w) \/ Commit(w) \/ UndoBackup(w) \/ Utime(w)
           \/ SyncDir(w) \/ UnlinkTemp(w)
  <2>1. pc'[w] \notin {"backup_check", "backup", "commit", "undo"}
    BY <1>6 DEF Check, OpenTemp, FillTemp, Commit, UndoBackup, Utime, SyncDir, UnlinkTemp, Goto,
                Finish, TypeOK
  <2> QED BY <2>1 DEF CallerReady
<1>7. CASE \/ SaveRollback(w) \/ OpenTarget(w) \/ FillTarget(w) \/ SyncTarget(w)
           \/ RestoreOpen(w) \/ RestoreFill(w) \/ UnlinkRollback(w)
  BY <1>1, <1>7 DEF WriterReady, SaveRollback, OpenTarget, FillTarget, SyncTarget,
                    RestoreOpen, RestoreFill, UnlinkRollback
<1> QED BY <1>2, <1>3, <1>4, <1>5, <1>6, <1>7 DEF SystemCall

LEMMA CallerNext ==
  ASSUME TypeOK, WholeInv, CallerInv, OneCaller, [Next]_vars
  PROVE  CallerInv'
<1>1. CASE UNCHANGED vars
  BY <1>1 DEF vars, CallerInv, CallerReady
<1>2. ASSUME NEW w \in Writers, CallerReady(w)' PROVE CallerInv'
  BY <1>2 DEF OneCaller, CallerInv
<1>3. CASE PowerLoss
  BY <1>3 DEF PowerLoss, CallerInv, CallerReady
<1>4. ASSUME NEW p \in Pids, Killed(p) PROVE CallerInv'
  <2>1. PICK w \in Writers : PidOf[w] = p /\ pc[w] # "idle"
    BY <1>4 DEF Killed
  <2>2. pc'[w] = "idle"
    BY <1>4, <2>1 DEF Killed
  <2> QED BY <1>2, <2>2 DEF CallerReady
<1>5. ASSUME NEW w \in Writers, Begin(w) PROVE CallerInv'
  <2>1. pc'[w] = "check"
    BY <1>5 DEF Begin, TypeOK
  <2> QED BY <1>2, <2>1 DEF CallerReady
<1>6. ASSUME NEW w \in Writers, SystemCall(w) PROVE CallerInv'
  BY <1>2, <1>6, SystemCallCaller
<1>7. ASSUME NEW w \in Writers, Fails(w) \/ Interrupted(w) PROVE CallerInv'
  BY <1>2, <1>7, CallerHandler, RaiseCaller DEF Fails, Interrupted
<1> QED BY <1>1, <1>3, <1>4, <1>5, <1>6, <1>7 DEF Next

-----------------------------------------------------------------------------
\* The file the user started with, when every call keeps a backup.
BackupOnly == Ops = {"create_backup"}

Originals == {i \in Inodes : content[i] = Original /\ synced[i]}
Has(d, files) == d.target \in files \/ d.backup \in files

OriginalInv ==
  /\ \A w \in Writers : pc[w] # "idle" => op[w] = "create_backup"
  /\ \A s \in snaps : Has(s, Originals)

LEMMA OriginalInit ==
  ASSUME TargetExists, Init
  PROVE  OriginalInv
<1> DEFINE first == CHOOSE i \in Inodes : TRUE
<1>1. first \in Inodes /\ first # None
  BY ConstantsAssumption
<1>2. /\ snaps = {dir} /\ dir.target = first /\ content[first] = Original /\ synced[first]
      /\ \A w \in Writers : pc[w] = "idle"
  BY <1>1 DEF Init
<1> QED BY <1>1, <1>2 DEF OriginalInv, Has, Originals

LEMMA SystemCallOriginal ==
  ASSUME TypeOK, WholeInv, CallerInv, OriginalInv, NEW w \in Writers, SystemCall(w)
  PROVE  \A s \in snaps' : Has(s, Originals')
<1>1. /\ dir \in snaps /\ CallerReady(w) /\ WriterReady(w) /\ op' = op
      /\ None \notin Originals /\ snaps \subseteq Directory
  BY ConstantsAssumption DEF WholeInv, CallerInv, SystemCall, args, Originals, TypeOK
<1>2. \A s \in snaps : Has(s, Originals')
  <2>1. ASSUME NEW s \in snaps, NEW e \in {s.target, s.backup} \cap Originals PROVE e \in Originals'
    <3>1. content'[e] = content[e] /\ (synced[e] => synced'[e])
      BY <1>1, <2>1, FilesKept
    <3> QED BY <2>1, <3>1 DEF Originals
  <2> QED BY <2>1 DEF OriginalInv, Has
<1>3. None \notin Originals' /\ Has(dir, Originals')
  BY <1>1, <1>2, ConstantsAssumption DEF Originals
<1>4. CASE OpenTemp(w) \/ UnlinkTemp(w)
  <2>1. dir'.target = dir.target /\ dir'.backup = dir.backup /\ snaps' = snaps \cup {dir'}
    BY <1>4, TempStep
  <2> QED BY <1>2, <1>3, <2>1 DEF Has
<1>5. CASE MoveToBackup(w)
  <2>1. dir.backup = None
    BY <1>1, <1>5 DEF MoveToBackup, CallerReady
  <2>2. dir'.backup = dir.target /\ snaps' = snaps \cup {dir'}
    BY <1>5, RenameStep
  <2> QED BY <1>2, <1>3, <2>1, <2>2 DEF Has
<1>6. CASE Commit(w)
  <2>1. dir.target = None
    BY <1>1, <1>6 DEF Commit, CallerReady, OriginalInv
  <2>2. dir'.backup = dir.backup /\ snaps' = snaps \cup {dir'}
    BY <1>6, RenameStep
  <2> QED BY <1>2, <1>3, <2>1, <2>2 DEF Has
<1>7. CASE UndoBackup(w)
  <2>1. dir.target = None
    BY <1>1, <1>7 DEF UndoBackup, CallerReady
  <2>2. dir'.target = dir.backup /\ snaps' = snaps \cup {dir'}
    BY <1>7, RenameStep
  <2> QED BY <1>2, <1>3, <2>1, <2>2 DEF Has
<1>8. CASE SyncDir(w)
  BY <1>1, <1>2, <1>8 DEF SyncDir
<1>9. CASE \/ Check(w) \/ NotFound(w) \/ FillTemp(w) \/ SyncTemp(w) \/ CheckBackup(w) \/ Utime(w)
  <2>1. snaps' = snaps
    BY <1>9 DEF Check, NotFound, FillTemp, SyncTemp, CheckBackup, Utime, Raise, disk
  <2> QED BY <1>2, <2>1
<1>10. CASE \/ SaveRollback(w) \/ OpenTarget(w) \/ FillTarget(w) \/ SyncTarget(w)
            \/ RestoreOpen(w) \/ RestoreFill(w) \/ UnlinkRollback(w)
  BY <1>1, <1>10 DEF WriterReady, SaveRollback, OpenTarget, FillTarget, SyncTarget,
                     RestoreOpen, RestoreFill, UnlinkRollback
<1> QED BY <1>4, <1>5, <1>6, <1>7, <1>8, <1>9, <1>10 DEF SystemCall

LEMMA OriginalNext ==
  ASSUME TypeOK, WholeInv, CallerInv, OriginalInv, BackupOnly, OneCaller, [Next]_vars
  PROVE  OriginalInv'
<1>1. CASE UNCHANGED vars
  BY <1>1 DEF vars, OriginalInv, Originals, Has
<1>2. CASE PowerLoss
  <2>1. PICK s \in snaps : dir' = s /\ snaps' = {s}
    BY <1>2 DEF PowerLoss
  <2>2. Originals \subseteq Originals'
    BY <1>2 DEF PowerLoss, Originals, TypeOK
  <2>3. \A w \in Writers : pc'[w] = "idle"
    BY <1>2 DEF PowerLoss
  <2> QED BY <2>1, <2>2, <2>3 DEF OriginalInv, Has
<1>3. ASSUME snaps' = snaps, content' = content, synced' = synced
      PROVE  \A s \in snaps' : Has(s, Originals)'
  BY <1>3 DEF OriginalInv, Originals, Has
<1>4. ASSUME NEW p \in Pids, Killed(p) PROVE OriginalInv'
  <2>1. \A w \in Writers : pc'[w] \in {"idle", pc[w]} /\ op'[w] = op[w]
    BY <1>4 DEF Killed, args
  <2> QED BY <1>3, <1>4, <2>1 DEF Killed, disk, OriginalInv
<1>5. ASSUME NEW w \in Writers, Begin(w) PROVE OriginalInv'
  <2>1. op'[w] = "create_backup"
    BY <1>5 DEF Begin, BackupOnly, TypeOK
  <2> QED BY <1>3, <1>5, <2>1 DEF Begin, disk, OriginalInv, OneCaller
<1>6. ASSUME NEW w \in Writers, SystemCall(w) PROVE OriginalInv'
  <2>1. pc[w] # "idle" /\ op'[w] = op[w]
    BY <1>6 DEF SystemCall, args, Check, NotFound, Needed, OpenTemp, FillTemp, SyncTemp,
                CheckBackup, MoveToBackup, Commit, UndoBackup, SaveRollback, OpenTarget,
                FillTarget, SyncTarget, RestoreOpen, RestoreFill, Utime, SyncDir, UnlinkTemp,
                UnlinkRollback
  <2> QED BY <1>6, <2>1, SystemCallOriginal DEF OriginalInv, OneCaller
<1>7. ASSUME NEW w \in Writers, Fails(w) \/ Interrupted(w) PROVE OriginalInv'
  <2>1. /\ pc[w] # "idle" /\ op' = op
        /\ snaps' = snaps /\ content' = content /\ synced' = synced
    BY <1>7 DEF Fails, Interrupted, Raise, disk, args
  <2> QED BY <1>3, <2>1 DEF OriginalInv, OneCaller
<1> QED BY <1>1, <1>2, <1>4, <1>5, <1>6, <1>7 DEF Next

-----------------------------------------------------------------------------
\* A caller that works alone and always keeps a backup never loses the file it
\* started with: through any number of retries, exceptions, kills and power losses
\* it is whole and synced under the target's name or the backup's.
THEOREM OriginalAlwaysKept ==
  ASSUME OneCaller, BackupOnly, TargetExists
  PROVE  Spec => []OriginalKept
<1>1. OwnPids /\ RenameOnly
  BY DEF OneCaller, OwnPids, BackupOnly, RenameOnly
<1> DEFINE Inv == TypeOK /\ WholeInv /\ CallerInv /\ OriginalInv
<1>2. Init => Inv
  BY InitType, InitWhole, CallerInit, OriginalInit
<1>3. Inv /\ [Next]_vars => Inv'
  BY <1>1, NextType, NextWhole, CallerNext, OriginalNext
<1>4. Inv => OriginalKept
  BY ConstantsAssumption DEF OriginalInv, Has, Originals, OriginalKept
<1> QED BY <1>2, <1>3, <1>4, PTL DEF Spec

-----------------------------------------------------------------------------
\* A call that is about to remove its rollback copy has removed its temp file,
\* and no other process makes it anew.
CleanInv ==
  \A w \in Writers : pc[w] = "unlink_rollback" => op[w] = "copy_back" /\ Temp(w) = None

\* The names of a writer's process change by its own steps only.
LEMMA OwnNames ==
  ASSUME TypeOK, OwnPids, NEW w \in Writers, SystemCall(w), NEW v \in Writers \ {w}
  PROVE  Temp(v)' = Temp(v) /\ pc'[v] = pc[v]
<1>1. PidOf[v] # PidOf[w] /\ PidOf[v] \in Pids
  BY ConstantsAssumption DEF OwnPids
<1>2. CASE OpenTemp(w) \/ UnlinkTemp(w) \/ Commit(w)
  <2>1. pc'[v] = pc[v]
    BY <1>2 DEF OpenTemp, UnlinkTemp, Commit, Goto, Finish, TypeOK
  <2>2. ASSUME NEW d \in Directory, NEW i, NEW e,
               \/ dir' = [d EXCEPT !.temp[PidOf[w]] = i]
               \/ dir' = [d EXCEPT !.target = e, !.temp[PidOf[w]] = i]
        PROVE  dir'.temp[PidOf[v]] = d.temp[PidOf[v]]
    BY <1>1, <2>2 DEF Directory
  <2>3. dir'.temp[PidOf[v]] = dir.temp[PidOf[v]]
    BY <1>2, <2>2 DEF OpenTemp, UnlinkTemp, Commit, Relink, TypeOK
  <2> QED BY <2>1, <2>3 DEF Temp
<1>3. CASE \/ MoveToBackup(w) \/ UndoBackup(w) \/ SaveRollback(w) \/ RestoreOpen(w)
           \/ UnlinkRollback(w)
  BY <1>1, <1>3 DEF MoveToBackup, UndoBackup, SaveRollback, RestoreOpen, UnlinkRollback, Relink,
                    Goto, Finish, Temp, TypeOK, Directory
<1>4. CASE \/ Check(w) \/ NotFound(w) \/ FillTemp(w) \/ SyncTemp(w) \/ CheckBackup(w)
           \/ OpenTarget(w) \/ FillTarget(w) \/ SyncTarget(w) \/ RestoreFill(w) \/ Utime(w)
           \/ SyncDir(w)
  BY <1>4 DEF Check, NotFound, FillTemp, SyncTemp, CheckBackup, OpenTarget, FillTarget,
              SyncTarget, RestoreFill, Utime, SyncDir, Raise, Goto, disk, Temp, TypeOK
<1> QED BY <1>2, <1>3, <1>4 DEF SystemCall

\* Where a system call takes its own writer, and the temp name.
LEMMA LastSteps ==
  ASSUME TypeOK, NEW w \in Writers, SystemCall(w)
  PROVE  /\ pc'[w] = "unlink_rollback" => op'[w] = "copy_back" /\ Temp(w)' = None
         /\ pc'[w] = "idle" =>
              \/ pc[w] = "check"
              \/ UnlinkTemp(w) /\ Temp(w)' = None /\ op'[w] # "copy_back"
              \/ /\ UnlinkRollback(w) /\ pc[w] = "unlink_rollback"
                 /\ Temp(w)' = Temp(w) /\ Rollback(w)' = None
<1>1. op' = op /\ PidOf[w] \in Pids
  BY ConstantsAssumption DEF SystemCall, args
<1>2. CASE UnlinkTemp(w)
  BY <1>1, <1>2 DEF UnlinkTemp, Relink, Goto, Finish, Temp, TypeOK, Directory
<1>3. CASE UnlinkRollback(w)
  BY <1>1, <1>3 DEF UnlinkRollback, Relink, Finish, Temp, Rollback, TypeOK, Directory
<1>4. CASE NotFound(w) \/ CheckBackup(w)
  <2>1. Handler(w, pc[w]) # "unlink_rollback"
    BY DEF Handler, Finally
  <2>2. NotFound(w) /\ Handler(w, pc[w]) = "idle" => pc[w] = "check"
    BY DEF NotFound, Needed, Handler, Finally
  <2> QED BY <1>4, <2>1, <2>2 DEF NotFound, CheckBackup, Raise, Goto, TypeOK
<1>5. CASE \/ Check(w) \/ OpenTemp(w) \/ FillTemp(w) \/ SyncTemp(w) \/ MoveToBackup(w)
           \/ Commit(w) \/ UndoBackup(w) \/ SaveRollback(w) \/ OpenTarget(w) \/ FillTarget(w)
           \/ SyncTarget(w) \/ RestoreOpen(w) \/ RestoreFill(w) \/ Utime(w) \/ SyncDir(w)
  <2>1. pc'[w] \notin {"idle", "unlink_rollback"}
    BY <1>5 DEF Check, OpenTemp, FillTemp, SyncTemp, MoveToBackup, Commit, UndoBackup,
                SaveRollback, OpenTarget, FillTarget, SyncTarget, RestoreOpen, RestoreFill,
                Utime, SyncDir, Goto, TypeOK
  <2> QED BY <2>1
<1> QED BY <1>2, <1>3, <1>4, <1>5 DEF SystemCall

LEMMA CleanNext ==
  ASSUME TypeOK, OwnPids, CleanInv, [Next]_vars
  PROVE  CleanInv'
<1>1. CASE UNCHANGED vars
  BY <1>1 DEF vars, CleanInv, Temp
<1>2. CASE PowerLoss
  BY <1>2 DEF PowerLoss, CleanInv
<1>3. ASSUME NEW p \in Pids, Killed(p) PROVE CleanInv'
  <2>1. \A w \in Writers : pc'[w] \in {"idle", pc[w]}
    BY <1>3 DEF Killed
  <2> QED BY <1>3, <2>1 DEF Killed, disk, args, CleanInv, Temp
<1>4. ASSUME NEW w \in Writers, Begin(w) PROVE CleanInv'
  BY <1>4 DEF Begin, disk, CleanInv, Temp, TypeOK
<1>5. ASSUME NEW w \in Writers, SystemCall(w) PROVE CleanInv'
  <2>1. op' = op
    BY <1>5 DEF SystemCall, args
  <2> QED BY <1>5, <2>1, OwnNames, LastSteps DEF CleanInv
<1>6. ASSUME NEW w \in Writers, Fails(w) \/ Interrupted(w) PROVE CleanInv'
  <2>1. Handler(w, pc[w]) # "unlink_rollback" /\ Finally(pc[w]) # "unlink_rollback"
    BY DEF Handler, Finally
  <2> QED BY <1>6, <2>1 DEF Fails, Interrupted, Raise, disk, args, CleanInv, Temp, TypeOK
<1> QED BY <1>1, <1>2, <1>3, <1>4, <1>5, <1>6 DEF Next

LEMMA CleanStep ==
  ASSUME TypeOK, OwnPids, CleanInv, [Next]_vars,
         NEW w \in Writers, pc[w] \notin {"idle", "check"}, pc'[w] = "idle",
         failures' = failures
  PROVE  Temp(w)' = None /\ (op[w] = "copy_back" => Rollback(w)' = None)
<1>1. failures \in Nat
  BY DEF TypeOK
<1>2. CASE UNCHANGED vars
  BY <1>2 DEF vars
<1>3. CASE PowerLoss \/ \E p \in Pids : Killed(p)
  BY <1>1, <1>3 DEF PowerLoss, Killed, Strike
<1>4. ASSUME NEW v \in Writers, Begin(v) PROVE FALSE
  BY <1>4 DEF Begin, TypeOK
<1>5. ASSUME NEW v \in Writers, Fails(v) \/ Interrupted(v) PROVE FALSE
  BY <1>1, <1>5 DEF Fails, Interrupted, Strike
<1>6. ASSUME NEW v \in Writers, SystemCall(v)
      PROVE  Temp(w)' = None /\ (op[w] = "copy_back" => Rollback(w)' = None)
  <2>1. v = w
    BY <1>6, OwnNames
  <2>2. op' = op
    BY <1>6 DEF SystemCall, args
  <2> QED BY <1>6, <2>1, <2>2, LastSteps DEF CleanInv
<1> QED BY <1>2, <1>3, <1>4, <1>5, <1>6 DEF Next

\* Whatever other processes do, a call of any writer that ends by itself leaves no
\* temp file and no rollback copy of its process (the finally clauses of all three).
THEOREM AlwaysCleansUp ==
  ASSUME OwnPids
  PROVE  Spec => CleansUp
<1> DEFINE Clean(w) ==
      pc[w] \notin {"idle", "check"} /\ pc'[w] = "idle" /\ failures' = failures =>
        Temp(w)' = None /\ (op[w] = "copy_back" => Rollback(w)' = None)
<1>1. Init => TypeOK /\ CleanInv
  BY InitType DEF Init, CleanInv
<1>2. TypeOK /\ CleanInv /\ [Next]_vars => (TypeOK /\ CleanInv)'
  BY NextType, CleanNext
<1>3. TypeOK /\ CleanInv /\ [Next]_vars => [\A w \in Writers : Clean(w)]_vars
  BY CleanStep
<1> QED BY <1>1, <1>2, <1>3, PTL DEF Spec, CleansUp
-----------------------------------------------------------------------------
(***************************************************************************)
(* One caller of any of the writers, copy-back too: what a call that       *)
(* raises leaves under the target's name.                                  *)
(***************************************************************************)
\* An exception that is no OSError strikes only writers whose target is never gone
\* or half written, and a copy-back meets at most one failure: a second one may
\* strike its restore.
HandledFailures == "interrupt" \in Failures => Ops \subseteq {"write", "overwrite_original"}
RestoreOnce == "copy_back" \in Ops => MaxFailures <= 1

\* In directory d the temp and the rollback name of p lead to files of their own.
OwnFiles(d, p) ==
  /\ d.temp[p] # None => d.temp[p] \notin {d.target, d.backup, d.rollback[p]}
  /\ d.rollback[p] # None => d.rollback[p] \notin {d.target, d.backup}
NamesReady(w) == dir \in snaps /\ \A s \in snaps : OwnFiles(s, PidOf[w])

\* What a call that ended with an exception now would leave.
Settled(w) ==
  \/ ContentOf(dir.target) \in {found[w], data[w]}
  \/ /\ failures > 1 /\ op[w] = "create_backup"
     /\ dir.target = None /\ ContentOf(dir.backup) = found[w]

CopySteps == {"save_rollback", "copy_open", "copy_fill", "copy_fsync",
              "restore_open", "restore_fill", "restore_sync"}

\* Where the old and the new content of a call are, so that the failure handler of
\* each writer finds what it puts back.
StageReady(w) ==
  /\ pc[w] # "idle" => op[w] \in Ops
  /\ pc[w] \in {"backup_check", "backup", "undo"} => op[w] = "create_backup"
  /\ pc[w] \in CopySteps \cup {"unlink_rollback"} => op[w] = "copy_back"
  /\ pc[w] = "commit" => op[w] # "copy_back"
  /\ pc[w] \in {"check", "create", "fill", "fsync", "backup_check", "backup",
                "save_rollback", "copy_open", "restore_sync"} =>
       ContentOf(dir.target) = found[w]
  /\ pc[w] \in {"create", "fill", "fsync"} \cup CopySteps /\ op[w] = "copy_back" =>
       dir.target # None
  /\ pc[w] \in {"fill", "fsync"} => Temp(w) # None /\ handle[w] = Temp(w)
  /\ pc[w] = "fsync" => content[handle[w]] = data[w]
  /\ pc[w] \in {"backup_check", "backup", "commit", "save_rollback", "copy_open", "copy_fill"} =>
       Temp(w) # None /\ content[Temp(w)] = data[w]
  /\ pc[w] = "commit" /\ op[w] # "create_backup" => ContentOf(dir.target) = found[w]
  /\ pc[w] \in {"commit", "undo"} /\ op[w] = "create_backup" =>
       dir.target = None /\ dir.backup # None /\ content[dir.backup] = found[w]
  /\ pc[w] \in {"copy_open", "copy_fill", "copy_fsync", "restore_open", "restore_fill"} =>
       Rollback(w) # None /\ content[Rollback(w)] = found[w]
  /\ pc[w] \in {"copy_fill", "copy_fsync", "restore_fill"} => handle[w] = dir.target
  /\ pc[w] = "copy_fsync" => content[handle[w]] = data[w]
  /\ pc[w] \in {"undo", "restore_open", "restore_fill", "restore_sync"} => failures > 0
  /\ pc[w] \in {"utime", "sync_dir"} => ContentOf(dir.target) = data[w]
  /\ pc[w] \in {"unlink_temp", "unlink_rollback"} => Settled(w)

NamesInv == \A w \in Writers : NamesReady(w)
StageInv == \A w \in Writers : StageReady(w)

LEMMA StageInit == Init => NamesInv /\ StageInv
<1> SUFFICES ASSUME Init, NEW w \in Writers PROVE NamesReady(w) /\ StageReady(w)
  BY DEF NamesInv, StageInv
<1>1. PidOf[w] \in Pids
  BY ConstantsAssumption
<1>2. NamesReady(w)
  BY <1>1 DEF Init, NamesReady, OwnFiles
<1>3. pc[w] = "idle"
  BY DEF Init
<1> QED BY <1>2, <1>3 DEF StageReady, CopySteps

\* A new file is no file of the directory.
LEMMA FreshFile ==
  ASSUME TypeOK, dir \in snaps, NEW p \in Pids, NEW entry, entry = None, Creatable(entry)
  PROVE  /\ Create(entry) \in Inodes
         /\ Create(entry) \notin {dir.target, dir.backup, dir.temp[p], dir.rollback[p]}
<1>1. Create(entry) \in Free
  BY FreeIsFresh DEF Creatable, Create
<1> QED BY <1>1 DEF Free, InodesOf

\* What the steps that link and unlink names do to the directory.
LEMMA Linked ==
  ASSUME TypeOK, NEW w \in Writers
  PROVE  LET p == PidOf[w]
             Same(names) == \A n \in names :
               /\ n = "target" => dir'.target = dir.target
               /\ n = "backup" => dir'.backup = dir.backup
               /\ n = "temp" => dir'.temp[p] = dir.temp[p]
               /\ n = "rollback" => dir'.rollback[p] = dir.rollback[p]
         IN
         /\ OpenTemp(w) =>
              dir'.temp[p] = Create(Temp(w)) /\ Same({"target", "backup", "rollback"})
         /\ UnlinkTemp(w) =>
              dir'.temp[p] = None /\ Same({"target", "backup", "rollback"})
         /\ MoveToBackup(w) =>
              dir'.target = None /\ dir'.backup = dir.target /\ Same({"temp", "rollback"})
         /\ UndoBackup(w) =>
              dir'.target = dir.backup /\ dir'.backup = None /\ Same({"temp", "rollback"})
         /\ Commit(w) =>
              dir'.target = Temp(w) /\ dir'.temp[p] = None /\ Same({"backup", "rollback"})
         /\ SaveRollback(w) =>
              dir'.rollback[p] = Create(Rollback(w)) /\ Same({"target", "backup", "temp"})
         /\ UnlinkRollback(w) =>
              dir'.rollback[p] = None /\ Same({"target", "backup", "temp"})
         /\ RestoreOpen(w) =>
              dir'.target = Create(dir.target) /\ Same({"backup", "temp", "rollback"})
<1>1. dir \in Directory /\ PidOf[w] \in Pids
  BY ConstantsAssumption DEF TypeOK
<1> QED BY <1>1 DEF OpenTemp, UnlinkTemp, MoveToBackup, UndoBackup, Commit, SaveRollback,
                    UnlinkRollback, RestoreOpen, Relink, Temp, Rollback, Directory

LEMMA NamesStep ==
  ASSUME TypeOK, NEW w \in Writers, NamesReady(w), SystemCall(w)
  PROVE  NamesReady(w)'
<1>0. PidOf[w] \in Pids /\ dir \in snaps /\ OwnFiles(dir, PidOf[w])
  BY ConstantsAssumption DEF NamesReady
<1>1. ASSUME dir' = dir, snaps' = snaps PROVE NamesReady(w)'
  BY <1>1 DEF NamesReady
<1>2. ASSUME snaps' = snaps \cup {dir'}, OwnFiles(dir', PidOf[w]) PROVE NamesReady(w)'
  BY <1>2 DEF NamesReady
<1>3. CASE \/ Check(w) \/ NotFound(w) \/ FillTemp(w) \/ SyncTemp(w) \/ CheckBackup(w)
           \/ OpenTarget(w) \/ FillTarget(w) \/ SyncTarget(w) \/ RestoreFill(w) \/ Utime(w)
  BY <1>1, <1>3 DEF Check, NotFound, FillTemp, SyncTemp, CheckBackup, OpenTarget, FillTarget,
                    SyncTarget, RestoreFill, Utime, Raise, disk
<1>4. CASE SyncDir(w)
  BY <1>0, <1>4 DEF SyncDir, NamesReady
<1>5. CASE OpenTemp(w)
  <2>1. Create(Temp(w)) \notin {dir.target, dir.backup, dir.rollback[PidOf[w]]}
    <3>1. CASE Temp(w) = None
      BY <1>0, <1>5, <3>1, FreshFile DEF OpenTemp
    <3>2. CASE Temp(w) # None
      BY <1>0, <3>2 DEF OwnFiles, Create, Temp
    <3> QED BY <3>1, <3>2
  <2> QED BY <1>0, <1>2, <1>5, <2>1, Linked DEF OwnFiles, OpenTemp, Relink
<1>6. CASE SaveRollback(w)
  <2>1. Create(Rollback(w)) \notin {dir.target, dir.backup, dir.temp[PidOf[w]]}
    <3>1. CASE Rollback(w) = None
      BY <1>0, <1>6, <3>1, FreshFile DEF SaveRollback
    <3>2. CASE Rollback(w) # None
      BY <1>0, <3>2 DEF OwnFiles, Create, Rollback
    <3> QED BY <3>1, <3>2
  <2> QED BY <1>0, <1>2, <1>6, <2>1, Linked DEF OwnFiles, SaveRollback, Relink
<1>7. CASE RestoreOpen(w)
  <2>1. Create(dir.target) \notin {dir.temp[PidOf[w]], dir.rollback[PidOf[w]]} \ {None}
    <3>1. CASE dir.target = None
      BY <1>0, <1>7, <3>1, FreshFile DEF RestoreOpen
    <3>2. CASE dir.target # None
      BY <1>0, <3>2 DEF OwnFiles, Create
    <3> QED BY <3>1, <3>2
  <2> QED BY <1>0, <1>2, <1>7, <2>1, Linked DEF OwnFiles, RestoreOpen, Relink
<1>8. CASE MoveToBackup(w) \/ UndoBackup(w) \/ Commit(w) \/ UnlinkTemp(w) \/ UnlinkRollback(w)
  <2>1. snaps' = snaps \cup {dir'}
    BY <1>8 DEF MoveToBackup, UndoBackup, Commit, UnlinkTemp, UnlinkRollback, Relink
  <2>2. OwnFiles(dir', PidOf[w])
    BY <1>0, <1>8, Linked DEF OwnFiles, Temp
  <2> QED BY <1>2, <2>1, <2>2
<1> QED BY <1>3, <1>4, <1>5, <1>6, <1>7, <1>8 DEF SystemCall

LEMMA NamesNext ==
  ASSUME TypeOK, NamesInv, OneCaller, [Next]_vars
  PROVE  NamesInv'
<1>1. ASSUME NEW w \in Writers, NamesReady(w)' PROVE NamesInv'
  BY <1>1 DEF OneCaller, NamesInv
<1>2. ASSUME dir' = dir, snaps' = snaps PROVE NamesInv'
  BY <1>2 DEF NamesInv, NamesReady
<1>3. CASE PowerLoss
  BY <1>3 DEF PowerLoss, NamesInv, NamesReady
<1>4. ASSUME NEW w \in Writers, SystemCall(w) PROVE NamesInv'
  BY <1>1, <1>4, NamesStep DEF NamesInv
<1>5. ASSUME \/ UNCHANGED vars
             \/ \E p \in Pids : Killed(p)
             \/ \E w \in Writers : Begin(w) \/ Fails(w) \/ Interrupted(w)
      PROVE  NamesInv'
  BY <1>2, <1>5 DEF vars, Killed, Begin, Fails, Interrupted, Raise, disk
<1> QED BY <1>3, <1>4, <1>5 DEF Next

\* An exception leaves the files alone, and its handler finds what it needs.
LEMMA RaiseStage ==
  ASSUME TypeOK, NEW w \in Writers, StageReady(w), NEW step, Raise(w, step),
         failures' \in {failures, failures + 1},
         \/ step = "idle"
         \/ /\ step = "unlink_temp"
            /\ \/ pc[w] \notin {"idle", "commit", "undo", "copy_open", "copy_fill",
                                "copy_fsync", "restore_open", "restore_fill"}
               \/ pc[w] = "commit" /\ op[w] # "create_backup"
               \/ pc[w] = "undo" /\ failures' > 1
         \/ step = "undo" /\ pc[w] = "commit" /\ op[w] = "create_backup" /\ failures' > 0
         \/ /\ step = "restore_open" /\ failures' > 0
            /\ pc[w] \in {"copy_open", "copy_fill", "copy_fsync"}
  PROVE  StageReady(w)'
<1>1. /\ pc'[w] = step /\ dir' = dir /\ content' = content
      /\ op' = op /\ data' = data /\ found' = found
      /\ pc[w] \in Steps /\ failures \in Nat
  BY DEF Raise, disk, args, TypeOK
<1>2. CASE step = "idle"
  BY <1>1, <1>2 DEF StageReady, CopySteps
<1>3. CASE step = "unlink_temp"
  <2>1. Settled(w)'
    BY <1>1, <1>3 DEF StageReady, CopySteps, Settled, ContentOf, Steps
  <2>2. op[w] \in Ops
    BY <1>3 DEF StageReady
  <2> QED BY <1>1, <1>3, <2>1, <2>2 DEF StageReady, CopySteps
<1>4. CASE step = "undo"
  BY <1>1, <1>4 DEF StageReady, CopySteps
<1>5. CASE step = "restore_open"
  BY <1>1, <1>5 DEF StageReady, CopySteps, Rollback
<1> QED BY <1>2, <1>3, <1>4, <1>5

LEMMA FailureStage ==
  ASSUME TypeOK, HandledFailures, RestoreOnce, NEW w \in Writers, StageReady(w),
         Fails(w) \/ Interrupted(w)
  PROVE  StageReady(w)'
<1>1. pc[w] # "idle" /\ op[w] \in Ops /\ pc[w] \in Steps /\ failures \in Nat
  BY DEF Fails, Interrupted, StageReady, TypeOK
<1>2. failures' = failures + 1 /\ failures < MaxFailures /\ MaxFailures \in Nat
  BY ConstantsAssumption DEF Fails, Interrupted, Strike
<1>3. pc[w] \notin {"restore_open", "restore_fill"}
  BY <1>1, <1>2 DEF StageReady, CopySteps, RestoreOnce
<1>4. CASE Fails(w)
  BY <1>1, <1>2, <1>3, <1>4, RaiseStage DEF Fails, Handler, Finally, StageReady, Steps
<1>5. CASE Interrupted(w)
  <2>1. op[w] \in {"write", "overwrite_original"}
    BY <1>1, <1>5 DEF Interrupted, Strike, HandledFailures
  <2>2. pc[w] \notin CopySteps \cup {"undo"}
    BY <2>1 DEF StageReady
  <2> QED BY <1>1, <1>2, <1>5, <2>1, <2>2, RaiseStage DEF Interrupted, Finally, CopySteps
<1> QED BY <1>4, <1>5

\* The steps up to the first that changes the target.
LEMMA PrepareStage ==
  ASSUME TypeOK, NEW w \in Writers, NamesReady(w), StageReady(w), UNCHANGED <<args, failures>>,
         \/ Check(w) \/ NotFound(w) \/ OpenTemp(w) \/ FillTemp(w) \/ SyncTemp(w)
         \/ CheckBackup(w) \/ SaveRollback(w)
  PROVE  StageReady(w)'
<1>0. /\ op' = op /\ data' = data /\ found' = found /\ failures' = failures /\ failures \in Nat
      /\ PidOf[w] \in Pids /\ dir \in Directory /\ dir \in snaps /\ OwnFiles(dir, PidOf[w])
      /\ pc[w] \in Steps
  BY ConstantsAssumption DEF args, TypeOK, NamesReady
<1>1. CASE Check(w)
  <2>1. /\ pc[w] = "check" /\ pc'[w] = "create" /\ dir' = dir /\ content' = content
        /\ op[w] # "write" => dir.target # None
    BY <1>1 DEF Check, Goto, disk, TypeOK
  <2> QED BY <1>0, <2>1 DEF StageReady, CopySteps, ContentOf
<1>2. CASE NotFound(w)
  <2>1. pc[w] \in {"check", "backup", "save_rollback", "utime"}
    BY <1>0, <1>2 DEF NotFound, Needed, StageReady, CopySteps, Steps
  <2> QED BY <1>0, <1>2, <2>1, RaiseStage DEF NotFound, Handler, Finally
<1>3. CASE OpenTemp(w)
  <2> DEFINE i == Create(Temp(w))
  <2>1. i \in Inodes /\ i # dir.target
    <3>1. CASE Temp(w) = None
      BY <1>0, <1>3, <3>1, FreshFile DEF OpenTemp
    <3>2. CASE Temp(w) # None
      BY <1>0, <3>2 DEF OwnFiles, Create, Temp, Directory, Entry
    <3> QED BY <3>1, <3>2
  <2>2. /\ pc[w] = "create" /\ pc'[w] = "fill" /\ content' = [content EXCEPT ![i] = Torn]
        /\ handle'[w] = i
    BY <1>3 DEF OpenTemp, Goto, Open, Fill, TypeOK
  <2>3. dir'.target = dir.target /\ Temp(w)' = i
    BY <1>3, Linked DEF Temp
  <2> HIDE DEF i
  <2>4. ContentOf(dir.target)' = ContentOf(dir.target)
    BY <2>1, <2>2, <2>3 DEF ContentOf, TypeOK
  <2>5. i # None
    BY <2>1, ConstantsAssumption
  <2> QED BY <1>0, <2>2, <2>3, <2>4, <2>5 DEF StageReady, CopySteps
<1>4. CASE FillTemp(w)
  <2> DEFINE i == handle[w]
  <2>1. pc[w] = "fill" /\ i = dir.temp[PidOf[w]] /\ i # None /\ i \in Inodes /\ i # dir.target
    BY <1>0, <1>4 DEF FillTemp, StageReady, Temp, OwnFiles, Directory, Entry
  <2>2. /\ pc'[w] = "fsync" /\ dir' = dir /\ content' = [content EXCEPT ![i] = data[w]]
        /\ handle' = handle
    BY <1>4 DEF FillTemp, Fill, Goto, TypeOK
  <2>3. ContentOf(dir.target)' = ContentOf(dir.target) /\ content'[i] = data[w]
    BY <2>1, <2>2 DEF ContentOf, TypeOK
  <2> QED BY <1>0, <2>1, <2>2, <2>3 DEF StageReady, CopySteps, Temp
<1>5. CASE SyncTemp(w)
  <2>1. /\ pc[w] = "fsync" /\ dir' = dir /\ content' = content
        /\ \/ op[w] = "create_backup" /\ pc'[w] = "backup_check"
           \/ op[w] = "copy_back" /\ pc'[w] = "save_rollback"
           \/ op[w] \notin {"create_backup", "copy_back"} /\ pc'[w] = "commit"
    BY <1>5 DEF SyncTemp, Fsync, Goto, TypeOK
  <2> QED BY <1>0, <2>1 DEF StageReady, CopySteps, ContentOf, Temp
<1>6. CASE CheckBackup(w)
  <2>1. CASE dir.backup = None /\ Goto(w, "backup") /\ UNCHANGED <<disk, handle>>
    <3>1. pc[w] = "backup_check" /\ pc'[w] = "backup" /\ dir' = dir /\ content' = content
      BY <1>6, <2>1 DEF CheckBackup, Goto, disk, TypeOK
    <3> QED BY <1>0, <3>1 DEF StageReady, CopySteps, ContentOf, Temp
  <2>2. CASE Raise(w, "unlink_temp")
    BY <1>0, <1>6, <2>2, RaiseStage DEF CheckBackup
  <2> QED BY <1>6, <2>1, <2>2 DEF CheckBackup
<1>7. CASE SaveRollback(w)
  <2> DEFINE i == Create(Rollback(w))
  <2>1. i \in Inodes /\ i \notin {dir.target, dir.temp[PidOf[w]]}
    <3>1. CASE Rollback(w) = None
      BY <1>0, <1>7, <3>1, FreshFile DEF SaveRollback
    <3>2. CASE Rollback(w) # None
      BY <1>0, <3>2 DEF OwnFiles, Create, Rollback, Directory, Entry
    <3> QED BY <3>1, <3>2
  <2>2. /\ pc[w] = "save_rollback" /\ pc'[w] = "copy_open" /\ dir.target # None
        /\ content' = [content EXCEPT ![i] = content[dir.target]]
    BY <1>7 DEF SaveRollback, Goto, Fill, TypeOK
  <2>3. dir'.target = dir.target /\ Temp(w)' = Temp(w) /\ Rollback(w)' = i
    BY <1>7, Linked DEF Temp, Rollback
  <2> HIDE DEF i
  <2>4. /\ content'[dir.target] = content[dir.target]
        /\ content'[i] = content[dir.target]
        /\ Temp(w) # None => content'[Temp(w)] = content[Temp(w)]
    BY <1>0, <2>1, <2>2 DEF Temp, TypeOK
  <2>5. i # None
    BY <2>1, ConstantsAssumption
  <2> QED BY <1>0, <2>2, <2>3, <2>4, <2>5 DEF StageReady, CopySteps, ContentOf
<1> QED BY <1>1, <1>2, <1>3, <1>4, <1>5, <1>6, <1>7

\* The renames, and what follows a replaced target.
LEMMA RenameStage ==
  ASSUME TypeOK, NEW w \in Writers, StageReady(w), UNCHANGED <<args, failures>>,
         \/ MoveToBackup(w) \/ Commit(w) \/ UndoBackup(w) \/ Utime(w) \/ SyncDir(w)
         \/ UnlinkTemp(w) \/ UnlinkRollback(w)
  PROVE  StageReady(w)'
<1>0. op' = op /\ data' = data /\ found' = found /\ failures' = failures /\ content' = content
  BY DEF args, MoveToBackup, Commit, UndoBackup, Utime, SyncDir, UnlinkTemp, UnlinkRollback, disk
<1>1. CASE MoveToBackup(w)
  <2>1. pc[w] = "backup" /\ pc'[w] = "commit" /\ dir.target # None
    BY <1>1 DEF MoveToBackup, Goto, TypeOK
  <2>2. dir'.target = None /\ dir'.backup = dir.target /\ Temp(w)' = Temp(w)
    BY <1>1, Linked DEF Temp
  <2> QED BY <1>0, <2>1, <2>2 DEF StageReady, CopySteps, ContentOf
<1>2. CASE Commit(w)
  <2>1. pc[w] = "commit" /\ pc'[w] \in {"sync_dir", "utime"} /\ Temp(w) # None
    BY <1>2 DEF Commit, Goto, TypeOK
  <2>2. dir'.target = Temp(w)
    BY <1>2, Linked
  <2> QED BY <1>0, <2>1, <2>2 DEF StageReady, CopySteps, ContentOf
<1>3. CASE UndoBackup(w)
  <2>1. pc[w] = "undo" /\ pc'[w] = "unlink_temp"
    BY <1>3 DEF UndoBackup, Goto, TypeOK
  <2>2. dir'.target = dir.backup
    BY <1>3, Linked
  <2> QED BY <1>0, <2>1, <2>2 DEF StageReady, CopySteps, ContentOf, Settled
<1>4. CASE Utime(w) \/ SyncDir(w)
  <2>1. /\ \/ pc[w] = "utime" /\ pc'[w] = "sync_dir"
           \/ pc[w] \in {"sync_dir", "restore_sync"} /\ pc'[w] = "unlink_temp"
        /\ dir' = dir
    BY <1>4 DEF Utime, SyncDir, Goto, disk, TypeOK
  <2> QED BY <1>0, <2>1 DEF StageReady, CopySteps, ContentOf, Settled
<1>5. CASE UnlinkTemp(w) \/ UnlinkRollback(w)
  <2>1. /\ pc[w] \in {"unlink_temp", "unlink_rollback"}
        /\ \/ pc'[w] = "idle"
           \/ pc'[w] = "unlink_rollback" /\ op[w] = "copy_back"
    BY <1>5 DEF UnlinkTemp, UnlinkRollback, Goto, Finish, TypeOK
  <2>2. dir'.target = dir.target /\ dir'.backup = dir.backup
    BY <1>5, Linked
  <2> QED BY <1>0, <2>1, <2>2 DEF StageReady, CopySteps, ContentOf, Settled
<1> QED BY <1>1, <1>2, <1>3, <1>4, <1>5

\* The copy over the target, and the restore.
LEMMA CopyStage ==
  ASSUME TypeOK, NEW w \in Writers, NamesReady(w), StageReady(w), UNCHANGED <<args, failures>>,
         \/ OpenTarget(w) \/ FillTarget(w) \/ SyncTarget(w) \/ RestoreOpen(w) \/ RestoreFill(w)
  PROVE  StageReady(w)'
<1>0. /\ op' = op /\ data' = data /\ found' = found /\ failures' = failures
      /\ PidOf[w] \in Pids /\ dir \in Directory /\ OwnFiles(dir, PidOf[w])
  BY ConstantsAssumption DEF args, TypeOK, NamesReady
<1>1. /\ op[w] = "copy_back" /\ dir.target # None /\ dir.target \in Inodes
      /\ Rollback(w) # None => Rollback(w) # dir.target
      /\ Temp(w) # None => Temp(w) # dir.target
  BY <1>0 DEF OpenTarget, FillTarget, SyncTarget, RestoreOpen, RestoreFill, StageReady, CopySteps,
              Directory, Entry, OwnFiles, Temp, Rollback
<1>2. ASSUME NEW c, content' = [content EXCEPT ![dir.target] = c]
      PROVE  /\ content'[dir.target] = c
             /\ Rollback(w) # None => content'[Rollback(w)] = content[Rollback(w)]
             /\ Temp(w) # None => content'[Temp(w)] = content[Temp(w)]
  BY <1>0, <1>1, <1>2 DEF TypeOK, Directory, Entry, Rollback, Temp
<1>3. CASE OpenTarget(w)
  <2>1. /\ pc[w] = "copy_open" /\ pc'[w] = "copy_fill" /\ dir' = dir
        /\ content' = [content EXCEPT ![dir.target] = Torn] /\ handle'[w] = dir.target
    BY <1>3 DEF OpenTarget, Goto, Open, Fill, TypeOK
  <2> QED BY <1>0, <1>1, <1>2, <2>1 DEF StageReady, CopySteps, Temp, Rollback
<1>4. CASE FillTarget(w)
  <2>1. /\ pc[w] = "copy_fill" /\ pc'[w] = "copy_fsync" /\ dir' = dir /\ handle' = handle
        /\ content' = [content EXCEPT ![dir.target] = data[w]] /\ handle[w] = dir.target
    BY <1>4 DEF FillTarget, Goto, Fill, TypeOK, StageReady
  <2> QED BY <1>0, <1>1, <1>2, <2>1 DEF StageReady, CopySteps, Temp, Rollback
<1>5. CASE SyncTarget(w)
  <2>1. pc[w] = "copy_fsync" /\ pc'[w] = "utime" /\ dir' = dir /\ content' = content
    BY <1>5 DEF SyncTarget, Goto, Fsync, TypeOK
  <2> QED BY <1>0, <1>1, <2>1 DEF StageReady, CopySteps, ContentOf
<1>6. CASE RestoreOpen(w)
  <2>1. Create(dir.target) = dir.target
    BY <1>1 DEF Create
  <2>2. /\ pc[w] = "restore_open" /\ pc'[w] = "restore_fill"
        /\ content' = [content EXCEPT ![dir.target] = Torn] /\ handle'[w] = dir.target
    BY <1>6, <2>1 DEF RestoreOpen, Goto, Open, Fill, TypeOK
  <2>3. dir'.target = dir.target /\ Rollback(w)' = Rollback(w)
    BY <1>6, <2>1, Linked DEF Rollback
  <2> QED BY <1>0, <1>1, <1>2, <2>2, <2>3 DEF StageReady, CopySteps
<1>7. CASE RestoreFill(w)
  <2>1. /\ pc[w] = "restore_fill" /\ pc'[w] = "restore_sync" /\ dir' = dir
        /\ content' = [content EXCEPT ![dir.target] = found[w]]
    BY <1>7 DEF RestoreFill, Goto, Fill, TypeOK, StageReady
  <2> QED BY <1>0, <1>1, <1>2, <2>1 DEF StageReady, CopySteps, ContentOf
<1> QED BY <1>3, <1>4, <1>5, <1>6, <1>7

LEMMA StageNext ==
  ASSUME TypeOK, NamesInv, StageInv, OneCaller, HandledFailures, RestoreOnce, [Next]_vars
  PROVE  StageInv'
<1>1. CASE UNCHANGED vars
  BY <1>1 DEF vars, StageInv, StageReady, Settled, ContentOf, Temp, Rollback
<1>2. ASSUME NEW w \in Writers, StageReady(w)' PROVE StageInv'
  BY <1>2 DEF OneCaller, StageInv
<1>3. ASSUME NEW w \in Writers, pc'[w] = "idle" PROVE StageReady(w)'
  BY <1>3 DEF StageReady, CopySteps
<1>4. CASE PowerLoss
  BY <1>3, <1>4 DEF PowerLoss, StageInv
<1>5. ASSUME NEW p \in Pids, Killed(p) PROVE StageInv'
  BY <1>2, <1>3, <1>5 DEF Killed
<1>6. ASSUME NEW w \in Writers, Begin(w) PROVE StageInv'
  <2>1. /\ pc'[w] = "check" /\ dir' = dir /\ content' = content
        /\ found'[w] = ContentOf(dir.target) /\ op'[w] \in Ops
    BY <1>6 DEF Begin, disk, TypeOK
  <2> QED BY <1>2, <2>1 DEF StageReady, CopySteps, ContentOf
<1>7. ASSUME NEW w \in Writers, SystemCall(w) PROVE StageInv'
  BY <1>2, <1>7, PrepareStage, RenameStage, CopyStage DEF SystemCall, NamesInv, StageInv
<1>8. ASSUME NEW w \in Writers, Fails(w) \/ Interrupted(w) PROVE StageInv'
  BY <1>2, <1>8, FailureStage DEF StageInv
<1> QED BY <1>1, <1>4, <1>5, <1>6, <1>7, <1>8 DEF Next

\* The step with which a call raises.
LEMMA RaisedStep ==
  ASSUME TypeOK, StageInv, OneCaller, [Next]_vars, NEW w \in Writers,
         pc[w] # "idle", pc'[w] = "idle", outcome'[w] = "raised"
  PROVE  \/ ContentOf(dir.target)' \in {found[w], data[w]}
         \/ /\ failures' > 1 /\ op[w] = "create_backup" /\ dir'.target = None
            /\ ContentOf(dir.backup)' = found[w]
<1>0. StageReady(w) /\ failures \in Nat
  BY DEF StageInv, TypeOK
<1>1. ASSUME pc[w] \in {"check", "unlink_temp", "unlink_rollback"},
             dir'.target = dir.target, dir'.backup = dir.backup, content' = content,
             failures' \in {failures, failures + 1}
      PROVE  \/ ContentOf(dir.target)' \in {found[w], data[w]}
             \/ /\ failures' > 1 /\ op[w] = "create_backup" /\ dir'.target = None
                /\ ContentOf(dir.backup)' = found[w]
  BY <1>0, <1>1 DEF StageReady, Settled, ContentOf
<1>2. CASE UNCHANGED vars
  BY <1>2 DEF vars
<1>3. CASE PowerLoss
  BY <1>3 DEF PowerLoss
<1>4. ASSUME NEW p \in Pids, Killed(p) PROVE FALSE
  BY <1>4 DEF Killed, TypeOK
<1>5. ASSUME NEW v \in Writers, Begin(v) PROVE FALSE
  BY <1>5 DEF Begin, TypeOK
<1>6. CASE Fails(w) \/ Interrupted(w)
  <2>1. pc[w] \in {"check", "unlink_temp", "unlink_rollback"}
    BY <1>6 DEF Fails, Interrupted, Raise, Handler, Finally, TypeOK
  <2>2. dir' = dir /\ content' = content /\ failures' = failures + 1
    BY <1>6 DEF Fails, Interrupted, Raise, disk, Strike
  <2> QED BY <1>1, <2>1, <2>2
<1>7. CASE SystemCall(w)
  <2>1. failures' = failures
    BY <1>7 DEF SystemCall
  <2>2. CASE pc[w] = "check"
    <3>1. NotFound(w)
      BY <1>7, <2>2 DEF SystemCall, Check, OpenTemp, FillTemp, SyncTemp, CheckBackup, MoveToBackup,
                        Commit, UndoBackup, SaveRollback, OpenTarget, FillTarget, SyncTarget,
                        RestoreOpen, RestoreFill, Utime, SyncDir, UnlinkTemp, UnlinkRollback,
                        Goto, TypeOK
    <3>2. dir' = dir /\ content' = content
      BY <3>1 DEF NotFound, Raise, disk
    <3> QED BY <1>1, <2>1, <2>2, <3>2
  <2>3. CASE UnlinkTemp(w) \/ UnlinkRollback(w)
    <3>1. dir'.target = dir.target /\ dir'.backup = dir.backup
      BY <2>3, Linked
    <3> QED BY <1>1, <2>1, <2>3, <3>1 DEF UnlinkTemp, UnlinkRollback
  <2> QED BY <1>7, <2>2, <2>3, LastSteps
<1>8. \A v \in Writers : v = w
  BY DEF OneCaller
<1> QED BY <1>2, <1>3, <1>4, <1>5, <1>6, <1>7, <1>8 DEF Next

\* A caller that works alone, with any of the writers: a call that raises has left
\* the target as it found it or fully rewritten; only a second failure, of
\* create_backup's own undo, leaves it missing, and then the backup is what it was.
THEOREM RaisedCallsDoAllOrNothing ==
  ASSUME OneCaller, HandledFailures, RestoreOnce
  PROVE  Spec => AllOrNothing
<1> DEFINE Step(w) ==
      pc[w] # "idle" /\ pc'[w] = "idle" /\ outcome'[w] = "raised" =>
        \/ ContentOf(dir.target)' \in {found[w], data[w]}
        \/ failures' > 1 /\ op[w] = "create_backup" /\ dir'.target = None
                         /\ ContentOf(dir.backup)' = found[w]
<1>1. Init => TypeOK /\ NamesInv /\ StageInv
  BY InitType, StageInit
<1>2. TypeOK /\ NamesInv /\ StageInv /\ [Next]_vars => (TypeOK /\ NamesInv /\ StageInv)'
  BY NextType, NamesNext, StageNext
<1>3. TypeOK /\ StageInv /\ [Next]_vars => [\A w \in Writers : Step(w)]_vars
  BY RaisedStep
<1> QED BY <1>1, <1>2, <1>3, PTL DEF Spec, AllOrNothing

-----------------------------------------------------------------------------
(***************************************************************************)
(* One caller of any of the writers: what a call that returns has done.    *)
(***************************************************************************)
\* Where the old and the new content of a call are that has met no exception.
RunningReady(w) ==
  /\ pc[w] \in {"backup_check", "backup"} => op[w] = "create_backup"
  /\ pc[w] \in {"save_rollback", "copy_open", "copy_fill", "copy_fsync", "unlink_rollback"} =>
       op[w] = "copy_back"
  /\ pc[w] = "commit" => op[w] # "copy_back"
  /\ pc[w] \in {"check", "create", "fill", "fsync", "backup_check", "backup"} =>
       /\ ContentOf(dir.target) = found[w]
       /\ solid[w] => dir.target # None /\ synced[dir.target]
  /\ pc[w] \in {"fill", "fsync"} => Temp(w) # None /\ handle[w] = Temp(w)
  /\ pc[w] = "fsync" => content[handle[w]] = data[w]
  /\ pc[w] \in {"backup_check", "backup", "commit", "save_rollback", "copy_open", "copy_fill"} =>
       Temp(w) # None /\ content[Temp(w)] = data[w] /\ synced[Temp(w)]
  /\ pc[w] = "commit" /\ op[w] = "create_backup" =>
       /\ dir.backup # None /\ content[dir.backup] = found[w]
       /\ solid[w] => synced[dir.backup]
  /\ pc[w] \in {"copy_fill", "copy_fsync"} => dir.target # None /\ handle[w] = dir.target
  /\ pc[w] = "copy_fsync" => content[handle[w]] = data[w]
  /\ pc[w] \in {"utime", "sync_dir"} => DoneIn(w, dir)
  /\ pc[w] \in {"unlink_temp", "unlink_rollback"} => \A s \in snaps : DoneIn(w, s)

DurableReady(w) ==
  /\ pc[w] \in {"undo", "restore_open", "restore_fill", "restore_sync"} =>
       outcome[w] = "raised"
  /\ pc[w] # "idle" => outcome[w] \in {"running", "raised"}
  /\ calls > 0 => op[w] \in Ops
  /\ outcome[w] = "running" => RunningReady(w)
  /\ pc[w] = "idle" /\ outcome[w] = "ok" /\ calls > 0 => \A s \in snaps : DoneIn(w, s)
DurableInv == \A w \in Writers : DurableReady(w)

LEMMA DurableInit == Init => DurableInv
BY DEF Init, DurableInv, DurableReady

\* A call that has met an exception promises nothing.
LEMMA RaisedPromisesNothing ==
  ASSUME NEW w \in Writers, outcome'[w] = "raised", DurableReady(w), op' = op, calls' = calls
  PROVE  DurableReady(w)'
BY DEF DurableReady

\* The steps that make the new file, or the copies of copy_back.
LEMMA FillDurable ==
  ASSUME TypeOK, NEW w \in Writers, NamesReady(w), RunningReady(w), UNCHANGED args,
         \/ OpenTemp(w) \/ FillTemp(w) \/ SyncTemp(w)
         \/ SaveRollback(w) \/ OpenTarget(w) \/ FillTarget(w) \/ SyncTarget(w)
  PROVE  RunningReady(w)'
<1>0. /\ op' = op /\ data' = data /\ found' = found /\ solid' = solid
      /\ PidOf[w] \in Pids /\ dir \in Directory /\ dir \in snaps /\ OwnFiles(dir, PidOf[w])
  BY ConstantsAssumption DEF args, TypeOK, NamesReady
<1>1. CASE OpenTemp(w)
  <2> DEFINE i == Create(Temp(w))
  <2>1. i \in Inodes /\ i # dir.target
    <3>1. CASE Temp(w) = None
      BY <1>0, <1>1, <3>1, FreshFile DEF OpenTemp
    <3>2. CASE Temp(w) # None
      BY <1>0, <3>2 DEF OwnFiles, Create, Temp, Directory, Entry
    <3> QED BY <3>1, <3>2
  <2>2. /\ pc[w] = "create" /\ pc'[w] = "fill" /\ content' = [content EXCEPT ![i] = Torn]
        /\ synced' = [synced EXCEPT ![i] = FALSE] /\ handle'[w] = i
    BY <1>1 DEF OpenTemp, Goto, Open, Fill, TypeOK
  <2>3. dir'.target = dir.target /\ Temp(w)' = i
    BY <1>1, Linked DEF Temp
  <2> HIDE DEF i
  <2>4. /\ ContentOf(dir.target)' = ContentOf(dir.target) /\ i # None
        /\ dir.target # None => synced'[dir'.target] = synced[dir.target]
    BY <1>0, <2>1, <2>2, <2>3, ConstantsAssumption DEF ContentOf, TypeOK, Directory, Entry
  <2> QED BY <1>0, <2>2, <2>3, <2>4 DEF RunningReady
<1>2. CASE FillTemp(w)
  <2> DEFINE i == handle[w]
  <2>1. pc[w] = "fill" /\ i = dir.temp[PidOf[w]] /\ i # None /\ i \in Inodes /\ i # dir.target
    BY <1>0, <1>2 DEF FillTemp, RunningReady, Temp, OwnFiles, Directory, Entry
  <2>2. /\ pc'[w] = "fsync" /\ dir' = dir /\ content' = [content EXCEPT ![i] = data[w]]
        /\ synced' = [synced EXCEPT ![i] = FALSE] /\ handle' = handle
    BY <1>2 DEF FillTemp, Fill, Goto, TypeOK
  <2>3. /\ ContentOf(dir.target)' = ContentOf(dir.target) /\ content'[i] = data[w]
        /\ dir.target # None => synced'[dir.target] = synced[dir.target]
    BY <1>0, <2>1, <2>2 DEF ContentOf, TypeOK, Directory, Entry
  <2> QED BY <1>0, <2>1, <2>2, <2>3 DEF RunningReady, Temp
<1>3. CASE SyncTemp(w)
  <2>1. /\ pc[w] = "fsync" /\ handle[w] = dir.temp[PidOf[w]] /\ handle[w] # None
        /\ handle[w] \in Inodes
    BY <1>0, <1>3 DEF SyncTemp, RunningReady, Temp, Directory, Entry
  <2>2. /\ dir' = dir /\ content' = content /\ synced'[handle[w]]
        /\ dir.target # None /\ synced[dir.target] => synced'[dir.target]
        /\ \/ op[w] = "create_backup" /\ pc'[w] = "backup_check"
           \/ op[w] = "copy_back" /\ pc'[w] = "save_rollback"
           \/ op[w] \notin {"create_backup", "copy_back"} /\ pc'[w] = "commit"
    BY <1>0, <1>3, <2>1 DEF SyncTemp, Fsync, Goto, TypeOK, Directory, Entry
  <2> QED BY <1>0, <2>1, <2>2 DEF RunningReady, ContentOf, Temp
<1>4. CASE SaveRollback(w)
  <2> DEFINE i == Create(Rollback(w))
  <2>1. i \in Inodes /\ i # dir.temp[PidOf[w]]
    <3>1. CASE Rollback(w) = None
      BY <1>0, <1>4, <3>1, FreshFile DEF SaveRollback
    <3>2. CASE Rollback(w) # None
      BY <1>0, <3>2 DEF OwnFiles, Create, Rollback, Directory, Entry
    <3> QED BY <3>1, <3>2
  <2>2. /\ pc[w] = "save_rollback" /\ pc'[w] = "copy_open"
        /\ content' = [content EXCEPT ![i] = content[dir.target]]
        /\ synced' = [synced EXCEPT ![i] = FALSE]
    BY <1>4 DEF SaveRollback, Goto, Fill, TypeOK
  <2>3. Temp(w)' = Temp(w)
    BY <1>4, Linked DEF Temp
  <2> HIDE DEF i
  <2>4. Temp(w) # None =>
          content'[Temp(w)] = content[Temp(w)] /\ synced'[Temp(w)] = synced[Temp(w)]
    BY <1>0, <2>1, <2>2 DEF Temp, TypeOK, Directory, Entry
  <2> QED BY <1>0, <2>2, <2>3, <2>4 DEF RunningReady
<1>5. CASE OpenTarget(w)
  <2>1. /\ pc[w] = "copy_open" /\ pc'[w] = "copy_fill" /\ dir' = dir /\ handle'[w] = dir.target
        /\ content' = [content EXCEPT ![dir.target] = Torn] /\ dir.target # None
        /\ synced' = [synced EXCEPT ![dir.target] = FALSE]
    BY <1>5 DEF OpenTarget, Goto, Open, Fill, TypeOK
  <2>2. Temp(w) # None =>
          content'[Temp(w)] = content[Temp(w)] /\ synced'[Temp(w)] = synced[Temp(w)]
    BY <1>0, <2>1 DEF Temp, TypeOK, OwnFiles, Directory, Entry
  <2> QED BY <1>0, <2>1, <2>2 DEF RunningReady, Temp
<1>6. CASE FillTarget(w)
  <2>1. /\ pc[w] = "copy_fill" /\ pc'[w] = "copy_fsync" /\ dir' = dir /\ handle' = handle
        /\ content' = [content EXCEPT ![handle[w]] = data[w]]
    BY <1>6 DEF FillTarget, Goto, Fill, TypeOK, RunningReady
  <2>2. handle[w] = dir.target /\ dir.target # None /\ dir.target \in Inodes
    BY <1>0, <2>1 DEF RunningReady, Directory, Entry
  <2>3. content'[handle[w]] = data[w]
    BY <2>1, <2>2 DEF TypeOK
  <2> QED BY <1>0, <2>1, <2>2, <2>3 DEF RunningReady
<1>7. CASE SyncTarget(w)
  <2>1. pc[w] = "copy_fsync" /\ pc'[w] = "utime" /\ dir' = dir /\ content' = content
    BY <1>7 DEF SyncTarget, Goto, Fsync, TypeOK
  <2>2. handle[w] = dir.target /\ dir.target # None /\ dir.target \in Inodes
    BY <1>0, <2>1 DEF RunningReady, Directory, Entry
  <2>3. synced'[dir.target]
    BY <1>7, <2>2 DEF SyncTarget, Fsync, TypeOK
  <2> QED BY <1>0, <2>1, <2>2, <2>3 DEF RunningReady, DoneIn
<1> QED BY <1>1, <1>2, <1>3, <1>4, <1>5, <1>6, <1>7

\* The steps that change no file.
LEMMA RenameDurable ==
  ASSUME TypeOK, NEW w \in Writers, NamesReady(w), RunningReady(w), UNCHANGED args,
         outcome[w] = "running",
         \/ Check(w) \/ CheckBackup(w) \/ MoveToBackup(w) \/ Commit(w) \/ Utime(w)
         \/ (SyncDir(w) /\ pc[w] = "sync_dir") \/ UnlinkTemp(w) \/ UnlinkRollback(w)
  PROVE  \/ outcome'[w] = "raised"
         \/ /\ outcome'[w] = "running" /\ pc'[w] # "idle" /\ RunningReady(w)'
            /\ pc'[w] \notin {"undo", "restore_open", "restore_fill", "restore_sync"}
         \/ pc'[w] = "idle" /\ outcome'[w] = "ok" /\ \A s \in snaps' : DoneIn(w, s)'
<1>0. /\ op' = op /\ data' = data /\ found' = found /\ solid' = solid
      /\ content' = content /\ synced' = synced /\ dir \in snaps
  BY DEF args, Check, CheckBackup, MoveToBackup, Commit, Utime, SyncDir, UnlinkTemp,
         UnlinkRollback, Raise, disk, NamesReady
<1>1. CASE Check(w)
  <2>1. pc[w] = "check" /\ pc'[w] = "create" /\ dir' = dir /\ outcome' = outcome
    BY <1>1 DEF Check, Goto, disk, TypeOK
  <2> QED BY <1>0, <2>1 DEF RunningReady, ContentOf
<1>2. CASE CheckBackup(w)
  <2>1. CASE dir.backup = None /\ Goto(w, "backup") /\ UNCHANGED <<disk, handle>>
    <3>1. pc[w] = "backup_check" /\ pc'[w] = "backup" /\ dir' = dir /\ outcome' = outcome
      BY <1>2, <2>1 DEF CheckBackup, Goto, disk, TypeOK
    <3> QED BY <1>0, <3>1 DEF RunningReady, ContentOf, Temp
  <2>2. CASE Raise(w, "unlink_temp")
    BY <2>2 DEF Raise, TypeOK
  <2> QED BY <1>2, <2>1, <2>2 DEF CheckBackup
<1>3. CASE MoveToBackup(w)
  <2>1. pc[w] = "backup" /\ pc'[w] = "commit" /\ dir.target # None /\ outcome' = outcome
    BY <1>3 DEF MoveToBackup, Goto, TypeOK
  <2>2. dir'.target = None /\ dir'.backup = dir.target /\ Temp(w)' = Temp(w)
    BY <1>3, Linked DEF Temp
  <2> QED BY <1>0, <2>1, <2>2 DEF RunningReady, ContentOf
<1>4. CASE Commit(w)
  <2>1. /\ pc[w] = "commit" /\ pc'[w] \in {"sync_dir", "utime"} /\ Temp(w) # None
        /\ outcome' = outcome
    BY <1>4 DEF Commit, Goto, TypeOK
  <2>2. dir'.target = Temp(w) /\ dir'.backup = dir.backup
    BY <1>4, Linked
  <2> QED BY <1>0, <2>1, <2>2 DEF RunningReady, DoneIn
<1>5. CASE Utime(w)
  <2>1. pc[w] = "utime" /\ pc'[w] = "sync_dir" /\ dir' = dir /\ outcome' = outcome
    BY <1>5 DEF Utime, Goto, disk, TypeOK
  <2> QED BY <1>0, <2>1 DEF RunningReady, DoneIn
<1>6. CASE SyncDir(w) /\ pc[w] = "sync_dir"
  <2>1. /\ pc[w] = "sync_dir" /\ pc'[w] = "unlink_temp" /\ dir' = dir /\ snaps' = {dir}
        /\ outcome' = outcome
    BY <1>6 DEF SyncDir, Goto, TypeOK
  <2> QED BY <1>0, <2>1 DEF RunningReady, DoneIn
<1>7. CASE UnlinkTemp(w) \/ UnlinkRollback(w)
  <2>1. /\ pc[w] \in {"unlink_temp", "unlink_rollback"}
        /\ \/ pc'[w] = "idle" /\ outcome'[w] = "ok"
           \/ pc'[w] = "unlink_rollback" /\ op[w] = "copy_back" /\ outcome' = outcome
    BY <1>7 DEF UnlinkTemp, UnlinkRollback, Goto, Finish, TypeOK
  <2>2. dir'.target = dir.target /\ dir'.backup = dir.backup /\ snaps' = snaps \cup {dir'}
    BY <1>7, Linked DEF UnlinkTemp, UnlinkRollback, Relink
  <2>3. \A s \in snaps : DoneIn(w, s)
    BY <2>1 DEF RunningReady
  <2>4. \A s \in snaps' : DoneIn(w, s)'
    BY <1>0, <2>2, <2>3 DEF DoneIn
  <2> QED BY <1>0, <2>1, <2>4 DEF RunningReady
<1> QED BY <1>1, <1>2, <1>3, <1>4, <1>5, <1>6, <1>7

LEMMA SystemCallDurable ==
  ASSUME TypeOK, NEW w \in Writers, NamesReady(w), DurableReady(w), SystemCall(w)
  PROVE  DurableReady(w)'
<1>0. op' = op /\ calls' = calls /\ UNCHANGED args
  BY DEF SystemCall, args
<1>1. pc[w] # "idle"
  BY DEF SystemCall, Check, NotFound, Needed, OpenTemp, FillTemp, SyncTemp,
         CheckBackup, MoveToBackup, Commit, UndoBackup, SaveRollback, OpenTarget,
         FillTarget, SyncTarget, RestoreOpen, RestoreFill, Utime, SyncDir, UnlinkTemp,
         UnlinkRollback
<1>2. CASE outcome[w] = "raised"
  <2>1. outcome'[w] = "raised"
    BY <1>2 DEF SystemCall, Check, NotFound, OpenTemp, FillTemp, SyncTemp, CheckBackup,
         MoveToBackup, Commit, UndoBackup, SaveRollback, OpenTarget, FillTarget, SyncTarget,
         RestoreOpen, RestoreFill, Utime, SyncDir, UnlinkTemp, UnlinkRollback, Goto, Finish,
         Raise, TypeOK
  <2> QED BY <1>0, <2>1, RaisedPromisesNothing
<1>3. CASE outcome[w] = "running"
  <2>0. RunningReady(w)
    BY <1>3 DEF DurableReady
  <2>1. CASE NotFound(w)
    <3>1. outcome'[w] = "raised"
      BY <2>1 DEF NotFound, Raise, TypeOK
    <3> QED BY <1>0, <3>1, RaisedPromisesNothing
  <2>2. CASE UndoBackup(w) \/ RestoreOpen(w) \/ RestoreFill(w)
    BY <1>3, <2>2 DEF DurableReady, UndoBackup, RestoreOpen, RestoreFill
  <2>3. CASE \/ OpenTemp(w) \/ FillTemp(w) \/ SyncTemp(w)
             \/ SaveRollback(w) \/ OpenTarget(w) \/ FillTarget(w) \/ SyncTarget(w)
    <3>1. /\ outcome' = outcome /\ pc'[w] # "idle"
          /\ pc'[w] \notin {"undo", "restore_open", "restore_fill", "restore_sync"}
      BY <2>3 DEF OpenTemp, FillTemp, SyncTemp, SaveRollback, OpenTarget, FillTarget,
                  SyncTarget, Goto, TypeOK
    <3>2. RunningReady(w)'
      BY <1>0, <2>0, <2>3, FillDurable
    <3> QED BY <1>0, <1>3, <3>1, <3>2 DEF DurableReady
  <2>4. CASE \/ Check(w) \/ CheckBackup(w) \/ MoveToBackup(w) \/ Commit(w) \/ Utime(w)
             \/ SyncDir(w) \/ UnlinkTemp(w) \/ UnlinkRollback(w)
    <3>1. pc[w] # "restore_sync"
      BY <1>3 DEF DurableReady
    <3>2. SyncDir(w) => pc[w] = "sync_dir"
      BY <3>1 DEF SyncDir
    <3>3. \/ outcome'[w] = "raised"
          \/ /\ outcome'[w] = "running" /\ pc'[w] # "idle" /\ RunningReady(w)'
             /\ pc'[w] \notin {"undo", "restore_open", "restore_fill", "restore_sync"}
          \/ pc'[w] = "idle" /\ outcome'[w] = "ok" /\ \A s \in snaps' : DoneIn(w, s)'
      BY <1>0, <1>3, <2>0, <2>4, <3>2, RenameDurable
    <3> QED BY <1>0, <3>3, RaisedPromisesNothing DEF DurableReady
  <2> QED BY <2>1, <2>2, <2>3, <2>4 DEF SystemCall
<1> QED BY <1>1, <1>2, <1>3 DEF DurableReady

\* A power loss takes nothing from a call that has returned.
LEMMA PowerLossDurable ==
  ASSUME TypeOK, NEW w \in Writers, DurableReady(w), PowerLoss
  PROVE  DurableReady(w)'
<1>1. PICK s \in snaps : dir' = s /\ snaps' = {s}
  BY DEF PowerLoss
<1>2. /\ pc'[w] = "idle" /\ op' = op /\ data' = data /\ found' = found /\ solid' = solid
      /\ calls' = calls /\ (outcome'[w] = "ok" => pc[w] = "idle" /\ outcome[w] = "ok")
  BY DEF PowerLoss, args
<1>3. \A e \in Inodes : /\ synced'[e] /\ (synced[e] => content'[e] = content[e])
                        /\ content'[e] \in {content[e], Torn}
  BY DEF PowerLoss
<1>4. s.target \in Entry /\ s.backup \in Entry
  BY DEF TypeOK, Directory
<1>5. ASSUME outcome'[w] = "ok", calls > 0 PROVE DoneIn(w, s)'
  <2>1. DoneIn(w, s)
    BY <1>2, <1>5 DEF DurableReady
  <2>2. content'[s.target] = data[w] /\ synced'[s.target] /\ s.target # None
    BY <1>3, <1>4, <2>1 DEF DoneIn, Entry
  <2>3. ASSUME op[w] = "create_backup"
        PROVE  /\ s.backup # None /\ synced'[s.backup]
               /\ content'[s.backup] \in {found[w]} \cup (IF solid[w] THEN {} ELSE {Torn})
    BY <1>3, <1>4, <2>1, <2>3 DEF DoneIn, Entry
  <2> QED BY <1>2, <2>2, <2>3 DEF DoneIn
<1>6. calls > 0 => op[w] \in Ops
  BY DEF DurableReady
<1> QED BY <1>1, <1>2, <1>5, <1>6 DEF DurableReady, RunningReady

LEMMA DurableNext ==
  ASSUME TypeOK, NamesInv, DurableInv, OneCaller, [Next]_vars
  PROVE  DurableInv'
<1>1. CASE UNCHANGED vars
  BY <1>1 DEF vars, DurableInv, DurableReady, RunningReady, DoneIn, ContentOf, Temp
<1>2. ASSUME NEW w \in Writers, DurableReady(w)' PROVE DurableInv'
  BY <1>2 DEF OneCaller, DurableInv
<1>3. CASE PowerLoss
  BY <1>3, PowerLossDurable DEF DurableInv
<1>4. ASSUME NEW p \in Pids, Killed(p) PROVE DurableInv'
  <2>1. PICK w \in Writers : PidOf[w] = p /\ pc[w] # "idle"
    BY <1>4 DEF Killed
  <2>2. pc'[w] = "idle" /\ outcome'[w] = "killed" /\ op' = op /\ calls' = calls
    BY <1>4, <2>1 DEF Killed, args
  <2> QED BY <1>2, <2>2 DEF DurableInv, DurableReady
<1>5. ASSUME NEW w \in Writers, Begin(w) PROVE DurableInv'
  <2>1. /\ pc'[w] = "check" /\ outcome'[w] = "running" /\ dir' = dir /\ content' = content
        /\ found'[w] = ContentOf(dir.target) /\ op'[w] \in Ops
        /\ synced' = synced /\ solid'[w] = (dir.target # None /\ synced[dir.target])
    BY <1>5 DEF Begin, disk, TypeOK
  <2>2. RunningReady(w)'
    BY <2>1 DEF RunningReady, ContentOf
  <2> QED BY <1>2, <2>1, <2>2 DEF DurableReady
<1>6. ASSUME NEW w \in Writers, SystemCall(w) PROVE DurableInv'
  BY <1>2, <1>6, SystemCallDurable DEF NamesInv, DurableInv
<1>7. ASSUME NEW w \in Writers, Fails(w) \/ Interrupted(w) PROVE DurableInv'
  <2>1. outcome'[w] = "raised" /\ op' = op /\ calls' = calls
    BY <1>7 DEF Fails, Interrupted, Raise, args, TypeOK
  <2> QED BY <1>2, <2>1, RaisedPromisesNothing DEF DurableInv
<1> QED BY <1>1, <1>3, <1>4, <1>5, <1>6, <1>7 DEF Next

\* A caller that works alone on a target, with any of the writers, through any
\* earlier calls and failures: when its call returns, no power loss brings back the
\* old content, and the backup of create_backup holds what the call found, on disk if
\* that was (write_bytes_transactionally and its two siblings).
THEOREM OkAlwaysDurable ==
  ASSUME OneCaller
  PROVE  Spec => []OkIsDurable
<1> DEFINE Inv == TypeOK /\ NamesInv /\ DurableInv
<1>1. Init => Inv
  BY InitType, StageInit, DurableInit
<1>2. Inv /\ [Next]_vars => Inv'
  BY NextType, NamesNext, DurableNext
<1>3. Inv => OkIsDurable
  BY DEF DurableInv, DurableReady, OkIsDurable
<1> QED BY <1>1, <1>2, <1>3, PTL DEF Spec
=============================================================================
