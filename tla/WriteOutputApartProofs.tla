------------------------ MODULE WriteOutputApartProofs ------------------------
(***************************************************************************)
(* WriteOutput for any processes, paths, requests and faults: what holds   *)
(* where no process writes where another one reads or writes with -o.      *)
(*                                                                         *)
(* The names of a template are then out of the others' reach, so that what *)
(* routing found is still so when a file is written (NamesInv).  It        *)
(* follows that an -o write does not undo another of the same process, and *)
(* that a copy is there before its source is erased (KeepInv).  EditInv is *)
(* for the in-place writes, which skip a file that has their edit.         *)
(***************************************************************************)
EXTENDS WriteOutputProofs, TLAPS

\* Where other processes keep away, a file with a name of p's template was there at
\* first or is p's own.
OwnNames(p) ==
  \A n \in OutputNames(p) :
    /\ Exists(n) => n \in Existing \cup wrote[p]
    /\ stage[p] \in {"start", "plan"} /\ n \in Existing => Exists(n)

\* What routing made sure of still holds: nobody else can have changed it.
Routable(p) ==
  Expansions(request[p]) # {} /\ MayRoute(request[p], EffectivePaths(request[p]))
StillRoutable(p) == stage[p] = "plan" /\ ToFiles(p) => Routable(p)

Targets(p) ==
  /\ \A i \in DOMAIN outputs[p] :
       outputs[p][i] \in OutputNames(p) \ Existing /\ outputs[p][i] # Sources(p)[i]
  /\ request[p].tokens =>
       \A i, j \in DOMAIN outputs[p] : outputs[p][i] = outputs[p][j] => i = j
  /\ Literal(p) /\ stage[p] \in {"read", "write"} => ~Exists(outputs[p][current[p]])
  /\ ~InPlace(p) /\ ~Literal(p) /\ stage[p] = "write" =>
       \A q \in wrote[p] : \E j \in 1..(current[p] - 1) : q = outputs[p][j]

NotOver(p) == overwrote[p] => OverwritesItself(p)

Names(p) == OwnNames(p) /\ StillRoutable(p) /\ Targets(p) /\ NotOver(p)
NamesInv == Apart => \A p \in Procs : Names(p)

\* A step changes the file at the source it is at, or at the path it writes.
LEMMA Touched ==
  ASSUME LocalInv, NEW p \in Procs, Process(p) \/ Kill(p), NEW n \in Paths, fs'[n] # fs[n]
  PROVE  n = source(p) \/ (n = outputs[p][current[p]] /\ stage[p] = "write" /\ ~InPlace(p))
<1> USE DEF LocalInv, TypeOK
<1>1. CASE Classify(p) \/ Plan(p) \/ CheckTarget(p) \/ ReadSource(p) \/ ReadFails(p) \/ EmitBytes(p)
           \/ ReadInPlace(p) \/ Kill(p)
  BY <1>1 DEF Classify, Plan, CheckTarget, ReadSource, ReadFails, EmitBytes, ReadInPlace, Kill
<1>2. CASE WriteOutput(p) \/ WriteFails(p)
  BY <1>2 DEF WriteOutput, WriteFails, Put
<1>3. CASE EraseSource(p)
  BY <1>3 DEF EraseSource
<1>4. CASE WriteInPlace(p) \/ FailInPlace(p)
  BY <1>4 DEF WriteInPlace, FailInPlace, Put
<1> QED
  BY <1>1, <1>2, <1>3, <1>4 DEF Process

\* What is written stays so.
LEMMA WroteGrows ==
  ASSUME LocalInv, NEW p \in Procs, Process(p) \/ Kill(p)
  PROVE  \A q \in Procs : wrote[q] \subseteq wrote'[q]
<1>1. CASE Classify(p) \/ Plan(p) \/ CheckTarget(p) \/ ReadSource(p) \/ ReadFails(p) \/ EraseSource(p)
           \/ EmitBytes(p) \/ ReadInPlace(p) \/ Kill(p)
  BY <1>1 DEF Classify, Plan, CheckTarget, ReadSource, ReadFails, EraseSource, EmitBytes, ReadInPlace,
     Kill, result
<1>2. CASE WriteOutput(p) \/ WriteFails(p) \/ WriteInPlace(p) \/ FailInPlace(p)
  <2>1. wrote' = wrote \/ \E q : wrote' = [wrote EXCEPT ![p] = wrote[p] \cup {q}]
    BY <1>2 DEF WriteOutput, WriteFails, WriteInPlace, FailInPlace, Put
  <2> QED
    BY <2>1 DEF LocalInv, TypeOK
<1> QED
  BY <1>1, <1>2 DEF Process

\* Names are paths.
LEMMA NamesArePaths ==
  ASSUME TypeOK, NEW p \in Procs
  PROVE  OutputNames(p) \subseteq Paths
<1> SUFFICES ASSUME NEW n \in OutputNames(p) PROVE n \in Paths
  OBVIOUS
<1>1. PICK q \in Range(Sources(p)) : n \in Range(request[p].names[q])
  BY DEF OutputNames
<1>2. q \in Paths /\ request[p].names[q] \in Seq(Paths)
  <2>1. Range(Sources(p)) \subseteq Paths
    BY RequestFacts DEF Range
  <2> QED
    BY <2>1, RequestFacts DEF Request
<1> QED
  BY <1>1, <1>2 DEF Range

\* What a template gives for a source is one of the names.
LEMMA NameOfTemplate ==
  ASSUME TypeOK, NEW p \in Procs, ToFiles(p), NEW i \in DOMAIN Sources(p),
         NEW n \in Range(request[p].names[Sources(p)[i]])
  PROVE  n \in OutputNames(p)
<1>1. Sources(p)[i] \in Range(Sources(p))
  BY DEF Range
<1> QED
  BY <1>1 DEF OutputNames, ToFiles

\* The names of one process's template are out of the others' reach.
LEMMA OutOfReach ==
  ASSUME LocalInv, Apart, NEW p \in Procs, NEW q \in Procs \ {p}, Targets(p), Process(p) \/ Kill(p),
         NEW n \in OutputNames(q)
  PROVE  fs'[n] = fs[n]
<1>1. n \in Paths /\ n \notin Range(Sources(p)) /\ n \notin OutputNames(p)
  BY NamesArePaths DEF LocalInv, Apart
<1>2. source(p) \in Range(Sources(p))
  BY RequestFacts DEF LocalInv, Range, source
<1>3. stage[p] = "write" /\ ~InPlace(p) => outputs[p][current[p]] \in OutputNames(p)
  BY WriteReady DEF Targets
<1> QED
  BY <1>1, <1>2, <1>3, Touched

\* Routing decides the same while the names of the template stay as they are.
LEMMA RouteKept ==
  ASSUME TypeOK, NEW p \in Procs, ToFiles(p), request' = request,
         \A n \in OutputNames(p) : fs'[n] = fs[n]
  PROVE  Routable(p) => Routable(p)'
<1> DEFINE r == request[p]
           c(i) == r.names[r.sources[i]]
<1>1. \A i \in DOMAIN r.sources : \A k \in DOMAIN c(i) : c(i)[k] \in OutputNames(p)
  BY DEF ToFiles, OutputNames, Range, Sources
<1>2. \A i \in DOMAIN r.sources : c(i) \in Seq(Paths)
  BY RequestFacts DEF Request, Sources
<1>3. ASSUME NEW i \in DOMAIN r.sources, NEW reserved, NEW q
      PROVE  NextUnused(q, c(i), reserved)' <=> NextUnused(q, c(i), reserved)
  <2>1. \A k \in DOMAIN c(i) : fs'[c(i)[k]] = fs[c(i)[k]]
    BY <1>1
  <2>2. \A k \in DOMAIN c(i) : \A l \in 1..(k - 1) : l \in DOMAIN c(i)
    BY <1>2
  <2>3. c(i)' = c(i)
    OBVIOUS
  <2> HIDE DEF c
  <2> QED
    BY <2>1, <2>2, <2>3 DEF NextUnused, Taken, Exists
<1>4. Expansions(r)' = Expansions(r)
  <2>1. \A i \in DOMAIN r.sources : \A reserved, q :
          NextUnused(q, c(i), reserved)' <=> NextUnused(q, c(i), reserved)
    BY <1>3
  <2> QED
    BY <2>1 DEF Expansions
<1>5. EffectivePaths(r)' = EffectivePaths(r)
  BY <1>4 DEF EffectivePaths
<1>6. ASSUME Expansions(r) # {}, MayRoute(r, EffectivePaths(r))
      PROVE  MayRoute(r, EffectivePaths(r))'
  <2>1. PICK t : t = EffectivePaths(r)
    OBVIOUS
  <2>2. \A i \in DOMAIN t : t[i] \in OutputNames(p)
    BY <1>6, <2>1, TemplatePaths, NameOfTemplate
  <2>3. \A i \in DOMAIN t : Exists(t[i])' <=> Exists(t[i])
    BY <2>2 DEF Exists
  <2>4. r' = r /\ EffectivePaths(r)' = t
    BY <1>5, <2>1
  <2>5. MayRoute(r, t)
    BY <1>6, <2>1
  <2> HIDE DEF r
  <2>6. \A i \in DOMAIN t : ~Exists(t[i])' /\ t[i] # r.sources[i]
    BY <2>3, <2>5 DEF MayRoute
  <2> QED
    BY <2>4, <2>5, <2>6 DEF MayRoute
<1> QED
  BY <1>4, <1>6 DEF Routable

\* Where the others keep away, their steps change nothing that Names says of q.
LEMMA NamesOfOthers ==
  ASSUME LocalInv, Apart, NEW p \in Procs, NEW q \in Procs \ {p}, Targets(p), Process(p) \/ Kill(p),
         Names(q)
  PROVE  Names(q)'
<1>1. /\ request' = request /\ stage'[q] = stage[q] /\ current'[q] = current[q]
      /\ outputs'[q] = outputs[q] /\ wrote'[q] = wrote[q] /\ overwrote'[q] = overwrote[q]
  BY Alone DEF LocalInv
<1>2. \A n \in OutputNames(q) : fs'[n] = fs[n]
  BY OutOfReach
<1>3. OwnNames(q)'
  BY <1>1, <1>2, RequestKept DEF Names, OwnNames, Exists
<1>4. StillRoutable(q)'
  <2>1. CASE ToFiles(q)
    BY <1>1, <1>2, <2>1, RouteKept DEF Names, LocalInv, StillRoutable
  <2>2. CASE ~ToFiles(q)
    BY <1>1, <2>2, RequestKept DEF StillRoutable
  <2> QED
    BY <2>1, <2>2
<1>5. Targets(q)'
  <2>1. /\ Sources(q)' = Sources(q) /\ OutputNames(q)' = OutputNames(q)
        /\ (Literal(q)' <=> Literal(q)) /\ (InPlace(q)' <=> InPlace(q))
    BY <1>1, RequestKept
  <2>2. ASSUME Literal(q), stage[q] \in {"read", "write"}
        PROVE  ~Exists(outputs[q][current[q]])'
    <3>1. Local(q) /\ current[q] \in DOMAIN Sources(q) /\ ToFiles(q)
      BY <2>2, RequestFacts DEF LocalInv, Literal, ToFiles, InPlace
    <3>2. current[q] \in DOMAIN outputs[q]
      BY <2>2, <3>1 DEF Local, Supplied
    <3> QED
      BY <1>1, <1>2, <2>2, <3>2 DEF Names, Targets, Exists
  <2> QED
    BY <1>1, <2>1, <2>2 DEF Names, Targets
<1>6. NotOver(q)'
  BY <1>1, RequestKept DEF Names, NotOver
<1> QED
  BY <1>3, <1>4, <1>5, <1>6 DEF Names

\* A path that is written next is free: -o overwrites only what it has written itself.
LEMMA FreshTarget ==
  ASSUME LocalInv, NEW p \in Procs, OwnNames(p), Targets(p), stage[p] = "write", ~InPlace(p),
         ~OverwritesItself(p)
  PROVE  ~Exists(outputs[p][current[p]])
<1> SUFFICES ASSUME Exists(outputs[p][current[p]]) PROVE FALSE
  OBVIOUS
<1>1. current[p] \in DOMAIN outputs[p] /\ ToFiles(p) /\ Local(p)
  BY WriteReady DEF LocalInv
<1>2. outputs[p][current[p]] \in wrote[p] /\ ~Literal(p)
  BY <1>1 DEF OwnNames, Targets
<1>3. PICK j \in 1..(current[p] - 1) : outputs[p][j] = outputs[p][current[p]]
  BY <1>2 DEF Targets
<1>4. /\ DOMAIN outputs[p] = 1..Len(Sources(p)) /\ Len(Sources(p)) \in Nat
      /\ current[p] \in 1..Len(Sources(p)) /\ request[p].route \in Routes
  BY <1>1, RequestFacts DEF LocalInv, Local, Supplied
<1>5. j \in DOMAIN outputs[p] /\ j # current[p] /\ Len(Sources(p)) > 1
  BY <1>4
<1>6. ~request[p].tokens
  BY <1>1, <1>3, <1>5 DEF Targets
<1>7. request[p].route \in {"rewrite", "extract", "sidecar"}
  BY <1>4 DEF Routes, InPlace
<1> QED
  BY <1>1, <1>2, <1>5, <1>6, <1>7 DEF OverwritesItself, Literal, ToFiles

\* A new file with a name of p's template is one that p writes.
LEMMA OwnNamesKept ==
  ASSUME LocalInv, NEW p \in Procs, OwnNames(p), Process(p) \/ Kill(p)
  PROVE  OwnNames(p)'
<1>1. request' = request /\ OutputNames(p)' = OutputNames(p) /\ OutputNames(p) \subseteq Paths
  BY Alone, RequestKept, NamesArePaths DEF LocalInv
<1>2. CASE UNCHANGED <<fs, wrote>> /\ (stage'[p] \in {"start", "plan"} => stage[p] \in {"start", "plan"})
  BY <1>1, <1>2 DEF OwnNames, Exists
<1>3. CASE Classify(p) \/ Plan(p) \/ CheckTarget(p) \/ ReadSource(p) \/ ReadFails(p) \/ EmitBytes(p)
           \/ ReadInPlace(p) \/ Kill(p)
  <2>1. UNCHANGED <<fs, wrote>>
    BY <1>3 DEF Classify, Plan, CheckTarget, ReadSource, ReadFails, EmitBytes, ReadInPlace, Kill, result
  <2>2. stage'[p] \in {"start", "plan"} => stage[p] \in {"start", "plan"}
    BY <1>3 DEF Classify, Plan, CheckTarget, ReadSource, ReadFails, EmitBytes, ReadInPlace, Kill,
       Goto, NextSource, EndOfLoop, LocalInv, TypeOK
  <2> QED
    BY <1>2, <2>1, <2>2
<1>4. CASE WriteOutput(p) \/ WriteFails(p)
  <2> DEFINE q == outputs[p][current[p]]
  <2>1. stage'[p] \in {"write", "erase", "failed"}
    BY <1>4 DEF WriteOutput, WriteFails, Goto, NextSource, LocalInv, TypeOK
  <2>2. CASE Put(p, q, made[p][current[p]])
    <3>1. q \in Paths /\ made[p][current[p]] \in Content
      BY <1>4, WriteReady DEF WriteOutput, WriteFails
    <3>2. wrote'[p] = wrote[p] \cup {q} /\ \A r \in Paths \ {q} : fs'[r] = fs[r]
      BY <2>2, <3>1, PutFacts DEF LocalInv
    <3> QED
      BY <1>1, <2>1, <3>2 DEF OwnNames, Exists
  <2>3. CASE UNCHANGED <<fs, wrote, overwrote>>
    BY <1>2, <2>1, <2>3
  <2> QED
    BY <1>4, <2>2, <2>3 DEF WriteOutput, WriteFails
<1>5. CASE EraseSource(p)
  <2>1. wrote' = wrote /\ stage'[p] \in {"check", "erase", "emit", "ok"}
    BY <1>5 DEF EraseSource, AfterErase, Goto, NextSource, LocalInv, TypeOK, result
  <2>2. \A n \in Paths : fs'[n] = fs[n] \/ fs'[n] = NoFile
    BY <1>5 DEF EraseSource, LocalInv, TypeOK
  <2> QED
    BY <1>1, <2>1, <2>2 DEF OwnNames, Exists
<1>6. CASE WriteInPlace(p) \/ FailInPlace(p)
  BY <1>1, <1>6 DEF WriteInPlace, FailInPlace, OwnNames, OutputNames
<1> QED
  BY <1>3, <1>4, <1>5, <1>6 DEF Process

\* Only routing leads to the plan.
LEMMA StillRoutableKept ==
  ASSUME LocalInv, NEW p \in Procs, Process(p) \/ Kill(p)
  PROVE  StillRoutable(p)'
<1>1. request' = request /\ (ToFiles(p)' <=> ToFiles(p))
  BY Alone, RequestKept DEF LocalInv
<1>2. CASE Classify(p)
  <2>1. CASE ToFiles(p) /\ stage'[p] = "plan"
    <3>1. Routable(p) /\ fs' = fs
      BY <1>2, <2>1 DEF Classify, ToFiles, Routable, Goto, LocalInv, TypeOK
    <3>2. Routable(p)'
      BY <1>1, <2>1, <3>1, RouteKept DEF LocalInv
    <3> QED
      BY <3>2 DEF StillRoutable
  <2>2. CASE ~(ToFiles(p) /\ stage'[p] = "plan")
    BY <1>1, <2>2 DEF StillRoutable
  <2> QED
    BY <2>1, <2>2
<1>3. CASE ~Classify(p)
  <2>1. CASE Plan(p) \/ CheckTarget(p) \/ ReadSource(p) \/ ReadFails(p) \/ EmitBytes(p) \/ ReadInPlace(p) \/ Kill(p)
    <3>1. stage'[p] # "plan"
      BY <2>1 DEF Plan, CheckTarget, ReadSource, ReadFails, EmitBytes, ReadInPlace, Kill,
         Goto, NextSource, EndOfLoop, LocalInv, TypeOK
    <3> QED
      BY <3>1 DEF StillRoutable
  <2>2. CASE WriteOutput(p) \/ WriteFails(p) \/ EraseSource(p) \/ WriteInPlace(p) \/ FailInPlace(p)
    <3>1. stage'[p] # "plan"
      BY <2>2 DEF WriteOutput, WriteFails, EraseSource, AfterErase, WriteInPlace, FailInPlace,
         Goto, NextSource, EndOfLoop, LocalInv, TypeOK
    <3> QED
      BY <3>1 DEF StillRoutable
  <2> QED
    BY <1>3, <2>1, <2>2 DEF Process
<1> QED
  BY <1>2, <1>3

\* What was planned for is in order: free names of the template, and no two the same
\* where the template has tokens.
LEMMA PlanTargets ==
  ASSUME LocalInv, NEW p \in Procs, Names(p), Plan(p)
  PROVE  Targets(p)'
<1>1. /\ request' = request /\ Local(p) /\ stage[p] = "plan" /\ ~InPlace(p) /\ wrote[p] = {} /\ outputs[p] = <<>>
      /\ wrote' = wrote
  BY Alone DEF LocalInv, Plan, Local, StagesOfRoute, Ends, result
<1>2. Literal(p) => stage'[p] = "check"
  BY DEF Plan, Goto, LocalInv, TypeOK
<1>3. CASE request[p].stdout
  <2>1. outputs'[p] = <<>>
    BY <1>1, <1>3 DEF Plan
  <2> QED
    BY <1>1, <1>2, <1>3, <2>1, RequestKept DEF Targets
<1>4. CASE ~request[p].stdout
  <2>1. PICK t : t = EffectivePaths(request[p])
    OBVIOUS
  <2>2. outputs'[p] = t
    BY <1>4, <2>1 DEF Plan, LocalInv, TypeOK
  <2>3. ToFiles(p) /\ Expansions(request[p]) # {} /\ MayRoute(request[p], t)
    BY <1>1, <1>4, <2>1 DEF ToFiles, Names, StillRoutable, Routable
  <2>4. DOMAIN t = DOMAIN Sources(p) /\ \A i \in DOMAIN t : t[i] \in Range(request[p].names[Sources(p)[i]])
    BY <2>1, <2>3, TemplatePaths DEF LocalInv
  <2>5. \A i \in DOMAIN t : t[i] \in OutputNames(p)
    BY <2>3, <2>4, NameOfTemplate DEF LocalInv
  <2>6. \A i \in DOMAIN t : ~Exists(t[i]) /\ t[i] # Sources(p)[i]
    BY <2>3 DEF MayRoute, Sources
  <2>7. \A i \in DOMAIN t : t[i] \notin Existing
    BY <1>1, <2>5, <2>6 DEF Names, OwnNames
  <2>8. request[p].tokens => \A i, j \in DOMAIN t : t[i] = t[j] => i = j
    BY <2>3 DEF MayRoute
  <2> QED
    BY <1>1, <1>2, <2>2, <2>5, <2>6, <2>7, <2>8, RequestKept DEF Targets
<1> QED
  BY <1>3, <1>4

\* Each step of p keeps what is known of its targets: the next one is free.
LEMMA TargetsKept ==
  ASSUME LocalInv, NEW p \in Procs, Names(p), Process(p) \/ Kill(p)
  PROVE  Targets(p)'
<1>1. /\ request' = request /\ Sources(p)' = Sources(p) /\ OutputNames(p)' = OutputNames(p)
      /\ (Literal(p)' <=> Literal(p)) /\ (InPlace(p)' <=> InPlace(p)) /\ Local(p)
      /\ (Literal(p) => ~InPlace(p))
  BY Alone, RequestKept DEF LocalInv, Literal, InPlace
<1>2. CASE Plan(p)
  BY <1>2, PlanTargets
\* Else the targets stay: what is left is what is known of the next one.
<1>3. ASSUME outputs'[p] = outputs[p],
             Literal(p) /\ stage'[p] \in {"read", "write"} =>
               ~Exists(outputs[p][current[p]])' /\ current'[p] = current[p],
             ~InPlace(p) /\ ~Literal(p) /\ stage'[p] = "write" =>
               \A q \in wrote'[p] : \E j \in 1..(current'[p] - 1) : q = outputs[p][j]
      PROVE  Targets(p)'
  BY <1>1, <1>3 DEF Names, Targets, Exists
<1>4. CASE Classify(p)
  <2>1. outputs' = outputs /\ stage'[p] # "write" /\ (stage'[p] = "read" => InPlace(p))
    BY <1>4 DEF Classify, Goto, LocalInv, TypeOK
  <2> QED
    BY <1>1, <1>3, <2>1
<1>5. CASE CheckTarget(p)
  <2>1. UNCHANGED <<fs, outputs, current>> /\ stage'[p] \in {"read", "failed"}
        /\ (stage'[p] = "read" => ~Exists(outputs[p][current[p]]))
    BY <1>5 DEF CheckTarget, Goto, LocalInv, TypeOK
  <2> QED
    BY <1>3, <2>1 DEF Exists
<1>6. CASE ReadSource(p)
  <2>1. UNCHANGED <<fs, outputs, wrote>> /\ stage[p] = "read" /\ ~InPlace(p)
        /\ (Literal(p) => current'[p] = current[p])
    BY <1>6 DEF ReadSource, result
  <2>2. Literal(p) => ~Exists(outputs[p][current[p]])'
    BY <2>1 DEF Names, Targets, Exists
  <2>3. ~Literal(p) => wrote'[p] = {}
    BY <1>1, <2>1 DEF Local, Listed
  <2> QED
    BY <1>3, <2>1, <2>2, <2>3
<1>7. CASE WriteOutput(p)
  <2> DEFINE q == outputs[p][current[p]]
  <2>1. stage[p] = "write" /\ ~InPlace(p) /\ outputs' = outputs
    BY <1>7 DEF WriteOutput
  <2>2. Literal(p) => stage'[p] = "erase"
    BY <1>7 DEF WriteOutput, Goto, LocalInv, TypeOK
  <2>3. ASSUME ~Literal(p), stage'[p] = "write"
        PROVE  \A r \in wrote'[p] : \E j \in 1..(current'[p] - 1) : r = outputs[p][j]
    <3>1. q \in Paths /\ made[p][current[p]] \in Content /\ current[p] \in Nat \ {0}
      BY <2>1, WriteReady, RequestFacts DEF LocalInv
    <3>2. wrote'[p] = wrote[p] \cup {q}
      BY <1>7, <3>1, PutFacts DEF WriteOutput, LocalInv
    <3>3. current'[p] = current[p] + 1
      BY <1>7, <2>3, NextSourceFacts DEF WriteOutput, LocalInv
    <3>4. \A r \in wrote[p] : \E j \in 1..(current[p] - 1) : r = outputs[p][j]
      BY <2>1, <2>3 DEF Names, Targets
    <3>5. 1..(current[p] - 1) \subseteq 1..(current'[p] - 1) /\ current[p] \in 1..(current'[p] - 1)
      BY <3>1, <3>3
    <3> QED
      BY <3>2, <3>4, <3>5
  <2> QED
    BY <1>3, <2>1, <2>2, <2>3
<1>8. CASE WriteFails(p) \/ ReadFails(p) \/ EmitBytes(p) \/ Kill(p)
  <2>1. outputs' = outputs /\ stage'[p] \in {"ok", "failed", "raised", "killed"}
    BY <1>8 DEF WriteFails, ReadFails, EmitBytes, Kill, Goto, LocalInv, TypeOK
  <2> QED
    BY <1>3, <2>1
<1>9. CASE EraseSource(p)
  <2>1. outputs' = outputs /\ stage'[p] \in {"check", "erase", "emit", "ok"}
    BY <1>9 DEF EraseSource, AfterErase, NextSource, Goto, LocalInv, TypeOK
  <2> QED
    BY <1>3, <2>1
<1>10. CASE ReadInPlace(p) \/ WriteInPlace(p) \/ FailInPlace(p)
  <2>1. outputs' = outputs /\ InPlace(p)
    BY <1>10 DEF ReadInPlace, WriteInPlace, FailInPlace
  <2> QED
    BY <1>1, <1>3, <2>1
<1> QED
  BY <1>2, <1>4, <1>5, <1>6, <1>7, <1>8, <1>9, <1>10 DEF Process

\* So no write replaces a file.
LEMMA NotOverKept ==
  ASSUME LocalInv, NEW p \in Procs, Names(p), Process(p) \/ Kill(p)
  PROVE  NotOver(p)'
<1>1. request' = request /\ (OverwritesItself(p)' <=> OverwritesItself(p))
  BY Alone, RequestKept DEF LocalInv
<1>2. CASE overwrote'[p] = overwrote[p]
  BY <1>1, <1>2 DEF Names, NotOver
<1>3. CASE WriteOutput(p) \/ WriteFails(p)
  <2> DEFINE q == outputs[p][current[p]]
  <2>1. stage[p] = "write" /\ ~InPlace(p)
    BY <1>3 DEF WriteOutput, WriteFails
  <2>2. CASE Put(p, q, made[p][current[p]])
    <3>1. overwrote'[p] <=> overwrote[p] \/ Exists(q)
      BY <2>1, <2>2, WriteReady, PutFacts DEF LocalInv
    <3>2. Exists(q) => OverwritesItself(p)
      BY <2>1, FreshTarget DEF Names
    <3> QED
      BY <1>1, <3>1, <3>2 DEF Names, NotOver
  <2>3. CASE UNCHANGED <<fs, wrote, overwrote>>
    BY <1>2, <2>3
  <2> QED
    BY <1>3, <2>2, <2>3 DEF WriteOutput, WriteFails
<1>4. CASE WriteInPlace(p) \/ FailInPlace(p)
  <2>1. overwrote'[p] <=> overwrote[p]
    BY <1>4 DEF WriteInPlace, FailInPlace, Put, LocalInv, TypeOK
  <2> QED
    BY <1>1, <2>1 DEF Names, NotOver
<1>5. CASE Classify(p) \/ Plan(p) \/ CheckTarget(p) \/ ReadSource(p) \/ ReadFails(p) \/ EraseSource(p)
           \/ EmitBytes(p) \/ ReadInPlace(p) \/ Kill(p)
  <2>1. overwrote' = overwrote
    BY <1>5 DEF Classify, Plan, CheckTarget, ReadSource, ReadFails, EraseSource, EmitBytes, ReadInPlace,
       Kill, result
  <2> QED
    BY <1>2, <2>1
<1> QED
  BY <1>3, <1>4, <1>5 DEF Process

\* NamesInv is inductive, given LocalInv.
LEMMA InitNames == Init => NamesInv
<1> SUFFICES ASSUME Init, NEW p \in Procs PROVE Names(p)
  BY DEF NamesInv
<1>1. OwnNames(p)
  <2>1. LocalInv
    BY InitLocal
  <2>2. OutputNames(p) \subseteq Paths
    BY <2>1, NamesArePaths DEF LocalInv
  <2>3. \A n \in Existing : [image |-> n, edits |-> {}] \in Content
    BY WriteOutputAssumption DEF Content
  <2>4. \A n \in Paths : Exists(n) <=> n \in Existing
    BY <2>3, WriteOutputAssumption DEF Init, Exists
  <2> QED
    BY <2>2, <2>4, WriteOutputAssumption DEF OwnNames
<1> QED
  BY <1>1 DEF Init, Names, StillRoutable, Targets, NotOver

LEMMA StepNames == LocalInv /\ NamesInv /\ [Next]_vars => NamesInv'
<1> SUFFICES ASSUME LocalInv, NamesInv, [Next]_vars, Apart' PROVE \A q \in Procs : Names(q)'
  BY DEF NamesInv
<1>1. CASE UNCHANGED vars
  <2>1. Apart
    BY <1>1 DEF Apart, OutputNames, InPlace, Sources, vars
  <2>2. ASSUME NEW q \in Procs PROVE Names(q)'
    <3>1. Names(q) /\ UNCHANGED <<fs, request, stage, current, outputs, wrote, overwrote>>
      BY <1>1, <2>1 DEF NamesInv, vars, result
    <3>2. OwnNames(q)' /\ Targets(q)' /\ NotOver(q)'
      BY <3>1, RequestKept DEF Names, OwnNames, Targets, NotOver, Exists
    <3>3. StillRoutable(q)'
      BY <3>1, RequestKept, RouteKept DEF Names, StillRoutable, LocalInv
    <3> QED
      BY <3>2, <3>3 DEF Names
  <2> QED
    BY <2>2
<1>2. ASSUME NEW p \in Procs, Process(p) \/ Kill(p)
      PROVE  \A q \in Procs : Names(q)'
  <2>1. request' = request
    BY <1>2, Alone DEF LocalInv
  <2>2. Apart
    BY <2>1 DEF Apart, OutputNames, InPlace, Sources
  <2>3. Names(p)'
    BY <1>2, <2>2, OwnNamesKept, StillRoutableKept, TargetsKept, NotOverKept DEF NamesInv, Names
  <2>4. \A q \in Procs \ {p} : Names(q)'
    BY <1>2, <2>2, NamesOfOthers DEF NamesInv, Names
  <2> QED
    BY <2>3, <2>4
<1> QED
  BY <1>1, <1>2 DEF Next

LEMMA AlwaysNames == Spec => [](LocalInv /\ NamesInv)
BY InitLocal, StepLocal, InitNames, StepNames, PTL DEF Spec

\* An -o write that others keep away from replaces no file (output_policy.py:459), but
\* for the extracts and sidecars that overwrite their own output.
THEOREM NothingOverwritten == Spec => []NeverOverwrites
<1>1. NamesInv => NeverOverwrites
  BY DEF NamesInv, Names, NotOver, NeverOverwrites
<1> QED
  BY <1>1, AlwaysNames, PTL

-----------------------------------------------------------------------------
\* What is at the path of an image is that image, edited or not.
Images == \A q \in Existing : Exists(q) => fs[q].image = q

\* So is what has been read from there; and no source is also a target.
Copies(p) ==
  /\ Rewriting(p) => \A i \in DOMAIN made[p] :
       /\ Sources(p)[i] \notin Range(outputs[p])
       /\ Sources(p)[i] \in Existing => made[p][i].image = Sources(p)[i]
  /\ InPlace(p) /\ stage[p] = "write" /\ source(p) \in Existing => made[p][1].image = source(p)

\* The output of source i is written.
Done(p, i) ==
  \/ Literal(p) /\ stage[p] = "erase" /\ i = current[p]
  \/ ~Literal(p) /\ stage[p] = "write" /\ i < current[p]
  \/ ~Literal(p) /\ stage[p] = "erase"
Copied(p, i) ==
  /\ outputs[p][i] \in wrote[p] /\ Exists(outputs[p][i])
  /\ Sources(p)[i] \in Existing => fs[outputs[p][i]].image = Sources(p)[i]
Written(p) == Rewriting(p) => \A i \in DOMAIN outputs[p] : Done(p, i) => Copied(p, i)

Held(q) ==
  \/ Exists(q)
  \/ \E p \in Procs : Rewriting(p) /\ \E n \in wrote[p] : Exists(n) /\ fs[n].image = q

Keep == /\ Images /\ \A p \in Procs : Copies(p) /\ Written(p)
        /\ \A q \in Existing : Kept(q) => Held(q)
KeepInv == Apart => Keep

\* Erasing takes what a source holds away, and writing in place edits it.
LEMMA ImagesKept ==
  ASSUME LocalInv, NEW p \in Procs, Targets(p), Images, Copies(p), Process(p) \/ Kill(p)
  PROVE  Images'
<1> SUFFICES ASSUME NEW q \in Existing, fs'[q] # NoFile, fs'[q] # fs[q] PROVE fs'[q].image = q
  BY DEF Images, Exists
<1>1. q \in Paths
  BY WriteOutputAssumption
<1>2. ~(stage[p] = "write" /\ ~InPlace(p) /\ q = outputs[p][current[p]])
  BY WriteReady DEF Targets
<1>3. q = source(p)
  BY <1>1, <1>2, Touched
<1>4. CASE WriteInPlace(p) \/ FailInPlace(p)
  <2>1. InPlace(p) /\ stage[p] = "write" /\ Put(p, q, made[p][1])
    BY <1>3, <1>4 DEF WriteInPlace, FailInPlace
  <2>2. fs'[q] = made[p][1]
    BY <1>1, <2>1, PutFacts, InPlaceReady DEF LocalInv
  <2> QED
    BY <1>3, <2>1, <2>2 DEF Copies
<1>5. CASE ~(WriteInPlace(p) \/ FailInPlace(p))
  <2>1. CASE EraseSource(p)
    BY <1>1, <1>3, <2>1 DEF EraseSource, LocalInv, TypeOK
  <2>2. CASE WriteOutput(p) \/ WriteFails(p)
    BY <1>1, <1>2, <2>2 DEF WriteOutput, WriteFails, Put, LocalInv, TypeOK
  <2>3. CASE Classify(p) \/ Plan(p) \/ CheckTarget(p) \/ ReadSource(p) \/ ReadFails(p) \/ EmitBytes(p)
             \/ ReadInPlace(p) \/ Kill(p)
    BY <2>3 DEF Classify, Plan, CheckTarget, ReadSource, ReadFails, EmitBytes, ReadInPlace, Kill
  <2> QED
    BY <1>5, <2>1, <2>2, <2>3 DEF Process
<1> QED
  BY <1>4, <1>5

\* A source that is read is not one of the targets.
LEMMA SourceNoTarget ==
  ASSUME LocalInv, NEW p \in Procs, Names(p), Rewriting(p), ReadSource(p)
  PROVE  source(p) \notin Range(outputs[p])
<1> SUFFICES ASSUME NEW j \in DOMAIN outputs[p], source(p) = outputs[p][j] PROVE FALSE
  BY DEF Range
<1>1. /\ Local(p) /\ stage[p] = "read" /\ Exists(source(p)) /\ ToFiles(p) /\ ~InPlace(p)
      /\ DOMAIN outputs[p] = DOMAIN Sources(p) /\ current[p] \in DOMAIN Sources(p)
  BY RequestFacts DEF LocalInv, ReadSource, Rewriting, ToFiles, InPlace, Local, Supplied
<1>2. CASE Literal(p)
  BY <1>1, <1>2 DEF Local, Chosen, Names, Targets, source
<1>3. CASE ~Literal(p)
  <2>1. wrote[p] = {}
    BY <1>1, <1>3 DEF Local, Listed
  <2> QED
    BY <1>1, <2>1 DEF Names, Targets, OwnNames
<1> QED
  BY <1>2, <1>3

\* Each step of p keeps what is known of the bytes it has made.
LEMMA CopiesKept ==
  ASSUME LocalInv, NEW p \in Procs, Names(p), Images, Copies(p), Process(p) \/ Kill(p)
  PROVE  Copies(p)'
<1>1. /\ request' = request /\ Sources(p)' = Sources(p) /\ (Rewriting(p)' <=> Rewriting(p))
      /\ (InPlace(p)' <=> InPlace(p)) /\ (Rewriting(p) => ~InPlace(p))
  BY Alone, RequestKept DEF LocalInv, Rewriting, InPlace
<1>2. CASE ReadSource(p)
  <2>1. /\ ~InPlace(p) /\ outputs' = outputs /\ Exists(source(p))
        /\ made' = [made EXCEPT ![p] = Append(made[p], MadeFrom(p, fs[source(p)]))]
    BY <1>2 DEF ReadSource
  <2>2. fs[source(p)] \in Content /\ made[p] \in Seq(Content) /\ p \in DOMAIN made
    BY <2>1, RequestFacts DEF LocalInv, TypeOK, Exists
  <2>3. PICK content \in Content : content = MadeFrom(p, fs[source(p)])
    BY <2>2, MadeContent
  <2>4. made'[p] = Append(made[p], content)
    BY <2>1, <2>2, <2>3
  <2>5. /\ DOMAIN made'[p] = 1..(Len(made[p]) + 1) /\ DOMAIN made[p] = 1..Len(made[p]) /\ Len(made[p]) \in Nat
        /\ made'[p][Len(made[p]) + 1] = content /\ \A i \in DOMAIN made[p] : made'[p][i] = made[p][i]
    BY <2>2, <2>4, AppendRange
  <2>6. Len(made[p]) + 1 = current[p]
    <3>1. Len(made[p]) = current[p] - 1 /\ current[p] \in Nat
      BY <1>2 DEF ReadSource, LocalInv, TypeOK, Local, Supplied
    <3> QED
      BY <3>1
  <2>7. \A i \in DOMAIN made'[p] : i \in DOMAIN made[p] \/ i = current[p]
    BY <2>5, <2>6
  <2>8. ASSUME Rewriting(p)
        PROVE  /\ source(p) \notin Range(outputs[p])
               /\ source(p) \in Existing => content.image = source(p)
    BY <1>2, <2>1, <2>2, <2>3, <2>8, SourceNoTarget, MadeContent DEF Images, Rewriting
  <2> QED
    BY <1>1, <2>1, <2>5, <2>6, <2>7, <2>8 DEF Copies, source
<1>3. CASE Plan(p)
  <2>1. ~InPlace(p)
    BY <1>3 DEF Plan, LocalInv, Local, StagesOfRoute, Ends
  <2>2. Rewriting(p) => made'[p] = <<>>
    BY <1>3 DEF Plan, Rewriting, LocalInv, TypeOK
  <2>3. DOMAIN <<>> = {}
    OBVIOUS
  <2> QED
    BY <1>1, <2>1, <2>2, <2>3 DEF Copies
<1>4. CASE ReadInPlace(p)
  <2>1. InPlace(p) /\ Exists(source(p)) /\ made' = [made EXCEPT ![p] = <<MadeFrom(p, fs[source(p)])>>]
    BY <1>4 DEF ReadInPlace
  <2>2. fs[source(p)] \in Content /\ p \in DOMAIN made
    BY <2>1, RequestFacts DEF LocalInv, TypeOK, Exists
  <2>3. made'[p][1] = MadeFrom(p, fs[source(p)])
    BY <2>1, <2>2
  <2>4. source(p) \in Existing => made'[p][1].image = source(p)
    BY <2>1, <2>2, <2>3, MadeContent DEF Images, InPlace
  <2>5. stage'[p] = "write" => current' = current
    BY <1>4 DEF ReadInPlace, NextSource, Goto, EndOfLoop, LocalInv, TypeOK
  <2> QED
    BY <1>1, <2>1, <2>4, <2>5 DEF Copies, source
<1>5. CASE Classify(p) \/ CheckTarget(p) \/ ReadFails(p) \/ WriteOutput(p) \/ WriteFails(p) \/ EraseSource(p)
           \/ EmitBytes(p) \/ Kill(p)
  <2>1. made' = made /\ outputs' = outputs
    BY <1>5 DEF Classify, CheckTarget, ReadFails, WriteOutput, WriteFails, EraseSource, EmitBytes, Kill
  <2>2. InPlace(p) => stage'[p] # "write"
    BY <1>5 DEF Classify, CheckTarget, ReadFails, WriteOutput, WriteFails, EraseSource, AfterErase,
       EmitBytes, Kill, Goto, NextSource, LocalInv, TypeOK, Local, StagesOfRoute, Ends
  <2> QED
    BY <1>1, <2>1, <2>2 DEF Copies
<1>6. CASE WriteInPlace(p) \/ FailInPlace(p)
  <2>1. made' = made /\ outputs' = outputs /\ InPlace(p)
    BY <1>6 DEF WriteInPlace, FailInPlace
  <2>2. stage'[p] # "write"
    BY <1>6 DEF WriteInPlace, FailInPlace, NextSource, Goto, EndOfLoop, LocalInv, TypeOK
  <2> QED
    BY <1>1, <2>1, <2>2 DEF Copies
<1> QED
  BY <1>2, <1>3, <1>4, <1>5, <1>6 DEF Process

\* Of the writes of an -o rewrite, none touches what it has written before.
LEMMA WrittenKept ==
  ASSUME LocalInv, NEW p \in Procs, Names(p), Copies(p), Written(p), Process(p) \/ Kill(p)
  PROVE  Written(p)'
<1> SUFFICES ASSUME Rewriting(p)', NEW i \in DOMAIN outputs'[p], Done(p, i)' PROVE Copied(p, i)'
  BY DEF Written
<1>1. /\ request' = request /\ Sources(p)' = Sources(p) /\ Rewriting(p) /\ ~InPlace(p) /\ ToFiles(p)
      /\ (Literal(p)' <=> Literal(p)) /\ Local(p) /\ ~OverwritesItself(p)
  BY Alone, RequestKept DEF LocalInv, Rewriting, InPlace, ToFiles, OverwritesItself
<1>2. stage'[p] \in {"write", "erase"}
  BY DEF Done
<1>3. CASE WriteOutput(p)
  <2> DEFINE q == outputs[p][current[p]]
  <2>1. /\ stage[p] = "write" /\ outputs' = outputs /\ Put(p, q, made[p][current[p]])
        /\ q \in Paths /\ current[p] \in DOMAIN made[p] /\ made[p][current[p]] \in Content
    BY <1>3, WriteReady DEF WriteOutput
  <2>2. /\ fs'[q] = made[p][current[p]] /\ \A r \in Paths \ {q} : fs'[r] = fs[r]
        /\ wrote'[p] = wrote[p] \cup {q}
    BY <2>1, PutFacts DEF LocalInv
  <2>3. CASE i = current[p]
    <3>1. fs'[q] # NoFile
      BY <2>1, <2>2, WriteOutputAssumption
    <3>2. Sources(p)[i] \in Existing => fs'[q].image = Sources(p)[i]
      BY <1>1, <2>1, <2>2, <2>3 DEF Copies
    <3> QED
      BY <1>1, <2>1, <2>2, <2>3, <3>1, <3>2 DEF Copied, Exists
  <2>4. CASE i # current[p]
    <3>1. Done(p, i)
      <4>1. CASE Literal(p)
        <5>1. current' = current
          BY <1>3, <4>1 DEF WriteOutput
        <5> QED
          BY <1>1, <2>4, <4>1, <5>1 DEF Done
      <4>2. CASE ~Literal(p)
        <5>1. \/ current[p] < Len(Sources(p)) /\ current'[p] = current[p] + 1 /\ stage'[p] = "write"
              \/ current[p] = Len(Sources(p)) /\ current'[p] = 1 /\ stage'[p] = "erase"
          BY <1>3, <4>2, NextSourceFacts DEF WriteOutput, LocalInv
        <5>2. i \in 1..Len(Sources(p)) /\ current[p] \in Nat /\ Len(Sources(p)) \in Nat
          BY <1>1, <2>1, RequestFacts DEF LocalInv, Local, Supplied
        <5>3. i < current[p]
          BY <1>1, <2>4, <4>2, <5>1, <5>2 DEF Done
        <5> QED
          BY <2>1, <4>2, <5>3 DEF Done
      <4> QED
        BY <4>1, <4>2
    <3>2. Copied(p, i)
      BY <1>1, <2>1, <3>1 DEF Written
    <3>3. outputs[p][i] # q
      BY <1>1, <2>1, <3>2, FreshTarget DEF Names, Copied
    <3>4. outputs[p][i] \in Paths
      BY <2>1 DEF LocalInv, TypeOK
    <3> QED
      BY <1>1, <2>1, <2>2, <3>2, <3>3, <3>4 DEF Copied, Exists
  <2> QED
    BY <2>3, <2>4
<1>4. CASE EraseSource(p)
  <2>1. /\ stage[p] = "erase" /\ outputs' = outputs /\ wrote' = wrote
        /\ fs' = fs \/ fs' = [fs EXCEPT ![source(p)] = NoFile]
    BY <1>4 DEF EraseSource, result
  <2>2. ~Literal(p)
    BY <1>1, <1>2, <1>4 DEF EraseSource, AfterErase, NextSource, Goto, LocalInv, TypeOK
  <2>3. Copied(p, i)
    BY <1>1, <2>1, <2>2 DEF Written, Done
  <2>4. current[p] \in DOMAIN made[p]
    <3>1. Len(made[p]) = Len(Sources(p)) /\ made[p] \in Seq(Content) /\ current[p] \in 1..Len(Sources(p))
      BY <1>1, <2>1, <2>2, RequestFacts DEF LocalInv, TypeOK, Local, Supplied
    <3> QED
      BY <3>1
  <2>5. source(p) \notin Range(outputs[p])
    BY <1>1, <2>4 DEF Copies, source
  <2>6. outputs[p][i] # source(p)
    BY <2>1, <2>5 DEF Range
  <2>7. fs'[outputs[p][i]] = fs[outputs[p][i]]
    BY <2>1, <2>6 DEF LocalInv, TypeOK
  <2> QED
    BY <1>1, <2>1, <2>3, <2>7 DEF Copied, Exists
<1>5. CASE ReadSource(p)
  <2>1. CASE Literal(p)
    BY <1>1, <1>5, <2>1 DEF ReadSource, Done, Goto, LocalInv, TypeOK
  <2>2. CASE ~Literal(p)
    <3>1. stage'[p] = "write" /\ current'[p] = 1
      BY <1>1, <1>2, <1>5, <2>2, NextSourceFacts DEF ReadSource, Rewriting, LocalInv
    <3>2. outputs' = outputs /\ DOMAIN outputs[p] = 1..Len(outputs[p])
      BY <1>5 DEF ReadSource, LocalInv, TypeOK
    <3> QED
      BY <1>1, <2>2, <3>1, <3>2 DEF Done
  <2> QED
    BY <2>1, <2>2
<1>6. CASE Plan(p)
  BY <1>1, <1>2, <1>6 DEF Plan, Goto, Rewriting, LocalInv, TypeOK
<1>7. CASE Classify(p) \/ CheckTarget(p) \/ ReadFails(p) \/ WriteFails(p) \/ EmitBytes(p) \/ Kill(p)
  BY <1>2, <1>7 DEF Classify, CheckTarget, ReadFails, WriteFails, EmitBytes, Kill, Goto, LocalInv, TypeOK
<1>8. CASE ReadInPlace(p) \/ WriteInPlace(p) \/ FailInPlace(p)
  BY <1>1, <1>8 DEF ReadInPlace, WriteInPlace, FailInPlace
<1> QED
  BY <1>3, <1>4, <1>5, <1>6, <1>7, <1>8 DEF Process

\* The others' steps keep it, and what p has written.
LEMMA CopiesOfOthers ==
  ASSUME LocalInv, Apart, NEW p \in Procs, NEW q \in Procs \ {p}, Targets(p), Targets(q),
         Copies(q), Written(q), Process(p) \/ Kill(p)
  PROVE  Copies(q)' /\ Written(q)'
<1>1. /\ request' = request /\ stage'[q] = stage[q] /\ current'[q] = current[q]
      /\ outputs'[q] = outputs[q] /\ made'[q] = made[q] /\ wrote'[q] = wrote[q]
      /\ Sources(q)' = Sources(q) /\ (Rewriting(q)' <=> Rewriting(q)) /\ (InPlace(q)' <=> InPlace(q))
      /\ (Literal(q)' <=> Literal(q))
  BY Alone, RequestKept DEF LocalInv
<1>2. \A i \in DOMAIN outputs[q] : fs'[outputs[q][i]] = fs[outputs[q][i]]
  BY OutOfReach DEF Targets
<1>3. Copies(q)'
  BY <1>1 DEF Copies, source
<1>4. Written(q)'
  BY <1>1, <1>2 DEF Written, Done, Copied, Exists
<1> QED
  BY <1>3, <1>4

\* The move of an image: the copy is there before the source is erased.
LEMMA HeldKept ==
  ASSUME LocalInv, Apart, NamesInv, Keep, NEW p \in Procs, Process(p) \/ Kill(p),
         NEW q \in Existing, Kept(q)'
  PROVE  Held(q)'
<1>1. /\ request' = request /\ Kept(q) /\ \A r \in Procs : Rewriting(r)' <=> Rewriting(r)
  BY Alone, RequestKept DEF LocalInv, Kept, InPlace, Sources
<1>2. /\ Held(q) /\ Images /\ Names(p) /\ Copies(p) /\ Written(p) /\ Local(p)
      /\ \A r \in Procs : Targets(r) /\ Local(r)
  BY <1>1 DEF Keep, NamesInv, Names, LocalInv
<1>3. ASSUME NEW r \in Procs, Rewriting(r), NEW n \in wrote'[r], fs'[n] # NoFile, fs'[n].image = q
      PROVE  Held(q)'
  BY <1>1, <1>3 DEF Held, Exists
<1>4. \A r \in Procs : Rewriting(r) => wrote[r] \subseteq OutputNames(r) /\ wrote[r] \subseteq Range(outputs[r])
  BY <1>2 DEF Local, Listed, Targets, Rewriting, InPlace, Range
<1>5. CASE Exists(q)
  <2>1. CASE fs'[q] # NoFile
    BY <2>1 DEF Held, Exists
  <2>2. CASE fs'[q] = NoFile
    <3>1. q \in Paths /\ fs'[q] # fs[q]
      BY <1>5, <2>2, WriteOutputAssumption DEF Exists
    <3>2. EraseSource(p) /\ request[p].erase /\ q = source(p)
      <4>1. CASE EraseSource(p)
        BY <3>1, <4>1 DEF EraseSource, LocalInv, TypeOK
      <4>2. CASE WriteOutput(p) \/ WriteFails(p)
        <5>1. made[p][current[p]] \in Content /\ stage[p] = "write" /\ ~InPlace(p)
          BY <4>2, WriteReady DEF WriteOutput, WriteFails
        <5> QED
          BY <2>2, <3>1, <4>2, <5>1, WriteOutputAssumption DEF WriteOutput, WriteFails, Put, LocalInv, TypeOK
      <4>3. CASE WriteInPlace(p) \/ FailInPlace(p)
        <5>1. stage[p] = "write" /\ InPlace(p) => made[p][1] \in Content
          BY InPlaceReady
        <5> QED
          BY <2>2, <3>1, <4>3, <5>1, WriteOutputAssumption DEF WriteInPlace, FailInPlace, Put, LocalInv, TypeOK
      <4>4. CASE Classify(p) \/ Plan(p) \/ CheckTarget(p) \/ ReadSource(p) \/ ReadFails(p) \/ EmitBytes(p)
                 \/ ReadInPlace(p) \/ Kill(p)
        BY <3>1, <4>4 DEF Classify, Plan, CheckTarget, ReadSource, ReadFails, EmitBytes, ReadInPlace, Kill
      <4> QED
        BY <4>1, <4>2, <4>3, <4>4 DEF Process
    <3>3. Rewriting(p) /\ stage[p] = "erase" /\ ToFiles(p)
      <4>1. source(p) \in Range(Sources(p)) /\ ~InPlace(p) /\ stage[p] = "erase"
        BY <1>2, <3>2, RequestFacts DEF LocalInv, source, Range, EraseSource, Local, StagesOfRoute, Ends
      <4> QED
        BY <1>1, <3>2, <4>1 DEF Kept, Rewriting, ToFiles
    <3>4. /\ current[p] \in DOMAIN outputs[p] /\ current[p] \in DOMAIN made[p]
      <4>1. /\ current[p] \in 1..Len(Sources(p)) /\ DOMAIN Sources(p) = 1..Len(Sources(p))
            /\ DOMAIN outputs[p] = DOMAIN Sources(p) /\ ~InPlace(p) /\ Len(Sources(p)) \in Nat
        BY <1>2, <3>3, RequestFacts DEF LocalInv, Local, Supplied, ToFiles
      <4>2. Len(made[p]) = IF Literal(p) THEN current[p] ELSE Len(Sources(p))
        BY <1>2, <3>3, <4>1 DEF Local, Supplied
      <4>3. DOMAIN made[p] = 1..Len(made[p])
        BY DEF LocalInv, TypeOK
      <4>4. current[p] \in 1..Len(made[p])
        BY <4>1, <4>2
      <4> QED
        BY <4>1, <4>3, <4>4
    <3>5. Copied(p, current[p])
      BY <1>2, <3>3, <3>4 DEF Written, Done
    <3> DEFINE n == outputs[p][current[p]]
    <3>6. n # q
      BY <1>2, <3>2, <3>3, <3>4 DEF Copies, Range, source
    <3>7. n \in wrote[p] /\ fs[n] # NoFile /\ fs[n].image = q
      BY <3>2, <3>5 DEF Copied, Exists, source
    <3>8. fs'[n] = fs[n] /\ wrote'[p] = wrote[p]
      <4>1. n \in Paths
        BY <3>7 DEF LocalInv, TypeOK
      <4> QED
        BY <3>2, <3>6, <4>1 DEF EraseSource, LocalInv, TypeOK, result
    <3> QED
      BY <1>3, <3>3, <3>7, <3>8
  <2> QED
    BY <2>1, <2>2
<1>6. ASSUME NEW r \in Procs, Rewriting(r), NEW n \in wrote[r], Exists(n), fs[n].image = q
      PROVE  Held(q)'
  <2>1. fs'[n] = fs[n] /\ n \in wrote'[r]
    <3>1. CASE r # p
      BY <1>2, <1>4, <1>6, <3>1, Alone, OutOfReach DEF LocalInv
    <3>2. CASE r = p
      <4>1. n \in Paths
        BY <1>6 DEF LocalInv, TypeOK
      <4>2. n \in wrote'[p]
        BY <1>6, <3>2, WroteGrows
      <4>3. ~(n = outputs[p][current[p]] /\ stage[p] = "write" /\ ~InPlace(p))
        BY <1>2, <1>6, <3>2, FreshTarget DEF Names, Rewriting, OverwritesItself
      <4>4. ASSUME fs'[n] # fs[n]
            PROVE  FALSE
        <5>1. n = source(p)
          BY <4>1, <4>3, <4>4, Touched
        <5>2. ~InPlace(p) /\ ToFiles(p)
          BY <1>6, <3>2 DEF Rewriting, InPlace, ToFiles
        <5>3. CASE EraseSource(p)
          <6>1. /\ current[p] \in 1..Len(Sources(p)) /\ DOMAIN made[p] = 1..Len(made[p]) /\ Len(Sources(p)) \in Nat
                /\ Len(made[p]) = IF Literal(p) THEN current[p] ELSE Len(Sources(p))
            BY <1>2, <5>2, <5>3, RequestFacts DEF EraseSource, LocalInv, TypeOK, Local, Supplied
          <6>2. current[p] \in DOMAIN made[p]
            BY <6>1
          <6>3. source(p) \notin Range(outputs[p])
            BY <1>2, <1>6, <3>2, <6>2 DEF Copies, source
          <6> QED
            BY <1>4, <1>6, <3>2, <5>1, <6>3
        <5>4. CASE WriteOutput(p) \/ WriteFails(p)
          BY <4>1, <4>3, <4>4, <5>4 DEF WriteOutput, WriteFails, Put, LocalInv, TypeOK
        <5>5. CASE Classify(p) \/ Plan(p) \/ CheckTarget(p) \/ ReadSource(p) \/ ReadFails(p) \/ EmitBytes(p)
                   \/ ReadInPlace(p) \/ Kill(p)
          BY <4>4, <5>5 DEF Classify, Plan, CheckTarget, ReadSource, ReadFails, EmitBytes, ReadInPlace, Kill
        <5>6. CASE WriteInPlace(p) \/ FailInPlace(p)
          BY <5>2, <5>6 DEF WriteInPlace, FailInPlace
        <5> QED
          BY <5>3, <5>4, <5>5, <5>6 DEF Process
      <4> QED
        BY <3>2, <4>2, <4>4
    <3> QED
      BY <3>1, <3>2
  <2> QED
    BY <1>3, <1>6, <2>1 DEF Exists
<1> QED
  BY <1>2, <1>5, <1>6 DEF Held

\* KeepInv is inductive, given LocalInv and NamesInv.
LEMMA InitKeep == Init => Keep
<1> SUFFICES ASSUME Init PROVE Keep
  OBVIOUS
<1>1. \A q \in Existing : fs[q].image = q /\ Exists(q)
  <2>1. \A q \in Existing : [image |-> q, edits |-> {}] \in Content
    BY WriteOutputAssumption DEF Content
  <2> QED
    BY <2>1, WriteOutputAssumption DEF Init, Exists
<1>2. \A p \in Procs : Copies(p) /\ Written(p)
  BY DEF Init, Copies, Written, Done
<1> QED
  BY <1>1, <1>2 DEF Keep, Images, Held

LEMMA StepKeep == LocalInv /\ NamesInv /\ KeepInv /\ [Next]_vars => KeepInv'
<1> SUFFICES ASSUME LocalInv, NamesInv, KeepInv, [Next]_vars, Apart' PROVE Keep'
  BY DEF KeepInv
<1>1. CASE UNCHANGED vars
  <2>1. Keep
    BY <1>1 DEF KeepInv, Apart, OutputNames, InPlace, Sources, vars
  <2>2. UNCHANGED <<fs, request, stage, current, outputs, made, wrote>>
    BY <1>1 DEF vars, result
  <2>3. Images'
    BY <2>1, <2>2 DEF Keep, Images, Exists
  <2>4. \A p \in Procs : Copies(p)' /\ Written(p)'
    BY <2>1, <2>2, RequestKept DEF Keep, Copies, Written, Done, Copied, Exists, source
  <2>5. \A q \in Existing : Kept(q)' => Held(q)'
    BY <2>1, <2>2 DEF Keep, Kept, Held, Rewriting, Exists, InPlace, Sources
  <2> QED
    BY <2>3, <2>4, <2>5 DEF Keep
<1>2. ASSUME NEW p \in Procs, Process(p) \/ Kill(p)
      PROVE  Keep'
  <2>1. request' = request
    BY <1>2, Alone DEF LocalInv
  <2>2. Apart /\ Keep
    <3>1. Apart
      BY <2>1 DEF Apart, OutputNames, InPlace, Sources
    <3> QED
      BY <3>1 DEF KeepInv
  <2>3. \A q \in Procs : Names(q) /\ Targets(q) /\ Copies(q) /\ Written(q)
    BY <2>2 DEF NamesInv, Names, Keep
  <2>4. Images'
    BY <1>2, <2>2, <2>3, ImagesKept DEF Keep
  <2>5. Copies(p)' /\ Written(p)'
    BY <1>2, <2>2, <2>3, CopiesKept, WrittenKept DEF Keep
  <2>6. \A q \in Procs \ {p} : Copies(q)' /\ Written(q)'
    BY <1>2, <2>2, <2>3, CopiesOfOthers
  <2>7. \A q \in Existing : Kept(q)' => Held(q)'
    BY <1>2, <2>2, HeldKept
  <2> QED
    BY <2>4, <2>5, <2>6, <2>7 DEF Keep
<1> QED
  BY <1>1, <1>2 DEF Next

LEMMA AlwaysKeep == Spec => [](LocalInv /\ NamesInv /\ KeepInv)
<1>1. Init => KeepInv
  BY InitKeep DEF KeepInv
<1> QED
  BY <1>1, InitLocal, StepLocal, InitNames, StepNames, StepKeep, PTL DEF Spec

\* Moving an image (-o with -overwrite_original) keeps it whole in some file, for any
\* number of processes and sources, whatever fails and whoever is killed.
THEOREM MovesKeepImages == Spec => []NothingLost
<1>1. LocalInv /\ KeepInv => NothingLost
  <2> SUFFICES ASSUME LocalInv, Keep, NEW q \in Existing, Kept(q)
               PROVE  \E r \in Paths : Exists(r) /\ fs[r].image = q
    BY DEF KeepInv, NothingLost
  <2>1. CASE Exists(q)
    BY <2>1, WriteOutputAssumption DEF Keep, Images
  <2>2. CASE ~Exists(q)
    <3>1. PICK p \in Procs : \E n \in wrote[p] : Exists(n) /\ fs[n].image = q
      BY <2>2 DEF Keep, Held
    <3>2. wrote[p] \subseteq Paths
      BY DEF LocalInv, TypeOK
    <3> QED
      BY <3>1, <3>2
  <2> QED
    BY <2>1, <2>2
<1> QED
  BY <1>1, AlwaysKeep, PTL

-----------------------------------------------------------------------------
\* Only p's own write first puts its edit in a file it edits in place.
Edits(p) ==
  InPlace(p) => \A q \in Range(Sources(p)) :
    /\ Exists(q) /\ p \in fs[q].edits => q \in wrote[p]
    /\ \A r \in Procs \ {p} :
         InPlace(r) /\ stage[r] = "write" /\ source(r) = q /\ p \in made[r][1].edits
           => q \in wrote[p]

\* The in-place write has dealt with every path before the one it is at.
Handled(p) ==
  InPlace(p) => \A i \in DOMAIN Sources(p) :
    i < current[p] \/ stage[p] \in {"ok", "failed"} => Sources(p)[i] \in failed[p] \cup wrote[p]

EditInv == Apart => \A p \in Procs : Edits(p) /\ Handled(p)

\* A step puts q's edit in a file only when q has written that file.
LEMMA EditsKept ==
  ASSUME LocalInv, Apart, NEW p \in Procs, Targets(p), \A q \in Procs : Edits(q), Process(p) \/ Kill(p),
         NEW q \in Procs
  PROVE  Edits(q)'
<1>1. /\ request' = request /\ \A r \in Procs : Sources(r)' = Sources(r) /\ (InPlace(r)' <=> InPlace(r))
      /\ \A r \in Procs \ {p} : stage'[r] = stage[r] /\ made'[r] = made[r] /\ wrote'[r] = wrote[r]
                                /\ current'[r] = current[r]
  BY Alone, RequestKept DEF LocalInv
<1> SUFFICES ASSUME InPlace(q), NEW s \in Range(Sources(q))
             PROVE  /\ fs'[s] # NoFile /\ q \in fs'[s].edits => s \in wrote'[q]
                    /\ \A r \in Procs \ {q} :
                         InPlace(r) /\ stage'[r] = "write" /\ source(r)' = s /\ q \in made'[r][1].edits
                           => s \in wrote'[q]
  BY <1>1 DEF Edits, Exists
<1>2. s \in Paths /\ Edits(q) /\ wrote[q] \subseteq wrote'[q]
  BY RequestFacts, WroteGrows DEF LocalInv, Range
<1>3. ASSUME fs'[s] # NoFile, q \in fs'[s].edits
      PROVE  s \in wrote'[q]
  <2>1. CASE fs'[s] = fs[s]
    BY <1>2, <1>3, <2>1 DEF Edits, Exists
  <2>2. CASE fs'[s] # fs[s]
    <3>1. ~(s = outputs[p][current[p]] /\ stage[p] = "write" /\ ~InPlace(p))
      <4>1. stage[p] = "write" /\ ~InPlace(p) => p # q /\ outputs[p][current[p]] \in OutputNames(p)
        BY WriteReady DEF Targets
      <4> QED
        BY <4>1 DEF Apart
    <3>2. s = source(p)
      BY <1>2, <2>2, <3>1, Touched
    <3>3. InPlace(p) /\ stage[p] = "write" /\ Put(p, s, made[p][1])
      <4>1. CASE WriteInPlace(p) \/ FailInPlace(p)
        BY <2>2, <3>2, <4>1 DEF WriteInPlace, FailInPlace
      <4>2. CASE EraseSource(p)
        BY <1>2, <1>3, <2>2, <3>2, <4>2 DEF EraseSource, LocalInv, TypeOK
      <4>3. CASE WriteOutput(p) \/ WriteFails(p)
        BY <1>2, <2>2, <3>1, <4>3 DEF WriteOutput, WriteFails, Put, LocalInv, TypeOK
      <4>4. CASE Classify(p) \/ Plan(p) \/ CheckTarget(p) \/ ReadSource(p) \/ ReadFails(p) \/ EmitBytes(p)
                 \/ ReadInPlace(p) \/ Kill(p)
        BY <2>2, <4>4 DEF Classify, Plan, CheckTarget, ReadSource, ReadFails, EmitBytes, ReadInPlace, Kill
      <4> QED
        BY <4>1, <4>2, <4>3, <4>4 DEF Process
    <3>4. fs'[s] = made[p][1] /\ wrote'[p] = wrote[p] \cup {s}
      BY <1>2, <3>3, InPlaceReady, PutFacts DEF LocalInv
    <3> QED
      BY <1>2, <1>3, <3>2, <3>3, <3>4 DEF Edits
  <2> QED
    BY <2>1, <2>2
<1>4. ASSUME NEW r \in Procs \ {q}, InPlace(r), stage'[r] = "write", source(r)' = s, q \in made'[r][1].edits
      PROVE  s \in wrote'[q]
  <2>1. CASE r # p
    BY <1>1, <1>2, <1>4, <2>1 DEF Edits, source
  <2>2. CASE r = p
    <3>1. ReadInPlace(p)
      <4>1. CASE WriteInPlace(p) \/ FailInPlace(p)
        BY <1>4, <2>2, <4>1 DEF WriteInPlace, FailInPlace, NextSource, Goto, EndOfLoop, LocalInv, TypeOK
      <4>2. CASE Classify(p) \/ Plan(p) \/ CheckTarget(p) \/ EraseSource(p) \/ EmitBytes(p) \/ Kill(p)
        <5>1. stage[p] \in {"start", "read", "write"} \cup Ends
          BY <1>4, <2>2 DEF LocalInv, Local, StagesOfRoute
        <5> QED
          BY <1>4, <2>2, <4>2, <5>1 DEF Classify, Plan, CheckTarget, EraseSource, EmitBytes, Kill, Goto, Ends,
             LocalInv, TypeOK
      <4>3. CASE ReadSource(p) \/ ReadFails(p) \/ WriteOutput(p) \/ WriteFails(p)
        BY <1>4, <2>2, <4>3 DEF ReadSource, ReadFails, WriteOutput, WriteFails
      <4> QED
        BY <4>1, <4>2, <4>3 DEF Process
    <3>2. Exists(source(p)) /\ made' = [made EXCEPT ![p] = <<MadeFrom(p, fs[source(p)])>>]
      BY <3>1 DEF ReadInPlace
    <3>3. current' = current
      BY <1>4, <2>2, <3>1 DEF ReadInPlace, NextSource, Goto, EndOfLoop, LocalInv, TypeOK
    <3>4. source(p) = s /\ fs[s] \in Content
      BY <1>1, <1>2, <1>4, <2>2, <3>2, <3>3 DEF source, Exists, LocalInv, TypeOK
    <3>5. made'[p][1] = MadeFrom(p, fs[s])
      BY <3>2, <3>4 DEF LocalInv, TypeOK
    <3>6. q \in fs[s].edits
      BY <1>4, <2>2, <3>4, <3>5, MadeContent DEF InPlace
    <3> QED
      BY <1>2, <3>2, <3>4, <3>6 DEF Edits
  <2> QED
    BY <2>1, <2>2
<1> QED
  BY <1>3, <1>4

\* Each step of p that goes on to the next path has dealt with this one.
LEMMA HandledKept ==
  ASSUME LocalInv, NEW p \in Procs, Edits(p), Handled(p), Process(p) \/ Kill(p)
  PROVE  Handled(p)'
<1>1. /\ request' = request /\ Sources(p)' = Sources(p) /\ (InPlace(p)' <=> InPlace(p))
      /\ wrote[p] \subseteq wrote'[p]
  BY Alone, RequestKept, WroteGrows DEF LocalInv
<1> SUFFICES ASSUME InPlace(p), NEW i \in DOMAIN Sources(p), i < current'[p] \/ stage'[p] \in {"ok", "failed"}
             PROVE  Sources(p)[i] \in failed'[p] \cup wrote'[p]
  BY <1>1 DEF Handled
<1>2. /\ stage[p] \in {"start", "read", "write"} \cup Ends /\ source(p) \in Range(Sources(p))
      /\ i \in 1..Len(Sources(p)) /\ current[p] \in 1..Len(Sources(p)) /\ Len(Sources(p)) \in Nat
  BY RequestFacts DEF LocalInv, Local, StagesOfRoute, Range, source
\* A step on to the next path has to have dealt with this one.
<1>3. ASSUME NEW after, NextSource(p, "read", after), failed[p] \subseteq failed'[p],
             source(p) \in failed'[p] \cup wrote'[p]
      PROVE  Sources(p)[i] \in failed'[p] \cup wrote'[p]
  <2>1. \/ current[p] < Len(Sources(p)) /\ current'[p] = current[p] + 1 /\ stage'[p] = "read"
        \/ current[p] = Len(Sources(p)) /\ current'[p] = 1
    BY <1>3, NextSourceFacts DEF LocalInv
  <2>2. i < current[p] \/ i = current[p]
    BY <1>2, <2>1
  <2> QED
    BY <1>1, <1>3, <2>2 DEF Handled, source
<1>4. CASE current' = current /\ failed' = failed /\ stage'[p] \notin {"ok", "failed"}
  BY <1>1, <1>4 DEF Handled
<1>5. CASE ReadInPlace(p)
  <2>1. CASE MadeFrom(p, fs[source(p)]) = fs[source(p)]
    <3>1. Exists(source(p)) /\ failed' = failed /\ NextSource(p, "read", EndOfLoop(p, failed[p]))
      BY <1>5, <2>1 DEF ReadInPlace
    <3>2. fs[source(p)] \in Content
      BY <3>1, RequestFacts DEF LocalInv, TypeOK, Exists
    <3>3. source(p) \in wrote[p]
      BY <1>2, <2>1, <3>1, <3>2, MadeContent DEF Edits
    <3> QED
      BY <1>1, <1>3, <3>1, <3>3
  <2>2. CASE MadeFrom(p, fs[source(p)]) # fs[source(p)]
    BY <1>4, <1>5, <2>2 DEF ReadInPlace, Goto, LocalInv, TypeOK
  <2> QED
    BY <2>1, <2>2
<1>6. CASE WriteInPlace(p)
  <2>1. source(p) \in wrote'[p]
    BY <1>6, RequestFacts, InPlaceReady, PutFacts DEF WriteInPlace, LocalInv
  <2> QED
    BY <1>3, <1>6, <2>1 DEF WriteInPlace
<1>7. CASE FailInPlace(p)
  <2>1. failed'[p] = failed[p] \cup {source(p)}
    BY <1>7 DEF FailInPlace, LocalInv, TypeOK
  <2> QED
    BY <1>3, <1>7, <2>1 DEF FailInPlace
<1>8. CASE Classify(p) \/ Kill(p)
  BY <1>4, <1>8 DEF Classify, Kill, Goto, LocalInv, TypeOK
<1>9. CASE Plan(p) \/ CheckTarget(p) \/ EraseSource(p) \/ EmitBytes(p)
  BY <1>2, <1>9 DEF Plan, CheckTarget, EraseSource, EmitBytes, Ends
<1>10. CASE ReadSource(p) \/ ReadFails(p) \/ WriteOutput(p) \/ WriteFails(p)
  BY <1>10 DEF ReadSource, ReadFails, WriteOutput, WriteFails
<1> QED
  BY <1>5, <1>6, <1>7, <1>8, <1>9, <1>10 DEF Process

\* EditInv is inductive, given LocalInv and NamesInv.
LEMMA InitEdits == Init => EditInv
<1> SUFFICES ASSUME Init, NEW p \in Procs PROVE Edits(p) /\ Handled(p)
  BY DEF EditInv
<1>1. LocalInv
  BY InitLocal
<1>2. Edits(p)
  <2>1. \A q \in Paths : Exists(q) => fs[q].edits = {}
    BY DEF Init, Exists
  <2>2. Range(Sources(p)) \subseteq Paths
    BY <1>1, RequestFacts DEF LocalInv, Range
  <2> QED
    BY <2>1, <2>2 DEF Edits, Init
<1>3. Handled(p)
  <2>1. \A i \in DOMAIN Sources(p) : ~(i < current[p])
    BY <1>1, RequestFacts DEF LocalInv, Init
  <2> QED
    BY <2>1 DEF Handled, Init
<1> QED
  BY <1>2, <1>3

LEMMA StepEdits == LocalInv /\ NamesInv /\ EditInv /\ [Next]_vars => EditInv'
<1> SUFFICES ASSUME LocalInv, NamesInv, EditInv, [Next]_vars, Apart', NEW q \in Procs
             PROVE  Edits(q)' /\ Handled(q)'
  BY DEF EditInv
<1>1. CASE UNCHANGED vars
  <2>1. Apart
    BY <1>1 DEF Apart, OutputNames, InPlace, Sources, vars
  <2>2. UNCHANGED <<fs, request, stage, current, made, wrote, failed>> /\ Edits(q) /\ Handled(q)
    BY <1>1, <2>1 DEF vars, result, EditInv
  <2> QED
    BY <2>2 DEF Edits, Handled, InPlace, Sources, Exists, source
<1>2. ASSUME NEW p \in Procs, Process(p) \/ Kill(p)
      PROVE  Edits(q)' /\ Handled(q)'
  <2>1. /\ request' = request
        /\ q # p => stage'[q] = stage[q] /\ current'[q] = current[q] /\ wrote'[q] = wrote[q]
                    /\ failed'[q] = failed[q]
    BY <1>2, Alone DEF LocalInv
  <2>2. Apart
    BY <2>1 DEF Apart, OutputNames, InPlace, Sources
  <2>3. Targets(p) /\ \A r \in Procs : Edits(r) /\ Handled(r)
    BY <2>2 DEF NamesInv, Names, EditInv
  <2>4. Edits(q)'
    BY <1>2, <2>2, <2>3, EditsKept
  <2>5. CASE q = p
    BY <1>2, <2>3, <2>4, <2>5, HandledKept
  <2>6. CASE q # p
    BY <2>1, <2>3, <2>4, <2>6, RequestKept DEF Handled
  <2> QED
    BY <2>5, <2>6
<1> QED
  BY <1>1, <1>2 DEF Next

\* A path that fails does not stop an in-place write (PublicWriteExecutor): when it
\* ends, every path has its diagnostic or is written, for any number of paths.
THEOREM FailureStopsNobody == Spec => []OthersWritten
<1>1. LocalInv /\ EditInv => OthersWritten
  <2> SUFFICES ASSUME LocalInv, NEW p \in Procs, Handled(p), InPlace(p), stage[p] \in {"ok", "failed"},
                      NEW q \in Range(Sources(p))
               PROVE  q \in failed[p] \/ q \in wrote[p]
    BY DEF EditInv, OthersWritten
  <2> QED
    BY DEF Handled, Range
<1>2. Spec => []EditInv
  BY InitLocal, StepLocal, InitNames, StepNames, InitEdits, StepEdits, PTL DEF Spec
<1> QED
  BY <1>1, <1>2, AlwaysLocal, PTL
=============================================================================
