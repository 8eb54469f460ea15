-------------------------- MODULE WriteOutputProofs --------------------------
(***************************************************************************)
(* WriteOutput for any processes, paths, requests and faults: what holds   *)
(* of each process by itself, whatever the others do.                      *)
(***************************************************************************)
EXTENDS WriteOutput, FiniteSetTheorems, TLAPS

ToFiles(p) == ~InPlace(p) /\ ~request[p].stdout
Rewriting(p) == request[p].route = "rewrite" /\ ~request[p].stdout

\* Which stages a route has, and what a process has before it has done anything.
StagesOfRoute(p) ==
  /\ InPlace(p) => stage[p] \in {"start", "read", "write"} \cup Ends
  /\ stage[p] = "check" => Literal(p)
  /\ stage[p] = "write" => ~request[p].stdout \/ InPlace(p)
  /\ stage[p] \in {"start", "plan"} =>
       /\ current[p] = 1 /\ outputs[p] = <<>> /\ made[p] = <<>>
       /\ changed[p] = <<>> /\ wrote[p] = {} /\ failed[p] = {}

\* There is a path and a content for each write to come.
Supplied(p) ==
  /\ ToFiles(p) /\ stage[p] \in {"check", "read", "write", "erase"} =>
       DOMAIN outputs[p] = DOMAIN Sources(p)
  /\ ~InPlace(p) /\ stage[p] \in {"check", "read"} => Len(made[p]) = current[p] - 1
  /\ ~InPlace(p) /\ stage[p] = "write" =>
       Len(made[p]) = IF Literal(p) THEN current[p] ELSE Len(Sources(p))
  /\ ~InPlace(p) /\ stage[p] = "erase" =>
       Len(made[p]) = IF Literal(p) THEN current[p] ELSE Len(Sources(p))
  /\ InPlace(p) /\ stage[p] = "write" => Len(made[p]) = 1

\* The paths of a template without tokens are the same.
Chosen(p) ==
  /\ request[p].stdout => outputs[p] = <<>>
  /\ Literal(p) => \A i, j \in DOMAIN outputs[p] : outputs[p][i] = outputs[p][j]

\* What was written and what is listed.
Listed(p) ==
  /\ Range(changed[p]) \subseteq wrote[p]
  /\ ~InPlace(p) => wrote[p] \subseteq Range(outputs[p])
  /\ ~InPlace(p) /\ stage[p] \notin {"failed", "killed"} => wrote[p] \subseteq Range(changed[p])
  /\ ~InPlace(p) /\ ~Literal(p) /\ stage[p] = "read" => wrote[p] = {}
  /\ ~InPlace(p) /\ stage[p] = "failed" =>
       \E q \in Paths : wrote[p] \subseteq Range(changed[p]) \cup {q}
  /\ InPlace(p) /\ failed[p] = {} => wrote[p] \subseteq Range(changed[p])
  /\ InPlace(p) /\ stage[p] = "ok" => failed[p] = {}

Local(p) == StagesOfRoute(p) /\ Supplied(p) /\ Chosen(p) /\ Listed(p)
LocalInv == TypeOK /\ \A p \in Procs : Local(p)

\* A process's request: its sources are a sequence of at least one path.
LEMMA RequestFacts ==
  ASSUME TypeOK, NEW p \in Procs
  PROVE  /\ request[p] \in Request /\ request[p] \in Requests
         /\ Sources(p) \in Seq(Paths) /\ Len(Sources(p)) \in Nat \ {0}
         /\ DOMAIN Sources(p) = 1..Len(Sources(p))
         /\ current[p] \in 1..Len(Sources(p)) /\ source(p) \in Paths
         /\ request[p].route \in Routes /\ request[p].stdout \in BOOLEAN
<1>1. request[p] \in Request /\ request[p] \in Requests /\ Sources(p) # <<>>
  BY WriteOutputAssumption DEF TypeOK, Sources
<1>2. Sources(p) \in Seq(Paths)
  BY <1>1 DEF Request, Sources
<1>3. Len(Sources(p)) \in Nat /\ Len(Sources(p)) # 0 /\ DOMAIN Sources(p) = 1..Len(Sources(p))
  BY <1>1, <1>2
<1>4. current[p] \in DOMAIN Sources(p)
  BY DEF TypeOK, Sources
<1> QED
  BY <1>1, <1>2, <1>3, <1>4 DEF Request, source

\* What Append does to a sequence.
LEMMA AppendRange ==
  ASSUME NEW S, NEW s \in Seq(S), NEW e \in S
  PROVE  /\ Append(s, e) \in Seq(S) /\ Len(Append(s, e)) = Len(s) + 1
         /\ Range(Append(s, e)) = Range(s) \cup {e}
         /\ DOMAIN Append(s, e) = 1..(Len(s) + 1)
         /\ Append(s, e)[Len(s) + 1] = e /\ \A i \in DOMAIN s : Append(s, e)[i] = s[i]
<1> DEFINE t == Append(s, e)
<1>1. /\ t \in Seq(S) /\ Len(t) = Len(s) + 1 /\ Len(s) \in Nat
      /\ DOMAIN s = 1..Len(s) /\ DOMAIN t = 1..(Len(s) + 1)
  OBVIOUS
<1>2. t[Len(s) + 1] = e /\ \A i \in 1..Len(s) : t[i] = s[i]
  OBVIOUS
<1>3. \A i \in 1..(Len(s) + 1) : i \in 1..Len(s) \/ i = Len(s) + 1
  BY <1>1
<1>4. 1..Len(s) \subseteq 1..(Len(s) + 1) /\ Len(s) + 1 \in 1..(Len(s) + 1)
  BY <1>1
<1>5. Range(t) = Range(s) \cup {e}
  BY <1>1, <1>2, <1>3, <1>4, Zenon DEF Range
<1> QED
  BY <1>1, <1>2, <1>5

\* A step of one process leaves what is the others' alone, and every request.
LEMMA Alone ==
  ASSUME TypeOK, NEW p \in Procs, Process(p) \/ Kill(p)
  PROVE  /\ request' = request
         /\ \A q \in Procs \ {p} :
              /\ stage'[q] = stage[q] /\ current'[q] = current[q] /\ outputs'[q] = outputs[q]
              /\ made'[q] = made[q] /\ changed'[q] = changed[q] /\ wrote'[q] = wrote[q]
              /\ failed'[q] = failed[q] /\ overwrote'[q] = overwrote[q]
<1> USE DEF TypeOK, Goto, NextSource, result
<1>1. CASE Classify(p)
  BY <1>1 DEF Classify
<1>2. CASE Plan(p)
  BY <1>2 DEF Plan
<1>3. CASE CheckTarget(p)
  BY <1>3 DEF CheckTarget
<1>4. CASE ReadSource(p)
  BY <1>4 DEF ReadSource
<1>5. CASE ReadFails(p)
  BY <1>5 DEF ReadFails
<1>6. CASE WriteOutput(p)
  BY <1>6 DEF WriteOutput, Put
<1>7. CASE WriteFails(p)
  BY <1>7 DEF WriteFails, Put
<1>8. CASE EraseSource(p)
  BY <1>8 DEF EraseSource, AfterErase
<1>9. CASE EmitBytes(p)
  BY <1>9 DEF EmitBytes
<1>10. CASE ReadInPlace(p)
  BY <1>10 DEF ReadInPlace
<1>11. CASE WriteInPlace(p)
  BY <1>11 DEF WriteInPlace, Put
<1>12. CASE FailInPlace(p)
  BY <1>12 DEF FailInPlace, Put
<1>13. CASE Kill(p)
  BY <1>13 DEF Kill
<1> QED
  BY <1>1, <1>2, <1>3, <1>4, <1>5, <1>6, <1>7, <1>8, <1>9, <1>10, <1>11, <1>12, <1>13 DEF Process

\* The paths a template gives: one per source, out of the names for that source.
LEMMA TemplatePaths ==
  ASSUME TypeOK, NEW p \in Procs, Expansions(request[p]) # {},
         NEW t, t = EffectivePaths(request[p])
  PROVE  /\ t \in Expansions(request[p]) /\ t \in Seq(Paths) /\ DOMAIN t = DOMAIN Sources(p)
         /\ \A i \in DOMAIN t : t[i] \in Range(request[p].names[Sources(p)[i]])
         /\ ~request[p].tokens => \A i, j \in DOMAIN t : t[i] = t[j]
<1>1. t \in Expansions(request[p])
  BY DEF EffectivePaths
<1>2. t \in [DOMAIN Sources(p) -> Paths]
  BY <1>1 DEF Expansions, Sources
<1>3. t \in Seq(Paths) /\ DOMAIN t = DOMAIN Sources(p)
  BY <1>2, RequestFacts
<1>4. ASSUME NEW i \in DOMAIN t
      PROVE  \E k \in DOMAIN request[p].names[Sources(p)[i]] : t[i] = request[p].names[Sources(p)[i]][k]
  BY <1>1, <1>3 DEF Expansions, Sources, NextUnused
<1>5. \A i \in DOMAIN t : t[i] \in Range(request[p].names[Sources(p)[i]])
  BY <1>4 DEF Range
<1>6. ASSUME ~request[p].tokens, NEW i \in DOMAIN t, NEW j \in DOMAIN t
      PROVE  t[i] = t[j]
  <2> DEFINE names(k) == request[p].names[Sources(p)[k]]
  <2>1. Sources(p)[i] \in Paths /\ Sources(p)[j] \in Paths
    BY <1>3, RequestFacts
  <2>2. names(i) \in Seq(Paths) /\ names(i) = names(j) /\ Len(names(i)) <= 1
    BY <1>6, <2>1, RequestFacts, WriteOutputAssumption DEF Request
  <2>3. \A k, l \in DOMAIN names(i) : k = l
    BY <2>2
  <2> QED
    BY <1>4, <2>2, <2>3
<1> QED
  BY <1>1, <1>3, <1>5, <1>6

\* What Local says of p is about p's own variables.
LEMMA LocalKept ==
  ASSUME NEW p \in Procs, Local(p), request'[p] = request[p],
         stage'[p] = stage[p], current'[p] = current[p], outputs'[p] = outputs[p],
         made'[p] = made[p], changed'[p] = changed[p], wrote'[p] = wrote[p], failed'[p] = failed[p]
  PROVE  Local(p)'
BY DEF Local, StagesOfRoute, Supplied, Chosen, Listed, ToFiles, InPlace, Literal, Sources

\* What is said of a request stays true.
LEMMA RequestKept ==
  ASSUME NEW p, request'[p] = request[p]
  PROVE  /\ Sources(p)' = Sources(p) /\ (InPlace(p)' <=> InPlace(p)) /\ (Literal(p)' <=> Literal(p))
         /\ (ToFiles(p)' <=> ToFiles(p)) /\ (Rewriting(p)' <=> Rewriting(p))
         /\ OutputNames(p)' = OutputNames(p) /\ (OverwritesItself(p)' <=> OverwritesItself(p))
BY DEF Sources, InPlace, Literal, ToFiles, Rewriting, OutputNames, OverwritesItself

\* Each step of p keeps the types and what Local says of p.
LEMMA ClassifyLocal ==
  ASSUME LocalInv, NEW p \in Procs, Classify(p)
  PROVE  TypeOK' /\ Local(p)'
<1>1. TypeOK'
  BY DEF LocalInv, TypeOK, Classify, Goto, Stages, Ends, result
<1>2. /\ stage[p] = "start" /\ Local(p)
      /\ IF InPlace(p) THEN stage'[p] = "read" ELSE stage'[p] \in {"plan", "failed"}
      /\ UNCHANGED <<request, current, outputs, made, changed, wrote, failed>>
  BY DEF Classify, Goto, result, LocalInv, TypeOK
<1>3. /\ current[p] = 1 /\ outputs[p] = <<>> /\ made[p] = <<>> /\ changed[p] = <<>> /\ wrote[p] = {}
      /\ failed[p] = {}
  BY <1>2 DEF Local, StagesOfRoute
<1>4. StagesOfRoute(p)' /\ Supplied(p)' /\ Chosen(p)'
  BY <1>2, <1>3, RequestKept DEF StagesOfRoute, Supplied, Chosen, ToFiles
<1>5. Listed(p)'
  <2>1. \E q \in Paths : TRUE
    BY RequestFacts DEF LocalInv
  <2> QED
    BY <1>2, <1>3, <2>1, RequestKept DEF Listed, Range
<1> QED
  BY <1>1, <1>4, <1>5 DEF Local

LEMMA PlanLocal ==
  ASSUME LocalInv, NEW p \in Procs, Plan(p)
  PROVE  TypeOK' /\ Local(p)'
<1> DEFINE toStdout == request[p].stdout
           sidecar == request[p].route = "sidecar"
<1>1. PICK t : t = EffectivePaths(request[p])
  OBVIOUS
<1>2. ~toStdout =>
        t \in Seq(Paths) /\ DOMAIN t = DOMAIN Sources(p)
        /\ (~request[p].tokens => \A i, j \in DOMAIN t : t[i] = t[j])
  BY <1>1, TemplatePaths DEF LocalInv, Plan
<1>3. PICK m : m = [i \in DOMAIN Sources(p) |-> [image |-> NoImage, edits |-> {p}]]
  OBVIOUS
<1>4. m \in Seq(Content) /\ Len(m) = Len(Sources(p))
  <2>1. [image |-> NoImage, edits |-> {p}] \in Content
    BY DEF Content
  <2>2. DOMAIN Sources(p) = 1..Len(Sources(p)) /\ Len(Sources(p)) \in Nat
    BY RequestFacts DEF LocalInv
  <2>3. m \in [1..Len(Sources(p)) -> Content]
    BY <1>3, <2>1, <2>2
  <2> QED
    BY <2>2, <2>3
<1>5. outputs' = [outputs EXCEPT ![p] = IF toStdout THEN outputs[p] ELSE t]
  BY <1>1 DEF Plan, LocalInv, TypeOK
<1>6. made' = [made EXCEPT ![p] = IF ~sidecar THEN <<>> ELSE m]
  BY <1>3 DEF Plan
<1>7. stage' = [stage EXCEPT ![p] = IF Literal(p) THEN "check" ELSE IF ~sidecar THEN "read"
                                 ELSE IF toStdout THEN "erase" ELSE "write"]
  BY DEF Plan, Goto
<1>8. stage[p] = "plan" /\ UNCHANGED <<fs, request, current, changed, wrote, overwrote, failed, faults>>
  BY DEF Plan, result
<1>9. TypeOK'
  BY <1>2, <1>4, <1>5, <1>6, <1>7, <1>8 DEF LocalInv, TypeOK, Stages
<1>10. /\ Local(p) /\ ~InPlace(p) /\ current[p] = 1 /\ wrote[p] = {} /\ changed[p] = <<>>
       /\ outputs[p] = <<>>
  BY <1>8 DEF LocalInv, Local, StagesOfRoute, Ends
<1>11. /\ request'[p] = request[p] /\ current'[p] = 1 /\ wrote'[p] = {} /\ changed'[p] = <<>>
       /\ outputs'[p] = (IF toStdout THEN <<>> ELSE t) /\ made'[p] = (IF ~sidecar THEN <<>> ELSE m)
  BY <1>5, <1>6, <1>8, <1>10 DEF LocalInv, TypeOK
<1>12. \/ Literal(p) /\ ~sidecar /\ stage'[p] = "check"
       \/ ~Literal(p) /\ ~sidecar /\ stage'[p] = "read"
       \/ ~Literal(p) /\ sidecar /\ toStdout /\ stage'[p] = "erase"
       \/ ~Literal(p) /\ sidecar /\ ~toStdout /\ stage'[p] = "write"
  <2>1. Literal(p) => ~sidecar
    BY DEF Literal
  <2>2. p \in DOMAIN stage
    BY DEF LocalInv, TypeOK
  <2> QED
    BY <1>7, <2>1, <2>2
<1>13. /\ Literal(p)' <=> Literal(p)
       /\ ~InPlace(p)' /\ Sources(p)' = Sources(p) /\ (ToFiles(p)' <=> ~toStdout)
  BY <1>10, <1>11 DEF Literal, InPlace, Sources, ToFiles
<1>14. StagesOfRoute(p)'
  BY <1>11, <1>12, <1>13 DEF StagesOfRoute
<1>15. Supplied(p)'
  BY <1>2, <1>4, <1>11, <1>12, <1>13 DEF Supplied
<1>16. Chosen(p)' /\ Listed(p)'
  BY <1>2, <1>11, <1>12, <1>13 DEF Chosen, Listed, Literal, Range
<1> QED
  BY <1>9, <1>14, <1>15, <1>16 DEF Local

LEMMA CheckTargetLocal ==
  ASSUME LocalInv, NEW p \in Procs, CheckTarget(p)
  PROVE  TypeOK' /\ Local(p)'
<1>1. TypeOK'
  BY DEF LocalInv, TypeOK, CheckTarget, Goto, Stages, Ends, result
<1>2. source(p) \in Paths /\ Local(p) /\ Literal(p) /\ ~InPlace(p) /\ stage[p] = "check"
  BY RequestFacts DEF LocalInv, CheckTarget, Local, StagesOfRoute, Literal, InPlace
<1>3. /\ UNCHANGED <<request, current, outputs, made, changed, wrote, failed>>
      /\ stage'[p] \in {"failed", "read"}
  BY DEF LocalInv, TypeOK, CheckTarget, Goto, result
<1>4. Local(p)'
  BY <1>2, <1>3 DEF Local, StagesOfRoute, Supplied, Chosen, Listed, ToFiles, InPlace, Literal, Sources, Ends
<1> QED
  BY <1>1, <1>4

\* NextSource goes to the next source there is, or ends.
LEMMA NextSourceFacts ==
  ASSUME TypeOK, NEW p \in Procs, NEW s, NEW after, NextSource(p, s, after)
  PROVE  /\ \/ current[p] < Len(Sources(p)) /\ current'[p] = current[p] + 1 /\ stage'[p] = s
            \/ current[p] = Len(Sources(p)) /\ current'[p] = 1 /\ stage'[p] = after
         /\ current' \in [Procs -> Nat] /\ \A q \in Procs : current'[q] \in DOMAIN Sources(q)
         /\ s \in Stages /\ after \in Stages => stage' \in [Procs -> Stages]
<1>1. current[p] \in 1..Len(Sources(p)) /\ DOMAIN Sources(p) = 1..Len(Sources(p)) /\ Len(Sources(p)) \in Nat
  BY RequestFacts
<1>2. \A q \in Procs : current[q] \in DOMAIN Sources(q)
  BY DEF TypeOK, Sources
<1>3. current \in [Procs -> Nat] /\ stage \in [Procs -> Stages]
  BY DEF TypeOK
<1>4. CASE current[p] < Len(Sources(p))
  <2>1. current' = [current EXCEPT ![p] = current[p] + 1] /\ stage' = [stage EXCEPT ![p] = s]
    BY <1>4 DEF NextSource, Goto
  <2>2. current[p] + 1 \in DOMAIN Sources(p) /\ current[p] + 1 \in Nat
    BY <1>1, <1>4
  <2> QED
    BY <1>2, <1>3, <1>4, <2>1, <2>2
<1>5. CASE current[p] = Len(Sources(p))
  <2>1. current' = [current EXCEPT ![p] = 1] /\ stage' = [stage EXCEPT ![p] = after]
    BY <1>1, <1>5 DEF NextSource, Goto
  <2>2. 1 \in DOMAIN Sources(p)
    BY <1>1
  <2> QED
    BY <1>2, <1>3, <1>5, <2>1, <2>2
<1> QED
  BY <1>1, <1>4, <1>5

\* What is made of a content keeps its image, and has p's edit.
LEMMA MadeContent ==
  ASSUME NEW p \in Procs, NEW content \in Content
  PROVE  /\ MadeFrom(p, content) \in Content /\ p \in MadeFrom(p, content).edits
         /\ request[p].route # "extract" =>
              /\ MadeFrom(p, content).image = content.image
              /\ MadeFrom(p, content).edits = content.edits \cup {p}
BY DEF MadeFrom, Content

LEMMA ReadSourceLocal ==
  ASSUME LocalInv, NEW p \in Procs, ReadSource(p)
  PROVE  TypeOK' /\ Local(p)'
<1> DEFINE after == IF request[p].stdout THEN "erase" ELSE "write"
<1>1. PICK content \in Content : content = MadeFrom(p, fs[source(p)])
  BY MadeContent, RequestFacts DEF LocalInv, TypeOK, ReadSource, Exists
<1>2. /\ Len(made[p]) \in Nat /\ made[p] \in Seq(Content)
      /\ made' = [made EXCEPT ![p] = Append(made[p], content)]
      /\ made'[p] = Append(made[p], content) /\ Len(made'[p]) = Len(made[p]) + 1
  BY <1>1 DEF ReadSource, LocalInv, TypeOK
<1>3. /\ Local(p) /\ stage[p] = "read" /\ ~InPlace(p)
      /\ UNCHANGED <<fs, request, outputs, changed, wrote, overwrote, failed, faults>>
  BY DEF ReadSource, LocalInv, result
<1>4. \/ Literal(p) /\ stage'[p] = "write" /\ current'[p] = current[p]
      \/ /\ ~Literal(p) /\ current[p] < Len(Sources(p))
         /\ current'[p] = current[p] + 1 /\ stage'[p] = "read"
      \/ /\ ~Literal(p) /\ current[p] = Len(Sources(p))
         /\ current'[p] = 1 /\ stage'[p] = after
  BY NextSourceFacts DEF ReadSource, LocalInv, TypeOK, Goto
<1>5. TypeOK'
  <2>1. /\ current' \in [Procs -> Nat] /\ \A q \in Procs : current'[q] \in DOMAIN Sources(q)
        /\ stage' \in [Procs -> Stages]
    <3>1. CASE Literal(p)
      BY <3>1 DEF ReadSource, LocalInv, TypeOK, Goto, Stages, Sources
    <3>2. CASE ~Literal(p)
      <4>1. NextSource(p, "read", after) /\ after \in Stages /\ "read" \in Stages
        BY <3>2 DEF ReadSource, Stages
      <4> QED
        BY <4>1, NextSourceFacts DEF LocalInv
    <3> QED
      BY <3>1, <3>2
  <2>2. \A q \in Procs : current'[q] \in DOMAIN request'[q].sources
    BY <1>3, <2>1 DEF Sources
  <2>3. made' \in [Procs -> Seq(Content)]
    BY <1>1, <1>2 DEF LocalInv, TypeOK
  <2> QED
    BY <1>3, <2>1, <2>2, <2>3 DEF LocalInv, TypeOK
<1>6. Len(Sources(p)) \in Nat /\ current[p] \in 1..Len(Sources(p)) /\ request[p].stdout \in BOOLEAN
  BY RequestFacts DEF LocalInv
<1>7. StagesOfRoute(p)'
  BY <1>3, <1>4, RequestKept DEF Local, StagesOfRoute, Literal
<1>8. Supplied(p)'
  BY <1>2, <1>3, <1>4, <1>6, RequestKept DEF Local, Supplied
<1>9. Chosen(p)' /\ Listed(p)'
  BY <1>3, <1>4, RequestKept DEF Local, Chosen, Listed, Literal
<1> QED
  BY <1>5, <1>7, <1>8, <1>9 DEF Local

\* A failed read leaves one written path unlisted at most: literal routes have one path.
LEMMA ReadFailsLocal ==
  ASSUME LocalInv, NEW p \in Procs, ReadFails(p)
  PROVE  TypeOK' /\ Local(p)'
<1>1. /\ Local(p) /\ stage[p] = "read" /\ ~InPlace(p) /\ stage'[p] \in {"failed", "raised"}
      /\ \E s \in {"failed", "raised"} : stage' = [stage EXCEPT ![p] = s]
      /\ changed' \in {changed, [changed EXCEPT ![p] = <<>>]}
      /\ UNCHANGED <<fs, request, current, outputs, made, wrote, overwrote, failed>>
  BY DEF ReadFails, LocalInv, TypeOK, Goto
<1>2. faults' \in 0..MaxFaults
  BY WriteOutputAssumption DEF ReadFails, Fault, LocalInv, TypeOK
<1>3. changed' \in [Procs -> Seq(Paths)] /\ changed'[p] \in {changed[p], <<>>}
  <2>1. <<>> \in Seq(Paths)
    OBVIOUS
  <2> QED
    BY <1>1, <2>1 DEF LocalInv, TypeOK
<1>4. TypeOK'
  BY <1>1, <1>2, <1>3 DEF LocalInv, TypeOK, Stages, Ends
<1>5. StagesOfRoute(p)' /\ Supplied(p)' /\ Chosen(p)'
  BY <1>1, RequestKept DEF Local, StagesOfRoute, Supplied, Chosen
<1>6. wrote[p] \subseteq Range(changed[p]) /\ Range(changed[p]) \subseteq wrote[p]
      /\ wrote[p] \subseteq Range(outputs[p]) /\ (~Literal(p) => wrote[p] = {})
  BY <1>1 DEF Local, Listed
<1>7. \E q \in Paths : wrote[p] \subseteq {q}
  <2>1. source(p) \in Paths
    BY RequestFacts DEF LocalInv
  <2>2. CASE wrote[p] = {}
    BY <2>1, <2>2
  <2>3. CASE wrote[p] # {}
    <3>1. PICK q \in wrote[p] : TRUE
      BY <2>3
    <3>2. \A r \in wrote[p] : r = q
      BY <1>1, <1>6, <3>1 DEF Local, Chosen, Range
    <3>3. q \in Paths
      BY <3>1 DEF LocalInv, TypeOK
    <3> QED
      BY <3>2, <3>3
  <2> QED
    BY <2>2, <2>3
<1>8. Range(changed'[p]) \subseteq wrote'[p]
  BY <1>1, <1>3, <1>6 DEF Range
<1>9. Listed(p)'
  <2>1. stage'[p] = "raised" => wrote[p] = {}
    BY <1>1, <1>6 DEF ReadFails, Goto, Literal, LocalInv, TypeOK
  <2>2. stage'[p] \in {"failed", "raised"} /\ wrote'[p] = wrote[p] /\ outputs'[p] = outputs[p]
        /\ ~InPlace(p)' /\ wrote[p] \subseteq Range(outputs[p])
    BY <1>1, <1>6, RequestKept
  <2> QED
    BY <1>7, <1>8, <2>1, <2>2 DEF Listed, Range
<1> QED
  BY <1>4, <1>5, <1>9 DEF Local

\* Put changes one path, and remembers it.
LEMMA PutFacts ==
  ASSUME TypeOK, NEW p \in Procs, NEW q \in Paths, NEW content \in Content, Put(p, q, content)
  PROVE  /\ fs' \in [Paths -> Content \cup {NoFile}] /\ wrote' \in [Procs -> SUBSET Paths]
         /\ overwrote' \in [Procs -> BOOLEAN]
         /\ fs'[q] = content /\ \A r \in Paths \ {q} : fs'[r] = fs[r]
         /\ wrote'[p] = wrote[p] \cup {q}
         /\ overwrote'[p] <=> overwrote[p] \/ (~InPlace(p) /\ Exists(q))
<1>1. /\ fs' = [fs EXCEPT ![q] = content] /\ wrote' = [wrote EXCEPT ![p] = wrote[p] \cup {q}]
      /\ overwrote' = [overwrote EXCEPT ![p] = overwrote[p] \/ (~InPlace(p) /\ Exists(q))]
  BY DEF Put
<1>2. fs \in [Paths -> Content \cup {NoFile}] /\ wrote \in [Procs -> SUBSET Paths] /\ overwrote \in [Procs -> BOOLEAN]
  BY DEF TypeOK
<1>3. overwrote' \in [Procs -> BOOLEAN] /\ (overwrote'[p] <=> overwrote[p] \/ (~InPlace(p) /\ Exists(q)))
  BY <1>1, <1>2
<1>4. fs' \in [Paths -> Content \cup {NoFile}] /\ fs'[q] = content /\ \A r \in Paths \ {q} : fs'[r] = fs[r]
  BY <1>1, <1>2
<1>5. wrote' \in [Procs -> SUBSET Paths] /\ wrote'[p] = wrote[p] \cup {q}
  BY <1>1, <1>2
<1> QED
  BY <1>3, <1>4, <1>5

\* The write to come has its path and its content.
LEMMA WriteReady ==
  ASSUME LocalInv, NEW p \in Procs, stage[p] = "write", ~InPlace(p)
  PROVE  /\ outputs[p][current[p]] \in Paths /\ outputs[p][current[p]] \in Range(outputs[p])
         /\ current[p] \in DOMAIN outputs[p] /\ current[p] \in DOMAIN made[p]
         /\ made[p][current[p]] \in Content /\ ToFiles(p)
<1>1. Local(p) /\ current[p] \in DOMAIN Sources(p) /\ DOMAIN Sources(p) = 1..Len(Sources(p))
      /\ current[p] \in 1..Len(Sources(p))
  BY RequestFacts DEF LocalInv
<1>2. DOMAIN outputs[p] = DOMAIN Sources(p) /\ ToFiles(p)
  BY <1>1 DEF Local, StagesOfRoute, Supplied, ToFiles
<1>3. Len(made[p]) = IF Literal(p) THEN current[p] ELSE Len(Sources(p))
  BY <1>1 DEF Local, Supplied
<1>4. made[p] \in Seq(Content) /\ outputs[p] \in Seq(Paths)
  BY DEF LocalInv, TypeOK
<1>5. current[p] \in 1..Len(made[p]) /\ current[p] \in 1..Len(outputs[p])
  BY <1>1, <1>2, <1>3, <1>4
<1>6. made[p][current[p]] \in Content /\ outputs[p][current[p]] \in Paths /\ current[p] \in DOMAIN made[p]
  BY <1>4, <1>5
<1> QED
  BY <1>1, <1>2, <1>6 DEF Range

\* So has the write in place.
LEMMA InPlaceReady ==
  ASSUME LocalInv, NEW p \in Procs, stage[p] = "write", InPlace(p)
  PROVE  made[p][1] \in Content
<1>1. made[p] \in Seq(Content) /\ Len(made[p]) = 1
  BY DEF LocalInv, TypeOK, Local, Supplied
<1> QED
  BY <1>1

LEMMA WriteFailsLocal ==
  ASSUME LocalInv, NEW p \in Procs, WriteFails(p)
  PROVE  TypeOK' /\ Local(p)'
<1> DEFINE q == outputs[p][current[p]]
<1>1. /\ Local(p) /\ stage[p] = "write" /\ ~InPlace(p) /\ stage'[p] = "failed"
      /\ stage' \in [Procs -> Stages]
      /\ UNCHANGED <<request, current, outputs, made, changed, failed>>
  BY DEF WriteFails, LocalInv, TypeOK, Goto, Stages, Ends
<1>2. q \in Paths /\ q \in Range(outputs[p]) /\ made[p][current[p]] \in Content
  BY <1>1, WriteReady
<1>3. /\ fs' \in [Paths -> Content \cup {NoFile}] /\ wrote' \in [Procs -> SUBSET Paths]
      /\ overwrote' \in [Procs -> BOOLEAN] /\ wrote'[p] \in {wrote[p], wrote[p] \cup {q}}
  <2>1. CASE Put(p, q, made[p][current[p]])
    BY <1>2, <2>1, PutFacts DEF LocalInv
  <2>2. CASE UNCHANGED <<fs, wrote, overwrote>>
    BY <2>2 DEF LocalInv, TypeOK
  <2> QED
    BY <2>1, <2>2 DEF WriteFails
<1>4. faults' \in 0..MaxFaults
  BY WriteOutputAssumption DEF WriteFails, Fault, LocalInv, TypeOK
<1>5. TypeOK'
  BY <1>1, <1>3, <1>4 DEF LocalInv, TypeOK
<1>6. StagesOfRoute(p)' /\ Supplied(p)' /\ Chosen(p)'
  BY <1>1, RequestKept DEF Local, StagesOfRoute, Supplied, Chosen
<1>7. Listed(p)'
  BY <1>1, <1>2, <1>3, RequestKept DEF Local, Listed, Ends
<1> QED
  BY <1>5, <1>6, <1>7 DEF Local

LEMMA WriteOutputLocal ==
  ASSUME LocalInv, NEW p \in Procs, WriteOutput(p)
  PROVE  TypeOK' /\ Local(p)'
<1> DEFINE q == outputs[p][current[p]]
<1>1. /\ Local(p) /\ stage[p] = "write" /\ ~InPlace(p)
      /\ UNCHANGED <<request, outputs, made, failed, faults>>
      /\ Put(p, q, made[p][current[p]]) /\ changed' = [changed EXCEPT ![p] = Append(changed[p], q)]
  BY DEF WriteOutput, LocalInv
<1>2. q \in Paths /\ q \in Range(outputs[p]) /\ made[p][current[p]] \in Content /\ ToFiles(p)
  BY <1>1, WriteReady
<1>3. /\ fs' \in [Paths -> Content \cup {NoFile}] /\ wrote' \in [Procs -> SUBSET Paths]
      /\ overwrote' \in [Procs -> BOOLEAN] /\ wrote'[p] = wrote[p] \cup {q}
  BY <1>1, <1>2, PutFacts DEF LocalInv
<1>4. changed' \in [Procs -> Seq(Paths)] /\ Range(changed'[p]) = Range(changed[p]) \cup {q}
  <2>1. changed[p] \in Seq(Paths) /\ changed \in [Procs -> Seq(Paths)]
    BY DEF LocalInv, TypeOK
  <2>2. Append(changed[p], q) \in Seq(Paths) /\ Range(Append(changed[p], q)) = Range(changed[p]) \cup {q}
    BY <1>2, <2>1, AppendRange
  <2>3. changed' \in [Procs -> Seq(Paths)] /\ changed'[p] = Append(changed[p], q)
    BY <1>1, <2>1, <2>2
  <2> QED
    BY <2>2, <2>3
<1>5. /\ \/ Literal(p) /\ stage'[p] = "erase" /\ current'[p] = current[p]
         \/ ~Literal(p) /\ stage'[p] = "write"
         \/ ~Literal(p) /\ stage'[p] = "erase"
      /\ current' \in [Procs -> Nat] /\ \A r \in Procs : current'[r] \in DOMAIN Sources(r)
      /\ stage' \in [Procs -> Stages]
  <2>1. CASE Literal(p)
    BY <2>1 DEF WriteOutput, LocalInv, TypeOK, Goto, Stages, Sources
  <2>2. CASE ~Literal(p)
    <3>1. NextSource(p, "write", "erase") /\ "write" \in Stages /\ "erase" \in Stages
      BY <2>2 DEF WriteOutput, Stages
    <3> QED
      BY <2>2, <3>1, NextSourceFacts DEF LocalInv
  <2> QED
    BY <2>1, <2>2
<1>6. TypeOK'
  <2>1. \A r \in Procs : current'[r] \in DOMAIN request'[r].sources
    BY <1>1, <1>5 DEF Sources
  <2> QED
    BY <1>1, <1>3, <1>4, <1>5, <2>1 DEF LocalInv, TypeOK
<1>7. StagesOfRoute(p)' /\ Supplied(p)' /\ Chosen(p)'
  BY <1>1, <1>2, <1>5, RequestKept DEF Local, StagesOfRoute, Supplied, Chosen, Literal, ToFiles
<1>8. Listed(p)'
  BY <1>1, <1>2, <1>3, <1>4, <1>5, RequestKept DEF Local, Listed, Ends
<1> QED
  BY <1>6, <1>7, <1>8 DEF Local

LEMMA EraseSourceLocal ==
  ASSUME LocalInv, NEW p \in Procs, EraseSource(p)
  PROVE  TypeOK' /\ Local(p)'
<1> DEFINE s == IF Literal(p) THEN "check" ELSE "erase"
           after == IF request[p].stdout THEN "emit" ELSE "ok"
<1>1. /\ Local(p) /\ stage[p] = "erase" /\ ~InPlace(p)
      /\ UNCHANGED <<request, outputs, made, changed, wrote, overwrote, failed>>
  BY DEF EraseSource, LocalInv, Local, StagesOfRoute, Ends, result
<1>2. NextSource(p, s, after) /\ s \in Stages /\ after \in Stages
  BY DEF EraseSource, AfterErase, Stages, Ends
<1>3. /\ \/ current[p] < Len(Sources(p)) /\ current'[p] = current[p] + 1 /\ stage'[p] = s
         \/ current[p] = Len(Sources(p)) /\ current'[p] = 1 /\ stage'[p] = after
      /\ current' \in [Procs -> Nat] /\ \A q \in Procs : current'[q] \in DOMAIN Sources(q)
      /\ stage' \in [Procs -> Stages] /\ Len(Sources(p)) \in Nat /\ current[p] \in Nat
  BY <1>2, NextSourceFacts, RequestFacts DEF LocalInv
<1>4. TypeOK'
  <2>1. \A q \in Procs : current'[q] \in DOMAIN request'[q].sources
    BY <1>1, <1>3 DEF Sources
  <2>2. faults' \in 0..MaxFaults
    BY WriteOutputAssumption DEF EraseSource, Fault, LocalInv, TypeOK
  <2>3. fs' \in [Paths -> Content \cup {NoFile}]
    BY RequestFacts DEF EraseSource, LocalInv, TypeOK
  <2> QED
    BY <1>1, <1>3, <2>1, <2>2, <2>3 DEF LocalInv, TypeOK
<1>5. StagesOfRoute(p)' /\ Chosen(p)'
  BY <1>1, <1>3, RequestKept DEF Local, StagesOfRoute, Chosen, Literal
<1>6. Supplied(p)'
  BY <1>1, <1>3, RequestKept DEF Local, Supplied, Literal
<1>7. Listed(p)'
  BY <1>1, <1>3, RequestKept DEF Local, Listed, Ends
<1> QED
  BY <1>4, <1>5, <1>6, <1>7 DEF Local

LEMMA EmitBytesLocal ==
  ASSUME LocalInv, NEW p \in Procs, EmitBytes(p)
  PROVE  TypeOK' /\ Local(p)'
<1>1. /\ Local(p) /\ stage[p] = "emit" /\ ~InPlace(p) /\ stage'[p] \in {"ok", "failed"}
      /\ stage' \in [Procs -> Stages]
      /\ UNCHANGED <<fs, request, current, outputs, made, changed, wrote, overwrote, failed>>
  BY DEF EmitBytes, LocalInv, TypeOK, Local, StagesOfRoute, Goto, Stages, Ends, result
<1>2. faults' \in 0..MaxFaults
  BY WriteOutputAssumption DEF EmitBytes, Fault, LocalInv, TypeOK
<1>3. TypeOK'
  BY <1>1, <1>2 DEF LocalInv, TypeOK
<1>4. source(p) \in Paths
  BY RequestFacts DEF LocalInv
<1>5. Local(p)'
  BY <1>1, <1>4, RequestKept DEF Local, StagesOfRoute, Supplied, Chosen, Listed, Ends
<1> QED
  BY <1>3, <1>5

LEMMA ReadInPlaceLocal ==
  ASSUME LocalInv, NEW p \in Procs, ReadInPlace(p)
  PROVE  TypeOK' /\ Local(p)'
<1> DEFINE after == EndOfLoop(p, failed[p])
<1>1. PICK content \in Content : content = MadeFrom(p, fs[source(p)])
  BY MadeContent, RequestFacts DEF LocalInv, TypeOK, ReadInPlace, Exists
<1>2. made' = [made EXCEPT ![p] = <<content>>] /\ <<content>> \in Seq(Content) /\ Len(<<content>>) = 1
  BY <1>1 DEF ReadInPlace
<1>3. made' \in [Procs -> Seq(Content)] /\ Len(made'[p]) = 1
  BY <1>2 DEF LocalInv, TypeOK
<1>4. /\ Local(p) /\ stage[p] = "read" /\ InPlace(p)
      /\ UNCHANGED <<fs, request, outputs, changed, wrote, overwrote, failed, faults>>
  BY DEF ReadInPlace, LocalInv, result
<1>5. /\ stage'[p] \in {"read", "write", after} /\ current' \in [Procs -> Nat]
      /\ \A q \in Procs : current'[q] \in DOMAIN Sources(q)
      /\ stage' \in [Procs -> Stages]
  <2>1. CASE Goto(p, "write") /\ UNCHANGED current
    BY <2>1 DEF LocalInv, TypeOK, Goto, Stages, Sources
  <2>2. CASE NextSource(p, "read", after)
    <3>1. "read" \in Stages /\ after \in Stages
      BY DEF EndOfLoop, Stages, Ends
    <3> QED
      BY <2>2, <3>1, NextSourceFacts DEF LocalInv
  <2> QED
    BY <2>1, <2>2 DEF ReadInPlace
<1>6. TypeOK'
  <2>1. \A q \in Procs : current'[q] \in DOMAIN request'[q].sources
    BY <1>4, <1>5 DEF Sources
  <2> QED
    BY <1>3, <1>4, <1>5, <2>1 DEF LocalInv, TypeOK
<1>7. Local(p)'
  BY <1>3, <1>4, <1>5, RequestKept DEF EndOfLoop, Local, StagesOfRoute, Supplied, Chosen, Listed,
     ToFiles, InPlace, Literal, Ends
<1> QED
  BY <1>6, <1>7

LEMMA WriteInPlaceLocal ==
  ASSUME LocalInv, NEW p \in Procs, WriteInPlace(p)
  PROVE  TypeOK' /\ Local(p)'
<1> DEFINE after == EndOfLoop(p, failed[p])
           q == source(p)
<1>1. /\ Local(p) /\ stage[p] = "write" /\ InPlace(p) /\ Put(p, q, made[p][1])
      /\ changed' = [changed EXCEPT ![p] = Append(changed[p], q)] /\ NextSource(p, "read", after)
      /\ UNCHANGED <<request, outputs, made, failed, faults>>
  BY DEF WriteInPlace, LocalInv
<1>2. q \in Paths /\ made[p][1] \in Content
  BY <1>1, RequestFacts, InPlaceReady DEF LocalInv
<1>3. /\ fs' \in [Paths -> Content \cup {NoFile}] /\ wrote' \in [Procs -> SUBSET Paths]
      /\ overwrote' \in [Procs -> BOOLEAN] /\ wrote'[p] = wrote[p] \cup {q}
  BY <1>1, <1>2, PutFacts DEF LocalInv
<1>4. changed' \in [Procs -> Seq(Paths)] /\ Range(changed'[p]) = Range(changed[p]) \cup {q}
  <2>1. changed[p] \in Seq(Paths) /\ changed \in [Procs -> Seq(Paths)]
    BY DEF LocalInv, TypeOK
  <2>2. Append(changed[p], q) \in Seq(Paths) /\ Range(Append(changed[p], q)) = Range(changed[p]) \cup {q}
    BY <1>2, <2>1, AppendRange
  <2>3. changed' \in [Procs -> Seq(Paths)] /\ changed'[p] = Append(changed[p], q)
    BY <1>1, <2>1, <2>2
  <2> QED
    BY <2>2, <2>3
<1>5. /\ stage'[p] \in {"read", after} /\ current' \in [Procs -> Nat]
      /\ \A r \in Procs : current'[r] \in DOMAIN Sources(r)
      /\ stage' \in [Procs -> Stages]
  <2>1. "read" \in Stages /\ after \in Stages
    BY DEF EndOfLoop, Stages, Ends
  <2> QED
    BY <1>1, <2>1, NextSourceFacts DEF LocalInv
<1>6. TypeOK'
  <2>1. \A r \in Procs : current'[r] \in DOMAIN request'[r].sources
    BY <1>1, <1>5 DEF Sources
  <2> QED
    BY <1>1, <1>3, <1>4, <1>5, <2>1 DEF LocalInv, TypeOK
<1>7. StagesOfRoute(p)' /\ Supplied(p)' /\ Chosen(p)'
  BY <1>1, <1>5, RequestKept DEF EndOfLoop, Local, StagesOfRoute, Supplied, Chosen, ToFiles, InPlace, Literal, Ends
<1>8. Listed(p)'
  BY <1>1, <1>3, <1>4, <1>5, RequestKept DEF EndOfLoop, Local, Listed
<1> QED
  BY <1>6, <1>7, <1>8 DEF Local

LEMMA FailInPlaceLocal ==
  ASSUME LocalInv, NEW p \in Procs, FailInPlace(p)
  PROVE  TypeOK' /\ Local(p)'
<1> DEFINE q == source(p)
<1>1. /\ Local(p) /\ stage[p] \in {"read", "write"} /\ InPlace(p)
      /\ failed' = [failed EXCEPT ![p] = failed[p] \cup {q}] /\ NextSource(p, "read", "failed")
      /\ \/ stage[p] = "write" /\ Put(p, q, made[p][1])
         \/ UNCHANGED <<fs, wrote, overwrote>>
      /\ UNCHANGED <<request, outputs, made, changed>>
  BY DEF FailInPlace, LocalInv
<1>2. q \in Paths /\ failed' \in [Procs -> SUBSET Paths] /\ failed'[p] # {}
  BY <1>1, RequestFacts DEF LocalInv, TypeOK
<1>3. /\ fs' \in [Paths -> Content \cup {NoFile}] /\ wrote' \in [Procs -> SUBSET Paths]
      /\ overwrote' \in [Procs -> BOOLEAN] /\ wrote'[p] \in {wrote[p], wrote[p] \cup {q}}
  <2>1. CASE stage[p] = "write" /\ Put(p, q, made[p][1])
    <3>1. made[p][1] \in Content
      BY <1>1, <2>1, InPlaceReady
    <3> QED
      BY <1>2, <2>1, <3>1, PutFacts DEF LocalInv
  <2>2. CASE UNCHANGED <<fs, wrote, overwrote>>
    BY <2>2 DEF LocalInv, TypeOK
  <2> QED
    BY <1>1, <2>1, <2>2
<1>4. faults' \in 0..MaxFaults
  BY WriteOutputAssumption DEF FailInPlace, Fault, LocalInv, TypeOK
<1>5. /\ stage'[p] \in {"read", "failed"} /\ current' \in [Procs -> Nat]
      /\ \A r \in Procs : current'[r] \in DOMAIN Sources(r)
      /\ stage' \in [Procs -> Stages]
  <2>1. "read" \in Stages /\ "failed" \in Stages
    BY DEF Stages, Ends
  <2> QED
    BY <1>1, <2>1, NextSourceFacts DEF LocalInv
<1>6. TypeOK'
  <2>1. \A r \in Procs : current'[r] \in DOMAIN request'[r].sources
    BY <1>1, <1>5 DEF Sources
  <2> QED
    BY <1>1, <1>2, <1>3, <1>4, <1>5, <2>1 DEF LocalInv, TypeOK
<1>7. StagesOfRoute(p)' /\ Supplied(p)' /\ Chosen(p)'
  BY <1>1, <1>5, RequestKept DEF Local, StagesOfRoute, Supplied, Chosen, ToFiles, InPlace, Literal, Ends
<1>8. Listed(p)'
  BY <1>1, <1>2, <1>3, <1>5, RequestKept DEF Local, Listed
<1> QED
  BY <1>6, <1>7, <1>8 DEF Local

LEMMA KillLocal ==
  ASSUME LocalInv, NEW p \in Procs, Kill(p)
  PROVE  TypeOK' /\ Local(p)'
<1>1. /\ Local(p) /\ stage[p] \notin Ends /\ stage'[p] = "killed" /\ stage' \in [Procs -> Stages]
      /\ UNCHANGED <<fs, request, current, outputs, made, changed, wrote, overwrote, failed>>
  BY DEF Kill, LocalInv, TypeOK, Goto, Stages, Ends, result
<1>2. faults' \in 0..MaxFaults
  BY WriteOutputAssumption DEF Kill, Fault, LocalInv, TypeOK
<1>3. TypeOK'
  BY <1>1, <1>2 DEF LocalInv, TypeOK
<1>4. Local(p)'
  BY <1>1, RequestKept DEF Local, StagesOfRoute, Supplied, Chosen, Listed, Ends
<1> QED
  BY <1>3, <1>4

\* LocalInv is inductive.
LEMMA InitLocal == Init => LocalInv
<1> SUFFICES ASSUME Init PROVE LocalInv
  OBVIOUS
<1>1. TypeOK
  <2>1. \A r \in Requests : 1 \in DOMAIN r.sources
    BY WriteOutputAssumption DEF Request
  <2>2. fs \in [Paths -> Content \cup {NoFile}]
    BY WriteOutputAssumption DEF Init, Content
  <2>3. 0 \in 0..MaxFaults
    BY WriteOutputAssumption
  <2>4. /\ request \in [Procs -> Requests] /\ stage \in [Procs -> Stages] /\ current \in [Procs -> Nat]
        /\ \A p \in Procs : current[p] = 1
    BY DEF Init, Stages
  <2>5. /\ outputs \in [Procs -> Seq(Paths)] /\ made \in [Procs -> Seq(Content)]
        /\ changed \in [Procs -> Seq(Paths)]
    BY DEF Init
  <2>6. /\ wrote \in [Procs -> SUBSET Paths] /\ failed \in [Procs -> SUBSET Paths]
        /\ overwrote \in [Procs -> BOOLEAN] /\ faults = 0
    BY DEF Init
  <2> QED
    BY <2>1, <2>2, <2>3, <2>4, <2>5, <2>6 DEF TypeOK
<1>2. ASSUME NEW p \in Procs PROVE Local(p)
  BY DEF Init, Local, StagesOfRoute, Supplied, Chosen, Listed, Ends, Range
<1> QED
  BY <1>1, <1>2 DEF LocalInv

LEMMA StepLocal == LocalInv /\ [Next]_vars => LocalInv'
<1> SUFFICES ASSUME LocalInv, [Next]_vars PROVE LocalInv'
  OBVIOUS
<1>1. CASE UNCHANGED vars
  <2>1. TypeOK'
    BY <1>1 DEF LocalInv, TypeOK, vars, result
  <2>2. \A p \in Procs : Local(p)'
    BY <1>1, LocalKept DEF LocalInv, vars, result
  <2> QED
    BY <2>1, <2>2 DEF LocalInv
<1>2. ASSUME NEW p \in Procs, Process(p) \/ Kill(p)
      PROVE  LocalInv'
  <2>1. TypeOK' /\ Local(p)'
    BY <1>2, ClassifyLocal, PlanLocal, CheckTargetLocal, ReadSourceLocal, ReadFailsLocal, WriteOutputLocal,
       WriteFailsLocal, EraseSourceLocal, EmitBytesLocal, ReadInPlaceLocal, WriteInPlaceLocal,
       FailInPlaceLocal, KillLocal DEF Process
  <2>2. \A q \in Procs \ {p} : Local(q)'
    BY <1>2, Alone, LocalKept DEF LocalInv
  <2> QED
    BY <2>1, <2>2 DEF LocalInv
<1> QED
  BY <1>1, <1>2 DEF Next

LEMMA AlwaysLocal == Spec => []LocalInv
BY InitLocal, StepLocal, PTL DEF Spec

\* Type correctness.
THEOREM Typing == Spec => []TypeOK
<1>1. LocalInv => TypeOK
  BY DEF LocalInv
<1> QED
  BY <1>1, AlwaysLocal, PTL

\* What a result lists is what was written (PublicWriteResult.changed_paths), for any
\* processes, requests and faults.
THEOREM ListsWhatWasWritten == Spec => []HonestResult
<1>1. LocalInv => HonestResult
  <2> SUFFICES ASSUME LocalInv, NEW p \in Procs
               PROVE  /\ Range(changed[p]) \subseteq wrote[p]
                      /\ stage[p] = "ok" => Range(changed[p]) = wrote[p]
                      /\ stage[p] = "failed" /\ ~InPlace(p) =>
                           Cardinality(wrote[p] \ Range(changed[p])) <= 1
    BY DEF HonestResult
  <2>1. Local(p)
    BY DEF LocalInv
  <2>2. Range(changed[p]) \subseteq wrote[p] /\ (stage[p] = "ok" => Range(changed[p]) = wrote[p])
    BY <2>1 DEF Local, Listed
  <2>3. ASSUME stage[p] = "failed", ~InPlace(p)
        PROVE  Cardinality(wrote[p] \ Range(changed[p])) <= 1
    <3>1. PICK q : wrote[p] \ Range(changed[p]) \subseteq {q}
      BY <2>1, <2>3 DEF Local, Listed
    <3>2. IsFiniteSet({q}) /\ Cardinality({q}) = 1
      BY FS_Singleton
    <3>3. Cardinality(wrote[p] \ Range(changed[p])) <= Cardinality({q})
      BY <3>1, <3>2, FS_Subset
    <3> QED
      BY <3>2, <3>3
  <2> QED
    BY <2>2, <2>3
<1> QED
  BY <1>1, AlwaysLocal, PTL
=============================================================================
