----------------------------- MODULE WriteOutput -----------------------------
(***************************************************************************)
(* src/exifmodern/public_api/models.py, write_executor.py and              *)
(* public_interface/output_policy.py: where the result of a write goes.    *)
(* Processes that each carry out one write request share a file system: in *)
(* place, to the paths of an -o template, or to standard output.  Writing  *)
(* one path is one step here: FileTransaction is about that step.          *)
(***************************************************************************)
EXTENDS Naturals, Sequences, FiniteSets, Functions

CONSTANTS
  Procs,      \* the processes
  Paths,      \* the file paths
  Existing,   \* the paths of the images that are there at first
  NoFile,     \* no file at a path
  NoImage,    \* a file that holds no image: metadata alone
  Requests,   \* what a process may be asked
  MaxFaults   \* bound: calls that fail and processes that are killed

\* inplace: each source is rewritten; rewrite: its rewritten copy goes to -o;
\* extract: a block of its metadata does; sidecar: the assigned metadata does.
Routes == {"inplace", "rewrite", "extract", "sidecar"}

\* names: what the template expands to for a source; several when it has a copy
\* counter, in counting order.  tokens: it has tokens or names a directory.
\* erase: -overwrite_original.
Request == [route : Routes, stdout : BOOLEAN, sources : Seq(Paths),
            names : [Paths -> Seq(Paths)], tokens : BOOLEAN, erase : BOOLEAN]

\* edits: whose edits the file contains.
Content == [image : Paths \cup {NoImage}, edits : SUBSET Procs]

ASSUME WriteOutputAssumption ==
  /\ Existing \subseteq Paths /\ NoImage \notin Paths /\ NoFile \notin Content
  /\ Requests \subseteq Request /\ \A r \in Requests : r.sources # <<>>
  /\ \A r \in Requests : ~r.tokens =>
       \A q, s \in Paths : r.names[q] = r.names[s] /\ Len(r.names[q]) <= 1
  /\ MaxFaults \in Nat

VARIABLES
  fs,         \* what is at each path
  request,    \* what a process carries out
  stage,      \* where it is
  current,    \* the source it is at
  outputs,    \* where it writes: one path per source
  made,       \* the bytes it has made
  changed,    \* changed_paths
  wrote,      \* the paths it has in fact written
  failed,     \* the sources of an in-place write with a diagnostic
  overwrote,  \* whether an -o write has replaced a file
  faults      \* how many faults there were

result == <<changed, wrote, overwrote>>
vars == <<fs, request, stage, current, outputs, made, result, failed, faults>>

\* failed: a result that says so; raised: an exception and no result.
Ends == {"ok", "failed", "raised", "killed"}
Stages == {"start", "plan", "check", "read", "write", "erase", "emit"} \cup Ends

\* Type invariant of the processes and their files.
TypeOK ==
  /\ fs \in [Paths -> Content \cup {NoFile}]
  /\ request \in [Procs -> Requests] /\ stage \in [Procs -> Stages]
  /\ current \in [Procs -> Nat] /\ \A p \in Procs : current[p] \in DOMAIN request[p].sources
  /\ outputs \in [Procs -> Seq(Paths)] /\ made \in [Procs -> Seq(Content)]
  /\ changed \in [Procs -> Seq(Paths)] /\ wrote \in [Procs -> SUBSET Paths]
  /\ failed \in [Procs -> SUBSET Paths] /\ overwrote \in [Procs -> BOOLEAN]
  /\ faults \in 0..MaxFaults

Init ==
  /\ fs = [q \in Paths |-> IF q \in Existing THEN [image |-> q, edits |-> {}] ELSE NoFile]
  /\ request \in [Procs -> Requests]
  /\ stage = [p \in Procs |-> "start"]
  /\ current = [p \in Procs |-> 1]
  /\ outputs = [p \in Procs |-> <<>>]
  /\ made = [p \in Procs |-> <<>>]
  /\ changed = [p \in Procs |-> <<>>]
  /\ wrote = [p \in Procs |-> {}]
  /\ failed = [p \in Procs |-> {}]
  /\ overwrote = [p \in Procs |-> FALSE]
  /\ faults = 0

Exists(q) == fs[q] # NoFile
Sources(p) == request[p].sources
source(p) == Sources(p)[current[p]]
InPlace(p) == request[p].route = "inplace"
\* _write_output_route_is_literal_multi_source; only the rewrite route asks.
Literal(p) ==
  /\ request[p].route = "rewrite" /\ ~request[p].stdout
  /\ ~request[p].tokens /\ Len(Sources(p)) > 1

Goto(p, s) == stage' = [stage EXCEPT ![p] = s]
\* Mutant: the next stage does not begin with the first source.
NextSourceOnly(p, s, after) ==
  /\ current' = [current EXCEPT ![p] = @ + 1]
  /\ Goto(p, IF current[p] < Len(Sources(p)) THEN s ELSE after)
\* On to the next source, at stage s; after the last one, to stage `after` from the
\* first again.
NextSource(p, s, after) ==
  IF current[p] < Len(Sources(p))
  THEN current' = [current EXCEPT ![p] = @ + 1] /\ Goto(p, s)
  ELSE current' = [current EXCEPT ![p] = 1] /\ Goto(p, after)
Fault == faults < MaxFaults /\ faults' = faults + 1

-----------------------------------------------------------------------------
\* output_policy.py: which paths a template gives, and whether it may be used.

\* _next_unused_filename: the first free name, or the last when the names repeat.
Taken(q, reserved) == Exists(q) \/ q \in reserved
NextUnused(q, candidates, reserved) ==
  \E k \in DOMAIN candidates :
    /\ q = candidates[k]
    /\ \A l \in 1..(k - 1) : Taken(candidates[l], reserved)
    /\ k = Len(candidates) \/ ~Taken(q, reserved)

\* The paths of a template, in the order of the sources: each name is looked for
\* when those before it are reserved.  (The set has one member, or none when the
\* template gives no name.)
Expansions(r) ==
  {targets \in [DOMAIN r.sources -> Paths] :
     \A i \in DOMAIN r.sources :
       NextUnused(targets[i], r.names[r.sources[i]], {targets[j] : j \in 1..(i - 1)})}
EffectivePaths(r) == CHOOSE targets \in Expansions(r) : TRUE

\* Mutant: existing files are not looked for.
MayRouteOver(r, targets) ==
  /\ \A i \in DOMAIN targets : targets[i] # r.sources[i]
  /\ r.tokens => \A i, j \in DOMAIN targets : targets[i] = targets[j] => i = j
\* classify_public_write_output_route: no blocker.
MayRoute(r, targets) ==
  /\ \A i \in DOMAIN targets : ~Exists(targets[i]) /\ targets[i] # r.sources[i]
  /\ r.tokens => \A i, j \in DOMAIN targets : targets[i] = targets[j] => i = j

Classify(p) ==
  /\ stage[p] = "start"
  /\ \/ InPlace(p) /\ Goto(p, "read")
     \/ ~InPlace(p) /\ request[p].stdout /\ Goto(p, "plan")
     \/ /\ ~InPlace(p) /\ ~request[p].stdout /\ Expansions(request[p]) # {}
        /\ Goto(p, IF MayRoute(request[p], EffectivePaths(request[p])) THEN "plan" ELSE "failed")
  /\ UNCHANGED <<fs, request, current, outputs, made, result, failed, faults>>

\* The route takes the paths of the template anew.  A sidecar reads no source.
Plan(p) ==
  /\ stage[p] = "plan"
  /\ IF request[p].stdout THEN UNCHANGED outputs
     ELSE /\ Expansions(request[p]) # {}
          /\ outputs' = [outputs EXCEPT ![p] = EffectivePaths(request[p])]
  /\ made' = [made EXCEPT ![p] =
                IF request[p].route # "sidecar" THEN <<>>
                ELSE [i \in DOMAIN Sources(p) |-> [image |-> NoImage, edits |-> {p}]]]
  /\ Goto(p, IF Literal(p) THEN "check"
             ELSE IF request[p].route # "sidecar" THEN "read"
             ELSE IF request[p].stdout THEN "erase" ELSE "write")
  /\ UNCHANGED <<fs, request, current, result, failed, faults>>

-----------------------------------------------------------------------------
\* models.py: the -o routes.

\* The literal route asks again before each source.
CheckTarget(p) ==
  /\ stage[p] = "check"
  /\ Goto(p, IF Exists(outputs[p][current[p]]) THEN "failed" ELSE "read")
  /\ UNCHANGED <<fs, request, current, outputs, made, result, failed, faults>>

MadeFrom(p, content) ==
  IF request[p].route = "extract" THEN [image |-> NoImage, edits |-> {p}]
  ELSE [content EXCEPT !.edits = @ \cup {p}]

\* _source_backed_write_output_bytes, _remaining_selected_write_output_bytes
ReadSource(p) ==
  /\ stage[p] = "read" /\ ~InPlace(p) /\ Exists(source(p))
  /\ made' = [made EXCEPT ![p] = Append(@, MadeFrom(p, fs[source(p)]))]
  /\ IF Literal(p) THEN Goto(p, "write") /\ UNCHANGED current
     ELSE NextSource(p, "read", IF request[p].stdout THEN "erase" ELSE "write")
  /\ UNCHANGED <<fs, request, outputs, result, failed, faults>>

\* There is no such file, or it cannot be read or rewritten: no output after it.  The
\* literal route forgets its changed paths when the rewrite was what failed.  The
\* extract route catches a ValueError only (a block that is not there), no OSError.
ReadFails(p) ==
  /\ stage[p] = "read" /\ ~InPlace(p)
  /\ IF Exists(source(p)) THEN Fault ELSE UNCHANGED faults
  /\ changed' \in {changed, [changed EXCEPT ![p] = <<>>]}
  /\ \/ (request[p].route = "extract" => Exists(source(p))) /\ Goto(p, "failed")
     \/ request[p].route = "extract" /\ Goto(p, "raised")
  /\ UNCHANGED <<fs, request, current, outputs, made, wrote, overwrote, failed>>

Put(p, q, content) ==
  /\ fs' = [fs EXCEPT ![q] = content]
  /\ wrote' = [wrote EXCEPT ![p] = @ \cup {q}]
  /\ overwrote' = [overwrote EXCEPT ![p] = @ \/ (~InPlace(p) /\ Exists(q))]

\* Mutant: the path is listed before it is written.
WriteFailsListed(p) ==
  /\ stage[p] = "write" /\ ~InPlace(p)
  /\ Fault
  /\ \/ Put(p, outputs[p][current[p]], made[p][current[p]])
     \/ UNCHANGED <<fs, wrote, overwrote>>
  /\ changed' = [changed EXCEPT ![p] = Append(@, outputs[p][current[p]])]
  /\ Goto(p, "failed")
  /\ UNCHANGED <<request, current, outputs, made, failed>>
\* Mutant: the sources are erased all the same.
WriteFailsAndErases(p) ==
  /\ stage[p] = "write" /\ ~InPlace(p)
  /\ Fault
  /\ \/ Put(p, outputs[p][current[p]], made[p][current[p]])
     \/ UNCHANGED <<fs, wrote, overwrote>>
  /\ Goto(p, "erase")
  /\ UNCHANGED <<request, current, outputs, made, changed, failed>>
\* OSError: before the rename, or after it (fsync of the directory, utime), when the
\* file is written and not listed.
WriteFails(p) ==
  /\ stage[p] = "write" /\ ~InPlace(p)
  /\ Fault
  /\ \/ Put(p, outputs[p][current[p]], made[p][current[p]])
     \/ UNCHANGED <<fs, wrote, overwrote>>
  /\ Goto(p, "failed")
  /\ UNCHANGED <<request, current, outputs, made, changed, failed>>

WriteOutput(p) ==
  /\ stage[p] = "write" /\ ~InPlace(p)
  /\ Put(p, outputs[p][current[p]], made[p][current[p]])
  /\ changed' = [changed EXCEPT ![p] = Append(@, outputs[p][current[p]])]
  /\ IF Literal(p) THEN Goto(p, "erase") /\ UNCHANGED current
     ELSE NextSource(p, "write", "erase")
  /\ UNCHANGED <<request, outputs, made, failed, faults>>

AfterErase(p) ==
  NextSource(p, IF Literal(p) THEN "check" ELSE "erase", IF request[p].stdout THEN "emit" ELSE "ok")

\* _write_output_erase_source_if_requested: a source that is gone is as good; one that
\* cannot be erased makes a diagnostic and no failure.
EraseSource(p) ==
  /\ stage[p] = "erase"
  /\ \/ request[p].erase /\ fs' = [fs EXCEPT ![source(p)] = NoFile] /\ UNCHANGED faults
     \/ ~request[p].erase /\ UNCHANGED <<fs, faults>>
     \/ request[p].erase /\ Fault /\ UNCHANGED fs
  /\ AfterErase(p)
  /\ UNCHANGED <<request, outputs, made, result, failed>>

\* entrypoint.py: the caller prints the bytes.
EmitBytes(p) ==
  /\ stage[p] = "emit"
  /\ \/ Goto(p, "ok") /\ UNCHANGED faults
     \/ Fault /\ Goto(p, "failed")
  /\ UNCHANGED <<fs, request, current, outputs, made, result, failed>>

-----------------------------------------------------------------------------
\* write_executor.py: in place, path by path; a path that fails does not stop the rest.

EndOfLoop(p, fails) == IF fails = {} THEN "ok" ELSE "failed"

ReadInPlace(p) ==
  /\ stage[p] = "read" /\ InPlace(p) /\ Exists(source(p))
  /\ made' = [made EXCEPT ![p] = <<MadeFrom(p, fs[source(p)])>>]
  /\ IF MadeFrom(p, fs[source(p)]) = fs[source(p)]
     THEN NextSource(p, "read", EndOfLoop(p, failed[p]))
     ELSE Goto(p, "write") /\ UNCHANGED current
  /\ UNCHANGED <<fs, request, outputs, result, failed, faults>>

\* Mutant: the first failure ends the loop.
FailInPlaceAtOnce(p) ==
  /\ stage[p] \in {"read", "write"} /\ InPlace(p)
  /\ IF Exists(source(p)) THEN Fault ELSE UNCHANGED faults
  /\ failed' = [failed EXCEPT ![p] = @ \cup {source(p)}]
  /\ \/ stage[p] = "write" /\ Exists(source(p)) /\ Put(p, source(p), made[p][1])
     \/ UNCHANGED <<fs, wrote, overwrote>>
  /\ Goto(p, "failed")
  /\ UNCHANGED <<request, current, outputs, made, changed>>
\* A diagnostic for this path, which is gone, or was written or not; on with the next.
FailInPlace(p) ==
  /\ stage[p] \in {"read", "write"} /\ InPlace(p)
  /\ IF Exists(source(p)) THEN Fault ELSE UNCHANGED faults
  /\ failed' = [failed EXCEPT ![p] = @ \cup {source(p)}]
  /\ \/ stage[p] = "write" /\ Exists(source(p)) /\ Put(p, source(p), made[p][1])
     \/ UNCHANGED <<fs, wrote, overwrote>>
  /\ NextSource(p, "read", "failed")
  /\ UNCHANGED <<request, outputs, made, changed>>

WriteInPlace(p) ==
  /\ stage[p] = "write" /\ InPlace(p) /\ Exists(source(p))
  /\ Put(p, source(p), made[p][1])
  /\ changed' = [changed EXCEPT ![p] = Append(@, source(p))]
  /\ NextSource(p, "read", EndOfLoop(p, failed[p]))
  /\ UNCHANGED <<request, outputs, made, failed, faults>>

-----------------------------------------------------------------------------
Kill(p) ==
  /\ stage[p] \notin Ends
  /\ Fault
  /\ Goto(p, "killed")
  /\ UNCHANGED <<fs, request, current, outputs, made, result, failed>>

Process(p) ==
  \/ Classify(p) \/ Plan(p) \/ CheckTarget(p)
  \/ ReadSource(p) \/ ReadFails(p)
  \/ WriteOutput(p) \/ WriteFails(p)
  \/ EraseSource(p) \/ EmitBytes(p)
  \/ ReadInPlace(p) \/ WriteInPlace(p) \/ FailInPlace(p)

Next == \E p \in Procs : Process(p) \/ Kill(p)

Spec == Init /\ [][Next]_vars

-----------------------------------------------------------------------------
OutputNames(p) ==
  IF InPlace(p) \/ request[p].stdout THEN {}
  ELSE UNION {Range(request[p].names[q]) : q \in Range(Sources(p))}

\* No process may write where another one reads or writes with -o.  Nothing in the
\* code sees to it: %c looks for a free name long before the file is written.
Apart ==
  \A p, q \in Procs : p # q =>
    OutputNames(p) \cap (OutputNames(q) \cup Range(Sources(q))) = {}

\* The move of an image (-o with -overwrite_original) keeps it: whatever calls fail
\* and whoever is killed, and however many processes take the same source, it is
\* whole in some file, unless someone asked for it to be erased for metadata alone
\* or sent to standard output.
Kept(q) ==
  \A p \in Procs : q \in Range(Sources(p)) /\ request[p].erase /\ ~InPlace(p)
    => request[p].route = "rewrite" /\ ~request[p].stdout
NothingLost ==
  Apart => \A q \in Existing : Kept(q) => \E r \in Paths : Exists(r) /\ fs[r].image = q

\* "ExifTool -o routing does not overwrite existing output files"
\* (output_policy.py:459): but for extracts and sidecars, which have no literal route.
OverwritesItself(p) ==
  /\ request[p].route \in {"extract", "sidecar"} /\ ~request[p].tokens
  /\ Len(Sources(p)) > 1
NeverOverwrites == Apart => \A p \in Procs : overwrote[p] => OverwritesItself(p)

\* changed_paths names only what was written, and all of it when the result is ok; a
\* failure leaves out one path at most, or with -o the paths before it.
HonestResult ==
  \A p \in Procs :
    /\ Range(changed[p]) \subseteq wrote[p]
    /\ stage[p] = "ok" => Range(changed[p]) = wrote[p]
    /\ stage[p] = "failed" /\ ~InPlace(p) => Cardinality(wrote[p] \ Range(changed[p])) <= 1

\* One path that fails does not stop an in-place write: every other one is written.
\* (One that another process has moved there, with the edit in it, is left alone.)
OthersWritten ==
  Apart => \A p \in Procs :
    InPlace(p) /\ stage[p] \in {"ok", "failed"} =>
      \A q \in Range(Sources(p)) : q \in failed[p] \/ q \in wrote[p]
=============================================================================
