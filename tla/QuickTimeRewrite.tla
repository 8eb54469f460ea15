--------------------------- MODULE QuickTimeRewrite ---------------------------
(***************************************************************************)
(* src/exifmodern/formats/quicktime: how a write moves the media of a      *)
(* QuickTime file and what becomes of the sample chunk offsets, which are  *)
(* absolute positions in the file.  A file is its top-level atoms with the *)
(* place of each, and its stco/co64 tables, flattened; bytes are counted.  *)
(* The stages of a rewrite all copy the atoms in order and resize the      *)
(* metadata ones, so that one walk over the atoms stands for all of them.  *)
(***************************************************************************)
EXTENDS Integers, Sequences

CONSTANTS
  Files,     \* the files a write may be asked for
  Plans,     \* what may be asked
  Growths,   \* bound: by how much a metadata atom's payload changes
  XmpSizes,  \* bound: payload sizes of a new top-level XMP atom
  Max32      \* 0xFFFFFFFF: the largest atom and the largest stco entry

AtomTypes == {"moov", "meco", "mdat", "xmp", "other"}  \* xmp: an XMP uuid atom
\* short: 8 bytes; extended: 16, with a 64-bit size; open: 8, to the end of the file.
Headers == {"short", "extended", "open"}

\* id: whose payload it is; at: where the atom starts; size: of its payload.  The
\* size that a short header states has 32 bits.
HeaderSize(a) == IF a.header = "extended" THEN 16 ELSE 8
Size(a) == HeaderSize(a) + a.size
Atom == {a \in [type : AtomTypes, id : Nat, header : Headers, at : Nat, size : Nat] :
           a.header = "short" => Size(a) <= Max32}
\* supported: at moov/trak/mdia/minf/stbl; valid: its entries fit in it.
Table == [kind : {"stco", "co64"}, supported : BOOLEAN, valid : BOOLEAN, entries : Seq(Nat)]
\* foreign: it has offsets of another kind (iloc, moof, mfra, sidx, saio, gps, CTBO).
File == [atoms : Seq(Atom), tables : Seq(Table), foreign : BOOLEAN]

\* broad: -all=; xmp: what becomes of top-level XMP.
Step == [broad : BOOLEAN, xmp : {"keep", "delete", "set"}]
Plan == [route : {"executor", "fanout", "setup"}, steps : Seq(Step)]

DataStart(a) == a.at + HeaderSize(a)
Holds(a, offset) == DataStart(a) <= offset /\ offset < DataStart(a) + a.size

\* No atom overlaps a later one.
Placed(atoms) == \A i, j \in DOMAIN atoms : i < j => atoms[i].at + Size(atoms[i]) <= atoms[j].at
\* What 4-byte entries hold.
EntriesFitIn(tables) ==
  \A t \in DOMAIN tables : tables[t].kind = "stco" =>
    \A e \in DOMAIN tables[t].entries : tables[t].entries[e] <= Max32

ASSUME QuickTimeAssumption ==
  /\ Files \subseteq File
  /\ \A f \in Files : Placed(f.atoms) /\ EntriesFitIn(f.tables)
  /\ Plans \subseteq Plan
  /\ Growths \subseteq Int
  /\ XmpSizes \subseteq Nat
  /\ Max32 \in Nat

VARIABLES
  original,  \* the file that was read
  plan,
  applied,   \* how many steps of the plan are done
  file,      \* the data so far: the result of those steps
  out,       \* the atoms that the step in progress has encoded
  next,      \* the atom of file that it comes to next
  pos,       \* how many bytes it has encoded
  mdats,     \* the mdat chunks found: in file, and in out
  pc         \* what comes next, or how it ended

walk == <<out, next, pos, mdats>>
vars == <<original, plan, applied, file, walk, pc>>

Ends == {"done", "deferred", "blocked", "failed"}

\* Type invariant of a rewrite: with Atom, no atom is written whose size its header
\* cannot state (encode_quicktime_atom).
TypeOK ==
  /\ original \in Files /\ plan \in Plans
  /\ applied \in 0..Len(plan.steps)
  /\ file \in File /\ out \in Seq(Atom)
  /\ next \in 1..(Len(file.atoms) + 1) /\ pos \in Nat
  /\ mdats \in [source : Seq(Atom), rewritten : Seq(Atom)]
  /\ pc \in {"step", "walk", "repair"} \cup Ends

NoMdats == [source |-> <<>>, rewritten |-> <<>>]

Init ==
  /\ original \in Files /\ plan \in Plans
  /\ file = original
  /\ applied = 0
  /\ out = <<>> /\ next = 1 /\ pos = 0 /\ mdats = NoMdats
  /\ pc = "step"

step == plan.steps[applied + 1]
atom == file.atoms[next]
IsMdat(a) == a.type = "mdat"

\* The rewrite ends without this step: the data is what it was before it.
Stop(how) == pc' = how /\ UNCHANGED <<original, plan, applied, file, walk>>

\* ValueError: a malformed child, an atom over 4 GB, a step that the setup writer
\* does not support.  There is no result.
Raise ==
  /\ pc \in {"step", "walk", "repair"}
  /\ file' = original /\ next' = 1
  /\ pc' = "failed"
  /\ UNCHANGED <<original, plan, applied, out, pos, mdats>>

\* Offsets that a broad delete would break and the repair does not know.
HasUnsupportedOffsets(f) ==
  f.foreign \/ \E t \in DOMAIN f.tables : ~f.tables[t].supported

BeginStep ==
  /\ pc = "step" /\ applied < Len(plan.steps)
  /\ IF step.broad /\ HasUnsupportedOffsets(file) THEN Stop("blocked")
     ELSE /\ out' = <<>> /\ next' = 1 /\ pos' = 0 /\ mdats' = NoMdats
          /\ pc' = "walk"
          /\ UNCHANGED <<original, plan, applied, file>>

-----------------------------------------------------------------------------
\* The walk: read_quicktime_atoms, the rewritten atoms, encode_quicktime_atoms.

\* An atom of this payload size, encoded at this place.
Encoded(a, place, size) == [a EXCEPT !.header = "short", !.at = place, !.size = size]
Readable(a) == a.header = "extended" => Size(a) <= Max32
\* Mutant: the limit of the atom is taken for the payload's.
EncodablePayload(size) == size <= Max32
Encodable(size) == size + 8 <= Max32

\* Top-level XMP is dropped by a delete and by an assignment.
Dropped(a) == a.type = "xmp" /\ step.xmp # "keep"

\* Metadata lives in moov and meco; no other atom is touched.
NewSizes(a) ==
  IF a.type \in {"moov", "meco"} THEN {a.size + g : g \in Growths} \cap Nat
                                 ELSE {a.size}

WalkAtom ==
  /\ pc = "walk" /\ next <= Len(file.atoms)
  /\ Readable(atom) /\ ~Dropped(atom)
  /\ \E size \in NewSizes(atom) :
       /\ Encodable(size)
       /\ LET a == Encoded(atom, pos, size) IN
          /\ out' = Append(out, a)
          /\ mdats' = IF IsMdat(atom)
                      THEN [source |-> Append(mdats.source, atom),
                            rewritten |-> Append(mdats.rewritten, a)]
                      ELSE mdats
          /\ pos' = pos + Size(a)
  /\ next' = next + 1
  /\ UNCHANGED <<original, plan, applied, file, pc>>

DropAtom ==
  /\ pc = "walk" /\ next <= Len(file.atoms)
  /\ Readable(atom) /\ Dropped(atom)
  /\ next' = next + 1
  /\ UNCHANGED <<original, plan, applied, file, out, pos, mdats, pc>>

NewXmp(size) == [type |-> "xmp", id |-> 0, header |-> "short", at |-> pos, size |-> size]

\* The new XMP atom goes last.
EndWalk ==
  /\ pc = "walk" /\ next > Len(file.atoms)
  /\ IF step.xmp = "set"
     THEN \E size \in XmpSizes :
            /\ Encodable(size)
            /\ out' = Append(out, NewXmp(size)) /\ pos' = pos + 8 + size
     ELSE UNCHANGED <<out, pos>>
  /\ pc' = "repair"
  /\ UNCHANGED <<original, plan, applied, file, next, mdats>>

\* A stage of the fan-out that cannot do its part (Microsoft Xtra, rotation, track
\* headers) returns the original data.
RefuseFanout ==
  /\ pc = "walk" /\ plan.route = "fanout"
  /\ Stop("blocked")

\* The executor writes nothing when a surface was deferred; without a movie it is.
DeferExecutor ==
  /\ pc = "repair" /\ plan.route = "executor"
  /\ Stop("deferred")

-----------------------------------------------------------------------------
\* repair_sample_chunk_offsets_after_rewrite

\* Mutant: the deltas of the atoms and not of their payloads.
AtomDeltaOf(k) == mdats.rewritten[k].at - mdats.source[k].at
DeltaOf(k) == DataStart(mdats.rewritten[k]) - DataStart(mdats.source[k])
\* matching_mdat_delta: the first mdat that holds the offset, if one does.
Matching(offset) ==
  {k \in DOMAIN mdats.source :
     /\ Holds(mdats.source[k], offset)
     /\ \A l \in 1..(k - 1) : ~Holds(mdats.source[l], offset)}
Repaired(offset) == offset + DeltaOf(CHOOSE k \in Matching(offset) : TRUE)

\* Mutant: no entry is found too wide.
CanRepairAnyWidth(table, offset) == Matching(offset) # {} /\ Repaired(offset) >= 0
\* plan_table_entry_repairs: no blocker for this entry.
CanRepair(table, offset) ==
  /\ Matching(offset) # {}
  /\ Repaired(offset) >= 0
  /\ table.kind = "stco" => Repaired(offset) <= Max32

\* compute_mdat_deltas: there are mdats, as many as before, none open, none changed.
MdatsComparable ==
  /\ mdats.source # <<>> /\ Len(mdats.source) = Len(mdats.rewritten)
  /\ \A k \in DOMAIN mdats.source :
       /\ mdats.source[k].header # "open"
       /\ mdats.source[k].id = mdats.rewritten[k].id
       /\ mdats.source[k].size = mdats.rewritten[k].size

CanRepairAll ==
  /\ MdatsComparable
  /\ \A t \in DOMAIN file.tables :
       /\ file.tables[t].valid /\ file.tables[t].supported
       /\ \A e \in DOMAIN file.tables[t].entries :
            CanRepair(file.tables[t], file.tables[t].entries[e])

RepairedTable(table) ==
  [table EXCEPT !.entries = [e \in DOMAIN @ |-> Repaired(@[e])]]
RepairedTables == [t \in DOMAIN file.tables |-> RepairedTable(file.tables[t])]

\* The result of a step becomes the data of the next.
Commit(tables) ==
  /\ file' = [file EXCEPT !.atoms = out, !.tables = tables]
  /\ applied' = applied + 1
  /\ next' = 1
  /\ pc' = "step"
  /\ UNCHANGED <<original, plan, out, pos, mdats>>

\* Only a broad delete that saw a table repairs.
NeedsRepair == step.broad /\ file.tables # <<>>

FinishStep ==
  /\ pc = "repair"
  /\ plan.route = "executor" => \E i \in DOMAIN file.atoms : file.atoms[i].type = "moov"
  /\ IF ~NeedsRepair THEN Commit(file.tables)
     ELSE IF CanRepairAll THEN Commit(RepairedTables)
     ELSE Stop("blocked")

Done ==
  /\ pc = "step" /\ applied = Len(plan.steps)
  /\ Stop("done")

Next ==
  \/ Raise \/ BeginStep
  \/ WalkAtom \/ DropAtom \/ EndWalk
  \/ RefuseFanout \/ DeferExecutor
  \/ FinishStep \/ Done

Spec == Init /\ [][Next]_vars

-----------------------------------------------------------------------------
\* Every entry of f that points into media is, in g, an entry that points to the
\* same byte of the same media.
SameMedia(f, g) ==
  /\ DOMAIN f.tables = DOMAIN g.tables
  /\ \A t \in DOMAIN f.tables :
       /\ DOMAIN f.tables[t].entries = DOMAIN g.tables[t].entries
       /\ \A e \in DOMAIN f.tables[t].entries, i \in DOMAIN f.atoms :
            LET old == f.tables[t].entries[e]
                new == g.tables[t].entries[e] IN
            IsMdat(f.atoms[i]) /\ Holds(f.atoms[i], old) =>
              \E j \in DOMAIN g.atoms :
                /\ IsMdat(g.atoms[j])
                /\ g.atoms[j].id = f.atoms[i].id /\ g.atoms[j].size = f.atoms[i].size
                /\ new - DataStart(g.atoms[j]) = old - DataStart(f.atoms[i])

\* A rewrite all of whose steps delete broadly leaves every sample reachable where
\* the tables say, or leaves the file alone (sample_chunk_offsets.py: the repair
\* runs after every stage, over 64-bit headers, moved and removed atoms).
MediaKept == (\A s \in DOMAIN plan.steps : plan.steps[s].broad) => SameMedia(original, file)

\* "Supported stco/co64 sample chunk offset tables are repaired before emitting
\* metadata-size-changing writes" (fanout_write_plan.py:919): of every write.
MediaKeptByEveryWrite == SameMedia(original, file)

\* No repair writes an offset that its table's entries cannot hold.
EntriesFit == EntriesFitIn(file.tables)

\* Offsets that the repair handles stay offsets that it handles: a file whose co64
\* entries all point into closed media is never refused for them, by a first broad
\* step or by one after it (setup_writer.py:139-160 repairs after each).
Clean(f) ==
  /\ ~HasUnsupportedOffsets(f)
  /\ \E i \in DOMAIN f.atoms : IsMdat(f.atoms[i])
  /\ \A i \in DOMAIN f.atoms : IsMdat(f.atoms[i]) => f.atoms[i].header # "open"
  /\ \A t \in DOMAIN f.tables :
       /\ f.tables[t].valid /\ f.tables[t].kind = "co64"
       /\ \A e \in DOMAIN f.tables[t].entries :
            \E i \in DOMAIN f.atoms : IsMdat(f.atoms[i]) /\ Holds(f.atoms[i], f.tables[t].entries[e])
CleanNeverBlocked ==
  pc = "blocked" /\ plan.route = "setup" /\ (\A s \in DOMAIN plan.steps : plan.steps[s].broad)
    => ~Clean(original)
=============================================================================
