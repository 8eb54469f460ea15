------------------------ MODULE QuickTimeRewriteProofs ------------------------
(***************************************************************************)
(* Proofs about QuickTimeRewrite, for every set of files and of plans.     *)
(* The argument: the atoms of a file do not overlap, so an offset is in at *)
(* most one mdat; the walk copies each mdat and notes the pair; hence the  *)
(* delta that the repair picks is the one of the mdat the entry was in.    *)
(* And the walk notes every mdat, so that there always is such a delta for *)
(* an entry that points into media, whose copy is again closed media.      *)
(***************************************************************************)
EXTENDS QuickTimeRewrite, FiniteSetTheorems, TLAPS

\* What the walk has encoded lies in order below pos.
OutPlaced ==
  /\ Placed(out)
  /\ \A i \in DOMAIN out : out[i].at + Size(out[i]) <= pos

\* The chunks noted are pairs of an mdat of the file and its copy.
MdatsPaired ==
  /\ Len(mdats.source) = Len(mdats.rewritten)
  /\ \A k \in DOMAIN mdats.source :
       /\ IsMdat(mdats.source[k]) /\ IsMdat(mdats.rewritten[k])
       /\ \E i \in DOMAIN file.atoms : mdats.source[k] = file.atoms[i]
       /\ \E j \in DOMAIN out : mdats.rewritten[k] = out[j]

StepPending == pc \in {"walk", "repair"} => applied < Len(plan.steps)

IInv ==
  /\ TypeOK
  /\ StepPending
  /\ Placed(file.atoms)
  /\ pc \in {"walk", "repair"} => OutPlaced /\ MdatsPaired
  /\ EntriesFit
  /\ MediaKept

-----------------------------------------------------------------------------
LEMMA SizeType == \A a \in Atom : HeaderSize(a) \in Nat /\ Size(a) \in Nat /\ DataStart(a) \in Nat
  BY DEF Atom, HeaderSize, Size, DataStart

LEMMA FileType ==
  ASSUME NEW f \in File
  PROVE  /\ f.atoms \in Seq(Atom) /\ \A i \in DOMAIN f.atoms : f.atoms[i] \in Atom
         /\ f.tables \in Seq(Table)
         /\ \A t \in DOMAIN f.tables :
              /\ f.tables[t] \in Table
              /\ f.tables[t].entries \in Seq(Nat)
              /\ \A e \in DOMAIN f.tables[t].entries : f.tables[t].entries[e] \in Nat
<1>1. f.atoms \in Seq(Atom) /\ f.tables \in Seq(Table)
  BY DEF File
<1>2. \A i \in DOMAIN f.atoms : f.atoms[i] \in Atom
  BY <1>1
<1>3. \A t \in DOMAIN f.tables : f.tables[t] \in Table
  BY <1>1
<1>4. \A t \in DOMAIN f.tables : f.tables[t].entries \in Seq(Nat)
  BY <1>3 DEF Table
<1>5. ASSUME NEW t \in DOMAIN f.tables, NEW e \in DOMAIN f.tables[t].entries
      PROVE  f.tables[t].entries[e] \in Nat
  <2>1. f.tables[t].entries \in Seq(Nat)
    BY <1>4
  <2> QED
    BY <2>1
<1> QED
  BY <1>1, <1>2, <1>3, <1>4, <1>5

\* A place with `n` bytes from `p + h` on is not also one from `q + g` on, behind them.
LEMMA Behind ==
  ASSUME NEW p \in Nat, NEW h \in Nat, NEW n \in Nat, NEW q \in Nat, NEW g \in Nat,
         NEW offset \in Nat, offset < p + h + n, q + g <= offset
  PROVE  ~ (p + (h + n) <= q)
OBVIOUS

\* An offset is in one atom at most.
LEMMA OneHolder ==
  ASSUME NEW atoms \in Seq(Atom), Placed(atoms), NEW offset \in Nat,
         NEW i \in DOMAIN atoms, NEW j \in DOMAIN atoms,
         Holds(atoms[i], offset), Holds(atoms[j], offset)
  PROVE  i = j
<1>1. i \in Nat /\ j \in Nat /\ \A k \in DOMAIN atoms : atoms[k] \in Atom
  OBVIOUS
<1>2. \A a \in Atom : a.at \in Nat /\ a.size \in Nat /\ HeaderSize(a) \in Nat
  BY SizeType DEF Atom
<1>3. ASSUME NEW a \in DOMAIN atoms, NEW b \in DOMAIN atoms, Holds(atoms[a], offset),
             Holds(atoms[b], offset), a < b
      PROVE  FALSE
  <2>1. /\ atoms[a].at \in Nat /\ HeaderSize(atoms[a]) \in Nat /\ atoms[a].size \in Nat
        /\ atoms[b].at \in Nat /\ HeaderSize(atoms[b]) \in Nat
    BY <1>1, <1>2
  <2>2. /\ offset < atoms[a].at + HeaderSize(atoms[a]) + atoms[a].size
        /\ atoms[b].at + HeaderSize(atoms[b]) <= offset
    BY <1>3 DEF Holds, DataStart
  <2>3. atoms[a].at + (HeaderSize(atoms[a]) + atoms[a].size) <= atoms[b].at
    BY <1>3 DEF Placed, Size
  <2> QED BY ONLY <2>1, <2>2, <2>3, offset \in Nat, Behind
<1> QED
  BY <1>1, <1>3

LEMMA SameMediaReflexive == \A f \in File : SameMedia(f, f)
  BY SizeType DEF SameMedia, File, Table

LEMMA SameMediaTransitive ==
  ASSUME NEW f \in File, NEW g \in File, NEW h \in File, SameMedia(f, g), SameMedia(g, h)
  PROVE  SameMedia(f, h)
<1>1. /\ DOMAIN f.tables = DOMAIN h.tables
      /\ \A t \in DOMAIN f.tables : DOMAIN f.tables[t].entries = DOMAIN h.tables[t].entries
  BY DEF SameMedia
<1>2. ASSUME NEW t \in DOMAIN f.tables, NEW e \in DOMAIN f.tables[t].entries,
             NEW i \in DOMAIN f.atoms, IsMdat(f.atoms[i]),
             Holds(f.atoms[i], f.tables[t].entries[e])
      PROVE  \E l \in DOMAIN h.atoms :
               /\ IsMdat(h.atoms[l])
               /\ h.atoms[l].id = f.atoms[i].id /\ h.atoms[l].size = f.atoms[i].size
               /\ h.tables[t].entries[e] - DataStart(h.atoms[l])
                    = f.tables[t].entries[e] - DataStart(f.atoms[i])
  <2>1. PICK j \in DOMAIN g.atoms :
          /\ IsMdat(g.atoms[j])
          /\ g.atoms[j].id = f.atoms[i].id /\ g.atoms[j].size = f.atoms[i].size
          /\ g.tables[t].entries[e] - DataStart(g.atoms[j])
               = f.tables[t].entries[e] - DataStart(f.atoms[i])
    BY <1>2 DEF SameMedia
  <2>2. t \in DOMAIN g.tables /\ e \in DOMAIN g.tables[t].entries
    BY DEF SameMedia
  <2>3. /\ f.tables[t].entries[e] \in Nat /\ g.tables[t].entries[e] \in Nat
        /\ f.atoms[i] \in Atom /\ g.atoms[j] \in Atom
    BY <2>2, FileType
  <2>4. /\ f.atoms[i].size \in Nat /\ DataStart(f.atoms[i]) \in Nat
        /\ DataStart(g.atoms[j]) \in Nat
    BY <2>3, SizeType DEF Atom
  <2>5. Holds(g.atoms[j], g.tables[t].entries[e])
    BY <1>2, <2>1, <2>3, <2>4 DEF Holds
  <2>6. PICK l \in DOMAIN h.atoms :
          /\ IsMdat(h.atoms[l])
          /\ h.atoms[l].id = g.atoms[j].id /\ h.atoms[l].size = g.atoms[j].size
          /\ h.tables[t].entries[e] - DataStart(h.atoms[l])
               = g.tables[t].entries[e] - DataStart(g.atoms[j])
    BY <2>1, <2>2, <2>5 DEF SameMedia
  <2> QED
    BY <2>1, <2>6
<1> QED
  BY <1>1, <1>2 DEF SameMedia

-----------------------------------------------------------------------------
\* What one repair does with one entry: it comes to lie in the copy of its mdat.
LEMMA RepairFollowsMdat ==
  ASSUME TypeOK, Placed(file.atoms), MdatsPaired, MdatsComparable,
         NEW offset \in Nat, Matching(offset) # {}
  PROVE  /\ Repaired(offset) \in Int
         /\ \A i \in DOMAIN file.atoms : IsMdat(file.atoms[i]) /\ Holds(file.atoms[i], offset) =>
              \E j \in DOMAIN out :
                /\ IsMdat(out[j])
                /\ out[j].id = file.atoms[i].id /\ out[j].size = file.atoms[i].size
                /\ Repaired(offset) - DataStart(out[j]) = offset - DataStart(file.atoms[i])
<1> DEFINE k == CHOOSE k \in Matching(offset) : TRUE
           a == mdats.source[k]
           b == mdats.rewritten[k]
<1>0. mdats.source \in Seq(Atom) /\ mdats.rewritten \in Seq(Atom)
  BY DEF TypeOK
<1>1. k \in DOMAIN mdats.source /\ k \in DOMAIN mdats.rewritten /\ Holds(a, offset)
  <2>1. k \in Matching(offset)
    OBVIOUS
  <2>2. k \in DOMAIN mdats.source /\ Holds(a, offset)
    BY <2>1 DEF Matching
  <2>3. DOMAIN mdats.source = DOMAIN mdats.rewritten
    BY <1>0 DEF MdatsComparable
  <2> QED
    BY <2>2, <2>3
<1>2. /\ a \in Atom /\ b \in Atom
      /\ a.id = b.id /\ a.size = b.size /\ IsMdat(a) /\ IsMdat(b)
  BY <1>0, <1>1 DEF MdatsPaired, MdatsComparable
<1>3. DataStart(a) \in Nat /\ DataStart(b) \in Nat
  BY <1>2, SizeType
<1>4. Repaired(offset) = offset + (DataStart(b) - DataStart(a))
  BY DEF Repaired, DeltaOf
<1>5. ASSUME NEW i \in DOMAIN file.atoms, IsMdat(file.atoms[i]), Holds(file.atoms[i], offset)
      PROVE  file.atoms[i] = a
  <2>1. PICK m \in DOMAIN file.atoms : a = file.atoms[m]
    BY <1>1 DEF MdatsPaired
  <2>2. file.atoms \in Seq(Atom)
    BY DEF TypeOK, File
  <2>3. Holds(file.atoms[m], offset)
    BY <1>1, <2>1
  <2>4. i = m
    BY <1>5, <2>2, <2>3, OneHolder
  <2> QED
    BY <2>1, <2>4
<1>6. PICK j \in DOMAIN out : b = out[j]
  BY <1>1 DEF MdatsPaired
<1>7. Repaired(offset) - DataStart(b) = offset - DataStart(a)
  BY <1>3, <1>4
<1>8. Repaired(offset) \in Int
  BY <1>3, <1>4
<1> HIDE DEF k
<1>9. ASSUME NEW i \in DOMAIN file.atoms, IsMdat(file.atoms[i]), Holds(file.atoms[i], offset)
      PROVE  \E l \in DOMAIN out :
               /\ IsMdat(out[l])
               /\ out[l].id = file.atoms[i].id /\ out[l].size = file.atoms[i].size
               /\ Repaired(offset) - DataStart(out[l]) = offset - DataStart(file.atoms[i])
  <2>1. file.atoms[i] = a
    BY <1>5, <1>9
  <2> WITNESS j \in DOMAIN out
  <2> QED
    BY <1>2, <1>6, <1>7, <2>1
<1> QED
  BY <1>8, <1>9

\* A repaired file keeps the media of the file that was repaired.
LEMMA RepairKeepsMedia ==
  ASSUME TypeOK, Placed(file.atoms), MdatsPaired, CanRepairAll
  PROVE  /\ RepairedTables \in Seq(Table)
         /\ SameMedia(file, [file EXCEPT !.atoms = out, !.tables = RepairedTables])
         /\ EntriesFitIn(RepairedTables)
<1> DEFINE g == [file EXCEPT !.atoms = out, !.tables = RepairedTables]
<1>1. /\ file \in File /\ file.tables \in Seq(Table)
      /\ g.atoms = out /\ g.tables = RepairedTables
  BY DEF TypeOK, File
<1>2. ASSUME NEW t \in DOMAIN file.tables, NEW e \in DOMAIN file.tables[t].entries
      PROVE  /\ file.tables[t].entries[e] \in Nat
             /\ CanRepair(file.tables[t], file.tables[t].entries[e])
  BY <1>1, FileType DEF CanRepairAll
<1>3. ASSUME NEW t \in DOMAIN file.tables
      PROVE  /\ RepairedTable(file.tables[t]) \in Table
             /\ RepairedTable(file.tables[t]).kind = file.tables[t].kind
             /\ DOMAIN RepairedTable(file.tables[t]).entries = DOMAIN file.tables[t].entries
             /\ \A e \in DOMAIN file.tables[t].entries :
                  RepairedTable(file.tables[t]).entries[e] = Repaired(file.tables[t].entries[e])
  <2>1. file.tables[t] \in Table
    BY <1>1
  <2>2. \A e \in DOMAIN file.tables[t].entries : Repaired(file.tables[t].entries[e]) \in Nat
    BY <1>2, RepairFollowsMdat DEF CanRepair, CanRepairAll
  <2> DEFINE new == [e \in DOMAIN file.tables[t].entries |-> Repaired(file.tables[t].entries[e])]
  <2>3. new \in Seq(Nat)
    BY <2>1, <2>2 DEF Table
  <2>4. RepairedTable(file.tables[t]) = [file.tables[t] EXCEPT !.entries = new]
    BY DEF RepairedTable
  <2>5. [file.tables[t] EXCEPT !.entries = new] \in Table
    BY <2>1, <2>3 DEF Table
  <2>6. [file.tables[t] EXCEPT !.entries = new].entries = new
    BY <2>1 DEF Table
  <2>7. [file.tables[t] EXCEPT !.entries = new].kind = file.tables[t].kind
    BY <2>1 DEF Table
  <2> QED
    BY <2>4, <2>5, <2>6, <2>7
<1>4. /\ DOMAIN RepairedTables = DOMAIN file.tables
      /\ \A t \in DOMAIN file.tables : RepairedTables[t] = RepairedTable(file.tables[t])
  BY DEF RepairedTables
<1>5. RepairedTables \in Seq(Table)
  BY <1>1, <1>3, <1>4 DEF RepairedTables
<1>6. EntriesFitIn(RepairedTables)
  BY <1>2, <1>3, <1>4 DEF EntriesFitIn, CanRepair
<1>7. ASSUME NEW t \in DOMAIN file.tables, NEW e \in DOMAIN file.tables[t].entries,
             NEW i \in DOMAIN file.atoms, IsMdat(file.atoms[i]),
             Holds(file.atoms[i], file.tables[t].entries[e])
      PROVE  \E j \in DOMAIN out :
               /\ IsMdat(out[j])
               /\ out[j].id = file.atoms[i].id /\ out[j].size = file.atoms[i].size
               /\ RepairedTables[t].entries[e] - DataStart(out[j])
                    = file.tables[t].entries[e] - DataStart(file.atoms[i])
  <2>1. RepairedTables[t].entries[e] = Repaired(file.tables[t].entries[e])
    BY <1>3, <1>4
  <2>2. Matching(file.tables[t].entries[e]) # {} /\ MdatsComparable
    BY <1>2 DEF CanRepair, CanRepairAll
  <2> QED
    BY <1>2, <1>7, <2>1, <2>2, RepairFollowsMdat
<1>8. SameMedia(file, g)
  BY <1>1, <1>3, <1>4, <1>7 DEF SameMedia
<1> QED
  BY <1>5, <1>6, <1>8

-----------------------------------------------------------------------------
AllBroad == \A s \in DOMAIN plan.steps : plan.steps[s].broad

LEMMA InitIInv == Init => IInv
<1> SUFFICES ASSUME Init PROVE IInv
  OBVIOUS
<1> USE QuickTimeAssumption DEF Init
<1>1. /\ file \in File /\ Placed(file.atoms) /\ EntriesFitIn(file.tables)
      /\ plan \in Plan
  OBVIOUS
<1>2. file.atoms \in Seq(Atom) /\ Len(plan.steps) \in Nat
  BY <1>1, FileType DEF Plan
<1>3. TypeOK
  BY <1>1, <1>2 DEF TypeOK, NoMdats
<1>4. MediaKept
  BY <1>1, SameMediaReflexive DEF MediaKept
<1> QED
  BY <1>1, <1>3, <1>4 DEF IInv, StepPending, EntriesFit

\* A copied atom lies behind what was encoded before it.
LEMMA AppendPlaced ==
  ASSUME out \in Seq(Atom), pos \in Nat, OutPlaced,
         NEW a \in Atom, a.at = pos, out' = Append(out, a), pos' = pos + Size(a)
  PROVE  OutPlaced'
<1>1. /\ out' \in Seq(Atom) /\ Len(out') = Len(out) + 1
      /\ \A i \in DOMAIN out : out'[i] = out[i]
      /\ out'[Len(out) + 1] = a
      /\ DOMAIN out' = DOMAIN out \cup {Len(out) + 1}
  OBVIOUS
<1>2. Size(a) \in Nat /\ \A i \in DOMAIN out : out[i].at \in Nat /\ Size(out[i]) \in Nat
  <2>1. \A i \in DOMAIN out : out[i] \in Atom
    OBVIOUS
  <2> QED
    BY <2>1, SizeType DEF Atom
<1>3. Placed(out')
  <2> SUFFICES ASSUME NEW i \in DOMAIN out', NEW j \in DOMAIN out', i < j
               PROVE  out'[i].at + Size(out'[i]) <= out'[j].at
    BY DEF Placed
  <2>1. i \in DOMAIN out
    BY <1>1
  <2>2. CASE j \in DOMAIN out
    BY <1>1, <2>1, <2>2 DEF OutPlaced, Placed
  <2>3. CASE j = Len(out) + 1
    BY <1>1, <2>1, <2>3 DEF OutPlaced
  <2> QED
    BY <1>1, <2>2, <2>3
<1>4. ASSUME NEW i \in DOMAIN out' PROVE out'[i].at + Size(out'[i]) <= pos'
  <2>1. CASE i \in DOMAIN out
    BY <1>1, <1>2, <2>1 DEF OutPlaced
  <2>2. CASE i = Len(out) + 1
    BY <1>1, <1>2, <2>2
  <2> QED
    BY <1>1, <2>1, <2>2
<1> QED
  BY <1>3, <1>4 DEF OutPlaced

\* The pairs of the walk stay pairs when the output grows.
LEMMA AppendPaired ==
  ASSUME out \in Seq(Atom), MdatsPaired, NEW a \in Atom,
         out' = Append(out, a), mdats' = mdats, file' = file
  PROVE  MdatsPaired'
<1>1. \A j \in DOMAIN out : j \in DOMAIN out' /\ out'[j] = out[j]
  OBVIOUS
<1> QED
  BY <1>1 DEF MdatsPaired

LEMMA StopIInv ==
  ASSUME IInv, NEW how \in Ends, Stop(how)
  PROVE  IInv'
<1>1. TypeOK'
  BY DEF IInv, TypeOK, Stop, walk
<1> QED
  BY <1>1 DEF IInv, Stop, walk, StepPending, Ends, EntriesFit, MediaKept

LEMMA CommitIInv ==
  ASSUME IInv, pc = "repair", NEW tables \in Seq(Table), Commit(tables),
         EntriesFitIn(tables),
         AllBroad => SameMedia(file, [file EXCEPT !.atoms = out, !.tables = tables])
  PROVE  IInv'
<1> DEFINE g == [file EXCEPT !.atoms = out, !.tables = tables]
<1>1. /\ TypeOK /\ OutPlaced /\ applied < Len(plan.steps)
      /\ file \in File /\ out \in Seq(Atom) /\ original \in File
  BY QuickTimeAssumption DEF IInv, TypeOK, StepPending
<1>2. g \in File /\ g.atoms = out /\ g.tables = tables
  BY <1>1 DEF File
<1>3. file' = g /\ pc' = "step" /\ next' = 1 /\ applied' = applied + 1
      /\ UNCHANGED <<original, plan, out, pos, mdats>>
  BY DEF Commit
<1>4. Len(plan.steps) \in Nat
  BY <1>1, QuickTimeAssumption DEF TypeOK, Plan
<1>5. applied' \in 0..Len(plan.steps)
  BY <1>1, <1>3, <1>4 DEF TypeOK
<1>6. TypeOK'
  BY <1>1, <1>2, <1>3, <1>5 DEF TypeOK
<1>7. Placed(file'.atoms) /\ EntriesFit'
  BY <1>1, <1>2, <1>3 DEF OutPlaced, EntriesFit
<1>8. MediaKept'
  <2> SUFFICES ASSUME AllBroad PROVE SameMedia(original, g)
    BY <1>3 DEF MediaKept, AllBroad
  <2>1. SameMedia(original, file)
    BY DEF IInv, MediaKept, AllBroad
  <2> QED
    BY <1>1, <1>2, <2>1, SameMediaTransitive
<1> QED
  BY <1>3, <1>6, <1>7, <1>8 DEF IInv, StepPending

LEMMA NextIInv == IInv /\ [Next]_vars => IInv'
<1> SUFFICES ASSUME IInv, [Next]_vars PROVE IInv'
  OBVIOUS
<1>0. /\ TypeOK /\ file \in File /\ original \in File /\ plan \in Plan
      /\ out \in Seq(Atom) /\ pos \in Nat /\ Len(file.atoms) \in Nat
      /\ next \in 1..(Len(file.atoms) + 1)
      /\ file.atoms \in Seq(Atom) /\ original.atoms \in Seq(Atom)
  BY QuickTimeAssumption, FileType DEF IInv, TypeOK
<1>1. CASE Raise
  <2>1. TypeOK'
    BY <1>0, <1>1 DEF TypeOK, Raise, Ends
  <2>2. MediaKept'
    BY <1>0, <1>1, SameMediaReflexive DEF MediaKept, Raise
  <2>3. Placed(file'.atoms) /\ EntriesFit'
    BY <1>0, <1>1, QuickTimeAssumption DEF TypeOK, Raise, EntriesFit
  <2> QED
    BY <1>1, <2>1, <2>2, <2>3 DEF IInv, Raise, StepPending
<1>2. CASE BeginStep
  <2>1. CASE Stop("blocked")
    BY <2>1, StopIInv DEF Ends
  <2>2. CASE /\ out' = <<>> /\ next' = 1 /\ pos' = 0 /\ mdats' = NoMdats
             /\ pc' = "walk" /\ UNCHANGED <<original, plan, applied, file>>
    <3>1. TypeOK'
      BY <1>0, <2>2 DEF TypeOK, NoMdats
    <3>2. OutPlaced' /\ MdatsPaired' /\ StepPending'
      BY <1>2, <2>2 DEF OutPlaced, Placed, MdatsPaired, NoMdats, BeginStep, StepPending
    <3> QED
      BY <2>2, <3>1, <3>2 DEF IInv, EntriesFit, MediaKept
  <2> QED
    BY <1>2, <2>1, <2>2 DEF BeginStep
<1>3. CASE WalkAtom
  <2>1. PICK size \in NewSizes(atom) :
          /\ Encodable(size)
          /\ out' = Append(out, Encoded(atom, pos, size))
          /\ pos' = pos + Size(Encoded(atom, pos, size))
          /\ mdats' = IF IsMdat(atom)
                      THEN [source |-> Append(mdats.source, atom),
                            rewritten |-> Append(mdats.rewritten, Encoded(atom, pos, size))]
                      ELSE mdats
    BY <1>3 DEF WalkAtom
  <2> DEFINE a == Encoded(atom, pos, size)
  <2>2. atom \in Atom /\ next \in DOMAIN file.atoms
    BY <1>0, <1>3 DEF WalkAtom, atom
  <2>3. size \in Nat
    BY <2>1, <2>2, QuickTimeAssumption DEF NewSizes, Atom
  <2>4. a \in Atom /\ a.at = pos /\ a.type = atom.type
    <3>1. /\ a.at = pos /\ a.type = atom.type /\ a.size = size /\ a.header = "short"
          /\ a \in [type : AtomTypes, id : Nat, header : Headers, at : Nat, size : Nat]
      BY <1>0, <2>2, <2>3 DEF Encoded, Atom, Headers
    <3>2. Size(a) <= Max32
      <4> HIDE DEF a
      <4>1. Size(a) = 8 + size
        BY <3>1 DEF Size, HeaderSize
      <4> QED BY <2>1, <2>3, <4>1, QuickTimeAssumption DEF Encodable
    <3> HIDE DEF a
    <3> QED BY <3>1, <3>2 DEF Atom
  <2>5. Size(a) \in Nat
    BY <2>4, SizeType
  <2>6. /\ pc = "walk" /\ pc' = "walk" /\ next' = next + 1
        /\ UNCHANGED <<original, plan, applied, file>>
    BY <1>3 DEF WalkAtom
  <2>7. mdats' \in [source : Seq(Atom), rewritten : Seq(Atom)]
    BY <1>0, <2>1, <2>2, <2>4 DEF TypeOK
  <2>8. TypeOK'
    <3>1. next' \in 1..(Len(file.atoms) + 1)
      BY <1>0, <1>3, <2>6 DEF WalkAtom
    <3>2. out' \in Seq(Atom) /\ pos' \in Nat
      BY <1>0, <2>1, <2>4, <2>5
    <3> QED
      BY <1>0, <2>6, <2>7, <3>1, <3>2 DEF TypeOK
  <2>9. OutPlaced /\ MdatsPaired
    BY <2>6 DEF IInv
  <2>10. OutPlaced'
    BY <1>0, <2>1, <2>4, <2>9, AppendPlaced
  <2>11. MdatsPaired'
    <3>1. CASE ~IsMdat(atom)
      BY <1>0, <2>1, <2>4, <2>6, <2>9, <3>1, AppendPaired
    <3>2. CASE IsMdat(atom)
      <4>1. /\ mdats.source \in Seq(Atom) /\ mdats.rewritten \in Seq(Atom)
            /\ mdats'.source = Append(mdats.source, atom)
            /\ mdats'.rewritten = Append(mdats.rewritten, a)
        BY <1>0, <2>1, <3>2 DEF TypeOK
      <4>2. Len(mdats'.source) = Len(mdats'.rewritten)
        BY <4>1, <2>9 DEF MdatsPaired
      <4>3. /\ \A j \in DOMAIN out : j \in DOMAIN out' /\ out'[j] = out[j]
            /\ Len(out) + 1 \in DOMAIN out' /\ out'[Len(out) + 1] = a
        BY <1>0, <2>1
      <4>4. ASSUME NEW k \in DOMAIN mdats'.source
            PROVE  /\ IsMdat(mdats'.source[k]) /\ IsMdat(mdats'.rewritten[k])
                   /\ \E i \in DOMAIN file.atoms : mdats'.source[k] = file.atoms[i]
                   /\ \E j \in DOMAIN out' : mdats'.rewritten[k] = out'[j]
        <5>1. CASE k \in DOMAIN mdats.source
          <6>1. /\ mdats'.source[k] = mdats.source[k]
                /\ mdats'.rewritten[k] = mdats.rewritten[k]
            BY <4>1, <5>1, <2>9 DEF MdatsPaired
          <6> QED
            BY <4>3, <5>1, <6>1, <2>9 DEF MdatsPaired
        <5>2. CASE k = Len(mdats.source) + 1
          <6>1. mdats'.source[k] = atom /\ mdats'.rewritten[k] = a
            BY <4>1, <5>2, <2>9 DEF MdatsPaired
          <6>2. IsMdat(a)
            BY <2>4, <3>2 DEF IsMdat
          <6>3. atom = file.atoms[next]
            BY DEF atom
          <6>4. \E i \in DOMAIN file.atoms : mdats'.source[k] = file.atoms[i]
            BY <2>2, <6>1, <6>3
          <6>5. \E j \in DOMAIN out' : mdats'.rewritten[k] = out'[j]
            BY <4>3, <6>1
          <6>6. IsMdat(mdats'.source[k])
            BY <3>2, <6>1 DEF IsMdat
          <6>7. IsMdat(mdats'.rewritten[k])
            BY <6>1, <6>2
          <6> QED
            BY <6>4, <6>5, <6>6, <6>7
        <5>3. k \in DOMAIN mdats.source \/ k = Len(mdats.source) + 1
          <6>1. DOMAIN mdats'.source = DOMAIN mdats.source \cup {Len(mdats.source) + 1}
            BY <4>1
          <6> QED
            BY <4>4, <6>1
        <5> QED
          BY <5>1, <5>2, <5>3
      <4> QED
        BY <2>6, <4>2, <4>4 DEF MdatsPaired
    <3> QED
      BY <3>1, <3>2
  <2> QED
    BY <2>6, <2>8, <2>10, <2>11 DEF IInv, StepPending, EntriesFit, MediaKept
<1>4. CASE DropAtom
  <2>1. /\ pc = "walk" /\ pc' = "walk" /\ next' = next + 1 /\ next <= Len(file.atoms)
        /\ UNCHANGED <<original, plan, applied, file, out, pos, mdats>>
    BY <1>4 DEF DropAtom
  <2>2. TypeOK'
    BY <1>0, <2>1 DEF TypeOK
  <2>3. OutPlaced' /\ MdatsPaired'
    BY <2>1 DEF IInv, OutPlaced, MdatsPaired
  <2> QED
    BY <2>1, <2>2, <2>3 DEF IInv, StepPending, EntriesFit, MediaKept
<1>5. CASE EndWalk
  <2>1. /\ pc = "walk" /\ pc' = "repair"
        /\ UNCHANGED <<original, plan, applied, file, next, mdats>>
    BY <1>5 DEF EndWalk
  <2>2. OutPlaced /\ MdatsPaired
    BY <2>1 DEF IInv
  <2>3. out' \in Seq(Atom) /\ pos' \in Nat /\ OutPlaced' /\ MdatsPaired'
    <3>1. CASE UNCHANGED <<out, pos>>
      BY <1>0, <2>1, <2>2, <3>1 DEF OutPlaced, MdatsPaired
    <3>2. CASE step.xmp = "set"
      <4>1. PICK size \in XmpSizes : /\ Encodable(size)
                                     /\ out' = Append(out, NewXmp(size))
                                     /\ pos' = pos + 8 + size
        BY <1>5, <3>2 DEF EndWalk
      <4>2. NewXmp(size) \in Atom /\ NewXmp(size).at = pos /\ size \in Nat
        BY <1>0, <4>1, QuickTimeAssumption
           DEF NewXmp, Encodable, Size, HeaderSize, Atom, AtomTypes, Headers
      <4>3. Size(NewXmp(size)) = 8 + size
        BY DEF Size, HeaderSize, NewXmp
      <4>4. pos' = pos + Size(NewXmp(size))
        BY <1>0, <4>1, <4>2, <4>3
      <4>5. OutPlaced'
        BY <1>0, <2>2, <4>1, <4>2, <4>4, AppendPlaced
      <4>6. MdatsPaired'
        BY <1>0, <2>1, <2>2, <4>1, <4>2, AppendPaired
      <4> QED
        BY <1>0, <4>1, <4>2, <4>5, <4>6
    <3> QED
      BY <1>5, <3>1, <3>2 DEF EndWalk
  <2>4. TypeOK'
    BY <1>0, <2>1, <2>3 DEF TypeOK
  <2> QED
    BY <2>1, <2>3, <2>4 DEF IInv, StepPending, EntriesFit, MediaKept
<1>6. CASE RefuseFanout
  BY <1>6, StopIInv DEF RefuseFanout, Ends
<1>7. CASE DeferExecutor
  BY <1>7, StopIInv DEF DeferExecutor, Ends
<1>8. CASE FinishStep
  <2>1. pc = "repair" /\ applied < Len(plan.steps) /\ MdatsPaired /\ Placed(file.atoms)
    BY <1>8 DEF FinishStep, IInv, StepPending
  <2>2. file.tables \in Seq(Table) /\ EntriesFitIn(file.tables)
    BY <1>0, FileType DEF IInv, EntriesFit
  <2>3. applied + 1 \in DOMAIN plan.steps
    BY <1>0, <2>1 DEF TypeOK, Plan
  <2>4. CASE ~NeedsRepair /\ Commit(file.tables)
    <3>1. AllBroad => file.tables = <<>>
      BY <2>3, <2>4 DEF AllBroad, NeedsRepair, step
    <3>2. AllBroad =>
            SameMedia(file, [file EXCEPT !.atoms = out, !.tables = file.tables])
      BY <1>0, <3>1 DEF SameMedia, File
    <3> QED
      BY <2>1, <2>2, <2>4, <3>2, CommitIInv
  <2>5. CASE CanRepairAll /\ Commit(RepairedTables)
    BY <1>0, <2>1, <2>5, RepairKeepsMedia, CommitIInv
  <2>6. CASE Stop("blocked")
    BY <2>6, StopIInv DEF Ends
  <2> QED
    BY <1>8, <2>4, <2>5, <2>6 DEF FinishStep
<1>9. CASE Done
  BY <1>9, StopIInv DEF Done, Ends
<1>10. CASE UNCHANGED vars
  BY <1>10 DEF vars, walk, IInv, TypeOK, StepPending, OutPlaced, MdatsPaired, EntriesFit, MediaKept
<1> QED
  BY <1>1, <1>2, <1>3, <1>4, <1>5, <1>6, <1>7, <1>8, <1>9, <1>10 DEF Next

\* TypeOK: the types of a rewrite's state, for every set of files and of plans.
THEOREM Typing == Spec => []TypeOK
<1>1. IInv => TypeOK
  BY DEF IInv
<1> QED
  BY <1>1, InitIInv, NextIInv, PTL DEF Spec

\* MediaKept: when every step deletes broadly, each sample chunk offset of the result
\* points to the byte of the media that it pointed to (or nothing was changed).
THEOREM BroadDeletesKeepMedia == Spec => []MediaKept
<1>1. IInv => MediaKept
  BY DEF IInv
<1> QED
  BY <1>1, InitIInv, NextIInv, PTL DEF Spec

\* EntriesFit: no stco entry is ever written that needs more than its 32 bits.
THEOREM EntriesAlwaysFit == Spec => []EntriesFit
<1>1. IInv => EntriesFit
  BY DEF IInv
<1> QED
  BY <1>1, InitIInv, NextIInv, PTL DEF Spec
-----------------------------------------------------------------------------
\* A file that the repair handles, in a rewrite that repairs after every step.
CleanAsked == plan.route = "setup" /\ AllBroad /\ Clean(original)

\* The walk has noted every mdat that it passed, with the size and id of its copy;
\* all that it encodes is closed.
ChunksNoted ==
  /\ \A i \in 1..(next - 1) : IsMdat(file.atoms[i]) =>
       \E k \in DOMAIN mdats.source : mdats.source[k] = file.atoms[i]
  /\ \A k \in DOMAIN mdats.source :
       /\ mdats.source[k].id = mdats.rewritten[k].id
       /\ mdats.source[k].size = mdats.rewritten[k].size
  /\ \A j \in DOMAIN out : out[j].header = "short"

CleanInv ==
  CleanAsked =>
    /\ Clean(file)
    /\ pc # "blocked"
    /\ pc \in {"walk", "repair"} => ChunksNoted
    /\ pc = "repair" => next > Len(file.atoms)

\* The least of a set of numbers, from the well-foundedness of finite sets.
LEMMA LeastExists ==
  ASSUME NEW S \in SUBSET Nat, S # {}
  PROVE  \E m \in S : \A n \in S : m <= n
<1> DEFINE Initial == {0..n : n \in S}
<1>1. Initial \subseteq FiniteSubsetsOf(Nat) /\ Initial # {}
  <2>1. \A n \in Nat : IsFiniteSet(0..n) /\ 0..n \subseteq Nat
    BY FS_Interval
  <2> QED
    BY <2>1 DEF FiniteSubsetsOf
<1>2. PICK x \in Initial : \A y \in Initial : <<y, x>> \notin StrictSubsetOrdering(Nat)
  <2> HIDE DEF Initial
  <2> QED
    BY <1>1, WFMin, FS_StrictSubsetOrderingWellFounded
<1>3. PICK m \in S : x = 0..m
  BY <1>2
<1>4. ASSUME NEW n \in S, n < m PROVE FALSE
  <2>1. 0..n \in Initial /\ 0..n \subseteq 0..m /\ m \in 0..m /\ m \notin 0..n /\ 0..m \subseteq Nat
    BY <1>4
  <2>2. <<0..n, x>> \in StrictSubsetOrdering(Nat)
    BY <1>3, <2>1 DEF StrictSubsetOrdering
  <2> QED
    BY <1>2, <2>1, <2>2
<1> QED
  BY <1>4

\* matching_mdat_delta finds a delta for every offset that is in a noted mdat.
LEMMA MatchingFound ==
  ASSUME mdats.source \in Seq(Atom), NEW offset, NEW k \in DOMAIN mdats.source,
         Holds(mdats.source[k], offset)
  PROVE  Matching(offset) # {}
<1> DEFINE S == {l \in DOMAIN mdats.source : Holds(mdats.source[l], offset)}
<1>1. S \in SUBSET Nat /\ S # {}
  OBVIOUS
<1>2. PICK m \in S : \A l \in S : m <= l
  <2> HIDE DEF S
  <2> QED
    BY <1>1, LeastExists
<1>3. ASSUME NEW l \in 1..(m - 1) PROVE ~Holds(mdats.source[l], offset)
  <2>1. l \in DOMAIN mdats.source /\ l < m
    BY <1>3
  <2> QED
    BY <1>2, <2>1
<1>4. m \in Matching(offset)
  BY <1>2, <1>3 DEF Matching
<1> QED
  BY <1>4

\* A repaired entry is not negative: the copy that it moves to starts at 0 or later.
LEMMA RepairedIsOffset ==
  ASSUME TypeOK, MdatsPaired, NEW offset \in Nat, Matching(offset) # {}
  PROVE  Repaired(offset) \in Nat
<1> DEFINE k == CHOOSE k \in Matching(offset) : TRUE
<1>1. mdats.source \in Seq(Atom) /\ mdats.rewritten \in Seq(Atom)
  BY DEF TypeOK
<1>2. k \in Matching(offset)
  OBVIOUS
<1>3. k \in DOMAIN mdats.source /\ Holds(mdats.source[k], offset)
  BY <1>2 DEF Matching
<1>4. mdats.source[k] \in Atom /\ mdats.rewritten[k] \in Atom
  BY <1>1, <1>3 DEF MdatsPaired
<1>5. DataStart(mdats.source[k]) \in Nat /\ DataStart(mdats.rewritten[k]) \in Nat
  BY <1>4, SizeType
<1>6. Repaired(offset) = offset + (DataStart(mdats.rewritten[k]) - DataStart(mdats.source[k]))
  BY DEF Repaired, DeltaOf
<1>7. DataStart(mdats.source[k]) <= offset
  BY <1>3 DEF Holds
<1> HIDE DEF k
<1> QED
  BY <1>5, <1>6, <1>7

\* What the repair finds at the end of a walk over a clean file.
Walked ==
  /\ TypeOK /\ Placed(file.atoms) /\ MdatsPaired /\ ChunksNoted
  /\ Clean(file) /\ next > Len(file.atoms)

LEMMA EveryMdatNoted ==
  ASSUME Walked, NEW i \in DOMAIN file.atoms, IsMdat(file.atoms[i])
  PROVE  \E k \in DOMAIN mdats.source : mdats.source[k] = file.atoms[i]
<1>1. file.atoms \in Seq(Atom) /\ next \in 1..(Len(file.atoms) + 1)
  BY DEF Walked, TypeOK, File
<1>2. i \in 1..(next - 1)
  BY <1>1 DEF Walked
<1> QED
  BY <1>2 DEF Walked, ChunksNoted

LEMMA CleanComparable == ASSUME Walked PROVE MdatsComparable
<1>1. mdats.source \in Seq(Atom) /\ file \in File
  BY DEF Walked, TypeOK
<1>2. PICK i \in DOMAIN file.atoms : IsMdat(file.atoms[i])
  BY DEF Walked, Clean
<1>3. mdats.source # <<>>
  BY <1>2, EveryMdatNoted
<1>4. ASSUME NEW k \in DOMAIN mdats.source PROVE mdats.source[k].header # "open"
  <2>1. PICK m \in DOMAIN file.atoms : mdats.source[k] = file.atoms[m]
    BY DEF Walked, MdatsPaired
  <2>2. IsMdat(file.atoms[m])
    BY <2>1 DEF Walked, MdatsPaired
  <2> QED
    BY <2>1, <2>2 DEF Walked, Clean
<1> QED
  BY <1>3, <1>4 DEF Walked, MdatsComparable, MdatsPaired, ChunksNoted

LEMMA CleanRepairable == ASSUME Walked PROVE CanRepairAll
<1>1. file \in File /\ mdats.source \in Seq(Atom)
  BY DEF Walked, TypeOK
<1>2. ASSUME NEW t \in DOMAIN file.tables
      PROVE  /\ file.tables[t].valid /\ file.tables[t].supported
             /\ file.tables[t].kind = "co64"
  BY DEF Walked, Clean, HasUnsupportedOffsets
<1>3. ASSUME NEW t \in DOMAIN file.tables, NEW e \in DOMAIN file.tables[t].entries
      PROVE  CanRepair(file.tables[t], file.tables[t].entries[e])
  <2> DEFINE offset == file.tables[t].entries[e]
  <2>1. offset \in Nat
    BY <1>1, FileType
  <2>2. PICK i \in DOMAIN file.atoms : IsMdat(file.atoms[i]) /\ Holds(file.atoms[i], offset)
    BY DEF Walked, Clean
  <2>3. PICK k \in DOMAIN mdats.source : mdats.source[k] = file.atoms[i]
    BY <2>2, EveryMdatNoted
  <2>4. Matching(offset) # {}
    <3> HIDE DEF offset
    <3> QED
      BY <1>1, <2>2, <2>3, MatchingFound
  <2>5. Repaired(offset) \in Nat
    BY <2>1, <2>4, RepairedIsOffset DEF Walked
  <2>6. file.tables[t].kind # "stco"
    BY <1>2
  <2> QED
    BY <2>4, <2>5, <2>6 DEF CanRepair
<1> QED
  BY <1>2, <1>3, CleanComparable DEF CanRepairAll

\* The copy of a clean file with no tables is clean.
LEMMA CleanMediaCopied ==
  ASSUME Walked
  PROVE  /\ \E j \in DOMAIN out : IsMdat(out[j])
         /\ \A j \in DOMAIN out : out[j].header # "open"
<1>1. PICK i \in DOMAIN file.atoms : IsMdat(file.atoms[i])
  BY DEF Walked, Clean
<1>2. PICK k \in DOMAIN mdats.source : mdats.source[k] = file.atoms[i]
  BY <1>1, EveryMdatNoted
<1>3. IsMdat(mdats.rewritten[k]) /\ \E j \in DOMAIN out : mdats.rewritten[k] = out[j]
  BY DEF Walked, MdatsPaired
<1> QED
  BY <1>3 DEF Walked, ChunksNoted

\* A repaired table is the table with every entry repaired.
LEMMA RepairedTableIs ==
  ASSUME NEW table \in Table
  PROVE  /\ RepairedTable(table).kind = table.kind
         /\ RepairedTable(table).valid = table.valid
         /\ RepairedTable(table).supported = table.supported
         /\ DOMAIN RepairedTable(table).entries = DOMAIN table.entries
         /\ \A e \in DOMAIN table.entries :
              RepairedTable(table).entries[e] = Repaired(table.entries[e])
  BY DEF RepairedTable, Table

\* The repair of a clean file gives a clean file.
LEMMA CleanAgain ==
  ASSUME Walked
  PROVE  Clean([file EXCEPT !.atoms = out, !.tables = RepairedTables])
<1> DEFINE g == [file EXCEPT !.atoms = out, !.tables = RepairedTables]
<1>1. file \in File /\ out \in Seq(Atom)
  BY DEF Walked, TypeOK
<1>2. g.atoms = out /\ g.tables = RepairedTables /\ g.foreign = file.foreign
  BY <1>1 DEF File
<1>3. /\ DOMAIN RepairedTables = DOMAIN file.tables
      /\ \A t \in DOMAIN file.tables :
           /\ file.tables[t] \in Table
           /\ RepairedTables[t] = RepairedTable(file.tables[t])
  BY <1>1, FileType DEF RepairedTables
<1>4. ASSUME NEW t \in DOMAIN file.tables
      PROVE  /\ RepairedTables[t].valid /\ RepairedTables[t].supported
             /\ RepairedTables[t].kind = "co64"
  BY <1>3, RepairedTableIs DEF Walked, Clean, HasUnsupportedOffsets
<1>5. ~HasUnsupportedOffsets(g)
  BY <1>2, <1>3, <1>4 DEF Walked, Clean, HasUnsupportedOffsets
<1>6. ASSUME NEW t \in DOMAIN file.tables, NEW e \in DOMAIN RepairedTables[t].entries
      PROVE  \E j \in DOMAIN out : IsMdat(out[j]) /\ Holds(out[j], RepairedTables[t].entries[e])
  <2> DEFINE offset == file.tables[t].entries[e]
  <2>1. e \in DOMAIN file.tables[t].entries /\ RepairedTables[t].entries[e] = Repaired(offset)
    BY <1>3, <1>6, RepairedTableIs
  <2>2. offset \in Nat
    BY <1>1, <2>1, FileType
  <2>3. CanRepairAll /\ MdatsComparable
    BY CleanRepairable, CleanComparable
  <2>4. Matching(offset) # {}
    BY <2>1, <2>3 DEF CanRepairAll, CanRepair
  <2>5. PICK i \in DOMAIN file.atoms : IsMdat(file.atoms[i]) /\ Holds(file.atoms[i], offset)
    BY <2>1 DEF Walked, Clean
  <2>6. Repaired(offset) \in Int
    BY <2>2, <2>3, <2>4, RepairFollowsMdat DEF Walked
  <2>7. PICK j \in DOMAIN out :
          /\ IsMdat(out[j]) /\ out[j].size = file.atoms[i].size
          /\ Repaired(offset) - DataStart(out[j]) = offset - DataStart(file.atoms[i])
    <3> HIDE DEF offset
    <3> QED
      BY <2>2, <2>3, <2>4, <2>5, RepairFollowsMdat DEF Walked
  <2>8. /\ DataStart(out[j]) \in Nat /\ DataStart(file.atoms[i]) \in Nat
        /\ file.atoms[i].size \in Nat
    <3>1. out[j] \in Atom /\ file.atoms[i] \in Atom
      BY <1>1, FileType
    <3> QED
      BY <3>1, SizeType DEF Atom
  <2>9. Holds(out[j], Repaired(offset))
    <3> HIDE DEF offset
    <3> QED
      BY <2>2, <2>5, <2>6, <2>7, <2>8 DEF Holds
  <2> QED
    BY <2>1, <2>7, <2>9
<1> QED
  BY <1>2, <1>3, <1>4, <1>5, <1>6, CleanMediaCopied DEF Clean

-----------------------------------------------------------------------------
LEMMA InitCleanInv == Init => CleanInv
  BY DEF Init, CleanInv, CleanAsked

\* One element more.
LEMMA Appended ==
  ASSUME NEW S, NEW q \in Seq(S), NEW x \in S
  PROVE  /\ DOMAIN Append(q, x) = DOMAIN q \cup {Len(q) + 1}
         /\ Append(q, x)[Len(q) + 1] = x
         /\ \A i \in DOMAIN q : Append(q, x)[i] = q[i]
  OBVIOUS

\* One more atom is encoded: it is noted if it is an mdat.
LEMMA WalkAtomNotes ==
  ASSUME TypeOK, MdatsPaired, ChunksNoted, WalkAtom
  PROVE  ChunksNoted'
<1>1. PICK size \in NewSizes(atom) :
        /\ Encodable(size)
        /\ out' = Append(out, Encoded(atom, pos, size))
        /\ mdats' = IF IsMdat(atom)
                    THEN [source |-> Append(mdats.source, atom),
                          rewritten |-> Append(mdats.rewritten, Encoded(atom, pos, size))]
                    ELSE mdats
  BY DEF WalkAtom
<1> DEFINE a == Encoded(atom, pos, size)
<1>2. /\ file.atoms \in Seq(Atom) /\ out \in Seq(Atom) /\ next \in 1..Len(file.atoms)
      /\ mdats.source \in Seq(Atom) /\ mdats.rewritten \in Seq(Atom)
      /\ Len(file.atoms) \in Nat
  BY FileType DEF TypeOK, WalkAtom
<1>3. file' = file /\ next' = next + 1 /\ atom = file.atoms[next] /\ atom \in Atom
  BY <1>2 DEF WalkAtom, atom
<1>4. a.header = "short" /\ a.id = atom.id /\ a.size = size
  BY <1>3 DEF Encoded, Atom
<1>5. a \in Atom
  <2>1. size \in Nat
    <3>1. atom.size \in Nat
      BY ONLY <1>3 DEF Atom
    <3> QED BY ONLY <3>1, size \in NewSizes(atom) DEF NewSizes
  <2>2. pos \in Nat
    BY DEF TypeOK
  <2> QED
    <3>1. /\ a.size = size /\ a.header = "short"
          /\ a \in [type : AtomTypes, id : Nat, header : Headers, at : Nat, size : Nat]
      BY <1>3, <2>1, <2>2 DEF Encoded, Atom, Headers
    <3>2. Size(a) <= Max32
      <4> HIDE DEF a
      <4>1. Size(a) = 8 + size
        BY <3>1 DEF Size, HeaderSize
      <4> QED BY <1>1, <2>1, <4>1, QuickTimeAssumption DEF Encodable
    <3> HIDE DEF a
    <3> QED BY <3>1, <3>2 DEF Atom
<1> HIDE DEF a
<1>6. \A j \in DOMAIN out' : out'[j].header = "short"
  <2>1. \A j \in DOMAIN out' : out'[j] = a \/ (j \in DOMAIN out /\ out'[j] = out[j])
    <3>1. out' = Append(out, a)
      BY <1>1 DEF a
    <3> QED
      BY <1>2, <1>5, <3>1, Appended
  <2> QED
    BY <1>4, <2>1 DEF ChunksNoted
<1>7. next' - 1 = next /\ 1..next = 1..(next - 1) \cup {next}
  BY <1>2, <1>3
<1>8. CASE ~IsMdat(atom)
  <2>1. mdats' = mdats
    BY <1>1, <1>8
  <2>2. \A i \in 1..next : IsMdat(file.atoms[i]) => i \in 1..(next - 1)
    BY <1>3, <1>7, <1>8
  <2> QED
    BY <1>3, <1>6, <1>7, <2>1, <2>2 DEF ChunksNoted
<1>9. CASE IsMdat(atom)
  <2>1. /\ mdats'.source = Append(mdats.source, atom)
        /\ mdats'.rewritten = Append(mdats.rewritten, a)
    BY <1>1, <1>9 DEF a
  <2>2. size = atom.size
    BY <1>1, <1>9 DEF NewSizes, IsMdat
  <2>3. /\ \A k \in DOMAIN mdats.source :
             /\ k \in DOMAIN mdats'.source
             /\ mdats'.source[k] = mdats.source[k] /\ mdats'.rewritten[k] = mdats.rewritten[k]
        /\ Len(mdats.source) + 1 \in DOMAIN mdats'.source
        /\ mdats'.source[Len(mdats.source) + 1] = atom
        /\ mdats'.rewritten[Len(mdats.source) + 1] = a
        /\ DOMAIN mdats'.source = DOMAIN mdats.source \cup {Len(mdats.source) + 1}
    <3>1. DOMAIN mdats.source = DOMAIN mdats.rewritten /\ Len(mdats.source) = Len(mdats.rewritten)
      BY <1>2 DEF MdatsPaired
    <3> QED
      BY <1>2, <1>3, <1>5, <2>1, <3>1, Appended
  <2>4. ASSUME NEW i \in 1..next, IsMdat(file.atoms[i])
        PROVE  \E k \in DOMAIN mdats'.source : mdats'.source[k] = file.atoms[i]
    <3>1. CASE i = next
      BY <1>3, <2>3, <3>1
    <3>2. CASE i \in 1..(next - 1)
      BY <2>3, <2>4, <3>2 DEF ChunksNoted
    <3> QED
      BY <1>7, <3>1, <3>2
  <2>5. \A k \in DOMAIN mdats'.source :
          /\ mdats'.source[k].id = mdats'.rewritten[k].id
          /\ mdats'.source[k].size = mdats'.rewritten[k].size
    BY <1>4, <2>2, <2>3 DEF ChunksNoted
  <2> QED
    BY <1>3, <1>6, <1>7, <2>4, <2>5 DEF ChunksNoted
<1> QED
  BY <1>8, <1>9

LEMMA NextCleanInv == IInv /\ CleanInv /\ [Next]_vars => CleanInv'
<1> SUFFICES ASSUME IInv, CleanInv, [Next]_vars, CleanAsked'
             PROVE  /\ Clean(file')
                    /\ pc' # "blocked"
                    /\ pc' \in {"walk", "repair"} => ChunksNoted'
                    /\ pc' = "repair" => next' > Len(file'.atoms)
  BY DEF CleanInv
<1>0. /\ TypeOK /\ file \in File /\ plan \in Plan
      /\ out \in Seq(Atom) /\ Len(file.atoms) \in Nat
      /\ next \in 1..(Len(file.atoms) + 1)
  BY QuickTimeAssumption, FileType DEF IInv, TypeOK
<1>1. UNCHANGED <<original, plan>>
  BY DEF Next, Raise, BeginStep, WalkAtom, DropAtom, EndWalk, RefuseFanout, DeferExecutor,
         FinishStep, Done, Stop, Commit, vars
<1>2. CleanAsked /\ plan.route = "setup" /\ AllBroad /\ Clean(original)
  BY <1>1 DEF CleanAsked, AllBroad
<1>3. /\ Clean(file) /\ pc # "blocked"
      /\ pc \in {"walk", "repair"} => ChunksNoted
      /\ pc = "repair" => next > Len(file.atoms)
  BY <1>2 DEF CleanInv
<1>4. pc \in {"step", "walk", "repair"} /\ applied < Len(plan.steps) => step.broad
  BY <1>0, <1>2 DEF TypeOK, Plan, AllBroad, step
<1>5. CASE Raise
  BY <1>2, <1>5 DEF Raise
<1>6. CASE BeginStep
  <2>1. ~HasUnsupportedOffsets(file)
    BY <1>3 DEF Clean
  <2>2. out' = <<>> /\ next' = 1 /\ mdats' = NoMdats /\ pc' = "walk" /\ file' = file
    BY <1>6, <2>1 DEF BeginStep
  <2>3. ChunksNoted'
    BY <2>2 DEF ChunksNoted, NoMdats
  <2> QED
    BY <1>3, <2>2, <2>3
<1>7. CASE WalkAtom
  <2>1. pc = "walk" /\ pc' = "walk" /\ file' = file
    BY <1>7 DEF WalkAtom
  <2>2. ChunksNoted'
    BY <1>0, <1>3, <1>7, <2>1, WalkAtomNotes DEF IInv
  <2> QED
    BY <1>3, <2>1, <2>2
<1>8. CASE DropAtom
  <2>1. /\ pc = "walk" /\ pc' = "walk" /\ next' = next + 1 /\ UNCHANGED <<file, out, mdats>>
        /\ ~IsMdat(file.atoms[next])
    BY <1>8 DEF DropAtom, Dropped, IsMdat, atom
  <2>2. \A i \in 1..(next' - 1) : IsMdat(file.atoms[i]) => i \in 1..(next - 1)
    BY <1>0, <2>1
  <2> QED
    BY <1>3, <2>1, <2>2 DEF ChunksNoted
<1>9. CASE EndWalk
  <2>1. /\ pc = "walk" /\ pc' = "repair" /\ next > Len(file.atoms)
        /\ UNCHANGED <<file, next, mdats>>
    BY <1>9 DEF EndWalk
  <2>2. \A j \in DOMAIN out' : out'[j].header = "short"
    <3>1. CASE out' = out
      BY <1>3, <2>1, <3>1 DEF ChunksNoted
    <3>2. CASE \E size \in XmpSizes : out' = Append(out, NewXmp(size))
      <4>1. PICK size \in XmpSizes : out' = Append(out, NewXmp(size))
        BY <3>2
      <4>2. NewXmp(size).header = "short"
        BY DEF NewXmp
      <4>3. \A j \in DOMAIN out' :
              out'[j] = NewXmp(size) \/ (j \in DOMAIN out /\ out'[j] = out[j])
        BY <1>0, <4>1
      <4> QED
        BY <1>3, <2>1, <4>2, <4>3 DEF ChunksNoted
    <3> QED
      BY <1>9, <3>1, <3>2 DEF EndWalk
  <2> QED
    BY <1>3, <2>1, <2>2 DEF ChunksNoted
<1>10. CASE RefuseFanout
  BY <1>2, <1>10 DEF RefuseFanout
<1>11. CASE DeferExecutor
  BY <1>2, <1>11 DEF DeferExecutor
<1>12. CASE FinishStep
  <2>1. pc = "repair" /\ applied < Len(plan.steps) /\ step.broad
    BY <1>4, <1>12 DEF FinishStep, IInv, StepPending
  <2>2. Walked
    BY <1>0, <1>3, <2>1 DEF IInv, Walked
  <2>3. CASE ~NeedsRepair /\ Commit(file.tables)
    <3>1. file.tables = <<>>
      BY <2>1, <2>3 DEF NeedsRepair
    <3>2. RepairedTables = file.tables
      BY <3>1 DEF RepairedTables
    <3> QED
      BY <2>2, <2>3, <3>2, CleanAgain DEF Commit
  <2>4. CASE Commit(RepairedTables)
    BY <2>2, <2>4, CleanAgain DEF Commit
  <2>5. CanRepairAll
    BY <2>2, CleanRepairable
  <2> QED
    BY <1>12, <2>3, <2>4, <2>5 DEF FinishStep
<1>13. CASE Done
  BY <1>3, <1>13 DEF Done, Stop, walk
<1>14. CASE UNCHANGED vars
  BY <1>3, <1>14 DEF vars, walk, ChunksNoted
<1> QED
  BY <1>5, <1>6, <1>7, <1>8, <1>9, <1>10, <1>11, <1>12, <1>13, <1>14 DEF Next

\* CleanNeverBlocked: a file whose co64 entries all point into closed media is never
\* refused by the repair, at whichever step of an all-broad setup rewrite it runs.
THEOREM CleanFilesAlwaysRepaired == Spec => []CleanNeverBlocked
<1>1. CleanInv => CleanNeverBlocked
  BY DEF CleanInv, CleanAsked, AllBroad, CleanNeverBlocked
<1> QED
  BY <1>1, InitIInv, NextIInv, InitCleanInv, NextCleanInv, PTL DEF Spec
=============================================================================
