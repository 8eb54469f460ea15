---------------------------- MODULE StayOpenReplay ----------------------------
(***************************************************************************)
(* The default driver of a disk ARGFILE, run_top_level_stay_open_driver    *)
(* with _BoundedStayOpenArgfileReplay, in src/exifmodern/public_interface/ *)
(* stay_open.py: it reads what the files hold now, runs it, and exits.  It *)
(* shares the parser of StayOpenSession and nothing else: includes are     *)
(* calls, a switch returns through them to the driver.                     *)
(*                                                                         *)
(* A replay is a record: the parse state, the calls of _process_argfile in *)
(* progress, outermost first, each with its file and where it looks for    *)
(* the next newline, the persistent ARGFILEs opened so far, and the phase. *)
(***************************************************************************)
EXTENDS StayOpenLoop

CONSTANT MaxDepth  \* bound: Python's recursion limit, for includes of includes
ASSUME DepthAssumption == MaxDepth \in Nat \ {0}

\* run_persistent_argfile, with the driver's refusal to reopen a file; `runs` is
\* what the files before it have run.
Persistent(texts, f, opened, runs) ==
  [state |-> [NewSession EXCEPT !.runs = runs], calls |-> <<Place(f, 0)>>,
   opened |-> opened \cup {f},
   phase |-> IF f \in opened \/ f \notin DOMAIN texts THEN "error" ELSE "running"]

\* The parse state with which an include starts: the command goes on.
\* Mutant: the command's arguments so far are not handed to the include.
EnterEmpty(s) == [s EXCEPT !.status = "open", !.args = <<>>]
Enter(s) == [s EXCEPT !.status = "open"]

\* _process_frame for the frame, if any, that a line completed; `s` is the parse
\* state then.  The current persistent ARGFILE is one of those opened.  An exception,
\* a command's too, goes through all calls and ends the driver.
ProcessFrame(texts, p, s) ==
  LET opens == s.next \in DOMAIN texts /\ Len(p.calls) < MaxDepth IN
  CASE s.status = "open" -> [p EXCEPT !.state = s]
    [] s.status = "include" /\ opens ->
         [p EXCEPT !.state = Enter(s), !.calls = Append(@, Place(s.next, 0))]
    [] s.status = "switch" -> Persistent(texts, s.next, p.opened, s.runs)
    [] s.status = "shutdown" -> [p EXCEPT !.state = s, !.phase = "shutdown"]
    [] OTHER -> [p EXCEPT !.state = s, !.phase = "error"]

\* Mutant: what the include left of the command is lost on return.
EndOfChunksAlone(p) ==
  IF Len(p.calls) > 1 THEN [p EXCEPT !.calls = Front(@), !.state.args = <<>>]
  ELSE [p EXCEPT !.phase = IF p.state.waiting THEN "error" ELSE "ended"]
\* No line is left: the call returns its parse state to the file that includes it,
\* or the driver is done, unless it waits for the ARGFILE of a switch.
EndOfChunks(p) ==
  IF Len(p.calls) > 1 THEN [p EXCEPT !.calls = Front(@)]
  ELSE [p EXCEPT !.phase = IF p.state.waiting THEN "error" ELSE "ended"]

\* The next chunk of the innermost call: a line with its newline, in an included
\* file also a last one without (include_final_partial_line).
ProcessChunk(texts, p) ==
  LET call == Last(p.calls)
      below == Front(p.calls)
      t == texts[call.file]
      parsed == Accept(p.state, t[call.pos + 1])
      At(end) == [p EXCEPT !.calls = Append(below, Place(call.file, end))]
  IN  CASE p.phase # "running" -> p
        [] p.phase = "running" /\ call.pos + 1 < Len(t) ->
             ProcessFrame(texts, At(call.pos + 2), parsed)
        [] p.phase = "running" /\ call.pos + 1 = Len(t) /\ below # <<>> ->
             ProcessFrame(texts, At(call.pos + 1), parsed)
        [] OTHER -> EndOfChunks(p)

\* The replay after n chunks and ends of files.
Processed(texts, p) == The({ProcessChunk(texts, q) : q \in {p}})
Replayed(texts, argfile, n) ==
  LET after[i \in 0..n] == IF i = 0 THEN Persistent(texts, argfile, {}, <<>>)
                           ELSE Processed(texts, after[i - 1])
  IN  after[n]

-----------------------------------------------------------------------------
\* What the files hold when the client has written so much.
WrittenSoFar == [text EXCEPT ![Main] = SubSeq(@, 1, written)]

\* The default driver, started at any time on what is written then, comes to an end;
\* what it runs begins with all that the loop has run so far, and when the loop has
\* ended they have run the same commands, in the same order and with the same ready
\* markers, and have ended alike (run_stay_open_process_loop over
\* FileStayOpenInputHost, run_top_level_stay_open_driver).
DriversAgree ==
  \E n \in Counts :
    LET replay == Replayed(WrittenSoFar, Main, n) IN
    /\ replay.phase # "running"
    /\ IsPrefix(session.runs, replay.state.runs)
    /\ phase # "running" => session.runs = replay.state.runs /\ phase = replay.phase

-----------------------------------------------------------------------------
\* What the theorem about the two drivers asks of the files besides.  The argfiles
\* that file `f` may name: the lines after an -@.
Named(t, f) == {t[f][i + 2] : i \in {j \in DOMAIN t[f] : j + 2 \in DOMAIN t[f] /\ t[f][j] = "-@"}}

\* No file includes or switches to itself, directly or through others, and no chain of
\* them is longer than the interpreter allows: a rank for each file.
IsRank(t, rank) ==
  /\ rank \in [DOMAIN t -> 1..MaxDepth]
  /\ \A f \in DOMAIN t : \A g \in Named(t, f) \cap DOMAIN t : rank[f] < rank[g]
Ranked(t) == \E rank \in [DOMAIN t -> 1..MaxDepth] : IsRank(t, rank)

\* No included file ends with an option whose value is missing: the session forgets the
\* option, the default driver takes the next line of the includer for its value.
OptionsClosed(t) ==
  \A f \in DOMAIN t \ {Main} : \A i \in DOMAIN t[f] : t[f][i] \in ValueOptions => i + 2 <= Len(t[f])
=============================================================================
