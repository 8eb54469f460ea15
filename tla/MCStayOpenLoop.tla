--------------------------- MODULE MCStayOpenLoop ---------------------------
(***************************************************************************)
(* Instances of StayOpenLoop: small ARGFILEs, and the promise of           *)
(* StayOpenReference as properties of the loop.                            *)
(***************************************************************************)
EXTENDS StayOpenReplay

Reference == INSTANCE StayOpenReference

OneCommonArg == <<"-common">>

OneToTwenty == 1..20

\* Every line ended; the same with its last line unterminated.
Lined(lines) == FoldLeft(LAMBDA t, line : t \o <<line, NL>>, <<>>, lines)
Cut(lines) == Front(Lined(lines))

Files(a, b, c, s) == [f \in {"A", "B", "C", "S"} |->
  CASE f = "A" -> a [] f = "B" -> b [] f = "C" -> c [] f = "S" -> s]

\* An include in the middle of a command, with the command's end in the chunk
\* that holds the include; the included file ends in an unterminated -execute.
Nested == Files(Lined(<<"x", "-@", "B", "y", "-execute", "-q", "-execute">>),
                Cut(<<"b", "-execute7">>), <<>>, <<>>)
\* Two levels; the inner file leaves arguments to the outer ones.
Twice == Files(Lined(<<"-@", "B", "-execute", "z", "-execute7", "-stay_open", "0">>),
               Lined(<<"b", "-@", "C", "d">>), Cut(<<"c">>), <<>>)
\* Values of ordinary options look like protocol words.
Values == Files(Lined(<<"-o", "-execute", "-o", "-@", "B", "-execute", "-T", "-execute7">>),
                <<>>, <<>>, <<>>)
\* A switch from inside an include: the rest of both files is forgotten.
Switch == Files(Lined(<<"x", "-execute", "-@", "B", "y", "-execute">>),
                Lined(<<"-stay_open", "True", "-@", "S", "b", "-execute">>), <<>>,
                Lined(<<"s", "-@", "C", "-execute", "-stay_open", "False">>))
\* The end of the session, ordered by an include, with arguments to run; and
\* text after it.
Ends == Files(Lined(<<"x", "-@", "B", "y", "-execute">>),
              Cut(<<"b", "-stay_open", "False">>), <<>>, <<>>)
\* -stay_open True with no switch behind it, and an include of the same file.
Refused == Files(Lined(<<"x", "-execute", "-stay_open", "True", "-execute">>), <<>>, <<>>, <<>>)
Itself == Files(Lined(<<"x", "-@", "B", "-execute">>), Lined(<<"b", "-@", "B">>), <<>>, <<>>)

\* A command that the include ends raises, with more commands behind it in both files;
\* a command that the end of the session orders raises.
Raised == Files(Lined(<<"x", "-@", "B", "-execute", "y", "-execute7">>),
                Lined(<<"b", "-execute", "bad", "-execute7", "b", "-execute">>), <<>>, <<>>)
RaisedLast == Files(Lined(<<"x", "-execute", "bad", "-stay_open", "False">>), <<>>, <<>>, <<>>)
OneBadCommand == {<<"-common", "bad">>}

GoodScripts == {Nested, Twice, Values, Switch, Ends, Refused, Itself, Raised, RaisedLast}

\* What the theorems ask of the files; only the one about both drivers asks for a rank,
\* which Itself has not.
ASSUME FilesAssumption == \A t \in GoodScripts :
  MainUnnamed(t) /\ EndedIncludes(t) /\ (t # Itself => Ranked(t) /\ OptionsClosed(t))

\* The last line of an included file names an include and is not terminated.
TailInclude == {Files(Lined(<<"x", "-@", "B", "y", "-execute">>),
                      Cut(<<"b", "-@", "C">>), Lined(<<"c">>), <<>>)}

\* Commands run in the order and with the arguments and ready markers that the
\* text written so far asks for: none early, none twice, none with arguments
\* of another (PersistentStayOpenSession, FileStayOpenInputHost).
RunsAsOrdered == IsPrefix(session.runs, Reference!Ordered(WrittenSoFar, Main).runs)

\* The default driver, started when the client has written so much, runs the
\* commands this text orders, those the loop runs in the end, and ends as it
\* does (_BoundedStayOpenArgfileReplay, run_top_level_stay_open_driver).
ReplayAsOrdered ==
  LET ordered == Reference!Ordered(WrittenSoFar, Main) IN
  \E n \in Counts :
    LET replay == Replayed(WrittenSoFar, Main, n) IN
    /\ replay.phase # "running" /\ replay.state.runs = ordered.runs
    /\ ordered.phase # "running" => replay.phase = ordered.phase

\* However the chunks fall, every command the files order is run in the end, up to one
\* that raises, and the loop ends exactly when they order that or one raises
\* (run_stay_open_process_loop).
\* The exception is a signal that comes while the sleeper holds the Event's lock.
AllOrdersObeyed ==
  \/ <>[](/\ session.runs = Reference!Ordered(text, Main).runs
          /\ phase = Reference!Ordered(text, Main).phase)
  \/ <>(at = "stuck")
=============================================================================
