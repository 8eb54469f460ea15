-------------------------- MODULE StayOpenReference --------------------------
(***************************************************************************)
(* What a -stay_open session promises: the commands the files order when   *)
(* they are read as one text, each include replaced by the lines of its    *)
(* file.  Nothing here knows of chunks, buffers, stacks or end of file.    *)
(***************************************************************************)
EXTENDS StayOpenSession

Fresh == [args |-> <<>>, opt |-> NoOption, waiting |-> FALSE, runs |-> <<>>, phase |-> "running"]

\* A persistent file's last line counts once its NL is there; an included
\* file's counts anyway.
LinesOf(t, persistent) ==
  LET whole == IF persistent THEN SubSeq(t, 1, SelectLastInSeq(t, LAMBDA x : x = NL)) ELSE t
  IN  SelectSeq(whole, LAMBDA x : x # NL)

Reject(r) == [r EXCEPT !.phase = "error"]
\* A command that raises is the last one, and is not run.
Order(r, execute) ==
  IF Raises(r.args) THEN Reject(r)
  ELSE [r EXCEPT !.runs = Append(@, Command(r.args, execute)), !.args = <<>>]

RECURSIVE Obey(_, _, _, _)

\* The line that follows -stay_open.
ObeyStayOpen(r, line) ==
  CASE line \in {"False", "0"} /\ ~r.waiting ->
         IF r.args # <<>> /\ Raises(r.args) THEN Reject(r)
         ELSE [(IF r.args = <<>> THEN r ELSE Order(r, NoOption)) EXCEPT !.phase = "shutdown"]
    [] line \in {"True", "1"} /\ r.args = <<>> -> [r EXCEPT !.waiting = TRUE]
    [] OTHER -> Reject(r)

\* The line that follows -@.  Once the session has switched files, what the
\* old ones still hold counts no more.
ObeyArgfile(texts, f, r, line) ==
  CASE line \notin DOMAIN texts -> Reject(r)
    [] line \in DOMAIN texts /\ ~r.waiting ->
         IF line = f THEN Reject(r) ELSE Obey(texts, line, r, FALSE)
    [] line \in DOMAIN texts /\ r.waiting ->
         IF r.args # <<>> THEN Reject(r)
         ELSE LET q == Obey(texts, line, [r EXCEPT !.waiting = FALSE], TRUE)
              IN  [q EXCEPT !.phase = IF @ = "running" THEN "switched" ELSE @]

ObeyLine(texts, f, r, line) ==
  CASE r.phase # "running" -> r
    [] r.phase = "running" /\ r.opt # NoOption ->
         LET q == [r EXCEPT !.opt = NoOption] IN
         CASE r.opt = "-@" -> ObeyArgfile(texts, f, [q EXCEPT !.args = Front(@)], line)
           [] r.opt = "-stay_open" -> ObeyStayOpen([q EXCEPT !.args = Front(@)], line)
           [] OTHER -> [q EXCEPT !.args = Append(@, line)]
    [] r.phase = "running" /\ r.opt = NoOption /\ line \in Executes ->
         IF r.waiting THEN Reject(r) ELSE Order(r, line)
    [] OTHER -> [r EXCEPT !.args = Append(@, line),
                          !.opt = IF line \in ValueOptions THEN line ELSE NoOption]

Obey(texts, f, r, persistent) ==
  FoldLeft(LAMBDA q, line : ObeyLine(texts, f, q, line), r, LinesOf(texts[f], persistent))

\* The outcome a session on `main` must reach when the files hold `texts`.
Ordered(texts, main) ==
  LET r == Obey(texts, main, Fresh, TRUE)
  IN  [runs |-> r.runs, phase |-> IF r.phase = "switched" THEN "running" ELSE r.phase]
=============================================================================
