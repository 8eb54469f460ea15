----------------------------- MODULE StayOpenLines -----------------------------
(***************************************************************************)
(* The promise of a -stay_open session as a reader that obeys one line     *)
(* after the other: it is at a line of a file, with the includes in        *)
(* progress below it.  It knows of no chunks, buffers or host; what a line *)
(* means is Accept of StayOpenSession.                                     *)
(***************************************************************************)
EXTENDS StayOpenSession

\* A reader at place `pos` of `file`, with what a session keeps between lines.
Reader(s, file, pos, below) ==
  [file |-> file, pos |-> pos, below |-> below, args |-> s.args, opt |-> s.opt,
   waiting |-> s.waiting, runs |-> s.runs, phase |-> "running"]
Ended(s, phase) ==
  [file |-> NoOption, pos |-> 0, below |-> <<>>, args |-> <<>>, opt |-> NoOption,
   waiting |-> FALSE, runs |-> s.runs, phase |-> phase]

Place(file, pos) == [file |-> file, pos |-> pos]

\* Where the reader goes on when session `s` has obeyed the line that ends at `pos`.
Outcome(texts, s, file, pos, below) ==
  LET opens == s.next \in DOMAIN texts IN
  CASE s.status = "open" -> Reader(s, file, pos, below)
    [] s.status = "include" /\ opens /\ s.next # file ->
         Reader(s, s.next, 0, Append(below, Place(file, pos)))
    [] s.status = "switch" /\ opens -> Reader(s, s.next, 0, <<>>)
    [] s.status = "shutdown" -> Ended(s, "shutdown")
    [] OTHER -> Ended(s, "error")

Between(r) ==
  [NewSession EXCEPT !.args = r.args, !.opt = r.opt, !.waiting = r.waiting, !.runs = r.runs]

\* The next line, if it has its end; the last line of an include needs none; at the
\* end of an include the file below goes on, and an option left open is forgotten.
Obey(texts, r) ==
  LET t == texts[r.file]
      nested == r.below # <<>>
      obeyed == Accept(Between(r), t[r.pos + 1])
  IN  CASE r.phase = "running" /\ r.pos + 1 < Len(t) ->
             Outcome(texts, obeyed, r.file, r.pos + 2, r.below)
        [] r.phase = "running" /\ nested /\ r.pos + 1 = Len(t) ->
             Outcome(texts, obeyed, r.file, r.pos + 1, r.below)
        [] r.phase = "running" /\ nested /\ r.pos = Len(t) ->
             Reader([r EXCEPT !.opt = NoOption], Last(r.below).file, Last(r.below).pos,
                    Front(r.below))
        [] OTHER -> r

\* The reader when it has obeyed n more lines and ends of includes.
Obeyed(texts, r) == The({Obey(texts, q) : q \in {r}})
Onward(texts, r, n) ==
  LET after[i \in 0..n] == IF i = 0 THEN r ELSE Obeyed(texts, after[i - 1])
  IN  after[n]
=============================================================================
