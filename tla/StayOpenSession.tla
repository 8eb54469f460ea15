--------------------------- MODULE StayOpenSession ---------------------------
(***************************************************************************)
(* PersistentStayOpenSession of src/exifmodern/public_interface/           *)
(* batch_protocol.py: the parser and command dispatcher of -stay_open, as  *)
(* functions from a session record (and input) to the next record.         *)
(*                                                                         *)
(* Text is a sequence of line contents and NL: the part of a line that has *)
(* been read so far matters only until its NL is, so a line is one element *)
(* however it is split.  Arguments are strings compared with the protocol  *)
(* words only.                                                             *)
(***************************************************************************)
EXTENDS Naturals, Sequences, SequencesExt

CONSTANTS
  NL,             \* end of a line
  NoOption,       \* no option waits for its value
  Executes,       \* the -execute[NUM] words
  Numbered,       \* ... those with a number
  PlainOptions,   \* ordinary options whose value is the next line, verbatim
  CommonArgs,     \* -common_args, prepended to every command
  Raising         \* external: the commands on which main raises, as parser.error does

ASSUME SessionAssumption ==
  /\ Numbered \subseteq Executes
  /\ NoOption \notin PlainOptions \cup {"-@", "-stay_open"}
  /\ PlainOptions \cap (Executes \cup {"-@", "-stay_open"}) = {}

ValueOptions == PlainOptions \cup {"-@", "-stay_open"}

\* buf, args, opt: StayOpenParseState; status and next: the last update's status
\* ("open" stands for waiting_for_input too) and its switch or include argfile;
\* runs: history of the commands that returned, with the ready marker each one wrote.
NewSession ==
  [buf |-> <<>>, args |-> <<>>, opt |-> NoOption, stack |-> <<>>, waiting |-> FALSE,
   status |-> "open", next |-> NoOption, runs |-> <<>>]

\* _ready_marker_for_args
Marker(args, execute) ==
  CASE execute \notin Executes -> "none"
    [] \E i \in DOMAIN args : args[i] \in {"-T", "-table"} -> "none"
    [] execute \notin Numbered /\ \E i \in DOMAIN args : args[i] \in {"-q", "-quiet"} -> "none"
    [] OTHER -> execute

Command(args, execute) ==
  [args |-> CommonArgs \o args, marker |-> Marker(CommonArgs \o args, execute)]

\* An exception, which ends the session: of the protocol, or of a command.
Fail(s) == [s EXCEPT !.status = "failed"]
Raises(args) == CommonArgs \o args \in Raising

\* _run_command; `execute` is NoOption for the last command of a shutdown frame.  An
\* exception of the command, SystemExit too, is caught nowhere before the end of the
\* process: no marker is written and nothing more is run.
RunKeepingArgs(s, args, execute) ==  \* Mutant: arguments leak into the next command
  IF Raises(args) THEN Fail(s)
  ELSE [s EXCEPT !.runs = Append(@, Command(args, execute)), !.args = args]
Run(s, args, execute) ==
  IF Raises(args) THEN Fail(s)
  ELSE [s EXCEPT !.runs = Append(@, Command(args, execute)), !.args = <<>>]

\* A control frame of -stay_open: its argument is `value`.
StayOpenFrame(s, before, value) ==
  CASE value \in {"False", "0"} /\ ~s.waiting ->
         LET q == IF before = <<>> THEN s ELSE Run(s, before, NoOption)
         IN  IF q.status = "failed" THEN q ELSE [q EXCEPT !.status = "shutdown"]
    [] value \in {"True", "1"} /\ before = <<>> -> [s EXCEPT !.waiting = TRUE, !.args = <<>>]
    [] OTHER -> Fail(s)

\* A control frame of -@: a nested include, or the switch after -stay_open True.
ArgfileFrame(s, before, value) ==
  CASE ~s.waiting -> [s EXCEPT !.status = "include", !.next = value, !.args = before]
    [] s.waiting /\ before = <<>> ->
         [s EXCEPT !.status = "switch", !.next = value, !.args = <<>>, !.waiting = FALSE]
    [] OTHER -> Fail(s)

\* One complete line.
Accept(s, line) ==
  CASE s.opt # NoOption ->
         LET t == [s EXCEPT !.opt = NoOption] IN
         CASE s.opt = "-@" -> ArgfileFrame(t, Front(s.args), line)
           [] s.opt = "-stay_open" -> StayOpenFrame(t, Front(s.args), line)
           [] OTHER -> [t EXCEPT !.args = Append(@, line)]
    [] s.opt = NoOption /\ line \in Executes ->
         IF s.waiting THEN Fail(s) ELSE Run(s, s.args, line)
    [] OTHER -> [s EXCEPT !.args = Append(@, line),
                          !.opt = IF line \in ValueOptions THEN line ELSE NoOption]

\* Mutant: a control does not stop the parser, later lines of the chunk follow it.
SettleDroppingBuffer(s) ==
  CASE s.status = "include" ->
         [s EXCEPT !.stack = Append(@, [buf |-> <<>>, args |-> <<>>, opt |-> NoOption]),
                   !.buf = <<>>]
    [] s.status = "switch" -> [s EXCEPT !.stack = <<>>, !.buf = <<>>]
    [] OTHER -> s
\* Mutant: a switch keeps the includes that were in progress.
SettleKeepingStack(s) ==
  CASE s.status = "include" ->
         [s EXCEPT !.stack = Append(@, [buf |-> s.buf, args |-> <<>>, opt |-> NoOption]),
                   !.buf = <<>>]
    [] s.status = "switch" -> [s EXCEPT !.buf = <<>>]
    [] OTHER -> s
\* The effect of a control on the parse state: an include saves the parent's, a
\* switch forgets everything that was read.
Settle(s) ==
  CASE s.status = "include" ->
         [s EXCEPT !.stack = Append(@, [buf |-> s.buf, args |-> <<>>, opt |-> NoOption]),
                   !.buf = <<>>]
    [] s.status = "switch" -> [s EXCEPT !.stack = <<>>, !.buf = <<>>]
    [] OTHER -> s

\* The next line, or line end, of the text.  After a control that ends the update,
\* what follows it goes back to the buffer.
Take(s, token) ==
  IF s.status = "open" /\ token = NL THEN Accept([s EXCEPT !.buf = <<>>], Last(s.buf))
                                     ELSE [s EXCEPT !.buf = Append(@, token)]

\* The only member of a set.  A map over such a set has TLC evaluate a session once;
\* without it, it evaluates the session anew at each use in ENABLED.
The(S) == CHOOSE x \in S : TRUE
Taken(s, token) == The({Take(q, token) : q \in {s}})
TakeAll(s, tokens) ==
  LET after[i \in 0..Len(tokens)] == IF i = 0 THEN s ELSE Taken(after[i - 1], tokens[i])
  IN  after[Len(tokens)]

\* feed: parse_stay_open_stream, then _process_frames; poll_eof is Feed(s, <<>>).
Feed(s, chunk) ==
  The({Settle(q) : q \in {TakeAll([s EXCEPT !.buf = <<>>, !.status = "open"], s.buf \o chunk)}})

\* finish_argfile: the included file is at its end; an unterminated last line is
\* complete now, and the parent's state resumes with the arguments so far.
Resume(s) ==
  IF s.status # "open" THEN s
  ELSE LET parent == Last(s.stack)
       IN  Feed([s EXCEPT !.buf = parent.buf, !.args = @ \o parent.args,
                          !.opt = parent.opt, !.stack = Front(@)], <<>>)
FinishArgfile(s) ==
  CASE s.stack = <<>> -> Feed(s, <<>>)
    [] s.stack # <<>> /\ s.buf = <<>> -> Resume([s EXCEPT !.status = "open"])
    [] OTHER -> The({Resume(q) : q \in {Feed(s, <<NL>>)}})
=============================================================================
