----------------------------- MODULE StayOpenLoop -----------------------------
(***************************************************************************)
(* run_stay_open_process_loop over FileStayOpenInputHost, in               *)
(* src/exifmodern/public_interface/stay_open.py: the loop reads chunks of  *)
(* the current ARGFILE, feeds them to the session, and follows the nested  *)
(* includes and the switches the session asks for.  A client appends to    *)
(* the main ARGFILE at its own pace, and may signal what it has written;   *)
(* the other files are there from the start.  A chunk may end anywhere.    *)
(* The sleeper is that of run_supervised_disk_stay_open_process_loop; a    *)
(* loop whose client sends no signal behaves as one over time.sleep.       *)
(***************************************************************************)
EXTENDS StayOpenLines, DiskPollSupervisor

CONSTANTS
  Main,       \* the persistent ARGFILE of the command line
  Scripts,    \* bound: the contents of the files, for each behaviour to choose
  Counts      \* bound: how many lines and ends of includes a step may obey

Words == UNION {UNION {Range(t[f]) : f \in DOMAIN t} : t \in Scripts}
ASSUME LoopAssumption ==
  /\ Counts \subseteq Nat
  /\ \A t \in Scripts : /\ Main \in DOMAIN t
                       /\ \A f \in DOMAIN t :
                            /\ t[f] \in Seq(Words)
                            /\ \A i \in DOMAIN t[f] : t[f][i] = NL <=> i % 2 = 0

VARIABLES
  text,       \* text[f]: what file f holds in the end
  written,    \* how much of Main the client has written
  host,       \* the current source: its file and how much of it is read
  sources,    \* host stack: the sources whose include is in progress
  session,
  phase       \* "running", "shutdown" or "error" (an exception left the loop)

loop == <<host, sources, session, phase>>
vars == <<text, written, loop, supervisor>>

Available(f) == IF f = Main THEN written ELSE Len(text[f])
AtEof == host.pos >= Available(host.file)

\* Type invariant of the loop; no source is ever read past its end.
Source(x) == x.file \in DOMAIN text /\ x.pos \in 0..Available(x.file)
TypeOK ==
  /\ text \in Scripts
  /\ written \in 0..Len(text[Main])
  /\ Source(host)
  /\ \A i \in DOMAIN sources : Source(sources[i])
  /\ session.opt \in ValueOptions \cup {NoOption}
  /\ session.status \in {"open", "include", "switch", "shutdown", "failed"}
  /\ phase \in {"running", "shutdown", "error"}
  /\ SupervisorTypeOK

Init ==
  /\ text \in Scripts
  /\ written = 0
  /\ host = [file |-> Main, pos |-> 0]
  /\ sources = <<>>
  /\ session = NewSession
  /\ phase = "running"
  /\ SupervisorInit

\* Mutant: the new source starts where the old one was.
OpenedAtOldOffset(file) == [file |-> file, pos |-> host.pos]
\* _open_argfile
Opened(file) == [file |-> file, pos |-> 0]

\* What the loop does with the update of `s`, read from `from`, with `stack`
\* below it.  push_argfile refuses the current file and a missing one.
Follow(s, from, stack) ==
  LET opens == s.next \in DOMAIN text
      start == Opened(s.next)
  IN  \/ /\ s.status = "include" /\ opens /\ s.next # from.file
         /\ host' = start /\ sources' = Append(stack, from) /\ UNCHANGED phase
      \/ /\ s.status = "switch" /\ opens
         /\ host' = start /\ sources' = <<>> /\ UNCHANGED phase
      \/ /\ s.status = "open"
         /\ host' = from /\ sources' = stack /\ UNCHANGED phase
      \/ /\ s.status = "shutdown"
         /\ host' = from /\ sources' = <<>> /\ phase' = "shutdown"
      \/ /\ \/ s.status = "failed"
            \/ s.status = "include" /\ (~opens \/ s.next = from.file)
            \/ s.status = "switch" /\ ~opens
         /\ host' = from /\ sources' = <<>> /\ phase' = "error"

ClientWrites ==
  /\ \E n \in (written + 1)..Len(text[Main]) : written' = n
  /\ UNCHANGED <<text, loop, supervisor>>

\* The handler is installed while the loop runs.
ClientSignals == phase = "running" /\ SigCont /\ UNCHANGED <<text, written, loop>>

AtInput == phase = "running" /\ at = "reading"

ReadChunk ==
  /\ AtInput
  /\ \E n \in (host.pos + 1)..Available(host.file) :
       /\ session' = Feed(session, SubSeq(text[host.file], host.pos + 1, n))
       /\ Follow(session', [host EXCEPT !.pos = n], sources)
  /\ UNCHANGED <<text, written, supervisor>>

\* Mutant: the included file's last line is dropped with the buffer.
ReturnWithoutFinish ==
  /\ AtInput
  /\ AtEof /\ sources # <<>>
  /\ session' = [session EXCEPT !.status = "open", !.buf = Last(session.stack).buf,
                   !.stack = Front(@)]
  /\ Follow(session', Last(sources), Front(sources))
  /\ UNCHANGED <<text, written, supervisor>>
\* The end of an included file: the host returns to the parent, then the session.
ReturnFromArgfile ==
  /\ AtInput
  /\ AtEof /\ sources # <<>>
  /\ session' = FinishArgfile(session)
  /\ Follow(session', Last(sources), Front(sources))
  /\ UNCHANGED <<text, written, supervisor>>

\* The end of a persistent ARGFILE is not the end of the session.
ReachEof == AtInput /\ AtEof /\ sources = <<>> /\ ReadEof /\ UNCHANGED <<text, written, loop>>

\* The loop looks at nothing the session's update says, and sleeps.
PollEof ==
  /\ phase = "running" /\ GoToSleep
  /\ session' = Feed(session, <<>>)
  /\ phase' = IF session'.status = "failed" THEN "error" ELSE phase
  /\ UNCHANGED <<text, written, host, sources>>

Sleeping == phase = "running" /\ Sleep /\ UNCHANGED <<text, written, loop>>

Loop == ReadChunk \/ ReturnFromArgfile \/ ReachEof \/ PollEof \/ Sleeping
Next == ClientWrites \/ ClientSignals \/ Loop

\* The loop runs on until it ends or is stuck; the client writes all it has to
\* write, and need not signal.
Spec == Init /\ [][Next]_vars /\ WF_vars(Loop) /\ WF_vars(ClientWrites)

-----------------------------------------------------------------------------
\* The host and the session agree on how many includes are in progress: the
\* session resumes a parent exactly when the host reads from it again.
StacksAgree == phase = "running" => Len(session.stack) = Len(sources)

\* The reader that the session and the host amount to: what is buffered is not
\* read yet.
Unread(source, parse) == Place(source.file, source.pos - Len(parse.buf))
Below(src, stack) == [i \in 1..Len(src) |-> Unread(src[i], stack[i])]
Abstract ==
  IF phase # "running" THEN Ended(session, phase)
  ELSE LET place == Unread(host, session)
       IN  Reader(session, place.file, place.pos, Below(sources, session.stack))

\* Some lines and ends of includes further on.
ObeysMore == \E from \in {Abstract}, to \in {Abstract'} :
               \E n \in Counts : to = Onward(text, from, n)

\* However the chunks fall and whenever the client writes, the session, its
\* buffers, its stack and the host's together are a reader that starts at the main
\* file and obeys line after line: no step skips a line, obeys one twice or takes
\* one back.
LineByLine == Abstract = Reader(NewSession, Main, 0, <<>>) /\ [][ObeysMore]_Abstract

-----------------------------------------------------------------------------
\* What the theorems ask of the files `t` hold.  The main ARGFILE, which grows while
\* the loop runs, is neither included nor switched to.
MainUnnamed(t) == \A f \in DOMAIN t : \A i \in DOMAIN t[f] : t[f][i] # Main

\* The last line of an included file, if it is not terminated, does not name the
\* argfile of an -@: where it does, the host and the session part.
EndedIncludes(t) ==
  \A f \in DOMAIN t \ {Main} : Len(t[f]) > 2 /\ Len(t[f]) % 2 = 1 => t[f][Len(t[f]) - 2] # "-@"
=============================================================================
