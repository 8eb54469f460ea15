---------------------------- MODULE JsonLineServer ----------------------------
(***************************************************************************)
(* src/exifmodern/public_interface/server_mode.py: a thread per connection *)
(* reads JSON lines and runs each as a command of the public CLI.  The CLI *)
(* writes to the process-wide sys.stdout and sys.stderr, which the thread  *)
(* redirects to buffers of its request while it holds _CLI_CAPTURE_LOCK.   *)
(* What socketserver does is modelled from how the module uses it.         *)
(***************************************************************************)
EXTENDS Naturals, Sequences

CONSTANTS
  Conns,        \* connections
  Console,      \* the process's own stdout and stderr
  Kinds,        \* bound: the kinds of request that come up (AllKinds)
  MaxRequests,  \* bound: requests per connection
  HangUps       \* bound: whether clients go away

\* ok: the command returns or exits; huge: its output exceeds max_response_bytes;
\* crash: main raises something other than SystemExit; malformed: _decode_request
\* refuses the line; undecodable: it raises what handle_request_line does not catch
\* (a lone surrogate in an argument, too deep a nesting); long: the line exceeds
\* max_line_bytes.
Commands == {"ok", "huge", "crash"}
AllKinds == Commands \cup {"malformed", "undecodable", "long"}

ASSUME ServerAssumption ==
  /\ Console \notin Conns
  /\ "ok" \in Kinds /\ Kinds \subseteq AllKinds
  /\ MaxRequests \in Nat
  /\ HangUps \in BOOLEAN

VARIABLES
  pc,           \* what the thread of a connection does next
  sent,         \* how many requests a client has sent
  read,         \* how many of them the thread has read
  kind,         \* the kind of the last of them that was a command
  gone,         \* whether the client has closed the connection
  lock,         \* _CLI_CAPTURE_LOCK: its holder, or Console
  stdout, stderr,  \* sys.stdout and sys.stderr: whose buffer, or Console
  saved,        \* what a thread's redirections restore
  out, err,     \* the buffers of a thread's request: whose output they hold
  replies       \* the responses written to a connection

clients == <<sent, gone>>
streams == <<lock, stdout, stderr, saved>>
buffers == <<out, err>>
reads == <<read, kind>>
vars == <<pc, sent, read, kind, gone, lock, stdout, stderr, saved, out, err, replies>>

Targets == Conns \cup {Console}
Steps == {"reading", "acquire", "redirect_stdout", "redirect_stderr", "main",
          "restore_stderr", "restore_stdout", "release", "respond", "raising", "closing", "closed"}
Request(c) == [conn |-> c, number |-> read[c]]

\* Type invariant of the server; no thread reads a request that was not sent.
TypeOK ==
  /\ pc \in [Conns -> Steps]
  /\ \A c \in Conns :
       /\ sent[c] \in 0..MaxRequests
       /\ read[c] \in 0..sent[c]
       /\ Len(replies[c]) <= read[c] + 1
  /\ kind \in [Conns -> Kinds]
  /\ gone \in [Conns -> BOOLEAN]
  /\ {lock, stdout, stderr} \subseteq Targets
  /\ saved \in [Conns -> [out : Targets, err : Targets]]

Init ==
  /\ pc = [c \in Conns |-> "reading"]
  /\ sent = [c \in Conns |-> 0]
  /\ read = [c \in Conns |-> 0]
  /\ kind = [c \in Conns |-> "ok"]
  /\ gone = [c \in Conns |-> FALSE]
  /\ lock = Console /\ stdout = Console /\ stderr = Console
  /\ saved = [c \in Conns |-> [out |-> Console, err |-> Console]]
  /\ out = [c \in Conns |-> <<>>]
  /\ err = [c \in Conns |-> <<>>]
  /\ replies = [c \in Conns |-> <<>>]

Goto(c, step) == pc' = [pc EXCEPT ![c] = step]

-----------------------------------------------------------------------------
\* The clients.  Requests may be sent ahead of the responses.

Send(c) ==
  /\ ~gone[c] /\ pc[c] # "closed" /\ sent[c] < MaxRequests
  /\ sent' = [sent EXCEPT ![c] = @ + 1]
  /\ UNCHANGED <<pc, reads, gone, streams, buffers, replies>>

HangUp(c) ==
  /\ HangUps /\ ~gone[c]
  /\ gone' = [gone EXCEPT ![c] = TRUE]
  /\ UNCHANGED <<pc, sent, reads, streams, buffers, replies>>

-----------------------------------------------------------------------------
\* _JsonLineRequestHandler

Reply(c, of, ok, stdoutText, stderrText) ==
  replies' = [replies EXCEPT ![c] =
                Append(@, [of |-> of, ok |-> ok, out |-> stdoutText, err |-> stderrText])]

\* A write of a response: it raises when the client is gone and the system has
\* noticed, or when the client has not read for read_timeout_seconds (settimeout
\* is for sends too).
Write(c, step, of, ok, stdoutText, stderrText) ==
  \/ Reply(c, of, ok, stdoutText, stderrText) /\ Goto(c, step)
  \/ Goto(c, "raising") /\ UNCHANGED replies

\* Mutant: a malformed line is skipped without an answer.
ReadLineSkippingMalformed(c) ==
  /\ pc[c] = "reading" /\ read[c] < sent[c]
  /\ read' = [read EXCEPT ![c] = @ + 1]
  /\ LET r == Request(c)' IN
     \E k \in Kinds :
       \/ k = "long" /\ Write(c, "closed", r, FALSE, <<>>, <<r>>) /\ UNCHANGED kind
       \/ k = "malformed" /\ Goto(c, "reading") /\ UNCHANGED <<kind, replies>>
       \/ k = "undecodable" /\ Goto(c, "raising") /\ UNCHANGED <<kind, replies>>
       \/ /\ k \in Commands /\ kind' = [kind EXCEPT ![c] = k]
          /\ Goto(c, "acquire") /\ UNCHANGED replies
  /\ UNCHANGED <<clients, streams, buffers>>
\* handle: one line; a bad one is answered at once, or ends the connection.
ReadLine(c) ==
  /\ pc[c] = "reading" /\ read[c] < sent[c]
  /\ read' = [read EXCEPT ![c] = @ + 1]
  /\ LET r == Request(c)' IN
     \E k \in Kinds :
       \/ k = "long" /\ Write(c, "closed", r, FALSE, <<>>, <<r>>) /\ UNCHANGED kind
       \/ k = "malformed" /\ Write(c, "reading", r, FALSE, <<>>, <<r>>) /\ UNCHANGED kind
       \/ k = "undecodable" /\ Goto(c, "raising") /\ UNCHANGED <<kind, replies>>
       \/ /\ k \in Commands /\ kind' = [kind EXCEPT ![c] = k]
          /\ Goto(c, "acquire") /\ UNCHANGED replies
  /\ UNCHANGED <<clients, streams, buffers>>

\* End of input, or a reset connection (whatever was still to be read).
ReadEnd(c) ==
  /\ pc[c] = "reading" /\ gone[c]
  /\ \/ read[c] = sent[c] /\ Goto(c, "closed")
     \/ Goto(c, "raising")
  /\ UNCHANGED <<clients, reads, streams, buffers, replies>>

\* Mutant: the thread reads on after a timeout.
ReadTimeoutAndGoOn(c) ==
  /\ pc[c] = "reading" /\ ~gone[c] /\ read[c] = sent[c]
  /\ LET none == [conn |-> c, number |-> 0] IN Write(c, "reading", none, FALSE, <<>>, <<none>>)
  /\ UNCHANGED <<clients, reads, streams, buffers>>
\* read_timeout_seconds without a line: an error of no request, and the end.
ReadTimeout(c) ==
  /\ pc[c] = "reading" /\ ~gone[c] /\ read[c] = sent[c]
  /\ LET none == [conn |-> c, number |-> 0] IN Write(c, "closed", none, FALSE, <<>>, <<none>>)
  /\ UNCHANGED <<clients, reads, streams, buffers>>

-----------------------------------------------------------------------------
\* _run_public_cli_captured.  `with` leaves what it entered, in reverse, whether
\* main returns or raises.

\* Mutant: no lock around the redirections.
AcquireNothing(c) ==
  /\ pc[c] = "acquire"
  /\ Goto(c, "redirect_stdout")
  /\ UNCHANGED <<clients, reads, streams, buffers, replies>>
Acquire(c) ==
  /\ pc[c] = "acquire" /\ lock = Console
  /\ lock' = c
  /\ Goto(c, "redirect_stdout")
  /\ UNCHANGED <<clients, reads, stdout, stderr, saved, buffers, replies>>

RedirectStdout(c) ==
  /\ pc[c] = "redirect_stdout"
  /\ saved' = [saved EXCEPT ![c].out = stdout]
  /\ stdout' = c
  /\ Goto(c, "redirect_stderr")
  /\ UNCHANGED <<clients, reads, lock, stderr, buffers, replies>>

RedirectStderr(c) ==
  /\ pc[c] = "redirect_stderr"
  /\ saved' = [saved EXCEPT ![c].err = stderr]
  /\ stderr' = c
  /\ Goto(c, "main")
  /\ UNCHANGED <<clients, reads, lock, stdout, buffers, replies>>

\* Text of request r goes to a stream's target; the console's is not recorded.
Emit(buffer, target, r) ==
  IF target = Console THEN buffer ELSE [buffer EXCEPT ![target] = Append(@, r)]

\* Mutant: an exception leaves the redirections in place.
MainWithoutUnwind(c) ==
  /\ pc[c] = "main"
  /\ out' = Emit(out, stdout, Request(c))
  /\ err' = Emit(err, stderr, Request(c))
  /\ Goto(c, IF kind[c] = "crash" THEN "release" ELSE "restore_stderr")
  /\ UNCHANGED <<clients, reads, streams, replies>>
\* main(argv): it writes to whatever the process's streams are.
Main(c) ==
  /\ pc[c] = "main"
  /\ out' = Emit(out, stdout, Request(c))
  /\ err' = Emit(err, stderr, Request(c))
  /\ Goto(c, "restore_stderr")
  /\ UNCHANGED <<clients, reads, streams, replies>>

RestoreStderr(c) ==
  /\ pc[c] = "restore_stderr"
  /\ stderr' = saved[c].err
  /\ Goto(c, "restore_stdout")
  /\ UNCHANGED <<clients, reads, lock, stdout, saved, buffers, replies>>

RestoreStdout(c) ==
  /\ pc[c] = "restore_stdout"
  /\ stdout' = saved[c].out
  /\ Goto(c, "release")
  /\ UNCHANGED <<clients, reads, lock, stderr, saved, buffers, replies>>

AfterMain(c) == IF kind[c] = "crash" THEN "raising" ELSE "respond"
\* Mutant: an exception skips the release.
ReleaseUnlessRaised(c) ==
  /\ pc[c] = "release"
  /\ lock' = IF kind[c] = "crash" THEN lock ELSE Console
  /\ Goto(c, AfterMain(c))
  /\ UNCHANGED <<clients, reads, stdout, stderr, saved, buffers, replies>>
Release(c) ==
  /\ pc[c] = "release"
  /\ lock' = Console
  /\ Goto(c, AfterMain(c))
  /\ UNCHANGED <<clients, reads, stdout, stderr, saved, buffers, replies>>

\* The captured text goes into the response, unless there is too much of it.  The
\* next request gets buffers of its own.
Respond(c) ==
  /\ pc[c] = "respond"
  /\ IF kind[c] = "huge" THEN Write(c, "reading", Request(c), FALSE, <<>>, <<Request(c)>>)
     ELSE Write(c, "reading", Request(c), TRUE, out[c], err[c])
  /\ out' = [out EXCEPT ![c] = <<>>] /\ err' = [err EXCEPT ![c] = <<>>]
  /\ UNCHANGED <<clients, reads, streams>>

\* socketserver.BaseServer.handle_error, with no lock held: the traceback goes to
\* sys.stderr, wherever that leads now.  It is printed in several writes; one step
\* stands for them, as any part of it in a response is foreign text.
HandleError(c) ==
  /\ pc[c] = "raising"
  /\ err' = Emit(err, stderr, Request(c))
  /\ Goto(c, "closing")
  /\ UNCHANGED <<clients, reads, streams, out, replies>>

\* socketserver's shutdown_request after the traceback.
ShutDown(c) ==
  /\ pc[c] = "closing"
  /\ Goto(c, "closed")
  /\ UNCHANGED <<clients, reads, streams, buffers, replies>>

Thread(c) ==
  \/ ReadLine(c) \/ ReadEnd(c) \/ ReadTimeout(c)
  \/ Acquire(c) \/ RedirectStdout(c) \/ RedirectStderr(c) \/ Main(c)
  \/ RestoreStderr(c) \/ RestoreStdout(c) \/ Release(c)
  \/ Respond(c) \/ HandleError(c) \/ ShutDown(c)

Next == \E c \in Conns : Send(c) \/ HangUp(c) \/ Thread(c)

\* Every thread runs on: main returns or raises, and a read or a write ends within
\* read_timeout_seconds.  Clients need not do anything.
Spec == Init /\ [][Next]_vars /\ \A c \in Conns : WF_vars(Thread(c))

-----------------------------------------------------------------------------
\* A request's output is in its own response, all of it and nothing else
\* ("concurrent clients cannot interleave captured output", server_mode.py:200).
OwnOutput ==
  \A c \in Conns : \A i \in DOMAIN replies[c] :
    LET r == replies[c][i] IN
    /\ r.ok => r.out = <<r.of>>
    /\ r.err = <<r.of>>

\* Even with failures: captured stdout is the request's own, its stderr is there
\* once, and the only other text there is the last of a connection that is over.
ForeignOnlyFromEnded ==
  \A c \in Conns : \A i \in DOMAIN replies[c] :
    LET r == replies[c][i]
        Own == {j \in DOMAIN r.err : r.err[j] = r.of} IN
    /\ r.ok => r.out = <<r.of>>
    /\ \E j \in DOMAIN r.err : Own = {j}
    /\ \A j \in DOMAIN r.err \ Own :
         LET other == r.err[j].conn IN
         /\ pc[other] \in {"closing", "closed"}
         /\ r.err[j].number = read[other]
         /\ \A k \in DOMAIN r.err : r.err[k].conn = other => k = j

\* The responses of a connection answer its requests one by one, in order; only
\* a last one, a timeout's, answers none.
InOrder ==
  \A c \in Conns : \A i \in DOMAIN replies[c] :
    /\ replies[c][i].of.conn = c
    /\ \/ replies[c][i].of.number = i
       \/ replies[c][i].of.number = 0 /\ i = Len(replies[c]) /\ pc[c] \in {"closed", "raising"}

\* While nobody holds the capture lock, the process's streams are its own, and a
\* thread that holds it has redirected no stream to another's buffer.
StreamsRestored ==
  /\ lock = Console => stdout = Console /\ stderr = Console
  /\ {stdout, stderr} \subseteq {lock, Console}

\* A request that was sent is answered in the end, or its connection ends.
Answered ==
  \A c \in Conns : \A i \in 1..MaxRequests :
    sent[c] >= i ~> Len(replies[c]) >= i \/ pc[c] = "closed"
=============================================================================
