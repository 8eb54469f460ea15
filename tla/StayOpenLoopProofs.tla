-------------------------- MODULE StayOpenLoopProofs --------------------------
(***************************************************************************)
(* Whatever the files hold, however the client writes them and the chunks  *)
(* fall: the loop obeys line after line, its host and its session agree on *)
(* the includes in progress, and no wake-up is lost.                       *)
(***************************************************************************)
EXTENDS StayOpenParserProofs, StayOpenReplay

-----------------------------------------------------------------------------
(* The sleeper. *)

\* Why NoLostWakeup is inductive: from the read that found the end of the file
\* until the sleeper waits, a signal is remembered by the Event, which nothing
\* clears before the next read.
Remembered == at \in {"eof", "testing", "asleep"} /\ owed => flag

\* A sleeping loop has not been told to wake up: the Event is not set.
SleepsUntold == at = "asleep" => ~flag

SleepInv == SupervisorTypeOK /\ Remembered /\ SleepsUntold

\* Every step of the supervisor and of the signal handler keeps SleepInv.
LEMMA SupervisorKeepsSleepInv ==
  ASSUME SleepInv, ReadEof \/ GoToSleep \/ Sleep \/ SigCont
  PROVE  SleepInv'
<1> USE DEF SleepInv, SupervisorTypeOK, Remembered, SleepsUntold
<1>1. CASE ReadEof
  BY <1>1 DEF ReadEof
<1>2. CASE GoToSleep
  BY <1>2 DEF GoToSleep, Continue
<1>3. CASE Sleep
  <2>1. CASE Test
    BY <2>1 DEF Test, Continue
  <2>2. CASE TimeOut
    BY <2>2 DEF TimeOut
  <2>3. CASE Leave
    BY <2>3 DEF Leave, Continue
  <2>4. CASE Clear
    BY <2>4 DEF Clear, Continue
  <2> QED
    BY <1>3, <2>1, <2>2, <2>3, <2>4 DEF Sleep
<1>4. CASE SigCont
  BY <1>4 DEF SigCont, Locked
<1> QED
  BY <1>1, <1>2, <1>3, <1>4

\* Of the loop's own steps, only those at the end of a persistent ARGFILE touch
\* the supervisor.
LEMMA StepKeepsSleepInv == SleepInv /\ [Next]_vars => SleepInv'
<1> SUFFICES ASSUME SleepInv, [Next]_vars PROVE SleepInv'
  OBVIOUS
<1>1. CASE UNCHANGED supervisor
  BY <1>1 DEF SleepInv, SupervisorTypeOK, Remembered, SleepsUntold, supervisor
<1>2. CASE ClientWrites
  BY <1>1, <1>2 DEF ClientWrites
<1>3. CASE ClientSignals
  BY <1>3, SupervisorKeepsSleepInv DEF ClientSignals
<1>4. CASE ReadChunk
  BY <1>1, <1>4 DEF ReadChunk
<1>5. CASE ReturnFromArgfile
  BY <1>1, <1>5 DEF ReturnFromArgfile
<1>6. CASE ReachEof
  BY <1>6, SupervisorKeepsSleepInv DEF ReachEof
<1>7. CASE PollEof
  BY <1>7, SupervisorKeepsSleepInv DEF PollEof
<1>8. CASE Sleeping
  BY <1>8, SupervisorKeepsSleepInv DEF Sleeping
<1>9. CASE UNCHANGED vars
  BY <1>1, <1>9 DEF vars
<1> QED
  BY <1>2, <1>3, <1>4, <1>5, <1>6, <1>7, <1>8, <1>9 DEF Next, Loop

\* No signal is lost (StayOpenDiskPollSupervisor.sleep, notify_cont_signal): the
\* loop is never asleep when one came after its last read of the end of the file,
\* for any files, any client and any session.
THEOREM WakeupsKept == Spec => []NoLostWakeup
<1>1. Init => SleepInv
  BY DEF Init, SupervisorInit, SleepInv, SupervisorTypeOK, Remembered, SleepsUntold
<1>2. SleepInv => NoLostWakeup
  BY DEF SleepInv, Remembered, SleepsUntold, SupervisorTypeOK, NoLostWakeup
<1> QED
  BY <1>1, <1>2, StepKeepsSleepInv, PTL DEF Spec

-----------------------------------------------------------------------------
(* The includes in progress, in the session and in the host. *)

\* What Settle saves of a parent's parse state.
Frames == [buf : Seq(Words), args : {<<>>}, opt : {NoOption}]

\* A parent whose include is in progress: what it has read and not obeyed is saved.
Saved(t, source, frame) ==
  LET p == source.pos - Len(frame.buf) IN
  /\ p \in Nat /\ p % 2 = 0 /\ source.pos <= Len(t[source.file])
  /\ frame.buf = SubSeq(t[source.file], p + 1, source.pos)

\* ... for every include of the host's stack and the session's.
Kept(t, src, stack) ==
  /\ src \in Seq([file : DOMAIN t, pos : Nat]) /\ stack \in Seq(Frames)
  /\ Len(stack) = Len(src)
  /\ \A i \in 1..Len(src) : Saved(t, src[i], stack[i]) /\ (i > 1 => src[i].file # Main)


LEMMA KeptNone == ASSUME NEW t PROVE Kept(t, <<>>, <<>>) /\ Below(<<>>, <<>>) = <<>>
<1>1. \A i \in 1..Len(<<>>) : FALSE
  OBVIOUS
<1>2. Kept(t, <<>>, <<>>)
  <2> DEFINE P == [file : DOMAIN t, pos : Nat]
             F == Frames
  <2> HIDE DEF P, F
  <2>1. <<>> \in Seq(P) /\ <<>> \in Seq(F)
    BY EmptySeq
  <2> QED BY <1>1, <2>1 DEF Kept, P, F
<1>3. Below(<<>>, <<>>) = <<>>
  BY DEF Below
<1> QED BY <1>2, <1>3

LEMMA KeptAppend ==
  ASSUME NEW t, NEW src, NEW stack, Kept(t, src, stack),
         NEW source \in [file : DOMAIN t, pos : Nat], NEW frame \in Frames,
         Saved(t, source, frame), src # <<>> => source.file # Main
  PROVE  /\ Kept(t, Append(src, source), Append(stack, frame))
         /\ Below(Append(src, source), Append(stack, frame))
              = Append(Below(src, stack), Unread(source, frame))
<1> DEFINE P == [file : DOMAIN t, pos : Nat]
           F == Frames
           src2 == Append(src, source)
           stack2 == Append(stack, frame)
           n == Len(src)
<1> HIDE DEF P, F
<1>1. /\ src \in Seq(P) /\ stack \in Seq(F) /\ Len(stack) = n /\ n \in Nat
      /\ source \in P /\ frame \in F
      /\ \A i \in 1..n : Saved(t, src[i], stack[i]) /\ (i > 1 => src[i].file # Main)
  BY LenProperties DEF Kept, P, F
<1>2. /\ src2 \in Seq(P) /\ Len(src2) = n + 1 /\ src2[n + 1] = source
      /\ \A i \in 1..n : src2[i] = src[i]
  BY <1>1, AppendProperties
<1>3. /\ stack2 \in Seq(F) /\ Len(stack2) = n + 1 /\ stack2[n + 1] = frame
      /\ \A i \in 1..n : stack2[i] = stack[i]
  BY <1>1, AppendProperties
<1>4. n > 0 => src # <<>>
  BY <1>1
<1> HIDE DEF src2, stack2
<1>5. Kept(t, src2, stack2)
  <2>1. ASSUME NEW i \in 1..(n + 1)
        PROVE  Saved(t, src2[i], stack2[i]) /\ (i > 1 => src2[i].file # Main)
    <3>1. CASE i = n + 1
      BY <1>1, <1>2, <1>3, <1>4, <3>1
    <3>2. CASE i # n + 1
      <4>1. i \in 1..n
        BY <1>1, <3>2
      <4> QED BY <1>1, <1>2, <1>3, <4>1
    <3> QED BY <3>1, <3>2
  <2> QED BY <1>2, <1>3, <2>1 DEF Kept, P, F
<1>6. Below(src2, stack2) = Append(Below(src, stack), Unread(source, frame))
  <2> DEFINE U(i) == Unread(src2[i], stack2[i])
             b == [i \in 1..n |-> U(i)]
             c == [i \in 1..(n + 1) |-> U(i)]
  <2>1. Below(src2, stack2) = c
    BY <1>2 DEF Below
  <2>2. Below(src, stack) = b
    <3>1. \A i \in 1..n : Unread(src[i], stack[i]) = U(i)
      BY <1>2, <1>3
    <3> HIDE DEF U
    <3> QED BY <3>1 DEF Below
  <2>3. U(n + 1) = Unread(source, frame)
    BY <1>2, <1>3
  <2> HIDE DEF U
  <2>4. c = Append(b, U(n + 1))
    BY <1>1
  <2> QED BY <2>1, <2>2, <2>3, <2>4
<1> QED BY <1>5, <1>6 DEF src2, stack2

LEMMA BelowSome ==
  ASSUME NEW t, NEW src, NEW stack, Kept(t, src, stack), src # <<>>
  PROVE  Below(src, stack) # <<>>
<1>1. Len(src) \in Nat \ {0}
  BY EmptySeq DEF Kept
<1>2. 1 \in DOMAIN Below(src, stack)
  BY <1>1 DEF Below
<1> QED BY <1>2

LEMMA KeptFront ==
  ASSUME NEW t, NEW src, NEW stack, Kept(t, src, stack), src # <<>>
  PROVE  /\ Kept(t, Front(src), Front(stack)) /\ stack # <<>>
         /\ Last(Below(src, stack)) = Unread(Last(src), Last(stack))
         /\ Front(Below(src, stack)) = Below(Front(src), Front(stack))
         /\ Last(src) \in [file : DOMAIN t, pos : Nat] /\ Last(stack) \in Frames
         /\ Saved(t, Last(src), Last(stack))
         /\ Front(src) # <<>> => Last(src).file # Main
<1> DEFINE P == [file : DOMAIN t, pos : Nat]
           F == Frames
           n == Len(src)
           b == Below(src, stack)
<1> HIDE DEF P, F
<1>1. src \in Seq(P) /\ stack \in Seq(F) /\ Len(stack) = n
      /\ \A i \in 1..n : Saved(t, src[i], stack[i]) /\ (i > 1 => src[i].file # Main)
  BY DEF Kept, P, F
<1>2. n \in Nat \ {0} /\ n \in 1..n /\ stack # <<>>
  BY <1>1, EmptySeq
<1>3. /\ Front(src) \in Seq(P) /\ Len(Front(src)) = n - 1 /\ Last(src) \in P
      /\ \A i \in 1..(n - 1) : Front(src)[i] = src[i]
  BY <1>1, FrontTyped, FrontElements
<1>4. /\ Front(stack) \in Seq(F) /\ Len(Front(stack)) = n - 1 /\ Last(stack) \in F
      /\ \A i \in 1..(n - 1) : Front(stack)[i] = stack[i]
  BY <1>1, <1>2, FrontTyped, FrontElements
<1>5. Last(src) = src[n] /\ Last(src) \in P /\ Last(stack) = stack[n] /\ Last(stack) \in F
  BY <1>1, <1>3, <1>4 DEF Last
<1>6. Kept(t, Front(src), Front(stack))
  <2>1. \A i \in 1..(n - 1) : i \in 1..n
    BY <1>2
  <2> QED BY <1>1, <1>3, <1>4, <2>1 DEF Kept, P, F
<1>7. Front(src) # <<>> => Last(src).file # Main
  <2>1. Front(src) # <<>> => n > 1
    BY <1>2, <1>3
  <2> QED BY <1>1, <1>2, <1>5, <2>1
<1> DEFINE U(i) == Unread(src[i], stack[i])
<1>8. b = [i \in 1..n |-> U(i)]
  BY DEF Below
<1>9. b # <<>> /\ Last(b) = U(n) /\ Front(b) = [i \in 1..(n - 1) |-> U(i)]
  <2> HIDE DEF U, b
  <2> QED BY <1>2, <1>8 DEF Last, Front
<1>10. Below(Front(src), Front(stack)) = [i \in 1..(n - 1) |-> U(i)]
  <2>1. \A i \in 1..(n - 1) : Unread(Front(src)[i], Front(stack)[i]) = U(i)
    BY <1>3, <1>4
  <2> HIDE DEF U
  <2> QED BY <1>3, <2>1 DEF Below
<1> HIDE DEF b
<1> QED BY <1>1, <1>2, <1>5, <1>6, <1>7, <1>9, <1>10 DEF P, F, b

-----------------------------------------------------------------------------
(* What the loop does with an update of the session. *)

\* The files hold `t` now.
Current(t) == DOMAIN t = DOMAIN text /\ \A f \in DOMAIN t : Available(f) = Len(t[f])

\* The session and the host, while the loop runs: the session has parsed what the
\* host has read of the current file.
Coherent(origin, t, source, src, s) ==
  /\ source.file \in DOMAIN t /\ source.pos \in 0..Len(t[source.file])
  /\ Kept(t, src, s.stack)
  /\ src # <<>> => source.file # Main
  /\ \E e : /\ Parsed(origin, t, source.file, Below(src, s.stack), source.pos, Reopened(s), e)
            /\ Steady(Reopened(s), source.pos, e)
\* The whole loop, which came from reader `origin`; one that has ended is an ended
\* reader.
Consistent(origin, t, source, src, s, ph) ==
  /\ IsSession(s)
  /\ ph = "running" => Coherent(origin, t, source, src, s)
  /\ ph # "running" => Reached(origin, t, Ended(s, ph))

LEMMA ReopenedRecord ==
  ASSUME NEW s, IsSession(s)
  PROVE  LET o == Reopened(s) IN
         /\ IsSession(o) /\ o.buf = s.buf /\ o.args = s.args /\ o.opt = s.opt /\ o.stack = s.stack
         /\ o.waiting = s.waiting /\ o.status = "open" /\ o.runs = s.runs /\ o.next = s.next
<1> SUFFICES ASSUME NEW o, o = Reopened(s)
             PROVE  /\ IsSession(o) /\ o.buf = s.buf /\ o.args = s.args /\ o.opt = s.opt
                    /\ o.stack = s.stack /\ o.waiting = s.waiting /\ o.status = "open"
                    /\ o.runs = s.runs /\ o.next = s.next
  OBVIOUS
<1>1. o = [buf |-> s.buf, args |-> s.args, opt |-> s.opt, stack |-> s.stack,
           waiting |-> s.waiting, status |-> "open", next |-> s.next, runs |-> s.runs]
  BY DEF Reopened, IsSession
<1> QED BY <1>1 DEF IsSession, Statuses

LEMMA SettledRecord ==
  ASSUME NEW a, IsSession(a), NEW z, z = Settle(a)
  PROVE  /\ IsSession(z) /\ Alike(a, z) /\ z.next = a.next
         /\ a.status = "include" =>
              /\ z.buf = <<>>
              /\ z.stack = Append(a.stack, [buf |-> a.buf, args |-> <<>>, opt |-> NoOption])
         /\ a.status = "switch" => z.buf = <<>> /\ z.stack = <<>>
         /\ a.status \notin {"include", "switch"} => z = a
<1>1. CASE a.status = "include"
  <2> DEFINE frames == Append(a.stack, [buf |-> a.buf, args |-> <<>>, opt |-> NoOption])
  <2>1. z = [a EXCEPT !.stack = frames, !.buf = <<>>]
    BY <1>1 DEF Settle
  <2> HIDE DEF frames
  <2>2. z = [buf |-> <<>>, args |-> a.args, opt |-> a.opt, stack |-> frames,
             waiting |-> a.waiting, status |-> a.status, next |-> a.next, runs |-> a.runs]
    BY <2>1 DEF IsSession
  <2>3. IsSession(z) /\ Alike(a, z) /\ z.next = a.next /\ z.buf = <<>> /\ z.stack = frames
    BY <2>2 DEF IsSession, Alike
  <2> QED BY <1>1, <2>3 DEF frames
<1>2. CASE a.status = "switch"
  <2>1. z = [a EXCEPT !.stack = <<>>, !.buf = <<>>]
    BY <1>2 DEF Settle
  <2>2. z = [buf |-> <<>>, args |-> a.args, opt |-> a.opt, stack |-> <<>>,
             waiting |-> a.waiting, status |-> a.status, next |-> a.next, runs |-> a.runs]
    BY <2>1 DEF IsSession
  <2>3. IsSession(z) /\ Alike(a, z) /\ z.next = a.next /\ z.buf = <<>> /\ z.stack = <<>>
    BY <2>2 DEF IsSession, Alike
  <2> QED BY <1>2, <2>3
<1>3. CASE a.status \notin {"include", "switch"}
  <2>1. z = a
    BY <1>3 DEF Settle
  <2> QED BY <1>3, <2>1 DEF Alike
<1> QED BY <1>1, <1>2, <1>3

\* A new source is read from its start.
LEMMA StartCoherent ==
  ASSUME NEW origin, NEW t, IsText(t), NEW z, IsSession(z), z.buf = <<>>, z.opt = NoOption,
         NEW f \in DOMAIN t, NEW src, Kept(t, src, z.stack), src # <<>> => f # Main,
         Reached(origin, t, Reader(z, f, 0, Below(src, z.stack)))
  PROVE  Coherent(origin, t, [file |-> f, pos |-> 0], src, z)
<1> DEFINE o == Reopened(z)
           b == Below(src, z.stack)
<1>1. /\ IsSession(o) /\ o.buf = <<>> /\ o.args = z.args /\ o.opt = NoOption
      /\ o.waiting = z.waiting /\ o.status = "open" /\ o.runs = z.runs
  BY ReopenedRecord
<1> HIDE DEF o, b
<1>2. Outcome(t, o, f, 0, b) = Reader(z, f, 0, b)
  BY <1>1 DEF Outcome, Reader
<1>3. Parsed(origin, t, f, b, 0, o, 0)
  <2>1. SubSeq(t[f], 0 + 1, 0) = <<>>
    BY SubSeqEmpty
  <2> QED BY <1>1, <1>2, <2>1 DEF Parsed, b
<1>4. Steady(o, 0, 0) /\ 0 \in 0..Len(t[f])
  BY TextTyped DEF Steady
<1> QED BY <1>3, <1>4 DEF Coherent, o, b

\* A switch, and an update that ends the loop, leave every include behind.
LEMMA LeaveConsistent ==
  ASSUME NEW origin, NEW t, IsText(t), Current(t), NEW file, NEW pos, NEW below, NEW a, IsSession(a),
         a.status \in {"switch", "shutdown", "failed"}, a.opt = NoOption,
         Reached(origin, t, Outcome(t, a, file, pos, below)),
         NEW z, z = Settle(a), phase = "running", NEW from, NEW stack, Follow(z, from, stack)
  PROVE  Consistent(origin, t, host', sources', z, phase')
<1> DEFINE opens == z.next \in DOMAIN t
<1>1. IsSession(z) /\ Alike(a, z) /\ z.next = a.next /\ z.status = a.status /\ z.opt = a.opt
  BY SettledRecord DEF Alike
<1>2. CASE z.status = "switch" /\ opens
  <2>1. host' = [file |-> z.next, pos |-> 0] /\ sources' = <<>> /\ phase' = "running"
    BY <1>2 DEF Current, Follow, Opened
  <2>2. z.buf = <<>> /\ z.stack = <<>> /\ z.opt = NoOption
    BY <1>1, <1>2, SettledRecord
  <2>3. Reader(a, z.next, 0, <<>>) = Reader(z, z.next, 0, <<>>)
    BY <1>1 DEF Reader, Alike
  <2>4. Outcome(t, a, file, pos, below) = Reader(z, z.next, 0, <<>>)
    BY <1>1, <1>2, <2>3 DEF Outcome
  <2>5. Coherent(origin, t, [file |-> z.next, pos |-> 0], <<>>, z)
    BY <1>1, <1>2, <2>2, <2>4, KeptNone, StartCoherent
  <2> QED BY <1>1, <2>1, <2>5 DEF Consistent
<1>3. ASSUME NEW ph PROVE Ended(a, ph) = Ended(z, ph)
  BY <1>1 DEF Ended, Alike
<1>4. CASE z.status = "shutdown"
  <2>1. phase' = "shutdown"
    BY <1>4 DEF Current, Follow
  <2>2. Outcome(t, a, file, pos, below) = Ended(a, "shutdown")
    BY <1>1, <1>4 DEF Outcome
  <2> QED BY <1>1, <1>3, <2>1, <2>2 DEF Consistent
<1>5. CASE z.status = "failed" \/ (z.status = "switch" /\ ~opens)
  <2>1. phase' = "error"
    BY <1>5 DEF Current, Follow
  <2>2. Outcome(t, a, file, pos, below) = Ended(a, "error")
    BY <1>1, <1>5 DEF Outcome
  <2> QED BY <1>1, <1>3, <2>1, <2>2 DEF Consistent
<1> QED BY <1>1, <1>2, <1>4, <1>5

\* What the loop does with an update leaves it consistent.
LEMMA FollowConsistent ==
  ASSUME NEW origin, NEW t, IsText(t), Current(t), NEW f \in DOMAIN t, NEW n \in Nat, n <= Len(t[f]),
         NEW stack, NEW a, Kept(t, stack, a.stack), stack # <<>> => f # Main,
         NEW e, Parsed(origin, t, f, Below(stack, a.stack), n, a, e), Steady(a, n, e),
         NEW z, z = Settle(a), phase = "running",
         Follow(z, [file |-> f, pos |-> n], stack)
  PROVE  Consistent(origin, t, host', sources', z, phase')
<1> DEFINE below == Below(stack, a.stack)
           from == [file |-> f, pos |-> n]
           opens == z.next \in DOMAIN t
<1>1. /\ IsSession(a) /\ Reached(origin, t, Outcome(t, a, f, e, below))
      /\ e \in 0..n /\ e % 2 = 0 /\ a.buf = SubSeq(t[f], e + 1, n)
      /\ a.opt # NoOption => a.status = "open"
      /\ a.status = "include" => a.next # Main
  BY DEF Parsed
<1>2. IsSession(z) /\ Alike(a, z) /\ z.next = a.next /\ z.status = a.status /\ z.opt = a.opt
  BY <1>1, SettledRecord DEF Alike
<1>3. ASSUME NEW file, NEW pos, NEW b PROVE Reader(a, file, pos, b) = Reader(z, file, pos, b)
  BY <1>2 DEF Reader, Alike
<1>4. ASSUME NEW ph PROVE Ended(a, ph) = Ended(z, ph)
  BY <1>2 DEF Ended, Alike
<1> HIDE DEF below
<1>5. CASE z.status = "include" /\ opens /\ z.next # f
  <2> DEFINE frame == [buf |-> a.buf, args |-> <<>>, opt |-> NoOption]
  <2>1. host' = [file |-> z.next, pos |-> 0] /\ sources' = Append(stack, from)
        /\ phase' = "running"
    BY <1>5 DEF Current, Follow, Opened
  <2>2. z.buf = <<>> /\ z.stack = Append(a.stack, frame) /\ z.opt = NoOption
    BY <1>1, <1>2, <1>5, SettledRecord
  <2>3. frame \in Frames /\ from \in [file : DOMAIN t, pos : Nat] /\ Saved(t, from, frame)
        /\ Unread(from, frame) = Place(f, e)
    <3>1. a.buf \in Seq(Words) /\ Len(a.buf) = n - e
      BY <1>1, TextTyped, SlicesTyped
    <3>2. n - (n - e) = e
      BY <1>1
    <3> HIDE DEF Words
    <3>3. frame \in Frames /\ frame.buf = a.buf
      BY <3>1 DEF Frames
    <3>4. from \in [file : DOMAIN t, pos : Nat] /\ from.pos = n /\ from.file = f
      OBVIOUS
    <3> HIDE DEF frame, from
    <3>5. from.pos - Len(frame.buf) = e
      BY <3>1, <3>2, <3>3, <3>4
    <3>6. Saved(t, from, frame)
      <4>1. /\ e \in Nat /\ e % 2 = 0 /\ from.pos <= Len(t[from.file])
            /\ frame.buf = SubSeq(t[from.file], e + 1, from.pos)
        BY <1>1, <3>3, <3>4
      <4> QED BY ONLY <3>5, <4>1 DEF Saved
    <3> QED BY <3>3, <3>4, <3>5, <3>6 DEF Unread
  <2> HIDE DEF frame, from
  <2>4. /\ Kept(t, Append(stack, from), Append(a.stack, frame))
        /\ Below(Append(stack, from), Append(a.stack, frame)) = Append(below, Place(f, e))
    BY <2>3, KeptAppend DEF below, from
  <2>5. Reached(origin, t, Reader(z, z.next, 0, Append(below, Place(f, e))))
    <3>1. Outcome(t, a, f, e, below) = Reader(a, a.next, 0, Append(below, Place(f, e)))
      BY <1>2, <1>5 DEF Outcome
    <3> QED BY <1>1, <1>2, <1>3, <3>1
  <2>6. Coherent(origin, t, [file |-> z.next, pos |-> 0], Append(stack, from), z)
    BY <1>1, <1>2, <1>5, <2>2, <2>4, <2>5, StartCoherent
  <2> QED BY <1>2, <2>1, <2>6 DEF Consistent
<1>6. CASE z.status \in {"switch", "shutdown", "failed"}
  <2>1. a.opt = NoOption
    BY <1>1, <1>2, <1>6
  <2> HIDE DEF from, opens
  <2> QED BY <1>1, <1>2, <1>6, <2>1, LeaveConsistent DEF from
<1>7. CASE z.status = "open"
  <2>1. host' = from /\ sources' = stack /\ phase' = "running"
    BY <1>7 DEF Current, Follow
  <2>2. z = a
    BY <1>1, <1>2, <1>7, SettledRecord
  <2>3. Reopened(a) = a
    <3>1. a = [buf |-> a.buf, args |-> a.args, opt |-> a.opt, stack |-> a.stack,
               waiting |-> a.waiting, status |-> "open", next |-> a.next, runs |-> a.runs]
      BY <1>1, <1>2, <1>7 DEF IsSession
    <3> QED BY <3>1 DEF Reopened
  <2>4. Coherent(origin, t, from, stack, a)
    BY <1>1, <2>3 DEF Coherent, below
  <2> QED BY <1>2, <2>1, <2>2, <2>4 DEF Consistent
<1>8. CASE z.status = "include" /\ ~(opens /\ z.next # f)
  <2>1. phase' = "error"
    BY <1>8 DEF Current, Follow
  <2>2. Outcome(t, a, f, e, below) = Ended(a, "error")
    BY <1>2, <1>8 DEF Outcome
  <2> QED BY <1>1, <1>2, <1>4, <2>1, <2>2 DEF Consistent
<1> QED BY <1>2, <1>5, <1>6, <1>7, <1>8 DEF IsSession, Statuses

-----------------------------------------------------------------------------
(* The end of an included file. *)

\* The reader that goes on below an include.
Resumed(s, below) ==
  [file |-> Last(below).file, pos |-> Last(below).pos, below |-> Front(below), args |-> s.args,
   opt |-> NoOption, waiting |-> s.waiting, runs |-> s.runs, phase |-> "running"]

\* The reader obeys the end of an include.
LEMMA EndObeyed ==
  ASSUME NEW origin, NEW texts, NEW file, NEW below, below # <<>>, NEW s, s.status = "open",
         Len(texts[file]) \in Nat,
         Reached(origin, texts, Outcome(texts, s, file, Len(texts[file]), below))
  PROVE  Reached(origin, texts, Resumed(s, below))
<1> DEFINE n == Len(texts[file])
           r == Reader(s, file, n, below)
<1>1. Reached(origin, texts, r)
  BY DEF Outcome
<1>2. /\ r.file = file /\ r.pos = n /\ r.below = below /\ r.phase = "running"
      /\ r.args = s.args /\ r.waiting = s.waiting /\ r.runs = s.runs
      /\ r = [file |-> file, pos |-> n, below |-> below, args |-> s.args, opt |-> s.opt,
              waiting |-> s.waiting, runs |-> s.runs, phase |-> "running"]
  BY DEF Reader
<1> HIDE DEF r
<1>3. Obey(texts, r) = Reader([r EXCEPT !.opt = NoOption], Last(below).file, Last(below).pos,
                              Front(below))
  BY <1>2 DEF Obey
<1> DEFINE c == [r EXCEPT !.opt = NoOption]
<1>4. c.args = s.args /\ c.opt = NoOption /\ c.waiting = s.waiting /\ c.runs = s.runs
  BY <1>2
<1> HIDE DEF c
<1>5. Reader(c, Last(below).file, Last(below).pos, Front(below)) = Resumed(s, below)
  BY <1>4 DEF Reader, Resumed
<1>6. Obey(texts, r) = Resumed(s, below)
  BY <1>3, <1>5 DEF c
<1> QED BY <1>1, <1>6, ReachedNext

\* The parent of an include goes on with what it had read.
LEMMA ResumeConsistent ==
  ASSUME NEW origin, NEW t, IsText(t), Current(t), NEW s, IsSession(s), s.status = "open",
         NEW src, Kept(t, src, s.stack), src # <<>>,
         Reached(origin, t, Resumed(s, Below(src, s.stack))),
         NEW z, z = Resume(s), phase = "running", Follow(z, Last(src), Front(src))
  PROVE  Consistent(origin, t, host', sources', z, phase')
<1> DEFINE parent == Last(s.stack)
           place == Last(src)
           stack == Front(s.stack)
           m == [s EXCEPT !.buf = parent.buf, !.args = @ \o parent.args,
                          !.opt = parent.opt, !.stack = Front(@)]
           f == place.file
           q == place.pos
           p == q - Len(parent.buf)
           T == t[f]
           below == Below(Front(src), stack)
<1> HIDE DEF parent, place, stack
<1>1. /\ Kept(t, Front(src), stack) /\ place \in [file : DOMAIN t, pos : Nat]
      /\ parent \in Frames /\ Saved(t, place, parent)
      /\ Front(src) # <<>> => place.file # Main
      /\ Last(Below(src, s.stack)) = Unread(place, parent)
      /\ Front(Below(src, s.stack)) = below
  BY KeptFront DEF parent, place, stack
<1>2. f \in DOMAIN t /\ q \in Nat /\ place = [file |-> f, pos |-> q]
      /\ parent.args = <<>> /\ parent.opt = NoOption /\ parent.buf \in Seq(Words)
  <2> HIDE DEF Words
  <2> QED BY <1>1 DEF Frames
<1>3. /\ p \in Nat /\ p % 2 = 0 /\ q <= Len(T) /\ parent.buf = SubSeq(T, p + 1, q)
  BY <1>1 DEF Saved
<1>4. p <= q
  <2>1. Len(parent.buf) \in Nat
    BY <1>2, LenProperties
  <2> HIDE DEF T
  <2> QED BY <1>2, <1>3, <2>1
<1>5. m = [buf |-> parent.buf, args |-> s.args, opt |-> NoOption, stack |-> stack,
           waiting |-> s.waiting, status |-> "open", next |-> s.next, runs |-> s.runs]
  <2>1. s.args \o <<>> = s.args
    BY ConcatEmptySeq DEF IsSession
  <2>2. m = [s EXCEPT !.buf = parent.buf, !.args = s.args, !.opt = NoOption, !.stack = stack]
    BY <1>2, <2>1 DEF stack, IsSession
  <2> HIDE DEF m
  <2> QED BY <2>2 DEF IsSession
<1>6. z = Feed(m, <<>>)
  BY DEF Resume, parent
<1> HIDE DEF m
<1>7. IsSession(m)
  BY <1>5 DEF IsSession, Statuses
<1> DEFINE o == Reopened(m)
<1>8. /\ IsSession(o) /\ o.buf = parent.buf /\ o.args = s.args /\ o.opt = NoOption
      /\ o.waiting = s.waiting /\ o.status = "open" /\ o.runs = s.runs
  BY <1>5, <1>7, ReopenedRecord
<1> HIDE DEF o
<1>9. Outcome(t, o, f, p, below) = Resumed(s, Below(src, s.stack))
  <2>1. Last(Below(src, s.stack)).file = f /\ Last(Below(src, s.stack)).pos = p
    BY <1>1 DEF Unread, Place
  <2> HIDE DEF f, p, below
  <2> QED BY <1>1, <1>8, <2>1 DEF Outcome, Reader, Resumed
<1> HIDE DEF f, q, p, below
<1>10. Parsed(origin, t, f, below, q, o, p)
  BY <1>2, <1>3, <1>4, <1>8, <1>9 DEF Parsed
<1>11. Len(T) \in Nat
  BY <1>2, TextTyped
<1>12. SubSeq(t[f], q + 1, q) = <<>>
  BY <1>2, SubSeqEmpty
<1>13. PICK a, e : /\ Parsed(origin, t, f, below, q, a, e) /\ Steady(a, q, e)
                   /\ a.stack = m.stack
                   /\ Feed(m, SubSeq(t[f], q + 1, q)) = Settle(a)
  <2>1. q \in Nat /\ q <= q /\ q <= Len(t[f]) /\ f \in DOMAIN t
    BY <1>2, <1>3
  <2>2. Parsed(origin, t, f, below, q, Reopened(m), p)
    BY <1>10 DEF o
  <2>3. z = Feed(m, SubSeq(t[f], q + 1, q))
    BY <1>6, <1>12
  <2> QED BY ONLY IsText(t), <1>7, <2>1, <2>2, <2>3, FeedParsed
<1>14. m.stack = stack
  BY <1>5
<1>15. Follow(z, [file |-> f, pos |-> q], Front(src))
  BY <1>2 DEF place
<1>16. Front(src) # <<>> => f # Main
  BY <1>1 DEF f
<1> HIDE DEF T
<1>17. below = Below(Front(src), a.stack) /\ Kept(t, Front(src), a.stack)
  BY <1>1, <1>13, <1>14 DEF below
<1>18. z = Settle(a)
  BY <1>6, <1>12, <1>13
<1> QED BY <1>2, <1>3, <1>13, <1>15, <1>16, <1>17, <1>18, FollowConsistent DEF T

-----------------------------------------------------------------------------
(* The steps of the loop. *)

\* What a session keeps in its buffer from one update to the next: nothing, or a line
\* whose end has not come.
Pending(line, q, e, buf) ==
  \/ q = e /\ buf = <<>>
  \/ q = e + 1 /\ buf = <<line>> /\ line # NL /\ line \in Words
LEMMA SteadyPending ==
  ASSUME NEW origin, NEW t, IsText(t), NEW f \in DOMAIN t, NEW q \in Nat, q <= Len(t[f]),
         NEW below, NEW o, NEW e, Parsed(origin, t, f, below, q, o, e), Steady(o, q, e),
         o.status = "open"
  PROVE  e \in Nat /\ Pending(t[f][e + 1], q, e, o.buf)
<1> DEFINE T == t[f]
<1> HIDE DEF Words
<1>1. /\ T \in Seq(Words) /\ Len(T) \in Nat
      /\ \A i \in 1..Len(T) : T[i] \in Words /\ (T[i] = NL <=> i % 2 = 0)
  BY TextTyped
<1>2. e \in Nat /\ e <= q /\ e % 2 = 0 /\ o.buf = SubSeq(T, e + 1, q) /\ q <= e + 1
  BY DEF Parsed, Steady
<1>3. CASE q = e
  BY <1>2, <1>3, SubSeqEmpty DEF Pending
<1>4. CASE q = e + 1
  <2>1. e + 1 \in 1..Len(T)
    BY <1>1, <1>2, <1>4
  <2>2. (e + 1) % 2 # 0
    BY ONLY <1>2
  <2>3. T[e + 1] # NL /\ T[e + 1] \in Words
    BY <1>1, <2>1, <2>2
  <2>4. /\ SubSeq(T, e + 1, e) = <<>>
        /\ Append(SubSeq(T, e + 1, e), T[e + 1]) = SubSeq(T, e + 1, e + 1)
    <3> HIDE DEF T
    <3> QED BY <1>1, <1>2, <2>1, SlicesTyped, SubSeqEmpty
  <2>5. Append(<<>>, T[e + 1]) = <<T[e + 1]>>
    OBVIOUS
  <2> QED BY <1>2, <1>4, <2>3, <2>4, <2>5 DEF Pending
<1> QED BY <1>2, <1>3, <1>4

\* A poll at the end of a persistent ARGFILE.
LEMMA PollConsistent ==
  ASSUME NEW origin, NEW t, IsText(t), Current(t), phase = "running",
         Consistent(origin, t, host, sources, session, phase), NEW z, z = Feed(session, <<>>)
  PROVE  Consistent(origin, t, host, sources, z, phase) /\ z.status = "open"
<1> DEFINE o == Reopened(session)
<1>1. IsSession(session) /\ Coherent(origin, t, host, sources, session)
  BY DEF Consistent
<1>2. PICK e : /\ Parsed(origin, t, host.file, Below(sources, session.stack), host.pos, o, e)
               /\ Steady(o, host.pos, e)
  BY <1>1 DEF Coherent
<1>3. /\ IsSession(o) /\ o.buf = session.buf /\ o.args = session.args /\ o.opt = session.opt
      /\ o.stack = session.stack /\ o.waiting = session.waiting /\ o.status = "open"
      /\ o.runs = session.runs /\ o.next = session.next
  BY <1>1, ReopenedRecord
<1>4. PICK line : line # NL /\ o.buf \in {<<>>, <<line>>}
  <2>1. host.file \in DOMAIN t /\ host.pos \in Nat /\ host.pos <= Len(t[host.file])
    <3>1. Len(t[host.file]) \in Nat
      BY <1>1, TextTyped DEF Coherent
    <3> QED BY <1>1, <3>1 DEF Coherent
  <2> HIDE DEF o
  <2>2. Pending(t[host.file][e + 1], host.pos, e, o.buf)
    <3>1. o.status = "open"
      BY <1>3
    <3> QED BY ONLY IsText(t), <1>2, <2>1, <3>1, SteadyPending
  <2>3. \E line : line # NL
    <3> DEFINE line == CHOOSE x : x \notin {NL}
    <3>1. line \notin {NL}
      BY NoSetContainsEverything
    <3> HIDE DEF line
    <3> QED BY <3>1
  <2> QED BY <2>2, <2>3 DEF Pending
<1>5. z = o
  BY <1>1, <1>3, <1>4, FeedNothing
<1>6. Reopened(o) = o
  <2> HIDE DEF o
  <2>1. o = [buf |-> o.buf, args |-> o.args, opt |-> o.opt, stack |-> o.stack,
             waiting |-> o.waiting, status |-> "open", next |-> o.next, runs |-> o.runs]
    BY <1>3 DEF IsSession
  <2> QED BY <2>1 DEF Reopened
<1> HIDE DEF o
<1>7. Coherent(origin, t, host, sources, o)
  BY <1>1, <1>2, <1>3, <1>6 DEF Coherent
<1> QED BY <1>3, <1>5, <1>7 DEF Consistent

\* A chunk of the current source.
LEMMA ReadConsistent ==
  ASSUME NEW origin, NEW t, IsText(t), Current(t),
         Consistent(origin, t, host, sources, session, phase), phase = "running",
         NEW n \in Nat, host.pos <= n, n <= Len(t[host.file]),
         NEW z, z = Feed(session, SubSeq(t[host.file], host.pos + 1, n)),
         Follow(z, [file |-> host.file, pos |-> n], sources)
  PROVE  Consistent(origin, t, host', sources', z, phase')
<1> DEFINE f == host.file
           q == host.pos
           below == Below(sources, session.stack)
<1>1. IsSession(session) /\ Coherent(origin, t, host, sources, session)
  BY DEF Consistent
<1>2. PICK p : /\ Parsed(origin, t, f, below, q, Reopened(session), p)
  BY <1>1 DEF Coherent
<1>3. f \in DOMAIN t /\ q \in Nat
  BY <1>1, TextTyped DEF Coherent
<1>4. PICK a, e : /\ Parsed(origin, t, f, below, n, a, e) /\ Steady(a, n, e)
                  /\ a.stack = session.stack
                  /\ Feed(session, SubSeq(t[f], q + 1, n)) = Settle(a)
  <2> HIDE DEF below
  <2> QED BY <1>1, <1>2, <1>3, FeedParsed
<1>5. sources # <<>> => f # Main
  BY <1>1, <1>4 DEF Coherent
<1>6. z = Settle(a)
  BY <1>4
<1>7. Parsed(origin, t, f, Below(sources, a.stack), n, a, e)
  BY <1>4
<1> HIDE DEF f, q, below
<1>8. n <= Len(t[f]) /\ Follow(z, [file |-> f, pos |-> n], sources)
  BY DEF f
<1>9. Kept(t, sources, a.stack)
  BY <1>1, <1>4 DEF Coherent
<1> QED BY <1>3, <1>4, <1>5, <1>6, <1>7, <1>8, <1>9, FollowConsistent

\* The end of an included file: a last line without its end is obeyed, and the
\* parent goes on.
LEMMA ReturnConsistent ==
  ASSUME NEW origin, NEW t, IsText(t), Current(t),
         Consistent(origin, t, host, sources, session, phase), phase = "running",
         sources # <<>>, AtEof, NEW z, z = FinishArgfile(session),
         Follow(z, Last(sources), Front(sources))
  PROVE  Consistent(origin, t, host', sources', z, phase')
<1> DEFINE f == host.file
           q == host.pos
           T == t[f]
           o == Reopened(session)
           below == Below(sources, session.stack)
<1>1. IsSession(session) /\ Coherent(origin, t, host, sources, session)
  BY DEF Consistent
<1>2. /\ IsSession(o) /\ o.buf = session.buf /\ o.args = session.args /\ o.opt = session.opt
      /\ o.stack = session.stack /\ o.waiting = session.waiting /\ o.status = "open"
      /\ o.runs = session.runs
  BY <1>1, ReopenedRecord
<1>3. f \in DOMAIN t /\ f # Main /\ q \in Nat /\ q = Len(T) /\ Kept(t, sources, o.stack)
  <2>1. f \in DOMAIN t /\ f # Main /\ q \in 0..Len(T)
    BY <1>1 DEF Coherent
  <2>2. Len(T) \in Nat
    BY <2>1, TextTyped
  <2>3. q >= Len(T)
    BY <2>1 DEF AtEof, Current
  <2>4. Kept(t, sources, session.stack)
    BY <1>1 DEF Coherent
  <2> HIDE DEF T, q, f, o
  <2> QED BY <1>2, <2>1, <2>2, <2>3, <2>4
<1>4. PICK e : Parsed(origin, t, f, below, q, o, e) /\ Steady(o, q, e)
  BY <1>1 DEF Coherent
<1>5. /\ e \in Nat /\ e % 2 = 0 /\ Reached(origin, t, Outcome(t, o, f, e, below))
      /\ o.opt # NoOption => e >= 2 /\ T[e - 1] = o.opt
  BY <1>4 DEF Parsed
<1>6. Pending(T[e + 1], q, e, o.buf)
  <2>1. q <= Len(t[f])
    BY <1>3
  <2> HIDE DEF o, below, q, f
  <2>2. f \in DOMAIN t /\ q \in Nat /\ o.status = "open"
    BY <1>2, <1>3
  <2> QED BY ONLY IsText(t), <1>4, <2>1, <2>2, SteadyPending DEF T
<1>7. session.stack # <<>> /\ below # <<>>
  <2>1. Kept(t, sources, session.stack)
    BY <1>1 DEF Coherent
  <2>2. session.stack # <<>>
    BY ONLY <2>1, sources # <<>>, KeptFront
  <2>3. Below(sources, session.stack) # <<>>
    BY <2>1, BelowSome
  <2> QED BY <2>2, <2>3
<1>8. CASE q = e /\ o.buf = <<>>
  <2>1. z = Resume(o)
    BY <1>2, <1>7, <1>8 DEF FinishArgfile, Reopened
  <2>2. Reached(origin, t, Resumed(o, below))
    <3>1. Len(t[f]) \in Nat /\ Reached(origin, t, Outcome(t, o, f, Len(t[f]), below))
      BY <1>3, <1>5, <1>8
    <3> HIDE DEF o, below, f
    <3> QED BY <1>2, <1>7, <3>1, EndObeyed
  <2> HIDE DEF o
  <2>3. Reached(origin, t, Resumed(o, Below(sources, o.stack)))
    BY <1>2, <2>2
  <2> HIDE DEF f, q, T, below
  <2> QED BY <1>2, <1>3, <2>1, <2>3, ResumeConsistent
<1>9. CASE q = e + 1 /\ o.buf = <<T[e + 1]>> /\ T[e + 1] # NL /\ T[e + 1] \in Words
  <2> DEFINE line == T[e + 1]
             b == Emptied(session)
             a == Accept(b, line)
             w == Settle(a)
  <2>1. b = [buf |-> <<>>, args |-> session.args, opt |-> session.opt, stack |-> session.stack,
             waiting |-> session.waiting, status |-> "open", next |-> session.next,
             runs |-> session.runs]
    BY <1>1, EmptiedRecord
  <2>2. Feed(session, <<NL>>) = w
    <3> HIDE DEF T
    <3> QED BY <1>1, <1>2, <1>9, FeedLine
  <2>3. z = Resume(w)
    <3>1. session.stack # <<>> /\ session.buf # <<>>
      BY <1>2, <1>7, <1>9
    <3>2. z = The({Resume(x) : x \in {Feed(session, <<NL>>)}})
      BY <3>1 DEF FinishArgfile
    <3> DEFINE y == Feed(session, <<NL>>)
    <3>3. y = w
      BY <2>2
    <3> HIDE DEF y, w
    <3>4. {Resume(x) : x \in {y}} = {Resume(y)}
      OBVIOUS
    <3> QED BY <3>2, <3>3, <3>4, One DEF y
  <2> HIDE DEF b
  <2>4. IsSession(b) /\ Alike(o, b) /\ b.status = "open" /\ b.stack = o.stack /\ b.opt = o.opt
        /\ b.buf = <<>>
    <3> HIDE DEF o
    <3>1. IsSession(b)
      BY <1>1, <2>1 DEF IsSession, Statuses
    <3> QED BY <1>2, <2>1, <3>1 DEF Alike
  <2>5. Heeds(b, line, a)
    <3> HIDE DEF line
    <3>1. line \in Words
      BY <1>9 DEF line
    <3> QED BY <2>4, <3>1, AcceptTyped
  <2>6. Reached(origin, t, Outcome(t, a, f, q, below))
    <3>1. e + 1 = Len(t[f]) /\ ~(e + 1 < Len(t[f]))
      BY <1>3, <1>5, <1>9
    <3> HIDE DEF o, below, f, q
    <3>2. Reached(origin, t, Outcome(t, Accept(b, t[f][e + 1]), f,
                       IF e + 1 < Len(t[f]) THEN e + 2 ELSE e + 1, below))
      BY <1>2, <1>3, <1>5, <1>7, <2>4, <3>1, LineObeyed
    <3> QED BY <1>9, <3>1, <3>2
  <2>7. a.status # "include"
    <3> SUFFICES ASSUME a.status = "include" PROVE FALSE
      OBVIOUS
    <3> HIDE DEF a
    <3>1. o.opt = "-@"
      BY <2>4, <2>5 DEF Heeds
    <3>2. e >= 2 /\ T[e - 1] = "-@"
      BY <1>5, <3>1, SessionAssumption
    <3>3. f \in DOMAIN t \ {Main} /\ Len(T) = e + 1
      BY <1>3, <1>9
    <3> HIDE DEF T, f
    <3>4. Len(T) > 2 /\ Len(T) % 2 = 1 /\ Len(T) - 2 = e - 1
      BY <1>5, <3>2, <3>3
    <3> QED BY <3>2, <3>3, <3>4 DEF IsText, EndedIncludes, T
  <2>8. /\ IsSession(a) /\ a.stack = o.stack /\ (a.opt # NoOption => a.status = "open")
        /\ a.status \in Statuses
    BY <2>4, <2>5 DEF Heeds, IsSession
  <2> HIDE DEF a
  <2>9. CASE a.status = "open"
    <3>1. w = a
      BY <2>9 DEF Settle
    <3>2. Reached(origin, t, Resumed(a, below))
      <4>1. Len(t[f]) \in Nat /\ Reached(origin, t, Outcome(t, a, f, Len(t[f]), below))
        BY <1>3, <2>6
      <4> HIDE DEF below, f
      <4> QED BY <1>7, <2>9, <4>1, EndObeyed
    <3>3. Reached(origin, t, Resumed(a, Below(sources, a.stack))) /\ Kept(t, sources, a.stack)
      BY <1>2, <1>3, <2>8, <3>2
    <3> HIDE DEF f, q, T, below, o, w
    <3> QED BY <2>3, <2>8, <2>9, <3>1, <3>3, ResumeConsistent
  <2>10. CASE a.status \in {"switch", "shutdown", "failed"}
    <3>1. w.status # "open"
      BY <2>8, <2>10, SettledRecord DEF Alike
    <3>2. z = w
      BY <2>3, <3>1 DEF Resume
    <3>3. a.opt = NoOption
      BY <2>8, <2>10
    <3> HIDE DEF f, q, below
    <3> QED BY <2>6, <2>8, <2>10, <3>2, <3>3, LeaveConsistent
  <2> QED BY <2>7, <2>8, <2>9, <2>10 DEF Statuses
<1> QED BY <1>6, <1>8, <1>9 DEF Pending

-----------------------------------------------------------------------------
\* The client appends to the main ARGFILE and changes nothing else.
Grows(t, u) ==
  /\ IsText(t) /\ IsText(u) /\ DOMAIN t = DOMAIN u /\ \A f \in DOMAIN t \ {Main} : t[f] = u[f]
  /\ Len(t[Main]) <= Len(u[Main]) /\ \A i \in 1..Len(t[Main]) : t[Main][i] = u[Main][i]

LEMMA SameSlices ==
  ASSUME NEW a, NEW b, NEW m \in Nat, NEW n \in Nat, \A i \in (m + 1)..n : a[i] = b[i]
  PROVE  SubSeq(a, m + 1, n) = SubSeq(b, m + 1, n)
<1> DEFINE S == {a[i] : i \in (m + 1)..n}
           c == SubSeq(a, m + 1, n)
           d == SubSeq(b, m + 1, n)
<1>1. (\A i \in (m + 1)..n : a[i] \in S) /\ (\A i \in (m + 1)..n : b[i] \in S)
  OBVIOUS
<1> HIDE DEF S
<1>2. /\ c \in Seq(S) /\ Len(c) = IF m + 1 <= n THEN n - (m + 1) + 1 ELSE 0
      /\ \A i \in 1..(n - (m + 1) + 1) : c[i] = a[(m + 1) + i - 1]
  BY <1>1, SubSeqProperties
<1>3. /\ d \in Seq(S) /\ Len(d) = IF m + 1 <= n THEN n - (m + 1) + 1 ELSE 0
      /\ \A i \in 1..(n - (m + 1) + 1) : d[i] = b[(m + 1) + i - 1]
  BY <1>1, SubSeqProperties
<1> HIDE DEF c, d
<1>4. ASSUME NEW i \in 1..Len(c) PROVE c[i] = d[i]
  <2>1. i \in 1..(n - (m + 1) + 1) /\ (m + 1) + i - 1 \in (m + 1)..n
    BY <1>2
  <2> QED BY <1>2, <1>3, <2>1
<1>5. c = d
  BY <1>2, <1>3, <1>4, SeqEqual
<1> QED BY <1>5 DEF c, d

LEMMA GrownText ==
  ASSUME NEW t, NEW u, Grows(t, u), NEW f \in DOMAIN t
  PROVE  /\ f \in DOMAIN u /\ Len(t[f]) \in Nat /\ Len(u[f]) \in Nat /\ Len(t[f]) <= Len(u[f])
         /\ \A i \in 1..Len(t[f]) : t[f][i] = u[f][i]
         /\ \A m, n \in Nat : m <= n /\ n <= Len(t[f]) => SubSeq(t[f], m + 1, n) = SubSeq(u[f], m + 1, n)
<1>1. IsText(t) /\ IsText(u) /\ f \in DOMAIN u
  BY DEF Grows
<1>2. /\ Len(t[f]) \in Nat /\ Len(u[f]) \in Nat
      /\ \A i \in 1..Len(t[f]) : t[f][i] \in Words
      /\ \A i \in 1..Len(u[f]) : u[f][i] \in Words
  <2> HIDE DEF Words
  <2> QED BY <1>1, TextTyped
<1>3. Len(t[f]) <= Len(u[f]) /\ \A i \in 1..Len(t[f]) : t[f][i] = u[f][i]
  <2>1. CASE f = Main
    BY <2>1 DEF Grows
  <2>2. CASE f # Main
    BY <1>2, <2>2 DEF Grows
  <2> QED BY <2>1, <2>2
<1>4. ASSUME NEW m \in Nat, NEW n \in Nat, m <= n, n <= Len(t[f])
      PROVE  SubSeq(t[f], m + 1, n) = SubSeq(u[f], m + 1, n)
  <2>1. \A i \in (m + 1)..n : i \in 1..Len(t[f])
    BY <1>2, <1>4
  <2> QED BY <1>3, <2>1, SameSlices
<1> QED BY <1>1, <1>2, <1>3, <1>4

LEMMA KeptGrows ==
  ASSUME NEW t, NEW u, Grows(t, u), NEW src, NEW stack, Kept(t, src, stack)
  PROVE  Kept(u, src, stack)
<1>1. DOMAIN t = DOMAIN u
  BY DEF Grows
<1>2. ASSUME NEW source \in [file : DOMAIN t, pos : Nat], NEW frame \in Frames,
             Saved(t, source, frame)
      PROVE  Saved(u, source, frame)
  <2> DEFINE f == source.file
             p == source.pos - Len(frame.buf)
  <2>1. /\ f \in DOMAIN t /\ p \in Nat /\ p % 2 = 0 /\ source.pos \in Nat
        /\ source.pos <= Len(t[f]) /\ frame.buf = SubSeq(t[f], p + 1, source.pos)
    BY <1>2 DEF Saved
  <2>2. p <= source.pos
    <3>1. Len(frame.buf) \in Nat
      BY LenProperties DEF Frames
    <3> QED BY <2>1, <3>1
  <2>3. /\ source.pos <= Len(u[f])
        /\ SubSeq(t[f], p + 1, source.pos) = SubSeq(u[f], p + 1, source.pos)
    <3> DEFINE q == source.pos
    <3>1. f \in DOMAIN t /\ p \in Nat /\ q \in Nat /\ p <= q /\ q <= Len(t[f])
      BY <2>1, <2>2
    <3> HIDE DEF f, p, q
    <3>2. Len(t[f]) \in Nat /\ Len(u[f]) \in Nat /\ Len(t[f]) <= Len(u[f])
          /\ SubSeq(t[f], p + 1, q) = SubSeq(u[f], p + 1, q)
      BY <3>1, GrownText
    <3>3. q <= Len(u[f])
      BY <3>1, <3>2
    <3> QED BY <3>2, <3>3 DEF q
  <2> QED BY <2>1, <2>3 DEF Saved
<1> DEFINE P == [file : DOMAIN t, pos : Nat]
           F == Frames
<1> HIDE DEF P, F
<1>3. /\ src \in Seq(P) /\ stack \in Seq(F) /\ Len(stack) = Len(src)
      /\ \A i \in 1..Len(src) : Saved(t, src[i], stack[i]) /\ (i > 1 => src[i].file # Main)
  BY DEF Kept, P, F
<1>4. ASSUME NEW i \in 1..Len(src) PROVE Saved(u, src[i], stack[i])
  <2>1. src[i] \in P /\ stack[i] \in F
    BY <1>3, ElementOfSeq
  <2> QED BY <1>2, <1>3, <2>1 DEF P, F
<1> QED BY <1>1, <1>3, <1>4 DEF Kept, P, F

\* The reader that a consistent loop amounts to is one that the loop has reached, and
\* from there it is consistent again, with all that the client may have written since.
AbstractOf(source, src, s, ph) ==
  IF ph # "running" THEN Ended(s, ph)
  ELSE Reader(s, Unread(source, s).file, Unread(source, s).pos, Below(src, s.stack))

LEMMA AbstractReached ==
  ASSUME NEW origin, NEW t, NEW u, Grows(t, u), NEW source, NEW src, NEW s, NEW ph,
         Consistent(origin, t, source, src, s, ph),
         NEW r, r = AbstractOf(source, src, s, ph)
  PROVE  Reached(origin, t, r) /\ Consistent(r, u, source, src, s, ph)
<1> HIDE DEF Words
<1>1. Reached(r, u, r) /\ IsText(t) /\ DOMAIN t = DOMAIN u
  <2>1. r = Onward(u, r, 0) /\ 0 \in Nat
    BY OnwardSteps
  <2> QED BY <2>1 DEF Reached, Grows
<1>2. CASE ph # "running"
  <2>1. r = Ended(s, ph)
    BY <1>2 DEF AbstractOf
  <2> QED BY <1>1, <1>2, <2>1 DEF Consistent
<1>3. CASE ph = "running"
  <2> DEFINE o == Reopened(s)
             f == source.file
             below == Below(src, s.stack)
  <2>1. IsSession(s) /\ Coherent(origin, t, source, src, s)
    BY <1>3 DEF Consistent
  <2>2. PICK e : Parsed(origin, t, f, below, source.pos, o, e) /\ Steady(o, source.pos, e)
    BY <2>1 DEF Coherent
  <2>3. /\ IsSession(o) /\ o.buf = s.buf /\ o.args = s.args /\ o.opt = s.opt
        /\ o.waiting = s.waiting /\ o.runs = s.runs /\ o.status = "open"
    BY <2>1, ReopenedRecord
  <2>4. f \in DOMAIN t /\ source.pos \in Nat /\ source.pos <= Len(t[f]) /\ t[f] \in Seq(Words)
    BY <1>1, <2>1, TextTyped DEF Coherent
  <2>5. /\ e \in Nat /\ e <= source.pos /\ e % 2 = 0 /\ s.buf = SubSeq(t[f], e + 1, source.pos)
        /\ o.opt # NoOption => e >= 2 /\ t[f][e - 1] = o.opt
    BY <2>2, <2>3, <2>4 DEF Parsed
  <2>6. Unread(source, s) = Place(f, e)
    <3>1. Len(s.buf) = source.pos - e
      BY <2>4, <2>5, SlicesTyped
    <3>2. source.pos - Len(s.buf) = e
      BY <2>4, <2>5, <3>1
    <3> QED BY <3>2 DEF Unread
  <2>7. r = Reader(s, f, e, below)
    <3>1. r = Reader(s, Place(f, e).file, Place(f, e).pos, below)
      BY <1>3, <2>6 DEF AbstractOf
    <3> HIDE DEF below
    <3> QED BY <3>1 DEF Place
  <2>8. \A texts : Outcome(texts, o, f, e, below) = Reader(s, f, e, below)
    <3> HIDE DEF below, o
    <3> QED BY <2>3 DEF Outcome, Reader
  <2>9. source.pos <= Len(u[f]) /\ s.buf = SubSeq(u[f], e + 1, source.pos)
        /\ (e >= 2 => t[f][e - 1] = u[f][e - 1])
    <3>1. e >= 2 => e - 1 \in 1..Len(t[f])
      BY <2>4, <2>5, GrownText
    <3> HIDE DEF f
    <3> QED BY <2>4, <2>5, <3>1, GrownText
  <2> HIDE DEF o, below, f
  <2>10. Reached(origin, t, r)
    BY <2>2, <2>7, <2>8 DEF Parsed
  <2>11. Parsed(r, u, f, below, source.pos, o, e)
    <3>1. Reached(r, u, Outcome(u, o, f, e, below))
      BY <1>1, <2>7, <2>8
    <3>2. e \in 0..source.pos
      BY <2>4, <2>5
    <3> QED BY <2>3, <2>5, <2>9, <3>1, <3>2 DEF Parsed
  <2>12. Coherent(r, u, source, src, s)
    <3>1. f \in DOMAIN u /\ source.pos \in 0..Len(u[f]) /\ (src # <<>> => f # Main)
      <4>1. Len(u[f]) \in Nat
        BY <2>4, GrownText
      <4> QED BY <1>1, <2>1, <2>4, <2>9, <4>1 DEF Coherent, f
    <3>2. Kept(u, src, s.stack)
      BY <2>1, KeptGrows DEF Coherent
    <3> QED BY <2>2, <2>11, <3>1, <3>2 DEF Coherent, o, below, f
  <2> QED BY <1>3, <2>1, <2>10, <2>12 DEF Consistent
<1> QED BY <1>2, <1>3

-----------------------------------------------------------------------------
(* The readers of a text: what obeying it does to them. *)

\* The commands of a session form a sequence, of whatever commands.
Listed(runs) == \E S : runs \in Seq(S)
\* `runs` begins with `first`.
Begins(first, runs) ==
  /\ Len(first) \in Nat /\ Len(runs) \in Nat /\ Len(first) <= Len(runs)
  /\ \A i \in 1..Len(first) : first[i] = runs[i]

LEMMA ListedBegins ==
  ASSUME NEW runs, Listed(runs)
  PROVE  /\ Begins(runs, runs)
         /\ \A c : Listed(Append(runs, c)) /\ Begins(runs, Append(runs, c))
<1>1. PICK S : runs \in Seq(S)
  BY DEF Listed
<1>2. Begins(runs, runs)
  BY <1>1, LenProperties DEF Begins
<1>3. ASSUME NEW c PROVE Listed(Append(runs, c)) /\ Begins(runs, Append(runs, c))
  <2> DEFINE U == S \cup {c}
             a == Append(runs, c)
  <2>1. runs \in Seq(U) /\ c \in U
    BY <1>1
  <2> HIDE DEF U
  <2>2. a \in Seq(U) /\ Len(a) = Len(runs) + 1 /\ \A i \in 1..Len(runs) : a[i] = runs[i]
    BY <2>1, AppendProperties
  <2>3. Len(runs) \in Nat
    BY <1>1, LenProperties
  <2> HIDE DEF a
  <2> QED BY <2>2, <2>3 DEF Listed, Begins, a
<1> QED BY <1>2, <1>3

LEMMA BeginsTransitive ==
  ASSUME NEW x, NEW y, NEW z, Begins(x, y), Begins(y, z) PROVE Begins(x, z)
BY DEF Begins

LEMMA BeginsIsPrefix ==
  ASSUME NEW x, NEW y, Begins(x, y) PROVE IsPrefix(x, y)
<1>1. \A i \in (0 + 1)..Len(x) : x[i] = y[i]
  BY DEF Begins
<1>2. SubSeq(x, 0 + 1, Len(x)) = SubSeq(y, 0 + 1, Len(x))
  BY <1>1, SameSlices DEF Begins
<1> QED BY <1>2 DEF IsPrefix, Begins

\* A line adds at most one command.
LEMMA LineRuns ==
  ASSUME NEW s, IsSession(s), s.status = "open", Listed(s.runs), NEW line,
         NEW a, a = Accept(s, line)
  PROVE  Listed(a.runs) /\ Begins(s.runs, a.runs)
<1> SUFFICES a.runs = s.runs \/ \E c : a.runs = Append(s.runs, c)
  BY ListedBegins
<1> DEFINE t == [s EXCEPT !.opt = NoOption]
<1>1. IsSession(t) /\ t.runs = s.runs /\ t.waiting = s.waiting
  <2>1. t = [buf |-> s.buf, args |-> s.args, opt |-> NoOption, stack |-> s.stack,
             waiting |-> s.waiting, status |-> s.status, next |-> s.next, runs |-> s.runs]
    BY ONLY OptionMet, IsSession(s)
  <2> HIDE DEF t
  <2> QED BY <2>1 DEF IsSession
<1> HIDE DEF t
<1>2. CASE s.opt # NoOption /\ s.opt = "-@"
  <2>1. a = ArgfileFrame(t, Front(s.args), line)
    BY <1>2 DEF Accept, t
  <2>2. a.runs = t.runs
    BY <1>1, <2>1 DEF ArgfileFrame, Fail, IsSession
  <2> QED BY <1>1, <2>2
<1>3. CASE s.opt # NoOption /\ s.opt = "-stay_open"
  <2> DEFINE before == Front(s.args)
  <2>1. a = StayOpenFrame(t, before, line)
    BY <1>3 DEF Accept, t
  <2> HIDE DEF before
  <2>2. CASE line \in {"False", "0"} /\ ~t.waiting /\ before # <<>>
    <3> DEFINE r == Run(t, before, NoOption)
    <3>1. a = IF r.status = "failed" THEN r ELSE [r EXCEPT !.status = "shutdown"]
      BY <2>1, <2>2 DEF StayOpenFrame
    <3>2. /\ IsSession(r)
          /\ r.runs = IF Raises(before) THEN t.runs ELSE Append(t.runs, Command(before, NoOption))
      BY ONLY <1>1, RunTyped
    <3> HIDE DEF r
    <3>3. a.runs = r.runs
      BY <3>1, <3>2 DEF IsSession
    <3>4. a.runs = s.runs \/ a.runs = Append(s.runs, Command(before, NoOption))
      BY ONLY <1>1, <3>2, <3>3
    <3> QED BY <3>4
  <2>3. CASE ~(line \in {"False", "0"} /\ ~t.waiting /\ before # <<>>)
    <3>1. a.runs = t.runs
      BY <1>1, <2>1, <2>3 DEF StayOpenFrame, Fail, IsSession
    <3> QED BY <1>1, <3>1
  <2> QED BY <2>2, <2>3
<1>4. CASE s.opt # NoOption /\ s.opt \notin {"-@", "-stay_open"}
  <2>1. a = [t EXCEPT !.args = Append(@, line)]
    BY <1>4 DEF Accept, t
  <2>2. a.runs = t.runs
    BY <1>1, <2>1 DEF IsSession
  <2> QED BY <1>1, <2>2
<1>5. CASE s.opt = NoOption /\ line \in Executes
  <2>1. CASE s.waiting
    <3>1. a = [s EXCEPT !.status = "failed"]
      BY <1>5, <2>1 DEF Accept, Fail
    <3> QED BY <3>1 DEF IsSession
  <2>2. CASE ~s.waiting
    <3>1. a = Run(s, s.args, line)
      BY <1>5, <2>2 DEF Accept
    <3>2. a.runs = IF Raises(s.args) THEN s.runs ELSE Append(s.runs, Command(s.args, line))
      BY ONLY <3>1, IsSession(s), RunTyped
    <3>3. a.runs = s.runs \/ a.runs = Append(s.runs, Command(s.args, line))
      BY ONLY <3>2
    <3> QED BY <3>3
  <2> QED BY <2>1, <2>2
<1>6. CASE s.opt = NoOption /\ line \notin Executes
  <2>1. a = [s EXCEPT !.args = Append(@, line),
                      !.opt = IF line \in ValueOptions THEN line ELSE NoOption]
    BY <1>6 DEF Accept
  <2> QED BY <2>1 DEF IsSession
<1> QED BY <1>2, <1>3, <1>4, <1>5, <1>6

\* The includes below a reader, of which the first alone may be the main ARGFILE.
IsBelow(t, below) ==
  /\ below \in Seq([file : DOMAIN t, pos : Nat])
  /\ \A i \in 1..Len(below) : /\ below[i].pos <= Len(t[below[i].file])
                              /\ i > 1 => below[i].file # Main
IsReader(t, r) ==
  /\ r = [file |-> r.file, pos |-> r.pos, below |-> r.below, args |-> r.args, opt |-> r.opt,
          waiting |-> r.waiting, runs |-> r.runs, phase |-> r.phase]
  /\ r.args \in Seq(Words) /\ r.opt \in ValueOptions \cup {NoOption} /\ Listed(r.runs)
  /\ r.phase = "running" => /\ r.file \in DOMAIN t /\ r.pos \in 0..Len(t[r.file])
                            /\ IsBelow(t, r.below) /\ (r.below # <<>> => r.file # Main)

\* The session between two lines.
LEMMA BetweenSession ==
  ASSUME NEW t, NEW r, IsReader(t, r), NEW b, b = Between(r)
  PROVE  /\ IsSession(b) /\ b.status = "open" /\ b.runs = r.runs /\ b.opt = r.opt
         /\ b.args = r.args /\ b.waiting = r.waiting
<1>1. b = [buf |-> <<>>, args |-> r.args, opt |-> r.opt, stack |-> <<>>, waiting |-> r.waiting,
           status |-> "open", next |-> NoOption, runs |-> r.runs]
  BY DEF Between, NewSession
<1> QED BY <1>1 DEF IsReader, IsSession, Statuses

LEMMA ReaderTyped ==
  ASSUME NEW t, NEW s, s.args \in Seq(Words), s.opt \in ValueOptions \cup {NoOption}, Listed(s.runs),
         NEW f \in DOMAIN t, NEW pos \in 0..Len(t[f]), NEW below, IsBelow(t, below),
         below # <<>> => f # Main
  PROVE  IsReader(t, Reader(s, f, pos, below))
BY DEF Reader, IsReader

LEMMA EndedTyped ==
  ASSUME NEW t, NEW s, Listed(s.runs), NEW ph, ph # "running"
  PROVE  IsReader(t, Ended(s, ph))
<1>1. <<>> \in Seq(Words)
  BY EmptySeq
<1> HIDE DEF Words
<1> QED BY <1>1 DEF Ended, IsReader

\* Obeying a line leaves a reader of the same text.
LEMMA OutcomeTyped ==
  ASSUME NEW t, IsText(t), NEW s, IsSession(s), Listed(s.runs),
         s.status \in {"include", "switch"} => s.next # Main,
         NEW f \in DOMAIN t, NEW pos \in 0..Len(t[f]), NEW below, IsBelow(t, below),
         below # <<>> => f # Main,
         NEW r, r = Outcome(t, s, f, pos, below)
  PROVE  IsReader(t, r) /\ r.runs = s.runs
<1>1. s.args \in Seq(Words) /\ s.opt \in ValueOptions \cup {NoOption}
  BY DEF IsSession
<1>2. \A file, p, b : Reader(s, file, p, b).runs = s.runs
  BY DEF Reader
<1>3. \A ph : Ended(s, ph).runs = s.runs
  BY DEF Ended
<1>4. \A file \in DOMAIN t : Len(t[file]) \in Nat /\ 0 \in 0..Len(t[file])
  BY TextTyped
<1>5. CASE s.status = "open"
  <2>1. r = Reader(s, f, pos, below)
    BY <1>5 DEF Outcome
  <2> QED BY <1>1, <1>2, <2>1, ReaderTyped
<1>6. CASE s.status = "include" /\ s.next \in DOMAIN t /\ s.next # f
  <2> DEFINE place == Place(f, pos)
             b == Append(below, place)
  <2>1. r = Reader(s, s.next, 0, b)
    BY <1>6 DEF Outcome
  <2>2. IsBelow(t, b)
    <3> DEFINE P == [file : DOMAIN t, pos : Nat]
    <3>1. place \in P /\ place.pos <= Len(t[place.file]) /\ place.file = f
      BY <1>4 DEF Place
    <3>2. Len(below) > 0 => below # <<>>
      OBVIOUS
    <3> HIDE DEF P, place
    <3>3. below \in Seq(P) /\ Len(below) \in Nat
      BY LenProperties DEF IsBelow, P
    <3>4. /\ b \in Seq(P) /\ Len(b) = Len(below) + 1 /\ b[Len(below) + 1] = place
          /\ \A i \in 1..Len(below) : b[i] = below[i]
      BY <3>1, <3>3, AppendProperties
    <3> HIDE DEF b
    <3>5. ASSUME NEW i \in 1..Len(b)
          PROVE  b[i].pos <= Len(t[b[i].file]) /\ (i > 1 => b[i].file # Main)
      <4>1. CASE i = Len(below) + 1
        <5>1. i > 1 => Len(below) > 0
          BY <3>3, <4>1
        <5> QED BY <3>1, <3>2, <3>4, <4>1, <5>1
      <4>2. CASE i # Len(below) + 1
        <5>1. i \in 1..Len(below)
          BY <3>3, <3>4, <4>2
        <5> QED BY <3>4, <5>1 DEF IsBelow
      <4> QED BY <4>1, <4>2
    <3> QED BY <3>4, <3>5 DEF IsBelow, P
  <2> HIDE DEF b
  <2> QED BY <1>1, <1>2, <1>4, <1>6, <2>1, <2>2, ReaderTyped
<1>7. CASE s.status = "switch" /\ s.next \in DOMAIN t
  <2>1. r = Reader(s, s.next, 0, <<>>)
    BY <1>7 DEF Outcome
  <2>2. IsBelow(t, <<>>)
    <3> DEFINE P == [file : DOMAIN t, pos : Nat]
    <3> HIDE DEF P
    <3>1. <<>> \in Seq(P) /\ Len(<<>>) = 0
      BY EmptySeq
    <3> QED BY <3>1 DEF IsBelow, P
  <2> QED BY <1>1, <1>2, <1>4, <1>7, <2>1, <2>2, ReaderTyped
<1>8. CASE \/ s.status \in {"shutdown", "failed"}
           \/ s.status = "include" /\ ~(s.next \in DOMAIN t /\ s.next # f)
           \/ s.status = "switch" /\ s.next \notin DOMAIN t
  <2>1. r = Ended(s, "shutdown") \/ r = Ended(s, "error")
    BY <1>8 DEF Outcome
  <2> QED BY <1>3, <2>1, EndedTyped
<1> QED BY <1>5, <1>6, <1>7, <1>8 DEF IsSession, Statuses

\* The place a reader is at after the line at `pos`.
LineEnd(T, pos) == IF pos + 1 < Len(T) THEN pos + 2 ELSE pos + 1
\* A reader that has a line to obey.
HasLine(t, r) ==
  /\ r.phase = "running"
  /\ r.pos + 1 < Len(t[r.file]) \/ (r.below # <<>> /\ r.pos + 1 = Len(t[r.file]))
\* ... and one that is at the end of an include.
AtEnd(t, r) ==
  r.phase = "running" /\ r.below # <<>> /\ r.pos = Len(t[r.file])

LEMMA ObeyCases ==
  ASSUME NEW t, NEW r, r.phase = "running" => Len(t[r.file]) \in Nat /\ r.pos \in Nat
  PROVE  /\ HasLine(t, r) =>
              Obey(t, r) = Outcome(t, Accept(Between(r), t[r.file][r.pos + 1]), r.file,
                                   LineEnd(t[r.file], r.pos), r.below)
         /\ AtEnd(t, r) =>
              Obey(t, r) = Reader([r EXCEPT !.opt = NoOption], Last(r.below).file,
                                  Last(r.below).pos, Front(r.below))
         /\ ~HasLine(t, r) /\ ~AtEnd(t, r) => Obey(t, r) = r
<1>1. CASE r.phase = "running" /\ r.pos + 1 < Len(t[r.file])
  <2>1. HasLine(t, r) /\ ~AtEnd(t, r)
    BY <1>1 DEF HasLine, AtEnd
  <2> QED BY <1>1, <2>1 DEF Obey, LineEnd
<1>2. CASE r.phase = "running" /\ r.below # <<>> /\ r.pos + 1 = Len(t[r.file])
  <2>1. HasLine(t, r) /\ ~AtEnd(t, r) /\ ~(r.pos + 1 < Len(t[r.file]))
    BY <1>2 DEF HasLine, AtEnd
  <2> QED BY <1>2, <2>1 DEF Obey, LineEnd
<1>3. CASE r.phase = "running" /\ r.below # <<>> /\ r.pos = Len(t[r.file])
  <2>1. AtEnd(t, r) /\ ~HasLine(t, r) /\ ~(r.pos + 1 < Len(t[r.file]))
        /\ ~(r.pos + 1 = Len(t[r.file]))
    BY <1>3 DEF HasLine, AtEnd
  <2> QED BY <1>3, <2>1 DEF Obey
<1>4. CASE ~HasLine(t, r) /\ ~AtEnd(t, r)
  BY <1>4 DEF Obey, HasLine, AtEnd
<1> QED BY <1>1, <1>2, <1>3, <1>4 DEF HasLine, AtEnd

\* The line that a reader obeys, and what it does to the session.
LEMMA LineTyped ==
  ASSUME NEW t, IsText(t), NEW r, IsReader(t, r), HasLine(t, r)
  PROVE  /\ r.pos + 1 \in 1..Len(t[r.file]) /\ t[r.file][r.pos + 1] \in Words
         /\ t[r.file][r.pos + 1] # Main
         /\ r.pos \in Nat /\ LineEnd(t[r.file], r.pos) \in (r.pos + 1)..Len(t[r.file])
<1> DEFINE T == t[r.file]
<1> HIDE DEF Words
<1>1. r.file \in DOMAIN t /\ r.pos \in 0..Len(T)
  BY DEF IsReader, HasLine
<1>2. /\ Len(T) \in Nat /\ DOMAIN T = 1..Len(T) /\ \A i \in 1..Len(T) : T[i] \in Words
  BY <1>1, TextTyped
<1>3. \A i \in 1..Len(T) : T[i] # Main
  BY <1>1, <1>2 DEF IsText, MainUnnamed
<1>4. r.pos + 1 <= Len(T)
  BY <1>1, <1>2 DEF HasLine
<1> HIDE DEF T
<1>5. r.pos + 1 \in 1..Len(T) /\ r.pos \in Nat
  BY <1>1, <1>2, <1>4
<1>6. LineEnd(T, r.pos) \in (r.pos + 1)..Len(T)
  BY <1>2, <1>5 DEF LineEnd
<1> QED BY <1>2, <1>3, <1>5, <1>6 DEF T

\* Readers stay readers, and take no command back.
LEMMA ObeyTyped ==
  ASSUME NEW t, IsText(t), NEW r, IsReader(t, r)
  PROVE  IsReader(t, Obey(t, r)) /\ Begins(r.runs, Obey(t, r).runs)
<1> DEFINE o == Obey(t, r)
           T == t[r.file]
<1>1. r.phase = "running" => Len(T) \in Nat /\ r.pos \in Nat /\ r.file \in DOMAIN t
  BY TextTyped DEF IsReader
<1>2. Listed(r.runs) /\ Begins(r.runs, r.runs)
  BY ListedBegins DEF IsReader
<1>3. CASE HasLine(t, r)
  <2> DEFINE b == Between(r)
             line == T[r.pos + 1]
             a == Accept(b, line)
             end == LineEnd(T, r.pos)
  <2>1. o = Outcome(t, a, r.file, end, r.below)
    BY <1>1, <1>3, ObeyCases DEF HasLine
  <2>2. line \in Words /\ line # Main /\ end \in 0..Len(T)
    BY <1>3, LineTyped
  <2>3. IsSession(b) /\ b.status = "open" /\ b.runs = r.runs
    BY BetweenSession
  <2> HIDE DEF b, line, o, end
  <2>4. Heeds(b, line, a)
    BY <2>2, <2>3, AcceptTyped
  <2>5. Listed(a.runs) /\ Begins(r.runs, a.runs)
    BY <1>2, <2>3, LineRuns
  <2> HIDE DEF a
  <2>6. IsReader(t, o) /\ o.runs = a.runs
    <3>1. a.status \in {"include", "switch"} => a.next # Main
      BY <2>2, <2>4 DEF Heeds
    <3>2. r.file \in DOMAIN t /\ IsBelow(t, r.below) /\ (r.below # <<>> => r.file # Main)
      BY <1>3 DEF IsReader, HasLine
    <3>3. IsSession(a)
      BY <2>4 DEF Heeds
    <3> QED BY <2>1, <2>2, <2>5, <3>1, <3>2, <3>3, OutcomeTyped
  <2> QED BY <2>5, <2>6 DEF o
<1>4. CASE AtEnd(t, r)
  <2> DEFINE c == [r EXCEPT !.opt = NoOption]
             below == r.below
             l == Last(below)
             P == [file : DOMAIN t, pos : Nat]
             n == Len(below)
  <2>1. o = Reader(c, l.file, l.pos, Front(below))
    BY <1>1, <1>4, ObeyCases DEF AtEnd
  <2>2. c.args \in Seq(Words) /\ c.opt = NoOption /\ Listed(c.runs) /\ c.runs = r.runs
    <3>1. c = [file |-> r.file, pos |-> r.pos, below |-> r.below, args |-> r.args,
               opt |-> NoOption, waiting |-> r.waiting, runs |-> r.runs, phase |-> r.phase]
      BY DEF IsReader
    <3> HIDE DEF c
    <3> QED BY <3>1 DEF IsReader
  <2> HIDE DEF P, c
  <2>3. /\ below \in Seq(P) /\ below # <<>>
        /\ \A i \in 1..n : /\ below[i].pos <= Len(t[below[i].file])
                           /\ i > 1 => below[i].file # Main
    BY <1>4 DEF IsReader, AtEnd, IsBelow, P
  <2>4. /\ n \in Nat \ {0} /\ l = below[n] /\ l \in P /\ Front(below) \in Seq(P)
        /\ Len(Front(below)) = n - 1 /\ \A i \in 1..(n - 1) : Front(below)[i] = below[i]
    BY <2>3, FrontTyped, FrontElements DEF Last
  <2> DEFINE front == Front(below)
  <2> HIDE DEF below, l, front, n
  <2>5. IsBelow(t, front)
    <3>1. \A i \in 1..(n - 1) : i \in 1..n
      BY <2>4
    <3> QED BY <2>3, <2>4, <3>1 DEF IsBelow, P, front
  <2>6. front # <<>> => l.file # Main
    <3>1. front # <<>> => n > 1
      BY <2>4 DEF front
    <3>2. n \in 1..n
      BY <2>4
    <3> QED BY <2>3, <2>4, <3>1, <3>2
  <2>7. l.file \in DOMAIN t /\ l.pos \in 0..Len(t[l.file])
    <3>1. l.file \in DOMAIN t /\ l.pos \in Nat /\ n \in 1..n
      BY <2>4 DEF P
    <3>2. Len(t[l.file]) \in Nat /\ l.pos <= Len(t[l.file])
      BY <2>3, <2>4, <3>1, TextTyped
    <3> QED BY <3>1, <3>2
  <2>8. IsReader(t, Reader(c, l.file, l.pos, front))
    BY <2>2, <2>5, <2>6, <2>7, ReaderTyped
  <2>9. Reader(c, l.file, l.pos, front).runs = r.runs
    BY <2>2 DEF Reader
  <2> QED BY <1>2, <2>1, <2>8, <2>9 DEF front
<1>5. CASE ~HasLine(t, r) /\ ~AtEnd(t, r)
  <2>1. o = r
    BY <1>1, <1>5, ObeyCases
  <2> QED BY <1>2, <2>1
<1> QED BY <1>3, <1>4, <1>5

LEMMA OnwardTyped ==
  ASSUME NEW t, IsText(t), NEW r, IsReader(t, r), NEW k \in Nat
  PROVE  IsReader(t, Onward(t, r, k))
<1> DEFINE S == {i \in Nat : IsReader(t, Onward(t, r, i))}
<1>1. 0 \in S
  BY OnwardSteps
<1>2. ASSUME NEW i \in Nat, i \in S PROVE i + 1 \in S
  <2>1. Onward(t, r, i + 1) = Obey(t, Onward(t, r, i)) /\ IsReader(t, Onward(t, r, i))
    BY <1>2, OnwardSteps
  <2>2. IsReader(t, Onward(t, r, i + 1))
    BY <2>1, ObeyTyped
  <2> QED BY <2>2
<1>3. Nat \subseteq S
  <2> HIDE DEF S
  <2> QED BY <1>1, <1>2, Induction
<1> QED BY <1>3

\* A reader that has gone on has run more, and one that is at its end stays there.
LEMMA OnwardBegins ==
  ASSUME NEW t, IsText(t), NEW r, IsReader(t, r), NEW j \in Nat, NEW k \in Nat, j <= k,
         NEW x, x = Onward(t, r, j), NEW y, y = Onward(t, r, k)
  PROVE  Begins(x.runs, y.runs) /\ (Obey(t, x) = x => y = x)
<1> DEFINE z(d) == Onward(t, r, j + d)
           S == {d \in Nat : Begins(x.runs, z(d).runs) /\ (Obey(t, x) = x => z(d) = x)}
<1>1. 0 \in S
  <2>1. z(0) = x
    OBVIOUS
  <2>2. IsReader(t, x)
    BY OnwardTyped
  <2>3. Begins(x.runs, x.runs)
    BY <2>2, ListedBegins DEF IsReader
  <2> HIDE DEF z
  <2> QED BY <2>1, <2>3
<1>2. ASSUME NEW d \in Nat, d \in S PROVE d + 1 \in S
  <2> DEFINE m == j + d
  <2>1. m \in Nat /\ z(d) = Onward(t, r, m) /\ z(d + 1) = Onward(t, r, m + 1)
    <3>1. j + (d + 1) = m + 1
      OBVIOUS
    <3> QED BY <3>1
  <2> HIDE DEF z, m, S
  <2>2. z(d + 1) = Obey(t, z(d)) /\ IsReader(t, z(d))
    <3>1. Onward(t, r, m + 1) = Obey(t, Onward(t, r, m))
      BY <2>1, OnwardSteps
    <3> QED BY <2>1, <3>1, OnwardTyped
  <2> USE DEF S
  <2>3. Begins(z(d).runs, z(d + 1).runs)
    BY <2>2, ObeyTyped
  <2>4. Begins(x.runs, z(d + 1).runs)
    BY <1>2, <2>3, BeginsTransitive
  <2> QED BY <1>2, <2>2, <2>4
<1>3. Nat \subseteq S
  <2> HIDE DEF S
  <2> QED BY <1>1, <1>2, Induction
<1>4. k - j \in Nat /\ j + (k - j) = k
  OBVIOUS
<1>5. k - j \in S
  <2> HIDE DEF S
  <2> QED BY <1>3, <1>4
<1>6. z(k - j) = y
  BY <1>4
<1> QED BY <1>5, <1>6

\* What the client appends changes no line that a reader has obeyed.
LEMMA ObeyGrows ==
  ASSUME NEW t, NEW u, Grows(t, u), NEW r, IsReader(t, r)
  PROVE  Obey(t, r) \in {r, Obey(u, r)}
<1> DEFINE T == t[r.file]
           U == u[r.file]
<1>1. IsText(t) /\ IsText(u) /\ DOMAIN t = DOMAIN u
  BY DEF Grows
<1>2. r.phase = "running" => /\ r.file \in DOMAIN t /\ r.pos \in Nat
                             /\ Len(T) \in Nat /\ Len(U) \in Nat /\ Len(T) <= Len(U)
                             /\ \A i \in 1..Len(T) : T[i] = U[i]
  BY GrownText DEF IsReader
<1>3. CASE HasLine(t, r)
  <2>1. r.pos + 1 \in 1..Len(T)
    BY <1>1, <1>3, LineTyped
  <2>2. T[r.pos + 1] = U[r.pos + 1] /\ r.phase = "running"
    BY <1>2, <1>3, <2>1 DEF HasLine
  <2>3. HasLine(u, r) /\ LineEnd(T, r.pos) = LineEnd(U, r.pos)
    <3>1. CASE r.below # <<>>
      <4>1. T = U
        BY <1>2, <2>2, <3>1 DEF IsReader, Grows
      <4> QED BY <1>3, <4>1 DEF HasLine, LineEnd
    <3>2. CASE r.below = <<>>
      <4>1. r.pos + 1 < Len(T) /\ r.pos + 1 < Len(U)
        BY <1>2, <1>3, <2>2, <3>2 DEF HasLine
      <4> QED BY <2>2, <4>1 DEF HasLine, LineEnd
    <3> QED BY <3>1, <3>2
  <2> DEFINE a == Accept(Between(r), T[r.pos + 1])
             end == LineEnd(T, r.pos)
  <2>4. Obey(t, r) = Outcome(t, a, r.file, end, r.below)
    BY <1>2, <1>3, <2>2, ObeyCases
  <2>5. Obey(u, r) = Outcome(u, a, r.file, end, r.below)
    <3>1. Obey(u, r) = Outcome(u, Accept(Between(r), U[r.pos + 1]), r.file, LineEnd(U, r.pos),
                               r.below)
      BY <1>2, <2>2, <2>3, ObeyCases
    <3> HIDE DEF T, U
    <3> QED BY <2>2, <2>3, <3>1
  <2> HIDE DEF a, end
  <2>6. Outcome(t, a, r.file, end, r.below) = Outcome(u, a, r.file, end, r.below)
    BY <1>1 DEF Outcome
  <2> QED BY <2>4, <2>5, <2>6
<1>4. CASE AtEnd(t, r)
  <2>1. r.phase = "running" /\ T = U
    BY <1>2, <1>4 DEF AtEnd, IsReader, Grows
  <2>2. AtEnd(u, r)
    BY <1>4, <2>1 DEF AtEnd
  <2> QED BY <1>2, <1>4, <2>1, <2>2, ObeyCases
<1>5. CASE ~HasLine(t, r) /\ ~AtEnd(t, r)
  BY <1>2, <1>5, ObeyCases
<1> QED BY <1>3, <1>4, <1>5

LEMMA ReachedGrows ==
  ASSUME NEW t, NEW u, Grows(t, u), NEW origin, IsReader(t, origin), NEW r, Reached(origin, t, r)
  PROVE  Reached(origin, u, r)
<1> DEFINE x(i) == Onward(t, origin, i)
           S == {i \in Nat : Reached(origin, u, x(i))}
<1>1. IsText(t)
  BY DEF Grows
<1>2. 0 \in S
  <2>1. x(0) = Onward(u, origin, 0) /\ 0 \in Nat
    BY OnwardSteps
  <2> HIDE DEF x
  <2> QED BY <2>1 DEF Reached
<1>3. ASSUME NEW i \in Nat, i \in S PROVE i + 1 \in S
  <2>1. x(i + 1) = Obey(t, x(i)) /\ IsReader(t, x(i))
    BY <1>1, OnwardSteps, OnwardTyped
  <2> HIDE DEF x
  <2>2. x(i + 1) \in {x(i), Obey(u, x(i))}
    BY <2>1, ObeyGrows
  <2> QED BY <1>3, <2>2, ReachedNext
<1>4. Nat \subseteq S
  <2> HIDE DEF S
  <2> QED BY <1>2, <1>3, Induction
<1> QED BY <1>4 DEF Reached

\* From one place to the next and on to a third.
LEMMA ReachedOn ==
  ASSUME NEW t, NEW origin, NEW r, Reached(origin, t, r), NEW q, Reached(r, t, q)
  PROVE  Reached(origin, t, q)
<1> DEFINE S == {i \in Nat : Reached(origin, t, Onward(t, r, i))}
<1>1. 0 \in S
  BY OnwardSteps
<1>2. ASSUME NEW i \in Nat, i \in S PROVE i + 1 \in S
  <2>1. Onward(t, r, i + 1) = Obey(t, Onward(t, r, i))
    BY OnwardSteps
  <2> QED BY <1>2, <2>1, ReachedNext
<1>3. Nat \subseteq S
  <2> HIDE DEF S
  <2> QED BY <1>1, <1>2, Induction
<1> QED BY <1>3 DEF Reached

LEMMA ReachedTyped ==
  ASSUME NEW t, IsText(t), NEW origin, IsReader(t, origin), NEW r, Reached(origin, t, r)
  PROVE  IsReader(t, r)
BY OnwardTyped DEF Reached

\* The reader at the start of the main file.
Start == Reader(NewSession, Main, 0, <<>>)

LEMMA StartTyped == ASSUME NEW t, IsText(t) PROVE IsReader(t, Start)
<1>1. /\ NewSession.args = <<>> /\ NewSession.opt = NoOption /\ NewSession.runs = <<>>
      /\ <<>> \in Seq(Words)
  BY EmptySeq DEF NewSession
<1> HIDE DEF Words
<1>2. Listed(<<>>)
  <2>1. <<>> \in Seq({})
    BY EmptySeq
  <2> QED BY <2>1 DEF Listed
<1>3. Main \in DOMAIN t /\ 0 \in 0..Len(t[Main])
  <2>1. Main \in DOMAIN t
    BY DEF IsText
  <2>2. Len(t[Main]) \in Nat
    BY <2>1, TextTyped
  <2> QED BY <2>1, <2>2
<1>4. IsBelow(t, <<>>)
  <2> DEFINE P == [file : DOMAIN t, pos : Nat]
  <2> HIDE DEF P
  <2>1. <<>> \in Seq(P) /\ Len(<<>>) = 0
    BY EmptySeq
  <2> QED BY <2>1 DEF IsBelow, P
<1> QED BY <1>1, <1>2, <1>3, <1>4, ReaderTyped DEF Start

-----------------------------------------------------------------------------
(* The invariant. *)

Places == [file : DOMAIN text, pos : Nat]

\* No source is read past its end ...
Placed ==
  /\ text \in Scripts
  /\ written \in 0..Len(text[Main])
  /\ host \in Places /\ Source(host)
  /\ sources \in Seq(Places) /\ \A i \in 1..Len(sources) : Source(sources[i])
  /\ phase \in {"running", "shutdown", "error"}
  /\ SleepInv

\* ... and at every state they are a reader of what the files hold by then, which has
\* come there line by line.
LoopInv ==
  /\ Placed
  /\ Consistent(Abstract, WrittenSoFar, host, sources, session, phase)
  /\ Reached(Start, WrittenSoFar, Abstract)

LEMMA AbstractIs == Abstract = AbstractOf(host, sources, session, phase)
BY DEF Abstract, AbstractOf

\* The beginning of a text is a text.
Written(t, n) == [t EXCEPT ![Main] = SubSeq(@, 1, n)]
LEMMA WrittenText ==
  ASSUME \A t \in Scripts : MainUnnamed(t) /\ EndedIncludes(t),
         NEW t \in Scripts, NEW n \in 0..Len(t[Main]),
         NEW w, w = Written(t, n)
  PROVE  /\ IsText(t) /\ IsText(w) /\ DOMAIN w = DOMAIN t /\ Len(t[Main]) \in Nat
         /\ \A f \in DOMAIN t \ {Main} : w[f] = t[f]
         /\ Len(w[Main]) = n /\ \A i \in 1..n : w[Main][i] = t[Main][i]
<1> HIDE DEF Words
<1>1. IsText(t) /\ Main \in DOMAIN t
  BY LoopAssumption DEF IsText
<1>2. /\ Len(t[Main]) \in Nat /\ DOMAIN t[Main] = 1..Len(t[Main])
      /\ \A i \in 1..Len(t[Main]) : t[Main][i] \in Words
  BY <1>1, TextTyped
<1>3. w[Main] = SubSeq(t[Main], 1, n) /\ DOMAIN w = DOMAIN t
      /\ \A f \in DOMAIN t \ {Main} : w[f] = t[f]
  BY <1>1 DEF Written
<1>4. w[Main] \in Seq(Words) /\ Len(w[Main]) = n /\ \A i \in 1..n : w[Main][i] = t[Main][i]
  <2> DEFINE T == t[Main]
             c == SubSeq(T, 1, n)
  <2>1. n \in Nat /\ \A i \in 1..n : T[i] \in Words
    BY <1>2
  <2> HIDE DEF T, c
  <2>2. /\ c \in Seq(Words) /\ Len(c) = IF 1 <= n THEN n - 1 + 1 ELSE 0
        /\ \A i \in 1..(n - 1 + 1) : c[i] = T[1 + i - 1]
    BY <2>1, SubSeqProperties DEF c
  <2>3. Len(c) = n
    BY <2>1, <2>2
  <2>4. ASSUME NEW i \in 1..n PROVE c[i] = T[i]
    <3>1. i \in 1..(n - 1 + 1) /\ 1 + i - 1 = i
      BY <2>1
    <3> QED BY <2>2, <3>1
  <2> QED BY <1>3, <2>2, <2>3, <2>4 DEF T, c
<1>5. DOMAIN w[Main] = 1..n
  BY <1>4, LenProperties
<1>6. ASSUME NEW f \in DOMAIN t, NEW i \in DOMAIN w[f]
      PROVE  i \in DOMAIN t[f] /\ w[f][i] = t[f][i]
  <2>1. CASE f = Main
    BY <1>2, <1>4, <1>5, <2>1
  <2>2. CASE f # Main
    BY <1>3, <2>2
  <2> QED BY <2>1, <2>2
<1>7. MainUnnamed(w)
  BY <1>1, <1>3, <1>6 DEF MainUnnamed, IsText
<1>8. EndedIncludes(w)
  BY <1>1, <1>3 DEF EndedIncludes, IsText
<1>9. ASSUME NEW f \in DOMAIN t
      PROVE  w[f] \in Seq(Words) /\ \A i \in DOMAIN w[f] : w[f][i] = NL <=> i % 2 = 0
  <2>1. w[f] \in Seq(Words)
    BY <1>1, <1>3, <1>4 DEF IsText
  <2> QED BY <1>1, <1>6, <2>1 DEF IsText
<1>10. IsText(w)
  BY <1>1, <1>3, <1>7, <1>8, <1>9 DEF IsText
<1> QED BY <1>1, <1>2, <1>3, <1>4, <1>10

\* What is written now is what the loop can read, and the beginning of what the files
\* hold in the end.
LEMMA WrittenNow ==
  ASSUME \A t \in Scripts : MainUnnamed(t) /\ EndedIncludes(t), Placed
  PROVE  /\ Grows(WrittenSoFar, text) /\ Grows(WrittenSoFar, WrittenSoFar)
         /\ Current(WrittenSoFar)
<1> DEFINE w == WrittenSoFar
<1>1. w = Written(text, written) /\ text \in Scripts /\ written \in 0..Len(text[Main])
  BY DEF WrittenSoFar, Written, Placed
<1>2. /\ IsText(text) /\ IsText(w) /\ DOMAIN w = DOMAIN text /\ Len(text[Main]) \in Nat
      /\ \A f \in DOMAIN text \ {Main} : w[f] = text[f]
      /\ Len(w[Main]) = written /\ \A i \in 1..written : w[Main][i] = text[Main][i]
  <2> HIDE DEF w
  <2> QED BY <1>1, WrittenText
<1> HIDE DEF w
<1>3. Grows(w, text)
  BY <1>1, <1>2 DEF Grows
<1>4. Grows(w, w)
  BY <1>1, <1>2 DEF Grows
<1>5. Current(w)
  BY <1>2 DEF Current, Available
<1> QED BY <1>3, <1>4, <1>5 DEF w

LEMMA ClientGrows ==
  ASSUME \A t \in Scripts : MainUnnamed(t) /\ EndedIncludes(t), Placed, ClientWrites
  PROVE  Grows(WrittenSoFar, WrittenSoFar')
<1> DEFINE w == WrittenSoFar
           v == WrittenSoFar'
<1>1. /\ w = Written(text, written) /\ v = Written(text, written')
      /\ text \in Scripts /\ written \in 0..Len(text[Main])
  BY DEF WrittenSoFar, Written, Placed, ClientWrites
<1>2. /\ IsText(w) /\ DOMAIN w = DOMAIN text /\ Len(text[Main]) \in Nat
      /\ \A f \in DOMAIN text \ {Main} : w[f] = text[f]
      /\ Len(w[Main]) = written /\ \A i \in 1..written : w[Main][i] = text[Main][i]
  <2> HIDE DEF w
  <2> QED BY <1>1, WrittenText
<1>3. written' \in 0..Len(text[Main]) /\ written <= written'
  BY <1>1, <1>2 DEF ClientWrites
<1>4. /\ IsText(v) /\ DOMAIN v = DOMAIN text
      /\ \A f \in DOMAIN text \ {Main} : v[f] = text[f]
      /\ Len(v[Main]) = written' /\ \A i \in 1..written' : v[Main][i] = text[Main][i]
  <2> DEFINE n == written'
  <2>1. v = Written(text, n) /\ n \in 0..Len(text[Main])
    BY <1>1, <1>3
  <2> HIDE DEF v, n
  <2> QED BY <1>1, <2>1, WrittenText DEF n
<1> HIDE DEF w, v
<1>5. Grows(w, v)
  <2>1. \A i \in 1..written : i \in 1..written'
    BY <1>1, <1>2, <1>3
  <2> QED BY <1>2, <1>3, <1>4, <2>1 DEF Grows
<1> QED BY <1>5 DEF w, v

LEMMA InitLoopInv ==
  ASSUME \A t \in Scripts : MainUnnamed(t) /\ EndedIncludes(t), Init
  PROVE  LoopInv /\ Abstract = Start
<1>1. text \in Scripts /\ Main \in DOMAIN text /\ Len(text[Main]) \in Nat
  <2>1. text \in Scripts /\ Main \in DOMAIN text /\ 0 \in 0..0
    BY LoopAssumption DEF Init
  <2>2. Len(text[Main]) \in Nat
    BY <2>1, LoopAssumption, LenProperties
  <2> QED BY <2>1, <2>2
<1>2. SleepInv
  BY DEF Init, SupervisorInit, SleepInv, SupervisorTypeOK, Remembered, SleepsUntold
<1>3. host \in Places /\ Source(host) /\ written \in 0..Len(text[Main])
  BY <1>1 DEF Init, Places, Source, Available
<1>4. sources \in Seq(Places) /\ \A i \in 1..Len(sources) : Source(sources[i])
  <2> DEFINE P == Places
  <2> HIDE DEF P
  <2>1. sources = <<>> /\ Len(<<>>) = 0 /\ <<>> \in Seq(P)
    BY EmptySeq DEF Init
  <2> QED BY <2>1 DEF P
<1>5. Placed
  BY <1>1, <1>2, <1>3, <1>4 DEF Placed, Init
<1>6. Abstract = Start
  <2>1. Unread(host, session) = Place(Main, 0) /\ Below(sources, session.stack) = <<>>
    BY KeptNone DEF Init, NewSession, Unread
  <2> QED BY <2>1 DEF Init, Abstract, Place, Start
<1>7. Reached(Start, WrittenSoFar, Start)
  <2>1. Start = Onward(WrittenSoFar, Start, 0) /\ 0 \in Nat
    BY OnwardSteps
  <2> QED BY <2>1 DEF Reached
<1>8. Consistent(Start, WrittenSoFar, host, sources, session, phase)
  <2>1. session = [buf |-> <<>>, args |-> <<>>, opt |-> NoOption, stack |-> <<>>, waiting |-> FALSE,
                   status |-> "open", next |-> NoOption, runs |-> <<>>] /\ session = NewSession
    BY DEF Init, NewSession
  <2>2. <<>> \in Seq(Words)
    BY EmptySeq
  <2>3. IsSession(session)
    <3> HIDE DEF Words, ValueOptions
    <3> QED BY <2>1, <2>2 DEF IsSession, Statuses
  <2>4. session.buf = <<>> /\ session.opt = NoOption /\ session.stack = <<>>
    BY <2>1
  <2> DEFINE t == WrittenSoFar
             z == session
  <2>5. IsText(t) /\ Main \in DOMAIN t
    BY <1>5, WrittenNow DEF Grows, IsText
  <2>6. Reached(Start, t, Reader(z, Main, 0, Below(<<>>, z.stack))) /\ Kept(t, <<>>, z.stack)
    BY <1>7, <2>1, <2>4, KeptNone DEF Start
  <2> HIDE DEF t, z
  <2>7. Coherent(Start, t, [file |-> Main, pos |-> 0], <<>>, z)
    BY <2>3, <2>4, <2>5, <2>6, StartCoherent DEF z
  <2> QED BY <2>3, <2>7 DEF Init, Consistent, t, z
<1> QED BY <1>5, <1>6, <1>7, <1>8 DEF LoopInv

\* A source the loop goes on with has not been read past its end.
LEMMA FollowPlaced ==
  ASSUME text \in Scripts, written \in 0..Len(text[Main]), NEW z, NEW from \in Places, Source(from),
         NEW stack \in Seq(Places), \A i \in 1..Len(stack) : Source(stack[i]),
         Follow(z, from, stack), UNCHANGED <<text, written>>, phase = "running"
  PROVE  /\ host' \in Places' /\ Source(host)'
         /\ sources' \in Seq(Places') /\ \A i \in 1..Len(sources') : Source(sources[i])'
         /\ phase' \in {"running", "shutdown", "error"}
<1>1. Places' = Places /\ \A x : Source(x)' <=> Source(x)
  BY DEF Places, Source, Available
<1> DEFINE P == Places
<1>2. z.next \in DOMAIN text => Opened(z.next) \in P /\ Source(Opened(z.next))
  <2>1. Main \in DOMAIN text /\ \A f \in DOMAIN text : Len(text[f]) \in Nat
    BY LoopAssumption, TextTyped
  <2> QED BY <2>1 DEF Places, Source, Available, Opened
<1> HIDE DEF P
<1>3. /\ host' \in P /\ Source(host')
  BY <1>2 DEF Follow, P
<1>4. sources' \in {<<>>, stack, Append(stack, from)} /\ phase' \in {"running", "shutdown", "error"}
  BY DEF Follow
<1>5. \A src \in {<<>>, stack, Append(stack, from)} :
         src \in Seq(P) /\ \A i \in 1..Len(src) : Source(src[i])
  <2>1. <<>> \in Seq(P) /\ \A i \in 1..Len(<<>>) : Source(<<>>[i])
    BY EmptySeq
  <2>2. /\ Append(stack, from) \in Seq(P) /\ Len(Append(stack, from)) = Len(stack) + 1
        /\ \A i \in 1..Len(stack) : Append(stack, from)[i] = stack[i]
        /\ Append(stack, from)[Len(stack) + 1] = from /\ Len(stack) \in Nat
    BY AppendProperties, LenProperties DEF P
  <2>3. \A i \in 1..Len(Append(stack, from)) : Source(Append(stack, from)[i])
    BY <2>2
  <2> QED BY <2>1, <2>2, <2>3 DEF P
<1> QED BY <1>1, <1>3, <1>4, <1>5 DEF P

\* Every step keeps the invariant, and the reader it leaves is the one it found
\* some lines further on.
LEMMA StepReads ==
  ASSUME \A t \in Scripts : MainUnnamed(t) /\ EndedIncludes(t), LoopInv, [Next]_vars
  PROVE  LoopInv' /\ text \in Scripts /\ Reached(Abstract, text, Abstract')
<1> DEFINE w == WrittenSoFar
           Keeps == /\ Placed' /\ text' = text /\ Grows(w, w')
                    /\ Consistent(Abstract, w, host', sources', session', phase')
<1>0. /\ Placed /\ Consistent(Abstract, w, host, sources, session, phase)
      /\ Reached(Start, w, Abstract) /\ IsText(w)
      /\ Grows(w, w) /\ Grows(w, text) /\ Current(w)
      /\ (UNCHANGED <<text, written>> => w' = w)
  BY WrittenNow DEF LoopInv, WrittenSoFar, Grows
<1> HIDE DEF w
<1>1. SleepInv'
  BY <1>0, StepKeepsSleepInv DEF Placed
<1>2. ASSUME UNCHANGED <<text, written, loop>> PROVE Keeps
  BY <1>0, <1>1, <1>2 DEF Placed, loop, Places, Source, Available
<1>3. ASSUME ClientWrites PROVE Keeps
  <2>1. Len(text[Main]) \in Nat
    BY <1>0, LoopAssumption, TextTyped DEF Placed
  <2>2. /\ text' = text /\ UNCHANGED <<host, sources, session, phase>>
        /\ written' \in 0..Len(text[Main]) /\ written <= written'
    BY <1>0, <1>3, <2>1 DEF ClientWrites, loop, Placed
  <2>3. \A x \in Places : Source(x) => Source(x)'
    BY <1>0, <2>1, <2>2 DEF Places, Source, Available, Placed
  <2>4. Places' = Places /\ Source(host)' /\ \A i \in 1..Len(sources) : Source(sources[i])'
    <3>1. \A i \in 1..Len(sources) : sources[i] \in Places
      BY <1>0, ElementOfSeq DEF Placed
    <3> QED BY <1>0, <2>2, <2>3, <3>1 DEF Placed, Places
  <2>5. Grows(w, w')
    BY <1>0, <1>3, ClientGrows DEF w
  <2> QED BY <1>0, <1>1, <2>2, <2>4, <2>5 DEF Placed
<1>4. ASSUME ReadChunk PROVE Keeps
  <2>1. PICK n \in (host.pos + 1)..Available(host.file) :
          /\ session' = Feed(session, SubSeq(text[host.file], host.pos + 1, n))
          /\ Follow(session', [host EXCEPT !.pos = n], sources)
    BY <1>4 DEF ReadChunk
  <2>2. phase = "running" /\ UNCHANGED <<text, written>>
    BY <1>4 DEF ReadChunk, AtInput
  <2> DEFINE from == [file |-> host.file, pos |-> n]
  <2>3. [host EXCEPT !.pos = n] = from
    BY <1>0 DEF Placed, Places
  <2>4. /\ n \in Nat /\ host.pos <= n /\ n <= Len(text[host.file]) /\ from \in Places
        /\ Source(from)
    <3>1. host.pos \in Nat /\ host.file \in DOMAIN text /\ Main \in DOMAIN text
      BY <1>0, LoopAssumption DEF Placed, Places
    <3>2. Len(text[host.file]) \in Nat /\ Len(text[Main]) \in Nat
      BY <1>0, <3>1, TextTyped DEF Placed
    <3> QED BY <1>0, <3>1, <3>2 DEF Placed, Places, Source, Available
  <2>5. Consistent(Abstract, w, host', sources', session', phase')
    <3> DEFINE f == host.file
               q == host.pos
    <3>1. f \in DOMAIN w /\ n <= Len(w[f]) /\ q \in Nat /\ q <= n /\ n \in Nat
      <4>1. f \in DOMAIN w /\ n <= Available(f)
        BY <1>0, <2>1, <2>4 DEF Placed, Places, Current
      <4> QED BY <1>0, <2>4, <4>1 DEF Placed, Places, Current
    <3> HIDE DEF f, q
    <3>2. SubSeq(text[f], q + 1, n) = SubSeq(w[f], q + 1, n)
      BY <1>0, <3>1, GrownText
    <3>3. session' = Feed(session, SubSeq(w[host.file], host.pos + 1, n))
      BY <2>1, <3>2 DEF f, q
    <3>4. Follow(session', [file |-> host.file, pos |-> n], sources)
      BY <2>1, <2>3
    <3>5. host.pos <= n /\ n <= Len(w[host.file])
      BY <2>4, <3>1 DEF f
    <3> QED BY <1>0, <2>2, <2>4, <3>3, <3>4, <3>5, ReadConsistent
  <2> HIDE DEF from
  <2>6. /\ host' \in Places' /\ Source(host)'
        /\ sources' \in Seq(Places') /\ \A i \in 1..Len(sources') : Source(sources[i])'
        /\ phase' \in {"running", "shutdown", "error"}
    BY <1>0, <2>1, <2>2, <2>3, <2>4, FollowPlaced DEF Placed
  <2> QED BY <1>0, <1>1, <2>2, <2>5, <2>6 DEF Placed
<1>5. ASSUME ReturnFromArgfile PROVE Keeps
  <2>1. /\ session' = FinishArgfile(session) /\ AtEof /\ sources # <<>>
        /\ Follow(session', Last(sources), Front(sources))
        /\ phase = "running" /\ UNCHANGED <<text, written>>
    BY <1>5 DEF ReturnFromArgfile, AtInput
  <2>2. Consistent(Abstract, w, host', sources', session', phase')
    BY <1>0, <2>1, ReturnConsistent
  <2>3. /\ Last(sources) \in Places /\ Source(Last(sources)) /\ Front(sources) \in Seq(Places)
        /\ \A i \in 1..Len(Front(sources)) : Source(Front(sources)[i])
    <3> DEFINE P == Places
               n == Len(sources)
    <3> HIDE DEF P
    <3>1. sources \in Seq(P) /\ n \in Nat /\ n # 0 /\ \A i \in 1..n : Source(sources[i])
      BY <1>0, <2>1, EmptySeq DEF Placed, P
    <3>2. /\ Front(sources) \in Seq(P) /\ Len(Front(sources)) = n - 1
          /\ \A i \in 1..(n - 1) : Front(sources)[i] = sources[i] /\ Last(sources) \in P
      BY <2>1, <3>1, FrontTyped, FrontElements
    <3>3. n \in 1..n /\ Last(sources) = sources[n] /\ Last(sources) \in P
      BY <2>1, <3>1, FrontElements DEF Last
    <3> QED BY <3>1, <3>2, <3>3 DEF P
  <2>4. /\ host' \in Places' /\ Source(host)'
        /\ sources' \in Seq(Places') /\ \A i \in 1..Len(sources') : Source(sources[i])'
        /\ phase' \in {"running", "shutdown", "error"}
    BY <1>0, <2>1, <2>3, FollowPlaced DEF Placed
  <2> QED BY <1>0, <1>1, <2>1, <2>2, <2>4 DEF Placed
<1>6. ASSUME PollEof PROVE Keeps
  <2>1. /\ session' = Feed(session, <<>>) /\ UNCHANGED <<text, written, host, sources>>
        /\ phase = "running" /\ phase' = IF session'.status = "failed" THEN "error" ELSE phase
    BY <1>6 DEF PollEof
  <2>2. Consistent(Abstract, w, host, sources, session', phase) /\ session'.status = "open"
    BY <1>0, <2>1, PollConsistent
  <2>3. phase' = phase
    BY <2>1, <2>2
  <2> QED BY <1>0, <1>1, <2>1, <2>2, <2>3 DEF Placed, Places, Source, Available
<1>7. ASSUME UNCHANGED vars PROVE Keeps
  BY <1>2, <1>7 DEF vars
<1>8. ASSUME ClientSignals \/ ReachEof \/ Sleeping PROVE Keeps
  BY <1>2, <1>8 DEF ClientSignals, ReachEof, Sleeping
<1>9. Keeps
  <2> HIDE DEF Keeps
  <2> QED BY <1>3, <1>4, <1>5, <1>6, <1>7, <1>8 DEF Next, Loop
<1>10. Abstract' = AbstractOf(host', sources', session', phase')
  BY DEF Abstract, AbstractOf
<1>11. /\ Reached(Abstract, w, Abstract')
       /\ Consistent(Abstract', w', host', sources', session', phase')
  BY <1>9, <1>10, AbstractReached
<1>12. IsReader(w, Start) /\ IsReader(w, Abstract) /\ Reached(Start, w, Abstract')
  BY <1>0, <1>11, StartTyped, ReachedTyped, ReachedOn
<1>13. Reached(Start, w', Abstract') /\ Reached(Abstract, text, Abstract')
  BY <1>0, <1>9, <1>11, <1>12, ReachedGrows
<1>14. w' = WrittenSoFar'
  BY DEF w
<1>15. LoopInv'
  BY <1>9, <1>11, <1>13, <1>14 DEF LoopInv
<1> QED BY <1>0, <1>13, <1>15 DEF Placed

-----------------------------------------------------------------------------
(* The default driver. *)

LEMMA ReplayedSteps ==
  ASSUME NEW t, NEW f
  PROVE  /\ Replayed(t, f, 0) = Persistent(t, f, {}, <<>>)
         /\ \A n \in Nat : Replayed(t, f, n + 1) = ProcessChunk(t, Replayed(t, f, n))
<1> DEFINE r == Persistent(t, f, {}, <<>>)
           Step(g, i) == IF i = 0 THEN r ELSE Processed(t, g[i - 1])
           Is(g, k) == g = [i \in 0..k |-> Step(g, i)]
           S == {k \in Nat : \E g : Is(g, k)}
           F(k) == CHOOSE g : Is(g, k)
<1> HIDE DEF r
<1>1. 0 \in S
  <2> DEFINE g == [i \in 0..0 |-> r]
  <2>1. Is(g, 0)
    OBVIOUS
  <2> QED BY <2>1
<1>2. ASSUME NEW k \in Nat, k \in S PROVE k + 1 \in S
  <2>1. PICK g : Is(g, k)
    BY <1>2
  <2> DEFINE h == [i \in 0..(k + 1) |-> IF i = k + 1 THEN Step(g, i) ELSE g[i]]
  <2>2. ASSUME NEW i \in 0..(k + 1) PROVE h[i] = Step(h, i)
    <3>1. i # 0 => h[i - 1] = g[i - 1]
      OBVIOUS
    <3>2. i # k + 1 => i \in 0..k /\ h[i] = g[i]
      OBVIOUS
    <3>3. \A j \in 0..k : g[j] = Step(g, j)
      BY <2>1
    <3>4. h[k + 1] = Step(g, k + 1)
      OBVIOUS
    <3> HIDE DEF h
    <3> QED BY <3>1, <3>2, <3>3, <3>4
  <2> HIDE DEF Step
  <2>3. h = [i \in 0..(k + 1) |-> h[i]]
    OBVIOUS
  <2> HIDE DEF h
  <2>4. [i \in 0..(k + 1) |-> h[i]] = [i \in 0..(k + 1) |-> Step(h, i)]
    BY <2>2
  <2>5. \E x : Is(x, k + 1)
    BY <2>3, <2>4
  <2> QED BY <2>5
<1>3. Nat \subseteq S
  <2> HIDE DEF S
  <2> QED BY <1>1, <1>2, Induction
<1>4. ASSUME NEW k \in Nat PROVE Is(F(k), k)
  <2>1. \E g : Is(g, k)
    BY <1>3
  <2> HIDE DEF Is
  <2> QED BY <2>1
<1>5. ASSUME NEW k \in Nat PROVE Replayed(t, f, k) = F(k)[k]
  BY DEF Replayed, r
<1>6. ASSUME NEW k \in Nat, NEW i \in 0..k PROVE F(k)[i] = Step(F(k), i)
  <2> HIDE DEF F, Step
  <2> QED BY <1>4
<1>7. ASSUME NEW n \in Nat PROVE F(n + 1)[n] = F(n)[n]
  <2> DEFINE Same == {i \in Nat : i <= n => F(n + 1)[i] = F(n)[i]}
  <2>1. 0 \in Same
    <3>1. F(n + 1)[0] = r /\ F(n)[0] = r
      BY <1>6
    <3> QED BY <3>1
  <2>2. ASSUME NEW i \in Nat, i \in Same PROVE i + 1 \in Same
    <3> SUFFICES ASSUME i + 1 <= n PROVE F(n + 1)[i + 1] = F(n)[i + 1]
      OBVIOUS
    <3>1. i + 1 \in 0..n /\ i + 1 \in 0..(n + 1) /\ (i + 1) - 1 = i /\ i + 1 # 0 /\ n + 1 \in Nat
      OBVIOUS
    <3>2. F(n + 1)[i] = F(n)[i]
      BY <2>2
    <3>3. F(n + 1)[i + 1] = Step(F(n + 1), i + 1) /\ F(n)[i + 1] = Step(F(n), i + 1)
      <4> HIDE DEF F, Step
      <4> QED BY <3>1, <1>6
    <3> HIDE DEF F
    <3> QED BY <3>1, <3>2, <3>3
  <2>3. Nat \subseteq Same
    <3> HIDE DEF Same
    <3> QED BY <2>1, <2>2, Induction
  <2> HIDE DEF F
  <2> QED BY <2>3
<1>8. Replayed(t, f, 0) = r
  <2>1. F(0)[0] = Step(F(0), 0)
    <3> HIDE DEF F, Step
    <3> QED BY <1>6
  <2> HIDE DEF F
  <2> QED BY <1>5, <2>1
<1>9. ASSUME NEW n \in Nat PROVE Replayed(t, f, n + 1) = ProcessChunk(t, Replayed(t, f, n))
  <2>1. n + 1 \in Nat /\ n + 1 \in 0..(n + 1) /\ n + 1 # 0 /\ (n + 1) - 1 = n
    OBVIOUS
  <2>2. F(n + 1)[n + 1] = Step(F(n + 1), n + 1)
    <3> HIDE DEF F, Step
    <3> QED BY <2>1, <1>6
  <2>3. ASSUME NEW p PROVE Processed(t, p) = ProcessChunk(t, p)
    <3>1. {ProcessChunk(t, q) : q \in {p}} = {ProcessChunk(t, p)}
      OBVIOUS
    <3> QED BY <3>1, One DEF Processed
  <2> HIDE DEF F
  <2>4. F(n + 1)[n + 1] = ProcessChunk(t, F(n + 1)[n])
    BY <2>1, <2>2, <2>3
  <2> QED BY <1>5, <1>7, <2>1, <2>4
<1> QED BY <1>8, <1>9 DEF r

\* A switch starts afresh; only the value of an -@ makes the session follow a file.
LEMMA SwitchFresh ==
  ASSUME NEW s, IsSession(s), s.status = "open", NEW line \in Words, NEW a, a = Accept(s, line)
  PROVE  /\ a.status = "switch" => s.opt = "-@" /\ a.args = <<>> /\ a.opt = NoOption /\ ~a.waiting
         /\ a.opt # NoOption => a.opt = line /\ line \in ValueOptions
<1> DEFINE t == [s EXCEPT !.opt = NoOption]
<1>1. IsSession(t) /\ t.opt = NoOption /\ t.status = "open"
  <2>1. t = [buf |-> s.buf, args |-> s.args, opt |-> NoOption, stack |-> s.stack,
             waiting |-> s.waiting, status |-> s.status, next |-> s.next, runs |-> s.runs]
    BY ONLY OptionMet, IsSession(s)
  <2> HIDE DEF t
  <2> QED BY <2>1 DEF IsSession
<1> HIDE DEF t
<1>2. Heeds(s, line, a)
  BY AcceptTyped
<1>3. a.opt # NoOption => a.opt = line /\ line \in ValueOptions
  BY <1>2 DEF Heeds, IsSession
<1>4. CASE s.opt # NoOption /\ s.opt = "-@"
  <2> DEFINE before == Front(s.args)
  <2>1. a = ArgfileFrame(t, before, line)
    BY <1>4 DEF Accept, t
  <2> HIDE DEF before
  <2>2. a.status = "switch" => a.args = <<>> /\ a.opt = NoOption /\ ~a.waiting
    BY <1>1, <2>1 DEF ArgfileFrame, Fail, IsSession
  <2> QED BY <1>3, <1>4, <2>2
<1>5. CASE s.opt # NoOption /\ s.opt = "-stay_open"
  <2> DEFINE before == Front(s.args)
  <2>1. a = StayOpenFrame(t, before, line)
    BY <1>5 DEF Accept, t
  <2> HIDE DEF before
  <2>2. CASE line \in {"False", "0"} /\ ~t.waiting
    <3>1. before # <<>> => IsSession(Run(t, before, NoOption))
      BY <1>1, RunTyped
    <3> DEFINE q == IF before = <<>> THEN t ELSE Run(t, before, NoOption)
    <3>2. IsSession(q) /\ a = IF q.status = "failed" THEN q ELSE [q EXCEPT !.status = "shutdown"]
      BY <1>1, <2>1, <2>2, <3>1 DEF StayOpenFrame
    <3> HIDE DEF q
    <3>3. a.status # "switch"
      BY <3>2 DEF IsSession
    <3> QED BY <1>3, <3>3
  <2>3. CASE ~(line \in {"False", "0"} /\ ~t.waiting)
    <3>1. a.status # "switch"
      BY <1>1, <2>1, <2>3 DEF StayOpenFrame, Fail, IsSession
    <3> QED BY <1>3, <3>1
  <2> QED BY <2>2, <2>3
<1>6. CASE s.opt # NoOption /\ s.opt \notin {"-@", "-stay_open"}
  <2>1. a = [t EXCEPT !.args = Append(@, line)]
    BY <1>6 DEF Accept, t
  <2>2. a.status # "switch"
    BY <1>1, <2>1 DEF IsSession
  <2> QED BY <1>3, <2>2
<1>7. CASE s.opt = NoOption /\ line \in Executes
  <2>1. CASE s.waiting
    <3>1. a = [s EXCEPT !.status = "failed"]
      BY <1>7, <2>1 DEF Accept, Fail
    <3>2. a.status # "switch"
      BY <3>1 DEF IsSession
    <3> QED BY <1>3, <3>2
  <2>2. CASE ~s.waiting
    <3>1. a = Run(s, s.args, line)
      BY <1>7, <2>2 DEF Accept
    <3>2. a.status # "switch"
      BY <3>1, RunTyped
    <3> QED BY <1>3, <3>2
  <2> QED BY <2>1, <2>2
<1>8. CASE s.opt = NoOption /\ line \notin Executes
  <2>1. a = [s EXCEPT !.args = Append(@, line),
                      !.opt = IF line \in ValueOptions THEN line ELSE NoOption]
    BY <1>8 DEF Accept
  <2>2. a.status # "switch"
    BY <2>1 DEF IsSession
  <2> QED BY <1>3, <2>2
<1> QED BY <1>4, <1>5, <1>6, <1>7, <1>8

\* The calls in progress: each deeper one is of a file of higher rank, and none is of
\* lower rank than a persistent ARGFILE opened before.
Deep(rank, opened, calls) ==
  \A i \in 1..Len(calls) : /\ i <= rank[calls[i].file]
                           /\ \A f \in opened : rank[f] <= rank[calls[i].file]

\* An option that waits for its value is the line that was read last.
Waits(t, s, f, pos) ==
  s.opt # NoOption => /\ s.opt \in ValueOptions
                      /\ \E i \in DOMAIN t[f] : t[f][i] = s.opt /\ pos = LineEnd(t[f], i - 1)

\* Replay `p` amounts to reader `r`.
Matches(t, rank, p, r) ==
  /\ p = [state |-> p.state, calls |-> Append(r.below, Place(r.file, r.pos)),
          opened |-> p.opened, phase |-> "running"]
  /\ r = Reader(p.state, r.file, r.pos, r.below) /\ IsReader(t, r)
  /\ IsSession(p.state) /\ p.state.status = "open"
  /\ p.opened \subseteq DOMAIN t /\ Deep(rank, p.opened, p.calls)
  /\ Waits(t, p.state, r.file, r.pos)

LEMMA DeepAppend ==
  ASSUME NEW P, NEW calls \in Seq(P), NEW rank, NEW opened, NEW x \in P,
         Deep(rank, opened, calls), Len(calls) + 1 <= rank[x.file],
         \A f \in opened : rank[f] <= rank[x.file]
  PROVE  Deep(rank, opened, Append(calls, x))
<1> DEFINE c == Append(calls, x)
           n == Len(calls)
<1>1. n \in Nat /\ Len(c) = n + 1 /\ c[n + 1] = x /\ \A i \in 1..n : c[i] = calls[i]
  BY AppendProperties, LenProperties
<1> HIDE DEF c
<1>2. ASSUME NEW i \in 1..Len(c)
      PROVE  i <= rank[c[i].file] /\ \A f \in opened : rank[f] <= rank[c[i].file]
  <2>1. CASE i = n + 1
    BY <1>1, <2>1
  <2>2. CASE i # n + 1
    <3>1. i \in 1..n
      BY <1>1, <2>2
    <3> QED BY <1>1, <3>1 DEF Deep
  <2> QED BY <2>1, <2>2
<1>3. Deep(rank, opened, c)
  BY <1>2 DEF Deep
<1> QED BY <1>3 DEF c

\* What is deep about a call and those below it.
LEMMA DeepParts ==
  ASSUME NEW P, NEW calls \in Seq(P), NEW rank, NEW opened, NEW x \in P,
         Deep(rank, opened, Append(calls, x))
  PROVE  /\ Deep(rank, opened, calls) /\ Len(calls) \in Nat /\ Len(calls) + 1 <= rank[x.file]
         /\ \A f \in opened : rank[f] <= rank[x.file]
<1> DEFINE c == Append(calls, x)
           n == Len(calls)
<1>1. n \in Nat /\ Len(c) = n + 1 /\ c[n + 1] = x /\ \A i \in 1..n : c[i] = calls[i]
  BY AppendProperties, LenProperties
<1> HIDE DEF c
<1>2. Deep(rank, opened, c)
  BY DEF c
<1>3. n + 1 \in 1..Len(c) /\ \A i \in 1..n : i \in 1..Len(c)
  BY <1>1
<1> QED BY <1>1, <1>2, <1>3 DEF Deep

LEMMA AppendLast ==
  ASSUME NEW P, NEW q \in Seq(P), NEW x \in P
  PROVE  /\ Append(q, x) \in Seq(P) /\ Append(q, x) # <<>> /\ Len(Append(q, x)) = Len(q) + 1
         /\ Len(q) \in Nat /\ Last(Append(q, x)) = x /\ Front(Append(q, x)) = q
<1> DEFINE c == Append(q, x)
           n == Len(q)
<1>1. /\ n \in Nat /\ c \in Seq(P) /\ Len(c) = n + 1 /\ c[n + 1] = x
      /\ \A i \in 1..n : c[i] = q[i]
  BY AppendProperties, LenProperties
<1> HIDE DEF c
<1>2. c # <<>>
  BY <1>1
<1>3. /\ Front(c) \in Seq(P) /\ Len(Front(c)) = n /\ \A i \in 1..n : Front(c)[i] = q[i]
  <2>1. (n + 1) - 1 = n
    BY <1>1
  <2> QED BY <1>1, <1>2, <2>1, FrontTyped, FrontElements
<1>4. Front(c) = q
  BY <1>3, SeqEqual
<1> QED BY <1>1, <1>2, <1>4 DEF c, Last

\* A persistent ARGFILE that was not opened before.
LEMMA FreshMatches ==
  ASSUME NEW t, NEW rank, IsRank(t, rank), NEW f \in DOMAIN t, NEW opened, opened \subseteq DOMAIN t,
         f \notin opened, \A g \in opened : rank[g] <= rank[f],
         NEW s, s.args = <<>>, s.opt = NoOption, s.waiting = FALSE,
         NEW o, o = Reader(s, f, 0, <<>>), IsReader(t, o),
         NEW p, p = Persistent(t, f, opened, s.runs)
  PROVE  Matches(t, rank, p, o)
<1> DEFINE z == [NewSession EXCEPT !.runs = s.runs]
           P == [file : DOMAIN t, pos : Nat]
           x == Place(f, 0)
<1>1. z = [buf |-> <<>>, args |-> <<>>, opt |-> NoOption, stack |-> <<>>, waiting |-> FALSE,
           status |-> "open", next |-> NoOption, runs |-> s.runs]
  <2> DEFINE runs == s.runs
  <2>1. z = [NewSession EXCEPT !.runs = runs]
    OBVIOUS
  <2> HIDE DEF z, runs
  <2>2. z = [buf |-> <<>>, args |-> <<>>, opt |-> NoOption, stack |-> <<>>, waiting |-> FALSE,
             status |-> "open", next |-> NoOption, runs |-> runs]
    BY <2>1 DEF NewSession
  <2> QED BY <2>2 DEF runs
<1>2. p = [state |-> z, calls |-> <<x>>, opened |-> opened \cup {f}, phase |-> "running"]
  BY DEF Persistent
<1> HIDE DEF z
<1>3. IsSession(z) /\ z.status = "open" /\ z.opt = NoOption
  <2>1. <<>> \in Seq(Words)
    BY EmptySeq
  <2> HIDE DEF Words, ValueOptions
  <2> QED BY <1>1, <2>1 DEF IsSession, Statuses
<1>4. /\ o = Reader(z, f, 0, <<>>) /\ o.file = f /\ o.pos = 0 /\ o.below = <<>>
  BY <1>1 DEF Reader
<1>5. x \in P /\ x.file = f
  BY DEF Place
<1> HIDE DEF P, x
<1>6. <<>> \in Seq(P) /\ Append(<<>>, x) = <<x>> /\ Len(<<>>) = 0
  BY EmptySeq
<1>7. rank[f] \in 1..MaxDepth /\ \A g \in DOMAIN t : rank[g] \in 1..MaxDepth
  BY DEF IsRank
<1>8. Deep(rank, opened \cup {f}, <<x>>)
  <2>1. Deep(rank, opened \cup {f}, <<>>)
    BY DEF Deep
  <2>2. 0 + 1 <= rank[x.file] /\ \A g \in opened \cup {f} : rank[g] <= rank[x.file]
    BY <1>5, <1>7, DepthAssumption
  <2>3. Deep(rank, opened \cup {f}, Append(<<>>, x))
    BY <1>5, <1>6, <2>1, <2>2, DeepAppend
  <2> QED BY <1>6, <2>3
<1>9. Waits(t, z, f, 0)
  BY <1>3 DEF Waits
<1>10. /\ p.state = z /\ p.calls = <<x>> /\ p.opened = opened \cup {f}
       /\ Append(o.below, Place(o.file, o.pos)) = <<x>>
  <2>1. p.state = z /\ p.calls = <<x>> /\ p.opened = opened \cup {f}
    BY ONLY <1>2
  <2> QED BY <1>4, <1>6, <2>1 DEF x
<1> HIDE DEF Deep
<1> QED BY <1>2, <1>3, <1>4, <1>8, <1>9, <1>10 DEF Matches

\* Replay `q` is where reader `o` has come to from reader `r`.
Moves(t, rank, r, o) ==
  \/ o.file = r.file /\ o.below = r.below /\ o.pos > r.pos
  \/ /\ \E e \in (r.pos + 1)..Len(t[r.file]) : o.below = Append(r.below, Place(r.file, e))
     /\ rank[r.file] < rank[o.file]
  \/ o.below = <<>> /\ rank[r.file] < rank[o.file]
  \/ r.below # <<>> /\ Append(o.below, Place(o.file, o.pos)) = r.below
Follows(t, rank, r, q, o) ==
  \/ Matches(t, rank, q, o) /\ Moves(t, rank, r, o)
  \/ q.phase # "running" /\ o.phase = q.phase /\ q.state.runs = o.runs
  \/ q.phase # "running" /\ o = r /\ q.state.runs = r.runs

\* What the driver does about a line is what the reader does.
LEMMA FrameFollows ==
  ASSUME NEW t, IsText(t), NEW rank, IsRank(t, rank), NEW r, IsReader(t, r), r.phase = "running",
         NEW e \in (r.pos + 1)..Len(t[r.file]),
         NEW s, IsSession(s), Waits(t, s, r.file, e),
         s.status = "switch" => s.args = <<>> /\ s.opt = NoOption /\ s.waiting = FALSE,
         s.status \in {"include", "switch"} => s.opt = NoOption,
         s.status \in {"include", "switch"} /\ s.next \in DOMAIN t => rank[r.file] < rank[s.next],
         NEW o, o = Outcome(t, s, r.file, e, r.below), IsReader(t, o),
         NEW old, NEW opened, opened \subseteq DOMAIN t,
         NEW p, p = [state |-> old, calls |-> Append(r.below, Place(r.file, e)),
                     opened |-> opened, phase |-> "running"],
         Deep(rank, opened, p.calls),
         NEW q, q = ProcessFrame(t, p, s)
  PROVE  Follows(t, rank, r, q, o)
<1> DEFINE P == [file : DOMAIN t, pos : Nat]
           f == r.file
           x == Place(f, e)
           calls == Append(r.below, x)
<1>1. /\ f \in DOMAIN t /\ r.pos \in Nat /\ e \in Nat /\ e > r.pos /\ x \in P /\ x.file = f
      /\ r.below \in Seq(P)
  <2>1. f \in DOMAIN t /\ r.pos \in 0..Len(t[f]) /\ r.below \in Seq(P)
    BY DEF IsReader, IsBelow
  <2>2. Len(t[f]) \in Nat
    BY <2>1, TextTyped
  <2> QED BY <2>1, <2>2 DEF Place
<1> HIDE DEF P
<1>2. /\ calls \in Seq(P) /\ Len(calls) = Len(r.below) + 1 /\ Len(r.below) \in Nat
  BY <1>1, AppendLast
<1> HIDE DEF x
<1>3. /\ Deep(rank, opened, calls) /\ Len(calls) <= rank[f] /\ \A g \in opened : rank[g] <= rank[f]
  <2>1. Deep(rank, opened, calls)
    BY DEF x
  <2> QED BY <1>1, <1>2, <2>1, DeepParts
<1> HIDE DEF f, calls
<1>4. /\ p = [state |-> old, calls |-> calls, opened |-> opened, phase |-> "running"]
      /\ p.opened = opened /\ p.calls = calls
  BY DEF calls, x, f
<1>5. \A g \in DOMAIN t : rank[g] \in 1..MaxDepth
  BY DEF IsRank
<1>6. o = Outcome(t, s, f, e, r.below)
  BY DEF f
<1>7. CASE s.status = "open"
  <2>1. o = Reader(s, f, e, r.below)
    BY <1>6, <1>7 DEF Outcome
  <2>2. o.file = f /\ o.pos = e /\ o.below = r.below
    BY <2>1 DEF Reader
  <2>3. q = [state |-> s, calls |-> calls, opened |-> opened, phase |-> "running"]
    <3>1. q = [p EXCEPT !.state = s]
      BY <1>7 DEF ProcessFrame
    <3> QED BY ONLY <1>4, <3>1
  <2>4. q.state = s /\ q.calls = calls /\ q.opened = opened
    BY <2>3
  <2>5. calls = Append(o.below, Place(o.file, o.pos)) /\ o = Reader(s, o.file, o.pos, o.below)
    BY <2>1, <2>2 DEF calls, x, f
  <2>6. Waits(t, s, o.file, o.pos)
    BY <2>2 DEF f
  <2>7. Matches(t, rank, q, o)
    <3> HIDE DEF Waits, Deep
    <3> QED BY <1>3, <1>7, <2>3, <2>4, <2>5, <2>6 DEF Matches
  <2>8. Moves(t, rank, r, o)
    BY <1>1, <2>2 DEF Moves, f
  <2> QED BY <2>7, <2>8 DEF Follows
<1>8. CASE s.status = "include" /\ s.next \in DOMAIN t
  <2> DEFINE g == s.next
             y == Place(g, 0)
             z == Enter(s)
             deeper == Append(calls, y)
  <2>1. rank[f] < rank[g] /\ g # f /\ rank[f] \in Nat /\ rank[g] \in Nat /\ rank[g] <= MaxDepth
    <3>1. rank[f] < rank[g]
      BY <1>8 DEF f
    <3>2. rank[f] \in 1..MaxDepth /\ rank[g] \in 1..MaxDepth
      BY <1>1, <1>5, <1>8
    <3> HIDE DEF g
    <3>3. g # f
      BY ONLY <3>1, <3>2, DepthAssumption
    <3> QED BY ONLY <3>1, <3>2, <3>3, DepthAssumption
  <2>2. o = Reader(s, g, 0, calls)
    BY <1>6, <1>8, <2>1 DEF Outcome, calls, x
  <2>3. o.file = g /\ o.pos = 0 /\ o.below = calls
    BY <2>2 DEF Reader
  <2>4. y \in P /\ y.file = g
    BY <1>8 DEF Place, P
  <2>5. Len(calls) < MaxDepth /\ Len(calls) + 1 <= rank[g] /\ \A h \in opened : rank[h] <= rank[g]
    <3>1. Len(calls) \in Nat
      BY <1>2
    <3>2. \A h \in opened : rank[h] \in Nat
      BY <1>5, DepthAssumption
    <3> HIDE DEF g
    <3>3. Len(calls) < MaxDepth /\ Len(calls) + 1 <= rank[g]
      BY ONLY <1>3, <2>1, <3>1, DepthAssumption
    <3> QED BY ONLY <1>3, <2>1, <3>2, <3>3
  <2> HIDE DEF y
  <2>6. q = [state |-> z, calls |-> deeper, opened |-> opened, phase |-> "running"]
    <3>1. q = [p EXCEPT !.state = z, !.calls = Append(@, y)]
      BY <1>4, <1>8, <2>5 DEF ProcessFrame, y
    <3> HIDE DEF z
    <3> QED BY ONLY <1>4, <3>1
  <2>7. q.state = z /\ q.calls = deeper /\ q.opened = opened
    <3> HIDE DEF z, deeper
    <3> QED BY ONLY <2>6
  <2>8. /\ IsSession(z) /\ z.args = s.args /\ z.opt = NoOption /\ z.waiting = s.waiting
        /\ z.status = "open" /\ z.runs = s.runs
    <3>1. z = Reopened(s)
      BY DEF Enter, Reopened
    <3> HIDE DEF z
    <3> QED BY <1>8, <3>1, ReopenedRecord
  <2> HIDE DEF z, deeper
  <2>9. o = Reader(z, g, 0, calls)
    <3>1. z.args = s.args /\ z.opt = s.opt /\ z.waiting = s.waiting /\ z.runs = s.runs
      BY <1>8, <2>8
    <3> HIDE DEF g
    <3> QED BY ONLY <2>2, <3>1 DEF Reader
  <2>10. Deep(rank, opened, deeper)
    BY <1>2, <1>3, <2>4, <2>5, DeepAppend DEF deeper
  <2>11. deeper = Append(o.below, Place(o.file, o.pos)) /\ o = Reader(z, o.file, o.pos, o.below)
    BY <2>3, <2>9 DEF deeper, y
  <2>12. Waits(t, z, o.file, o.pos)
    BY <2>8 DEF Waits
  <2>13. Matches(t, rank, q, o)
    <3> HIDE DEF Waits, Deep
    <3> QED BY <2>6, <2>7, <2>8, <2>10, <2>11, <2>12 DEF Matches
  <2>14. Moves(t, rank, r, o)
    BY <2>1, <2>3 DEF Moves, f, calls, x
  <2> QED BY <2>13, <2>14 DEF Follows
<1>9. CASE s.status = "switch" /\ s.next \in DOMAIN t
  <2> DEFINE g == s.next
  <2>1. rank[f] < rank[g] /\ rank[f] \in Nat /\ rank[g] \in Nat
    <3>1. rank[f] < rank[g]
      BY <1>9 DEF f
    <3> QED BY <1>1, <1>5, <1>9, <3>1, DepthAssumption
  <2>2. o = Reader(s, g, 0, <<>>)
    BY <1>6, <1>9 DEF Outcome
  <2>3. \A h \in opened : rank[h] <= rank[g] /\ h # g
    <3>1. \A h \in opened : rank[h] \in Nat
      BY <1>5, DepthAssumption
    <3> QED BY <1>3, <2>1, <3>1
  <2>4. q = Persistent(t, g, opened, s.runs)
    BY <1>4, <1>9 DEF ProcessFrame
  <2>5. Matches(t, rank, q, o)
    <3>1. g \in DOMAIN t /\ g \notin opened /\ \A h \in opened : rank[h] <= rank[g]
      BY <1>9, <2>3
    <3> HIDE DEF g
    <3> QED BY <1>9, <2>2, <2>4, <3>1, FreshMatches
  <2>6. Moves(t, rank, r, o)
    <3>1. o.below = <<>> /\ o.file = g
      BY <2>2 DEF Reader
    <3> QED BY <2>1, <3>1 DEF Moves, f
  <2> QED BY <2>5, <2>6 DEF Follows
<1>10. CASE s.status = "shutdown"
  <2>1. o = Ended(s, "shutdown")
    BY <1>6, <1>10 DEF Outcome
  <2>2. q = [p EXCEPT !.state = s, !.phase = "shutdown"]
    BY <1>10 DEF ProcessFrame
  <2>3. q.state = s /\ q.phase = "shutdown" /\ o.phase = "shutdown" /\ o.runs = s.runs
    BY ONLY <1>4, <2>1, <2>2 DEF Ended
  <2> QED BY <2>3 DEF Follows
<1>11. CASE \/ s.status = "failed"
            \/ s.status = "include" /\ s.next \notin DOMAIN t
  <2>1. o = Ended(s, "error")
    BY <1>6, <1>11 DEF Outcome
  <2>2. q = [p EXCEPT !.state = s, !.phase = "error"]
    BY <1>11 DEF ProcessFrame
  <2>3. q.state = s /\ q.phase = "error" /\ o.phase = "error" /\ o.runs = s.runs
    BY ONLY <1>4, <2>1, <2>2 DEF Ended
  <2> QED BY <2>3 DEF Follows
<1>12. CASE s.status = "switch" /\ s.next \notin DOMAIN t
  <2>1. o = Ended(s, "error")
    BY <1>6, <1>12 DEF Outcome
  <2>2. q = Persistent(t, s.next, opened, s.runs)
    BY <1>4, <1>12 DEF ProcessFrame
  <2>3. q.state.runs = s.runs /\ q.phase = "error" /\ o.phase = "error" /\ o.runs = s.runs
    <3>1. o.phase = "error" /\ o.runs = s.runs
      BY ONLY <2>1 DEF Ended
    <3>2. q.phase = "error"
      BY <1>12, <2>2 DEF Persistent
    <3>3. q.state.runs = s.runs
      BY ONLY <2>2 DEF Persistent, NewSession
    <3> QED BY ONLY <3>1, <3>2, <3>3
  <2> QED BY <2>3 DEF Follows
<1>13. s.status \in Statuses
  BY DEF IsSession
<1> QED BY <1>7, <1>8, <1>9, <1>10, <1>11, <1>12, <1>13 DEF Statuses

LEMMA AppendFront ==
  ASSUME NEW P, NEW q \in Seq(P), q # <<>>
  PROVE  Append(Front(q), Last(q)) = q /\ Front(q) \in Seq(P) /\ Last(q) \in P
<1> DEFINE n == Len(q)
           c == Front(q)
           d == Append(c, Last(q))
<1>1. /\ n \in Nat \ {0} /\ c \in Seq(P) /\ Len(c) = n - 1 /\ Last(q) \in P
      /\ \A i \in 1..(n - 1) : c[i] = q[i]
  BY FrontTyped, FrontElements
<1>2. Last(q) = q[n]
  BY DEF Last
<1> HIDE DEF c
<1>3. /\ d \in Seq(P) /\ Len(d) = (n - 1) + 1 /\ d[(n - 1) + 1] = q[n]
      /\ \A i \in 1..(n - 1) : d[i] = q[i]
  BY <1>1, <1>2, AppendProperties
<1> HIDE DEF d
<1>4. ASSUME NEW i \in 1..Len(d) PROVE d[i] = q[i]
  <2>1. CASE i = n
    BY <1>1, <1>3, <2>1
  <2>2. CASE i # n
    BY <1>1, <1>3, <2>2
  <2> QED BY <2>1, <2>2
<1>5. Len(d) = Len(q)
  BY <1>1, <1>3
<1>6. d = q
  BY <1>3, <1>4, <1>5, SeqEqual
<1> QED BY <1>1, <1>6 DEF d, c

\* The line that names an argfile is one of those after an -@.
LEMMA NamedLine ==
  ASSUME NEW t, IsText(t), NEW r, IsReader(t, r), HasLine(t, r),
         NEW s, Waits(t, s, r.file, r.pos), s.opt = "-@"
  PROVE  t[r.file][r.pos + 1] \in Named(t, r.file)
<1> DEFINE T == t[r.file]
           pos == r.pos
<1>1. /\ DOMAIN T = 1..Len(T) /\ Len(T) \in Nat /\ pos \in Nat /\ pos + 1 <= Len(T)
      /\ LineEnd(T, pos) \in (pos + 1)..Len(T)
  <2>1. r.file \in DOMAIN t
    BY DEF IsReader, HasLine
  <2>2. DOMAIN T = 1..Len(T) /\ Len(T) \in Nat
    BY <2>1, TextTyped
  <2> QED BY <2>2, LineTyped
<1>2. PICK i \in DOMAIN T : T[i] = "-@" /\ pos = LineEnd(T, i - 1)
  BY SessionAssumption DEF Waits
<1> HIDE DEF T, pos
<1>3. pos + 1 = i + 2 /\ i + 2 \in 1..Len(T)
  BY <1>1, <1>2 DEF LineEnd
<1>4. i \in {j \in DOMAIN T : j + 2 \in DOMAIN T /\ T[j] = "-@"}
  BY <1>1, <1>2, <1>3
<1>5. T[i + 2] \in Named(t, r.file)
  BY <1>4 DEF Named, T
<1> QED BY <1>3, <1>5 DEF T, pos

\* A chunk or the end of a file: the driver's replay is where the reader is.
LEMMA ChunkFollows ==
  ASSUME NEW t, IsText(t), OptionsClosed(t), NEW rank, IsRank(t, rank),
         NEW p, NEW r, Matches(t, rank, p, r),
         NEW q, q = ProcessChunk(t, p), NEW o, o = Obey(t, r)
  PROVE  Follows(t, rank, r, q, o)
<1> DEFINE P == [file : DOMAIN t, pos : Nat]
           s == p.state
           f == r.file
           T == t[f]
           pos == r.pos
           below == r.below
           x == Place(f, pos)
           opened == p.opened
           calls == Append(below, x)
<1>1. /\ p = [state |-> s, calls |-> calls, opened |-> opened, phase |-> "running"]
      /\ r = Reader(s, f, pos, below) /\ IsReader(t, r) /\ IsSession(s) /\ s.status = "open"
      /\ opened \subseteq DOMAIN t /\ Deep(rank, opened, p.calls) /\ Waits(t, s, f, pos)
  BY DEF Matches
<1> HIDE DEF s, opened
<1>2. /\ r.phase = "running" /\ r.runs = s.runs /\ r.opt = s.opt
      /\ f \in DOMAIN t /\ below \in Seq(P) /\ pos \in Nat /\ pos <= Len(T) /\ Len(T) \in Nat
      /\ (below # <<>> => f # Main) /\ IsReader(t, o)
  <2>1. r.phase = "running" /\ r.runs = s.runs /\ r.opt = s.opt
    BY <1>1 DEF Reader
  <2>2. f \in DOMAIN t /\ pos \in 0..Len(T) /\ below \in Seq(P) /\ (below # <<>> => f # Main)
    BY <1>1, <2>1 DEF IsReader, IsBelow
  <2>3. Len(T) \in Nat
    BY <2>2, TextTyped
  <2>4. IsReader(t, o)
    BY <1>1, ObeyTyped
  <2> QED BY <2>1, <2>2, <2>3, <2>4
<1>3. x \in P /\ x.file = f /\ x.pos = pos
  BY <1>2 DEF Place
<1> HIDE DEF P, x
<1>4. /\ calls \in Seq(P) /\ calls # <<>> /\ Len(calls) = Len(below) + 1 /\ Len(below) \in Nat
      /\ Last(calls) = x /\ Front(calls) = below
  BY <1>2, <1>3, AppendLast
<1>5. p.calls = calls /\ p.state = s /\ p.opened = opened /\ p.phase = "running"
  <2> HIDE DEF calls
  <2> QED BY ONLY <1>1
<1>6. /\ Deep(rank, opened, below) /\ Len(below) + 1 <= rank[f]
      /\ \A g \in opened : rank[g] <= rank[f]
  <2>1. Deep(rank, opened, Append(below, x))
    BY <1>1, <1>5
  <2> QED BY <1>2, <1>3, <2>1, DeepParts
<1> HIDE DEF calls, f, T, pos, below
<1>7. r.file = f /\ r.pos = pos /\ r.below = below /\ t[f] = T
  BY DEF f, pos, below, T
<1>8. CASE HasLine(t, r)
  <2> DEFINE line == T[pos + 1]
             end == LineEnd(T, pos)
             a == Accept(s, line)
             b == Between(r)
             y == Place(f, end)
             p2 == [state |-> s, calls |-> Append(below, y), opened |-> opened,
                    phase |-> "running"]
  <2>1. /\ pos + 1 \in 1..Len(T) /\ line \in Words /\ end \in (pos + 1)..Len(T)
        /\ pos + 1 < Len(T) \/ (below # <<>> /\ pos + 1 = Len(T))
    <3>1. /\ r.pos + 1 \in 1..Len(t[r.file]) /\ t[r.file][r.pos + 1] \in Words
          /\ LineEnd(t[r.file], r.pos) \in (r.pos + 1)..Len(t[r.file])
      <4> HIDE DEF Words
      <4> QED BY ONLY <1>1, <1>8, IsText(t), LineTyped
    <3>2. pos + 1 < Len(T) \/ (below # <<>> /\ pos + 1 = Len(T))
      BY <1>7, <1>8 DEF HasLine
    <3> QED BY <1>7, <3>1, <3>2
  <2>2. q = ProcessFrame(t, p2, a)
    <3>1. /\ Last(p.calls) = x /\ Front(p.calls) = below /\ p.state = s /\ p.phase = "running"
          /\ x.file = f /\ x.pos = pos /\ t[f] = T
      BY <1>3, <1>4, <1>5, <1>7
    <3>2. [p EXCEPT !.calls = Append(below, y)] = p2
      <4>1. ASSUME NEW c
            PROVE  [p EXCEPT !.calls = c]
                     = [state |-> s, calls |-> c, opened |-> opened, phase |-> "running"]
        BY ONLY <1>1
      <4> QED BY <4>1
    <3> HIDE DEF p2, a, y
    <3>3. CASE pos + 1 < Len(T)
      <4>1. end = pos + 2
        BY <3>3 DEF LineEnd
      <4>2. q = ProcessFrame(t, [p EXCEPT !.calls = Append(below, Place(f, pos + 2))], a)
        <5>1. ~(pos + 1 = Len(T))
          BY <1>2, <3>3
        <5> QED BY ONLY <3>1, <3>3, <5>1, q = ProcessChunk(t, p) DEF ProcessChunk, a
      <4> QED BY <3>2, <4>1, <4>2 DEF y
    <3>4. CASE below # <<>> /\ pos + 1 = Len(T)
      <4>1. end = pos + 1 /\ ~(pos + 1 < Len(T))
        BY <1>2, <3>4 DEF LineEnd
      <4>2. q = ProcessFrame(t, [p EXCEPT !.calls = Append(below, Place(f, pos + 1))], a)
        BY ONLY <3>1, <3>4, <4>1, q = ProcessChunk(t, p) DEF ProcessChunk, a
      <4> QED BY <3>2, <4>1, <4>2 DEF y
    <3> QED BY <2>1, <3>3, <3>4
  <2>3. Alike(s, b) /\ IsSession(b)
    BY <1>1, BetweenAlike
  <2>4. o = Outcome(t, a, f, end, below)
    <3>1. o = Outcome(t, Accept(b, line), f, end, below)
      <4> HIDE DEF line, end, b
      <4>1. Obey(t, r) = Outcome(t, Accept(Between(r), t[r.file][r.pos + 1]), r.file,
                                 LineEnd(t[r.file], r.pos), r.below)
        BY <1>2, <1>7, <1>8, ObeyCases
      <4> QED BY <1>7, <4>1 DEF line, end, b
    <3> HIDE DEF line, end, b
    <3>2. Alike(a, Accept(b, line))
      BY <1>1, <2>3, AcceptAlike
    <3> HIDE DEF a
    <3> QED BY <3>1, <3>2, OutcomeAlike
  <2> HIDE DEF b, line
  <2>5. Heeds(s, line, a)
    BY <1>1, <2>1, AcceptTyped
  <2>6. /\ a.status = "switch" => s.opt = "-@" /\ a.args = <<>> /\ a.opt = NoOption /\ ~a.waiting
        /\ a.opt # NoOption => a.opt = line /\ line \in ValueOptions
    BY <1>1, <2>1, SwitchFresh
  <2> HIDE DEF a
  <2>7. Waits(t, a, f, end)
    <3> SUFFICES ASSUME a.opt # NoOption PROVE Waits(t, a, f, end)
      BY DEF Waits
    <3>1. DOMAIN T = 1..Len(T) /\ (pos + 1) - 1 = pos
      BY <1>2, TextTyped DEF T
    <3>2. pos + 1 \in DOMAIN t[f] /\ t[f][pos + 1] = a.opt /\ end = LineEnd(t[f], (pos + 1) - 1)
      BY <1>7, <2>1, <2>6, <3>1 DEF line
    <3> HIDE DEF end
    <3> QED BY <2>6, <3>2 DEF Waits
  <2>8. a.status \in {"include", "switch"} /\ a.next \in DOMAIN t => rank[f] < rank[a.next]
    <3> SUFFICES ASSUME a.status \in {"include", "switch"}, a.next \in DOMAIN t
                 PROVE  rank[f] < rank[a.next]
      OBVIOUS
    <3>1. s.opt = "-@" /\ a.next = line
      BY <2>5, <2>6 DEF Heeds
    <3>2. line \in Named(t, f)
      BY <1>1, <1>7, <1>8, <3>1, NamedLine DEF line
    <3> QED BY <1>2, <3>1, <3>2 DEF IsRank
  <2>9. Deep(rank, opened, Append(below, y))
    <3>1. y \in P /\ y.file = f
      BY <1>2, <2>1 DEF Place, P
    <3> HIDE DEF y
    <3> QED BY <1>2, <1>6, <3>1, DeepAppend
  <2>10. /\ a.status \in {"include", "switch"} => a.opt = NoOption
         /\ a.status = "switch" => a.args = <<>> /\ a.opt = NoOption /\ a.waiting = FALSE
         /\ IsSession(a)
    <3>1. a.status \in {"include", "switch"} => a.opt = NoOption
      BY <2>5 DEF Heeds
    <3>2. a.status = "switch" => a.waiting = FALSE
      BY <2>6
    <3> QED BY <2>5, <2>6, <3>1, <3>2 DEF Heeds
  <2>11. p2.calls = Append(r.below, Place(r.file, end)) /\ p2.calls = Append(below, y)
    BY <1>7
  <2>12. p2 = [state |-> s, calls |-> Append(r.below, Place(r.file, end)), opened |-> opened,
               phase |-> "running"]
    BY <1>7
  <2> HIDE DEF p2, y, end
  <2>13. Follows(t, rank, r, q, o)
    <3>1. end \in (r.pos + 1)..Len(t[r.file]) /\ o = Outcome(t, a, r.file, end, r.below)
      BY <1>7, <2>1, <2>4
    <3>2. Waits(t, a, r.file, end) /\ Deep(rank, opened, p2.calls)
      BY <1>7, <2>7, <2>9, <2>11
    <3>3. a.status \in {"include", "switch"} /\ a.next \in DOMAIN t => rank[r.file] < rank[a.next]
      BY <1>7, <2>8
    <3> QED BY <1>1, <1>2, <2>2, <2>10, <2>12, <3>1, <3>2, <3>3, FrameFollows
  <2> QED BY <2>13
<1>9. CASE AtEnd(t, r)
  <2> DEFINE l == Last(below)
             c == [r EXCEPT !.opt = NoOption]
  <2>1. below # <<>> /\ pos = Len(T) /\ ~(pos + 1 < Len(T)) /\ ~(pos + 1 = Len(T))
    BY <1>2, <1>7, <1>9 DEF AtEnd
  <2>2. s.opt = NoOption
    <3> SUFFICES ASSUME s.opt # NoOption PROVE FALSE
      OBVIOUS
    <3>1. PICK i \in DOMAIN T : s.opt \in ValueOptions /\ T[i] = s.opt /\ pos = LineEnd(T, i - 1)
      BY <1>1, <1>7 DEF Waits
    <3>2. i + 2 <= Len(T) /\ i \in Nat
      <4>1. f \in DOMAIN t \ {Main}
        BY <1>2, <2>1
      <4>2. DOMAIN T = 1..Len(T)
        BY <1>2, TextTyped DEF T
      <4> QED BY <1>2, <1>7, <3>1, <4>1, <4>2 DEF OptionsClosed
    <3>3. pos <= i + 1
      <4>1. pos \in Nat /\ Len(T) \in Nat /\ i \in Nat /\ i < Len(T)
        BY <1>2, <3>2
      <4>2. pos = LineEnd(T, i - 1)
        BY <3>1
      <4> QED BY ONLY <4>1, <4>2 DEF LineEnd
    <3> QED BY ONLY <1>2, <2>1, <3>2, <3>3
  <2>3. /\ Append(Front(below), l) = below /\ l \in P /\ Front(below) \in Seq(P)
        /\ l = Place(l.file, l.pos)
    <3>1. Append(Front(below), l) = below /\ l \in P /\ Front(below) \in Seq(P)
      BY <1>2, <2>1, AppendFront
    <3> QED BY <3>1 DEF P, Place
  <2>4. q = [state |-> s, calls |-> below, opened |-> opened, phase |-> "running"]
    <3>1. Len(calls) > 1
      <4>1. Len(below) # 0
        BY <1>2, <2>1, EmptySeq
      <4> QED BY <1>4, <4>1
    <3>2. q = EndOfChunks(p)
      BY <1>3, <1>4, <1>5, <1>7, <2>1 DEF ProcessChunk
    <3>3. q = [p EXCEPT !.calls = Front(@)]
      BY <1>5, <3>1, <3>2 DEF EndOfChunks
    <3>4. p = [state |-> s, calls |-> calls, opened |-> opened, phase |-> "running"]
      BY <1>1 DEF calls
    <3>5. Front(calls) = below
      BY <1>4
    <3> QED BY ONLY <3>3, <3>4, <3>5
  <2>5. q.state = s /\ q.calls = below /\ q.opened = opened
    BY ONLY <2>4
  <2>6. o = Reader(c, l.file, l.pos, Front(below))
    <3>1. Obey(t, r) = Reader([r EXCEPT !.opt = NoOption], Last(r.below).file, Last(r.below).pos,
                              Front(r.below))
      BY <1>2, <1>7, <1>9, ObeyCases
    <3> QED BY <1>7, <3>1
  <2>7. o = Reader(s, l.file, l.pos, Front(below))
    <3>1. c = [file |-> f, pos |-> pos, below |-> below, args |-> s.args, opt |-> NoOption,
               waiting |-> s.waiting, runs |-> s.runs, phase |-> "running"]
      <4>1. r = [file |-> f, pos |-> pos, below |-> below, args |-> s.args, opt |-> s.opt,
                 waiting |-> s.waiting, runs |-> s.runs, phase |-> "running"]
        BY <1>1 DEF Reader
      <4> QED BY ONLY <4>1
    <3>2. c.args = s.args /\ c.opt = s.opt /\ c.waiting = s.waiting /\ c.runs = s.runs
      <4> HIDE DEF c
      <4> QED BY <2>2, <3>1
    <3> HIDE DEF c, l
    <3> QED BY ONLY <2>6, <3>2 DEF Reader
  <2> HIDE DEF l
  <2>8. o.file = l.file /\ o.pos = l.pos /\ o.below = Front(below)
    BY ONLY <2>7 DEF Reader
  <2>9. Append(o.below, Place(o.file, o.pos)) = below
    BY <2>3, <2>8
  <2>10. Waits(t, s, o.file, o.pos)
    BY <2>2 DEF Waits
  <2>11. Matches(t, rank, q, o)
    <3>1. o = Reader(s, o.file, o.pos, o.below)
      BY <2>7, <2>8
    <3> HIDE DEF Waits, Deep
    <3> QED BY <1>1, <1>2, <1>6, <2>4, <2>5, <2>9, <2>10, <3>1 DEF Matches
  <2>12. Moves(t, rank, r, o)
    BY <1>7, <2>1, <2>9 DEF Moves
  <2> QED BY <2>11, <2>12 DEF Follows
<1>10. CASE ~HasLine(t, r) /\ ~AtEnd(t, r)
  <2>1. o = r
    BY <1>2, <1>7, <1>10, ObeyCases
  <2>2. below = <<>> /\ ~(pos + 1 < Len(T))
    <3>1. ~(pos + 1 < Len(T)) /\ (below # <<>> => ~(pos + 1 = Len(T)) /\ ~(pos = Len(T)))
      BY <1>2, <1>7, <1>10 DEF HasLine, AtEnd
    <3> QED BY <1>2, <3>1
  <2>3. q = EndOfChunks(p)
    BY <1>3, <1>4, <1>5, <1>7, <2>2 DEF ProcessChunk
  <2>4. ~(Len(p.calls) > 1)
    <3>1. Len(below) = 0
      BY <2>2
    <3>2. Len(p.calls) = 1
      BY <1>4, <1>5, <3>1
    <3> QED BY ONLY <3>2
  <2>5. PICK ph \in {"error", "ended"} : q = [p EXCEPT !.phase = ph]
    BY <2>3, <2>4 DEF EndOfChunks
  <2>6. q.phase = ph /\ q.state = s
    BY ONLY <1>1, <2>5
  <2>7. q.phase # "running" /\ q.state.runs = r.runs
    BY <1>2, <2>6
  <2> QED BY <2>1, <2>7 DEF Follows
<1> QED BY <1>8, <1>9, <1>10

\* A reader that has ended stays as it is, and so does a replay.
LEMMA EndedStays ==
  ASSUME NEW t
  PROVE  /\ \A r : r.phase # "running" => Obey(t, r) = r
         /\ \A p : p.phase # "running" => ProcessChunk(t, p) = p
<1>1. ASSUME NEW r, r.phase # "running" PROVE Obey(t, r) = r
  BY <1>1 DEF Obey
<1>2. ASSUME NEW p, p.phase # "running" PROVE ProcessChunk(t, p) = p
  BY <1>2 DEF ProcessChunk
<1> QED BY <1>1, <1>2

\* Replay `p` is what the reader from the start of the main file comes to, or has
\* ended where that reader has nothing more to obey.
Tracks(t, rank, p) ==
  \E r : /\ Reached(Start, t, r)
         /\ \/ Matches(t, rank, p, r)
            \/ /\ p.phase # "running" /\ Obey(t, r) = r /\ p.state.runs = r.runs
               /\ r.phase # "running" => p.phase = r.phase

\* The driver and the reader start alike.
LEMMA StartMatches ==
  ASSUME NEW t, IsText(t), NEW rank, IsRank(t, rank)
  PROVE  Matches(t, rank, Replayed(t, Main, 0), Start)
<1>1. Replayed(t, Main, 0) = Persistent(t, Main, {}, NewSession.runs) /\ Main \in DOMAIN t
  BY ReplayedSteps DEF NewSession, IsText
<1>2. /\ NewSession.args = <<>> /\ NewSession.opt = NoOption /\ NewSession.waiting = FALSE
      /\ Start = Reader(NewSession, Main, 0, <<>>) /\ IsReader(t, Start)
  BY StartTyped DEF NewSession, Start
<1> QED BY <1>1, <1>2, FreshMatches

LEMMA ReplayTracks ==
  ASSUME NEW t, IsText(t), OptionsClosed(t), NEW rank, IsRank(t, rank), NEW n \in Nat
  PROVE  Tracks(t, rank, Replayed(t, Main, n))
<1> DEFINE R(i) == Replayed(t, Main, i)
           S == {i \in Nat : Tracks(t, rank, R(i))}
<1>1. 0 \in S
  <2>1. Matches(t, rank, R(0), Start)
    BY StartMatches
  <2>2. Reached(Start, t, Start)
    <3>1. Start = Onward(t, Start, 0) /\ 0 \in Nat
      BY OnwardSteps
    <3> QED BY <3>1 DEF Reached
  <2> HIDE DEF R
  <2> QED BY <2>1, <2>2 DEF Tracks
<1>2. ASSUME NEW i \in Nat, i \in S PROVE i + 1 \in S
  <2>1. R(i + 1) = ProcessChunk(t, R(i))
    BY ReplayedSteps
  <2> DEFINE p == R(i)
             q == R(i + 1)
  <2> HIDE DEF R
  <2>2. PICK r : /\ Reached(Start, t, r)
                 /\ \/ Matches(t, rank, p, r)
                    \/ /\ p.phase # "running" /\ Obey(t, r) = r /\ p.state.runs = r.runs
                       /\ r.phase # "running" => p.phase = r.phase
    BY <1>2 DEF Tracks
  <2> HIDE DEF p, q
  <2>3. CASE Matches(t, rank, p, r)
    <3> DEFINE o == Obey(t, r)
    <3>1. Follows(t, rank, r, q, o)
      BY <2>1, <2>3, ChunkFollows DEF p, q
    <3>2. Reached(Start, t, o)
      BY <2>2, ReachedNext
    <3>3. r.phase = "running"
      <4>1. r = Reader(p.state, r.file, r.pos, r.below)
        BY <2>3 DEF Matches
      <4> QED BY ONLY <4>1 DEF Reader
    <3>4. o.phase # "running" => Obey(t, o) = o
      BY EndedStays
    <3> HIDE DEF o
    <3>5. CASE Matches(t, rank, q, o)
      BY <3>2, <3>5 DEF Tracks, q
    <3>6. CASE q.phase # "running" /\ o.phase = q.phase /\ q.state.runs = o.runs
      BY <3>2, <3>4, <3>6 DEF Tracks, q
    <3>7. CASE q.phase # "running" /\ o = r /\ q.state.runs = r.runs
      <4>1. Obey(t, r) = r
        BY <3>7 DEF o
      <4> QED BY <2>2, <3>3, <3>7, <4>1 DEF Tracks, q
    <3> QED BY <3>1, <3>5, <3>6, <3>7 DEF Follows
  <2>4. CASE p.phase # "running"
    <3>1. q = p
      BY <2>1, <2>4, EndedStays DEF p, q
    <3> QED BY <1>2, <3>1 DEF p, q
  <2> QED BY <2>2, <2>3, <2>4
<1>3. Nat \subseteq S
  <2> HIDE DEF S
  <2> QED BY <1>1, <1>2, Induction
<1> QED BY <1>3

\* The replay of the main file ends, or comes back to the calls `below`.
Leaves(t, below) ==
  \E m \in Nat : LET p == Replayed(t, Main, m) IN
    p.phase # "running" \/ (below # <<>> /\ p.calls = below)

\* Every call of a file of so high a rank is left.
HighLeaves(t, rank, j) ==
  \A n \in Nat : \A r :
    Matches(t, rank, Replayed(t, Main, n), r) /\ rank[r.file] + j > MaxDepth => Leaves(t, r.below)

\* A call is left if those of higher rank are, and this one from any later line.
LEMMA NextLeaves ==
  ASSUME NEW t, IsText(t), OptionsClosed(t), NEW rank, IsRank(t, rank), NEW j \in Nat,
         HighLeaves(t, rank, j),
         NEW n \in Nat, NEW r, Matches(t, rank, Replayed(t, Main, n), r),
         rank[r.file] + (j + 1) > MaxDepth,
         \A m \in Nat : \A q : /\ Matches(t, rank, Replayed(t, Main, m), q)
                               /\ q.file = r.file /\ q.below = r.below /\ q.pos > r.pos
                               => Leaves(t, q.below)
  PROVE  Leaves(t, r.below)
<1> DEFINE R(i) == Replayed(t, Main, i)
           o == Obey(t, r)
<1>1. R(n + 1) = ProcessChunk(t, R(n)) /\ n + 1 \in Nat
  <2>1. \A i \in Nat : Replayed(t, Main, i + 1) = ProcessChunk(t, Replayed(t, Main, i))
    BY ReplayedSteps
  <2>2. n + 1 \in Nat
    OBVIOUS
  <2> QED BY ONLY <2>1, <2>2, n \in Nat
<1> HIDE DEF R
<1>2. Follows(t, rank, r, R(n + 1), o)
  BY <1>1, ChunkFollows DEF R
<1>3. CASE R(n + 1).phase # "running"
  BY <1>1, <1>3 DEF Leaves, R
<1>4. ASSUME Matches(t, rank, R(n + 1), o), Moves(t, rank, r, o) PROVE Leaves(t, r.below)
  <2>1. /\ r.file \in DOMAIN t /\ o.file \in DOMAIN t
        /\ rank[r.file] \in Nat /\ rank[o.file] \in Nat
    <3>1. \A x, p : Matches(t, rank, p, x) => x.file \in DOMAIN t
      <4> SUFFICES ASSUME NEW x, NEW p, Matches(t, rank, p, x) PROVE x.file \in DOMAIN t
        OBVIOUS
      <4>1. x = Reader(p.state, x.file, x.pos, x.below) /\ IsReader(t, x)
        BY DEF Matches
      <4>2. x.phase = "running"
        BY ONLY <4>1 DEF Reader
      <4> QED BY <4>1, <4>2 DEF IsReader
    <3>2. r.file \in DOMAIN t /\ o.file \in DOMAIN t
      BY <1>4, <3>1
    <3>3. \A f \in DOMAIN t : rank[f] \in 1..MaxDepth
      BY DEF IsRank
    <3> HIDE DEF o
    <3> QED BY ONLY <3>2, <3>3, DepthAssumption
  <2> HIDE DEF o
  <2>2. CASE o.file = r.file /\ o.below = r.below /\ o.pos > r.pos
    BY <1>1, <1>4, <2>2 DEF R
  <2>3. rank[r.file] < rank[o.file] => Leaves(t, o.below)
    <3> SUFFICES ASSUME rank[r.file] < rank[o.file] PROVE Leaves(t, o.below)
      OBVIOUS
    <3>1. rank[o.file] + j > MaxDepth
      BY <2>1, DepthAssumption
    <3> QED BY <1>1, <1>4, <3>1 DEF HighLeaves, R
  <2>4. CASE /\ \E e \in (r.pos + 1)..Len(t[r.file]) : o.below = Append(r.below, Place(r.file, e))
             /\ rank[r.file] < rank[o.file]
    <3>1. PICK e \in (r.pos + 1)..Len(t[r.file]) : o.below = Append(r.below, Place(r.file, e))
      BY <2>4
    <3>2. PICK m \in Nat : R(m).phase # "running" \/ (o.below # <<>> /\ R(m).calls = o.below)
      BY <2>3, <2>4 DEF Leaves, R
    <3>3. CASE R(m).phase # "running"
      BY <3>3 DEF Leaves, R
    <3>4. CASE R(m).phase = "running" /\ R(m).calls = o.below
      <4>1. PICK q : Matches(t, rank, R(m), q)
        BY <3>4, ReplayTracks DEF Tracks, R
      <4>2. /\ Append(q.below, Place(q.file, q.pos)) = Append(r.below, Place(r.file, e))
            /\ IsReader(t, q) /\ q.phase = "running" /\ IsReader(t, r) /\ r.phase = "running"
        <5>1. /\ R(m) = [state |-> R(m).state, calls |-> Append(q.below, Place(q.file, q.pos)),
                         opened |-> R(m).opened, phase |-> "running"]
              /\ q = Reader(R(m).state, q.file, q.pos, q.below) /\ IsReader(t, q)
          BY <4>1 DEF Matches
        <5>2. R(m).calls = Append(q.below, Place(q.file, q.pos)) /\ q.phase = "running"
          BY ONLY <5>1 DEF Reader
        <5>3. r = Reader(R(n).state, r.file, r.pos, r.below) /\ IsReader(t, r)
          BY DEF Matches, R
        <5>4. r.phase = "running"
          BY ONLY <5>3 DEF Reader
        <5> QED BY <3>1, <3>4, <5>1, <5>2, <5>3, <5>4
      <4>3. q.below = r.below /\ Place(q.file, q.pos) = Place(r.file, e) /\ r.pos \in Nat
        <5> DEFINE P == [file : DOMAIN t, pos : Nat]
                   x == Place(q.file, q.pos)
                   y == Place(r.file, e)
        <5>1. /\ r.file \in DOMAIN t /\ q.file \in DOMAIN t /\ r.below \in Seq(P) /\ q.below \in Seq(P)
              /\ q.pos \in 0..Len(t[q.file]) /\ r.pos \in 0..Len(t[r.file])
          BY <4>2 DEF IsReader, IsBelow
        <5>2. Len(t[q.file]) \in Nat /\ Len(t[r.file]) \in Nat
          BY <5>1, TextTyped
        <5>3. q.pos \in Nat /\ r.pos \in Nat /\ e \in Nat
          BY <5>1, <5>2
        <5>4. x \in P /\ y \in P
          BY <5>1, <5>3 DEF Place
        <5> HIDE DEF P, x, y
        <5>5. /\ Front(Append(q.below, x)) = q.below /\ Last(Append(q.below, x)) = x
              /\ Front(Append(r.below, y)) = r.below /\ Last(Append(r.below, y)) = y
          BY <5>1, <5>4, AppendLast
        <5>6. Append(q.below, x) = Append(r.below, y)
          BY <4>2 DEF x, y
        <5> QED BY <5>3, <5>5, <5>6 DEF x, y
      <4>4. q.file = r.file /\ q.pos = e
        BY ONLY <4>3 DEF Place
      <4>5. q.pos > r.pos
        BY <4>3, <4>4
      <4> QED BY <4>1, <4>3, <4>4, <4>5 DEF R
    <3> QED BY <3>2, <3>3, <3>4
  <2>5. CASE o.below = <<>> /\ rank[r.file] < rank[o.file]
    <3>1. PICK m \in Nat : R(m).phase # "running"
      BY <2>3, <2>5 DEF Leaves, R
    <3> QED BY <3>1 DEF Leaves, R
  <2>6. CASE r.below # <<>> /\ Append(o.below, Place(o.file, o.pos)) = r.below
    <3>1. R(n + 1) = [state |-> R(n + 1).state, calls |-> Append(o.below, Place(o.file, o.pos)),
                      opened |-> R(n + 1).opened, phase |-> "running"]
      BY <1>4 DEF Matches
    <3>2. R(n + 1).calls = r.below
      <4>1. R(n + 1).calls = Append(o.below, Place(o.file, o.pos))
        BY ONLY <3>1
      <4> QED BY <2>6, <4>1
    <3> QED BY <1>1, <2>6, <3>2 DEF Leaves, R
  <2> QED BY <1>4, <2>2, <2>4, <2>5, <2>6 DEF Moves
<1> HIDE DEF o
<1> QED BY <1>2, <1>3, <1>4 DEF Follows

\* A step of Induction over the ranks, and one over what is left of the file.
LEMMA HigherLeaves ==
  ASSUME NEW t, IsText(t), OptionsClosed(t), NEW rank, IsRank(t, rank), NEW j \in Nat,
         HighLeaves(t, rank, j)
  PROVE  HighLeaves(t, rank, j + 1)
<1> DEFINE R(n) == Replayed(t, Main, n)
           Here(n, r) == Matches(t, rank, R(n), r) /\ rank[r.file] + (j + 1) > MaxDepth
           Rest(r) == Len(t[r.file]) - r.pos
           S == {l \in Nat : \A n \in Nat : \A r : Here(n, r) /\ Rest(r) < l => Leaves(t, r.below)}
<1> HIDE DEF R
<1>1. ASSUME NEW n \in Nat, NEW r, Matches(t, rank, R(n), r)
      PROVE  Rest(r) \in Nat /\ r.pos \in Nat /\ Len(t[r.file]) \in Nat
  <2>1. r = Reader(R(n).state, r.file, r.pos, r.below) /\ IsReader(t, r)
    BY <1>1 DEF Matches
  <2>2. r.phase = "running"
    BY ONLY <2>1 DEF Reader
  <2>3. r.file \in DOMAIN t /\ r.pos \in 0..Len(t[r.file])
    BY <2>1, <2>2 DEF IsReader
  <2>4. Len(t[r.file]) \in Nat
    BY <2>3, TextTyped
  <2> QED BY ONLY <2>3, <2>4
<1>2. 0 \in S
  <2>1. ASSUME NEW n \in Nat, NEW r, Here(n, r), Rest(r) < 0 PROVE FALSE
    BY ONLY <1>1, <2>1
  <2> QED BY <2>1
<1>3. ASSUME NEW l \in Nat, l \in S PROVE l + 1 \in S
  <2>1. ASSUME NEW n \in Nat, NEW r, Here(n, r), Rest(r) < l + 1 PROVE Leaves(t, r.below)
    <3>1. ASSUME NEW m \in Nat, NEW q, Matches(t, rank, R(m), q),
                 q.file = r.file, q.below = r.below, q.pos > r.pos
          PROVE  Leaves(t, q.below)
      <4>1. Here(m, q)
        BY <2>1, <3>1
      <4>2. q.pos \in Nat /\ r.pos \in Nat /\ Len(t[r.file]) \in Nat
        BY <1>1, <2>1, <3>1
      <4>3. Rest(q) = Len(t[r.file]) - q.pos /\ q.pos > r.pos /\ Len(t[r.file]) - r.pos < l + 1
        BY ONLY <2>1, <3>1
      <4>4. Rest(q) < l
        <5>1. ASSUME NEW len \in Nat, NEW a \in Nat, NEW b \in Nat, b > a, len - a < l + 1
              PROVE  len - b < l
          BY ONLY <5>1, l \in Nat
        <5> HIDE DEF Rest
        <5> QED BY ONLY <4>2, <4>3, <5>1
      <4> HIDE DEF Here, Rest
      <4> QED BY <1>3, <4>1, <4>4
    <3>2. Matches(t, rank, R(n), r) /\ rank[r.file] + (j + 1) > MaxDepth
      BY <2>1
    <3> QED BY <3>1, <3>2, NextLeaves DEF R
  <2>2. l + 1 \in Nat
    OBVIOUS
  <2> HIDE DEF Here, Rest
  <2> QED BY <2>1, <2>2
<1>4. Nat \subseteq S
  <2> HIDE DEF S
  <2> QED BY <1>2, <1>3, Induction
<1>5. ASSUME NEW n \in Nat, NEW r, Here(n, r) PROVE Leaves(t, r.below)
  <2>1. Rest(r) \in Nat
    BY <1>1, <1>5
  <2> HIDE DEF Here, Rest
  <2>2. Rest(r) + 1 \in S /\ Rest(r) < Rest(r) + 1
    BY <1>4, <2>1
  <2> QED BY <1>5, <2>2
<1> QED BY <1>5 DEF HighLeaves, R

\* The default driver comes to an end.
LEMMA ReplayEnds ==
  ASSUME NEW t, IsText(t), OptionsClosed(t), NEW rank, IsRank(t, rank)
  PROVE  \E n \in Nat : Replayed(t, Main, n).phase # "running"
<1> DEFINE R(n) == Replayed(t, Main, n)
           S == {j \in Nat : HighLeaves(t, rank, j)}
<1>0. \A f \in DOMAIN t : rank[f] \in 1..MaxDepth
  BY DEF IsRank
<1>1. 0 \in S
  <2>1. ASSUME NEW n \in Nat, NEW r, Matches(t, rank, R(n), r), rank[r.file] + 0 > MaxDepth
        PROVE  FALSE
    <3>1. r = Reader(R(n).state, r.file, r.pos, r.below) /\ IsReader(t, r)
      BY <2>1 DEF Matches
    <3>2. r.phase = "running"
      BY ONLY <3>1 DEF Reader
    <3>3. r.file \in DOMAIN t
      BY <3>1, <3>2 DEF IsReader
    <3> HIDE DEF R
    <3> QED BY <1>0, <2>1, <3>3, DepthAssumption
  <2> QED BY <2>1 DEF HighLeaves
<1>2. ASSUME NEW j \in Nat, j \in S PROVE j + 1 \in S
  BY <1>2, HigherLeaves
<1>3. Nat \subseteq S
  <2> HIDE DEF S
  <2> QED BY <1>1, <1>2, Induction
<1>4. Matches(t, rank, R(0), Start)
  BY StartMatches
<1>5. Start.file = Main /\ Start.below = <<>> /\ Main \in DOMAIN t
  BY DEF Start, Reader, IsText
<1>6. rank[Start.file] + MaxDepth > MaxDepth /\ HighLeaves(t, rank, MaxDepth)
  BY <1>0, <1>3, <1>5, DepthAssumption
<1>7. Leaves(t, Start.below)
  BY <1>4, <1>6 DEF HighLeaves
<1> QED BY <1>5, <1>7 DEF Leaves

\* What is assumed of the files in the end holds of what is written now.
LEMMA WrittenRanked ==
  ASSUME \A t \in Scripts : MainUnnamed(t) /\ EndedIncludes(t), Placed,
         Ranked(text), OptionsClosed(text)
  PROVE  Ranked(WrittenSoFar) /\ OptionsClosed(WrittenSoFar)
<1> DEFINE w == WrittenSoFar
<1>1. w = Written(text, written) /\ text \in Scripts /\ written \in 0..Len(text[Main])
  BY DEF WrittenSoFar, Written, Placed
<1> HIDE DEF w
<1>2. /\ IsText(text) /\ IsText(w) /\ DOMAIN w = DOMAIN text /\ Len(text[Main]) \in Nat
      /\ \A f \in DOMAIN text \ {Main} : w[f] = text[f]
      /\ Len(w[Main]) = written /\ \A i \in 1..written : w[Main][i] = text[Main][i]
  BY <1>1, WrittenText
<1>3. OptionsClosed(w)
  BY <1>2 DEF OptionsClosed
<1>4. ASSUME NEW f \in DOMAIN text PROVE Named(w, f) \subseteq Named(text, f)
  <2>1. CASE f = Main
    <3>1. /\ DOMAIN text[Main] = 1..Len(text[Main]) /\ DOMAIN w[Main] = 1..written
          /\ written <= Len(text[Main]) /\ written \in Nat
      BY <1>1, <1>2, <1>4, <2>1, TextTyped
    <3>2. \A i \in DOMAIN w[Main] : i \in DOMAIN text[Main] /\ w[Main][i] = text[Main][i]
      BY <1>2, <3>1
    <3> QED BY <2>1, <3>2 DEF Named
  <2>2. CASE f # Main
    BY <1>2, <2>2 DEF Named
  <2> QED BY <2>1, <2>2
<1>5. PICK rank \in [DOMAIN text -> 1..MaxDepth] : IsRank(text, rank)
  BY DEF Ranked
<1>6. IsRank(w, rank)
  BY <1>2, <1>4, <1>5 DEF IsRank
<1>7. Ranked(w)
  BY <1>2, <1>5, <1>6 DEF Ranked
<1> QED BY <1>3, <1>7 DEF w

\* The loop is where the reader is that the replay follows to its end.
LEMMA AgreeNow ==
  ASSUME \A t \in Scripts : /\ MainUnnamed(t) /\ EndedIncludes(t)
                            /\ Ranked(t) /\ OptionsClosed(t),
         Counts = Nat, LoopInv
  PROVE  DriversAgree
<1> DEFINE w == WrittenSoFar
           a == Abstract
<1>1. IsText(w) /\ Ranked(w) /\ OptionsClosed(w) /\ Reached(Start, w, a)
  <2>1. text \in Scripts /\ Placed /\ Reached(Start, w, a)
    BY DEF LoopInv, Placed
  <2> QED BY <2>1, WrittenNow, WrittenRanked DEF Grows
<1>2. a.runs = session.runs /\ (phase # "running" => a.phase = phase)
  <2>1. a = AbstractOf(host, sources, session, phase)
    BY AbstractIs
  <2> HIDE DEF a
  <2> QED BY <2>1 DEF AbstractOf, Reader, Ended
<1> HIDE DEF w, a
<1>3. PICK rank : IsRank(w, rank)
  BY <1>1 DEF Ranked
<1>4. PICK n \in Nat : Replayed(w, Main, n).phase # "running"
  BY <1>1, <1>3, ReplayEnds
<1> DEFINE p == Replayed(w, Main, n)
<1>5. PICK r : /\ Reached(Start, w, r) /\ Obey(w, r) = r /\ p.state.runs = r.runs
               /\ r.phase # "running" => p.phase = r.phase
  <2>1. Tracks(w, rank, p)
    BY <1>1, <1>3, ReplayTracks
  <2>2. p.phase # "running"
    BY <1>4
  <2> HIDE DEF p
  <2>3. ASSUME NEW r, Matches(w, rank, p, r) PROVE FALSE
    <3>1. p = [state |-> p.state, calls |-> Append(r.below, Place(r.file, r.pos)),
               opened |-> p.opened, phase |-> "running"]
      BY <2>3 DEF Matches
    <3>2. p.phase = "running"
      BY ONLY <3>1
    <3> QED BY <2>2, <3>2
  <2> QED BY <2>1, <2>3 DEF Tracks
<1> HIDE DEF p
<1>6. PICK j \in Nat, k \in Nat : a = Onward(w, Start, j) /\ r = Onward(w, Start, k)
  BY <1>1, <1>5 DEF Reached
<1>7. IsReader(w, Start)
  BY <1>1, StartTyped
<1>8. Begins(a.runs, r.runs)
  <2>1. CASE j <= k
    BY <1>1, <1>6, <1>7, <2>1, OnwardBegins
  <2>2. CASE k <= j
    <3>1. a = r
      BY <1>1, <1>5, <1>6, <1>7, <2>2, OnwardBegins
    <3>2. k <= k
      OBVIOUS
    <3>3. Begins(r.runs, r.runs)
      BY <1>1, <1>6, <1>7, <3>2, OnwardBegins
    <3> QED BY <3>1, <3>3
  <2>3. j <= k \/ k <= j
    OBVIOUS
  <2> QED BY <2>1, <2>2, <2>3
<1>9. a.phase # "running" => r = a
  <2> SUFFICES ASSUME a.phase # "running" PROVE r = a
    OBVIOUS
  <2>1. Obey(w, a) = a
    BY EndedStays
  <2>2. CASE j <= k
    BY <1>1, <1>6, <1>7, <2>1, <2>2, OnwardBegins
  <2>3. CASE k <= j
    BY <1>1, <1>5, <1>6, <1>7, <2>3, OnwardBegins
  <2>4. j <= k \/ k <= j
    OBVIOUS
  <2> QED BY <2>2, <2>3, <2>4
<1>10. IsPrefix(session.runs, p.state.runs)
  BY <1>2, <1>5, <1>8, BeginsIsPrefix
<1>11. phase # "running" => session.runs = p.state.runs /\ phase = p.phase
  BY <1>2, <1>5, <1>9
<1> QED BY <1>4, <1>10, <1>11 DEF DriversAgree, p, w

-----------------------------------------------------------------------------
(* The theorems. *)

\* The session resumes a parent exactly when the host reads from it again
\* (FileStayOpenInputHost.push_argfile and return_from_argfile, finish_argfile).
THEOREM HostAndSessionAgree ==
  ASSUME \A t \in Scripts : MainUnnamed(t) /\ EndedIncludes(t)
  PROVE  Spec => []StacksAgree
<1>1. LoopInv => StacksAgree
  BY DEF LoopInv, Placed, Consistent, Coherent, Kept, StacksAgree
<1>2. LoopInv /\ [Next]_vars => LoopInv'
  BY StepReads
<1>3. Init => LoopInv
  BY InitLoopInv
<1> QED BY <1>1, <1>2, <1>3, PTL DEF Spec

\* The types of the loop's state; no source is read past what its file holds
\* (run_stay_open_process_loop).
THEOREM LoopTyped ==
  ASSUME \A t \in Scripts : MainUnnamed(t) /\ EndedIncludes(t)
  PROVE  Spec => []TypeOK
<1>1. LoopInv => TypeOK
  <2> SUFFICES ASSUME LoopInv PROVE TypeOK
    OBVIOUS
  <2>1. session.opt \in ValueOptions \cup {NoOption} /\ session.status \in Statuses
    BY DEF LoopInv, Placed, Consistent, IsSession
  <2>2. \A i \in DOMAIN sources : Source(sources[i])
    BY LenProperties DEF LoopInv, Placed
  <2> QED BY <2>1, <2>2 DEF LoopInv, Placed, TypeOK, Statuses, SleepInv
<1>2. LoopInv /\ [Next]_vars => LoopInv'
  BY StepReads
<1>3. Init => LoopInv
  BY InitLoopInv
<1> QED BY <1>1, <1>2, <1>3, PTL DEF Spec

\* The loop refines the reader of StayOpenLines: however the chunks fall and the
\* client writes, every step of feed, finish_argfile and poll_eof is that the reader
\* obeys some lines more, in order, each once, and the same command comes of it.
THEOREM ReadsLineByLine ==
  ASSUME \A t \in Scripts : MainUnnamed(t) /\ EndedIncludes(t), Counts = Nat
  PROVE  Spec => LineByLine
<1>1. Init => LoopInv /\ Abstract = Reader(NewSession, Main, 0, <<>>)
  BY InitLoopInv DEF Start
<1>2. LoopInv /\ [Next]_vars => LoopInv' /\ [ObeysMore]_Abstract
  <2> SUFFICES ASSUME LoopInv, [Next]_vars PROVE LoopInv' /\ ObeysMore
    OBVIOUS
  <2>1. PICK n \in Counts : Abstract' = Onward(text, Abstract, n)
    BY StepReads DEF Reached
  <2> QED BY <2>1, StepReads DEF ObeysMore
<1> QED BY <1>1, <1>2, PTL DEF Spec, LineByLine

\* No command runs before its line is there: at every moment the session is a reader of
\* what the client has written until then, never of what it writes later
\* (FileStayOpenInputHost.read_next, run_stay_open_process_loop).
THEOREM ReadsWhatIsWritten ==
  ASSUME \A t \in Scripts : MainUnnamed(t) /\ EndedIncludes(t)
  PROVE  Spec => []Reached(Start, WrittenSoFar, Abstract)
<1>1. LoopInv => Reached(Start, WrittenSoFar, Abstract)
  BY DEF LoopInv
<1>2. LoopInv /\ [Next]_vars => LoopInv'
  BY StepReads
<1>3. Init => LoopInv
  BY InitLoopInv
<1> QED BY <1>1, <1>2, <1>3, PTL DEF Spec

\* Whenever the default driver is started it comes to an end, and it runs the commands
\* the loop runs: those of the loop so far first, and once the loop has ended the same
\* ones, with the same end (run_top_level_stay_open_driver, run_stay_open_process_loop).
THEOREM DriversRunAlike ==
  ASSUME \A t \in Scripts : /\ MainUnnamed(t) /\ EndedIncludes(t)
                            /\ Ranked(t) /\ OptionsClosed(t),
         Counts = Nat
  PROVE  Spec => []DriversAgree
<1>1. LoopInv => DriversAgree
  BY AgreeNow
<1>2. LoopInv /\ [Next]_vars => LoopInv'
  BY StepReads
<1>3. Init => LoopInv
  BY InitLoopInv
<1> QED BY <1>1, <1>2, <1>3, PTL DEF Spec
=============================================================================
