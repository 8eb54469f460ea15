------------------------- MODULE JsonLineServerProofs -------------------------
(***************************************************************************)
(* For any number of connections and requests, crashes and hang-ups: the   *)
(* process's streams are its own whenever the capture lock is free, and    *)
(* what the responses answer, and whose output they hold.                  *)
(***************************************************************************)
EXTENDS JsonLineServer, TLAPS

-----------------------------------------------------------------------------
(* The streams. *)

Holding == {"redirect_stdout", "redirect_stderr", "main", "restore_stderr",
            "restore_stdout", "release"}

\* What the steps move: the type invariant's part that the argument needs.
Shape ==
  /\ pc \in [Conns -> Steps]
  /\ lock \in Targets
  /\ saved \in [Conns -> [out : Targets, err : Targets]]

\* A thread is between Acquire and Release exactly while it holds the lock.
HeldByOne == \A c \in Conns : pc[c] \in Holding <=> lock = c

\* Where the streams lead, by how far the holder has got.
StreamsFollow ==
  /\ lock = Console => stdout = Console /\ stderr = Console
  /\ \A c \in Conns : lock = c =>
       /\ pc[c] \in {"redirect_stdout", "release"} => stdout = Console /\ stderr = Console
       /\ pc[c] \in {"redirect_stderr", "restore_stdout"} =>
            stdout = c /\ stderr = Console /\ saved[c].out = Console
       /\ pc[c] \in {"main", "restore_stderr"} =>
            /\ stdout = c /\ stderr = c
            /\ saved[c] = [out |-> Console, err |-> Console]

StreamsInv == Shape /\ HeldByOne /\ StreamsFollow

LEMMA StreamsInit == Init => StreamsInv
BY ServerAssumption DEF Init, StreamsInv, Shape, HeldByOne, StreamsFollow, Steps, Targets, Holding

\* A thread that takes a step outside the captured section disturbs nothing.
LEMMA Outside ==
  ASSUME StreamsInv, NEW c \in Conns, NEW step \in Steps \ Holding,
         pc[c] \notin Holding, Goto(c, step), UNCHANGED streams
  PROVE  StreamsInv'
BY ServerAssumption
   DEF StreamsInv, Shape, HeldByOne, StreamsFollow, Goto, streams, Targets

\* A line is refused with a response, or passed on to be run or to be raised about.
Refused(c) ==
  LET r == Request(c)' IN
  \E step \in {"closed", "reading"} : Write(c, step, r, FALSE, <<>>, <<r>>)
PassedOn(c) == (Goto(c, "acquire") \/ Goto(c, "raising")) /\ UNCHANGED replies

LEMMA LineRead ==
  ASSUME NEW c, ReadLine(c)
  PROVE  Refused(c) \/ PassedOn(c)
BY DEF ReadLine, Refused, PassedOn

LEMMA WriteGoes ==
  ASSUME NEW c, NEW step, NEW of, NEW ok, NEW o, NEW e, Write(c, step, of, ok, o, e)
  PROVE  Goto(c, step) \/ Goto(c, "raising")
BY DEF Write

LEMMA StreamsNext == StreamsInv /\ [Next]_vars => StreamsInv'
<1> SUFFICES ASSUME StreamsInv, [Next]_vars PROVE StreamsInv'
  OBVIOUS
<1> USE ServerAssumption
<1>1. CASE UNCHANGED vars
  BY <1>1 DEF vars, StreamsInv, Shape, HeldByOne, StreamsFollow
<1>2. ASSUME NEW c \in Conns, Send(c) \/ HangUp(c) PROVE StreamsInv'
  BY <1>2 DEF Send, HangUp, streams, StreamsInv, Shape, HeldByOne, StreamsFollow
<1>3. ASSUME NEW c \in Conns, Thread(c) PROVE StreamsInv'
  <2>1. CASE ReadLine(c)
    <3>1. PICK step \in {"closed", "reading", "acquire", "raising"} : Goto(c, step)
      BY <2>1, LineRead, WriteGoes DEF Refused, PassedOn
    <3>2. step \in Steps \ Holding /\ pc[c] \notin Holding /\ UNCHANGED streams
      BY <2>1 DEF ReadLine, Steps, Holding
    <3> QED BY <3>1, <3>2, Outside
  <2>2. CASE ReadEnd(c) \/ ReadTimeout(c)
    <3>1. PICK step \in {"closed", "raising"} : Goto(c, step)
      BY <2>2, WriteGoes DEF ReadEnd, ReadTimeout
    <3>2. step \in Steps \ Holding /\ pc[c] \notin Holding /\ UNCHANGED streams
      BY <2>2 DEF ReadEnd, ReadTimeout, Steps, Holding
    <3> QED BY <3>1, <3>2, Outside
  <2>3. CASE Respond(c) \/ HandleError(c) \/ ShutDown(c)
    <3>1. PICK step \in {"reading", "raising", "closing", "closed"} : Goto(c, step)
      BY <2>3, WriteGoes DEF Respond, HandleError, ShutDown
    <3>2. step \in Steps \ Holding /\ pc[c] \notin Holding /\ UNCHANGED streams
      BY <2>3 DEF Respond, HandleError, ShutDown, Steps, Holding
    <3> QED BY <3>1, <3>2, Outside
  <2> USE DEF StreamsInv, Shape, HeldByOne, StreamsFollow, Steps, Holding, Targets, Goto, streams
  <2>4. CASE Acquire(c)
    BY <2>4 DEF Acquire
  <2>5. CASE RedirectStdout(c)
    BY <2>5 DEF RedirectStdout
  <2>6. CASE RedirectStderr(c)
    BY <2>6 DEF RedirectStderr
  <2>7. CASE Main(c)
    BY <2>7 DEF Main
  <2>8. CASE RestoreStderr(c)
    BY <2>8 DEF RestoreStderr
  <2>9. CASE RestoreStdout(c)
    BY <2>9 DEF RestoreStdout
  <2>10. CASE Release(c)
    BY <2>10 DEF Release, AfterMain
  <2> QED BY <1>3, <2>1, <2>2, <2>3, <2>4, <2>5, <2>6, <2>7, <2>8, <2>9, <2>10 DEF Thread
<1> QED BY <1>1, <1>2, <1>3 DEF Next

LEMMA StreamsSafe == StreamsInv => StreamsRestored
<1> SUFFICES ASSUME StreamsInv PROVE StreamsRestored
  OBVIOUS
<1>1. CASE lock = Console
  BY <1>1 DEF StreamsInv, StreamsFollow, StreamsRestored
<1>2. CASE lock \in Conns
  <2>1. pc[lock] \in Holding
    BY <1>2 DEF StreamsInv, HeldByOne
  <2> QED BY <1>2, <2>1, ServerAssumption DEF StreamsInv, StreamsFollow, StreamsRestored, Holding
<1> QED BY <1>1, <1>2 DEF StreamsInv, Shape, Targets

\* While nobody holds the capture lock the process's streams are its own, and a
\* holder has redirected them to no buffer but its own, whichever commands raise
\* and whichever clients go away (_run_public_cli_captured).
THEOREM StreamsAlwaysRestored == Spec => []StreamsRestored
<1>1. Spec => []StreamsInv
  BY StreamsInit, StreamsNext, PTL DEF Spec
<1> QED BY <1>1, StreamsSafe, PTL

-----------------------------------------------------------------------------
(* The requests and the responses. *)

Asked == [conn : Conns, number : Nat]
Responses == [of : Asked, ok : BOOLEAN, out : Seq(Asked), err : Seq(Asked)]

Types ==
  /\ pc \in [Conns -> Steps] /\ kind \in [Conns -> Kinds] /\ gone \in [Conns -> BOOLEAN]
  /\ sent \in [Conns -> 0..MaxRequests] /\ read \in [Conns -> Nat]
  /\ out \in [Conns -> Seq(Asked)] /\ err \in [Conns -> Seq(Asked)]
  /\ replies \in [Conns -> Seq(Responses)]
  /\ {lock, stdout, stderr} \subseteq Targets
  /\ saved \in [Conns -> [out : Targets, err : Targets]]

LEMMA TypesInit == Init => Types
BY ServerAssumption DEF Init, Types, Steps, Targets

LEMMA RequestType ==
  ASSUME Types, NEW c \in Conns
  PROVE  Request(c) \in Asked
BY DEF Types, Request, Asked

LEMMA WriteTypes ==
  ASSUME Types, NEW c \in Conns, NEW step \in Steps, NEW of \in Asked, NEW ok \in BOOLEAN,
         NEW o \in Seq(Asked), NEW e \in Seq(Asked), Write(c, step, of, ok, o, e)
  PROVE  /\ pc' \in [Conns -> Steps]
         /\ replies' \in [Conns -> Seq(Responses)]
<1>1. [of |-> of, ok |-> ok, out |-> o, err |-> e] \in Responses
  BY DEF Responses
<1>2. pc' \in [Conns -> Steps]
  BY DEF Write, Goto, Types, Steps
<1>3. CASE Reply(c, of, ok, o, e)
  <2>1. replies[c] \in Seq(Responses)
    BY DEF Types
  <2>2. Append(replies[c], [of |-> of, ok |-> ok, out |-> o, err |-> e]) \in Seq(Responses)
    BY <1>1, <2>1
  <2> QED BY <1>2, <1>3, <2>2 DEF Reply, Types
<1>4. CASE UNCHANGED replies
  BY <1>2, <1>4 DEF Types
<1> QED BY <1>3, <1>4 DEF Write

LEMMA EmitTypes ==
  ASSUME NEW buffer \in [Conns -> Seq(Asked)], NEW target \in Targets, NEW r \in Asked
  PROVE  Emit(buffer, target, r) \in [Conns -> Seq(Asked)]
BY DEF Emit, Targets

LEMMA TypesNext == Types /\ [Next]_vars => Types'
<1> SUFFICES ASSUME Types, [Next]_vars PROVE Types'
  OBVIOUS
<1>1. CASE UNCHANGED vars
  BY <1>1 DEF vars, Types
<1>2. ASSUME NEW c \in Conns, Send(c) \/ HangUp(c) PROVE Types'
  <2>1. CASE Send(c)
    <3>1. sent' \in [Conns -> 0..MaxRequests]
      BY <2>1, ServerAssumption DEF Send, Types
    <3> QED BY <2>1, <3>1 DEF Send, streams, buffers, reads, Types
  <2>2. CASE HangUp(c)
    BY <2>2 DEF HangUp, streams, buffers, reads, Types
  <2> QED BY <1>2, <2>1, <2>2
<1>3. ASSUME NEW c \in Conns, Thread(c) PROVE Types'
  <2> DEFINE r == Request(c)
  <2>0. r \in Asked /\ <<r>> \in Seq(Asked) /\ <<>> \in Seq(Asked)
    BY RequestType
  <2>1. CASE ReadLine(c)
    <3>0. \/ UNCHANGED kind
          \/ \E k \in Kinds : kind' = [kind EXCEPT ![c] = k]
      BY <2>1 DEF ReadLine
    <3>1. read' \in [Conns -> Nat] /\ kind' \in [Conns -> Kinds]
      <4>1. read' = [read EXCEPT ![c] = @ + 1] /\ read \in [Conns -> Nat]
        BY <2>1 DEF ReadLine, Types
      <4>2. kind \in [Conns -> Kinds]
        BY DEF Types
      <4>3. read' \in [Conns -> Nat]
        BY ONLY <4>1
      <4>4. kind' \in [Conns -> Kinds]
        BY ONLY <3>0, <4>2
      <4> QED BY <4>3, <4>4
    <3>2. Request(c)' \in Asked
      BY <3>1 DEF Request, Asked
    <3>3. <<Request(c)'>> \in Seq(Asked)
      BY <3>2
    <3>4. pc' \in [Conns -> Steps] /\ replies' \in [Conns -> Seq(Responses)]
      <4>1. CASE Refused(c)
        BY <2>0, <3>2, <3>3, <4>1, WriteTypes DEF Refused, Steps
      <4>2. CASE PassedOn(c)
        BY <4>2 DEF PassedOn, Goto, Types, Steps
      <4> QED BY <2>1, <4>1, <4>2, LineRead
    <3> QED BY <2>1, <3>1, <3>4 DEF ReadLine, clients, streams, buffers, Types
  <2>2. CASE ReadEnd(c)
    BY <2>2 DEF ReadEnd, Goto, clients, reads, streams, buffers, Types, Steps
  <2>3. CASE ReadTimeout(c)
    <3> DEFINE none == [conn |-> c, number |-> 0]
    <3>1. none \in Asked /\ <<none>> \in Seq(Asked)
      BY DEF Asked
    <3>2. pc' \in [Conns -> Steps] /\ replies' \in [Conns -> Seq(Responses)]
      BY <2>3, <2>0, <3>1, WriteTypes DEF ReadTimeout, Steps
    <3> QED BY <2>3, <3>2 DEF ReadTimeout, clients, reads, streams, buffers, Types
  <2> DEFINE Kept == UNCHANGED <<sent, gone, read, kind, out, err, replies>>
  <2>4. CASE Acquire(c) \/ RedirectStdout(c) \/ RedirectStderr(c) \/ RestoreStderr(c)
             \/ RestoreStdout(c) \/ Release(c)
    <3>1. Kept
      BY <2>4 DEF Acquire, RedirectStdout, RedirectStderr, RestoreStderr, RestoreStdout, Release,
                  clients, reads, buffers
    <3>2. pc' \in [Conns -> Steps]
      BY <2>4 DEF Acquire, RedirectStdout, RedirectStderr, RestoreStderr, RestoreStdout, Release,
                  AfterMain, Goto, Types, Steps
    <3>3. saved[c].out \in Targets /\ saved[c].err \in Targets
      BY DEF Types
    <3>4. {lock', stdout', stderr'} \subseteq Targets
      BY <2>4, <3>3 DEF Acquire, RedirectStdout, RedirectStderr, RestoreStderr, RestoreStdout,
                        Release, Types, Targets
    <3>5. saved' \in [Conns -> [out : Targets, err : Targets]]
      <4> DEFINE S == [out : Targets, err : Targets]
      <4>1. saved \in [Conns -> S] /\ stdout \in Targets /\ stderr \in Targets
        BY DEF Types
      <4>2. /\ saved[c] \in S
            /\ \A t \in Targets : /\ [saved[c] EXCEPT !.out = t] \in S
                                 /\ [saved[c] EXCEPT !.err = t] \in S
        BY ONLY <4>1, c \in Conns
      <4> HIDE DEF S
      <4>3. \/ saved' = saved
            \/ saved' = [saved EXCEPT ![c] = [saved[c] EXCEPT !.out = stdout]]
            \/ saved' = [saved EXCEPT ![c] = [saved[c] EXCEPT !.err = stderr]]
        BY <2>4 DEF Acquire, RedirectStdout, RedirectStderr, RestoreStderr, RestoreStdout, Release
      <4>4. saved' \in [Conns -> S]
        BY ONLY <4>1, <4>2, <4>3
      <4> QED BY <4>4 DEF S
    <3> QED BY <3>1, <3>2, <3>4, <3>5 DEF Types
  <2>5. CASE Main(c)
    <3>1. out' \in [Conns -> Seq(Asked)] /\ err' \in [Conns -> Seq(Asked)]
      BY <2>5, <2>0, EmitTypes DEF Main, Types
    <3> QED BY <2>5, <3>1 DEF Main, Goto, clients, reads, streams, Types, Steps
  <2>6. CASE Respond(c)
    <3>1. out[c] \in Seq(Asked) /\ err[c] \in Seq(Asked)
      BY DEF Types
    <3>2. pc' \in [Conns -> Steps] /\ replies' \in [Conns -> Seq(Responses)]
      BY <2>6, <2>0, <3>1, WriteTypes DEF Respond, Steps
    <3>3. out' \in [Conns -> Seq(Asked)] /\ err' \in [Conns -> Seq(Asked)]
      BY <2>6, <2>0 DEF Respond, Types
    <3> QED BY <2>6, <3>2, <3>3 DEF Respond, clients, reads, streams, Types
  <2>7. CASE HandleError(c)
    <3>1. err' \in [Conns -> Seq(Asked)]
      BY <2>7, <2>0, EmitTypes DEF HandleError, Types
    <3> QED BY <2>7, <3>1 DEF HandleError, Goto, clients, reads, streams, Types, Steps
  <2>8. CASE ShutDown(c)
    BY <2>8 DEF ShutDown, Goto, clients, reads, streams, buffers, Types, Steps
  <2> QED BY <1>3, <2>1, <2>2, <2>3, <2>4, <2>5, <2>6, <2>7, <2>8 DEF Thread
<1> QED BY <1>1, <1>2, <1>3 DEF Next

-----------------------------------------------------------------------------
\* What a step of one thread leaves alone.
LEMMA OthersKept ==
  ASSUME Types, NEW c \in Conns, Thread(c), NEW d \in Conns \ {c}
  PROVE  /\ pc'[d] = pc[d] /\ read'[d] = read[d] /\ sent'[d] = sent[d] /\ replies'[d] = replies[d]
<1>1. ASSUME NEW step, NEW of, NEW ok, NEW o, NEW e, Write(c, step, of, ok, o, e)
      PROVE  pc'[d] = pc[d] /\ replies'[d] = replies[d]
  BY <1>1 DEF Write, Reply, Goto, Types
<1>2. CASE ReadLine(c)
  <2>1. pc'[d] = pc[d] /\ replies'[d] = replies[d]
    BY <1>1, <1>2 DEF ReadLine, Goto, Types
  <2> QED BY <1>2, <2>1 DEF ReadLine, clients, Types
<1>3. CASE ReadTimeout(c)
  BY <1>1, <1>3 DEF ReadTimeout, clients, reads
<1>4. CASE Respond(c)
  BY <1>1, <1>4 DEF Respond, clients, reads
<1>5. CASE ReadEnd(c) \/ Main(c) \/ Release(c) \/ HandleError(c) \/ ShutDown(c)
  BY <1>5 DEF ReadEnd, Main, Release, HandleError, ShutDown, Goto, clients, reads, Types
<1>6. CASE \/ Acquire(c) \/ RedirectStdout(c) \/ RedirectStderr(c)
          \/ RestoreStderr(c) \/ RestoreStdout(c)
  BY <1>6 DEF Acquire, RedirectStdout, RedirectStderr, RestoreStderr, RestoreStdout, Goto,
              clients, reads, Types
<1> QED BY <1>2, <1>3, <1>4, <1>5, <1>6 DEF Thread

LEMMA WriteAnswers ==
  ASSUME Types, NEW c \in Conns, NEW step, NEW of, NEW ok, NEW o, NEW e,
         Write(c, step, of, ok, o, e)
  PROVE  \/ /\ pc'[c] = step
            /\ replies'[c] = Append(replies[c], [of |-> of, ok |-> ok, out |-> o, err |-> e])
         \/ pc'[c] = "raising" /\ replies'[c] = replies[c]
BY DEF Write, Reply, Goto, Types

-----------------------------------------------------------------------------
\* The order of the responses.

BeforeMain == {"acquire", "redirect_stdout", "redirect_stderr", "main"}
AfterIt == {"restore_stderr", "restore_stdout", "release", "respond"}

\* One response for each request but the one the thread is at.
Counted(c) ==
  /\ read[c] <= sent[c]
  /\ pc[c] = "reading" => Len(replies[c]) = read[c]
  /\ pc[c] \in BeforeMain \cup AfterIt => Len(replies[c]) = read[c] - 1
  /\ pc[c] \in {"raising", "closing", "closed"} => Len(replies[c]) \in (read[c] - 1)..(read[c] + 1)

\* The number of a response is its place, but for the last of a thread that is done.
Numbered(c) ==
  \A i \in DOMAIN replies[c] :
    /\ replies[c][i].of.conn = c
    /\ \/ replies[c][i].of.number = i
       \/ replies[c][i].of.number = 0 /\ i = Len(replies[c]) /\ pc[c] = "closed"

OrderInv == Types /\ \A c \in Conns : Counted(c) /\ Numbered(c)

LEMMA OrderInit == Init => OrderInv
<1> SUFFICES ASSUME Init PROVE OrderInv
  OBVIOUS
<1>1. ASSUME NEW c \in Conns PROVE Counted(c) /\ Numbered(c)
  <2>1. /\ pc[c] = "reading" /\ read[c] = 0 /\ sent[c] = 0 /\ replies[c] = <<>>
        /\ DOMAIN replies[c] = {} /\ Len(replies[c]) = 0
    BY DEF Init
  <2> QED BY <2>1 DEF Counted, Numbered, BeforeMain, AfterIt
<1> QED BY <1>1, TypesInit DEF OrderInv

\* Nothing but a response to the request at hand, or a last one, goes out.
LEMMA NumberedNext ==
  ASSUME OrderInv, NEW c \in Conns, pc[c] # "closed", NEW of, NEW ok, NEW o, NEW e,
         of.conn = c,
         of.number = Len(replies[c]) + 1 \/ (of.number = 0 /\ pc'[c] = "closed"),
         replies'[c] = Append(replies[c], [of |-> of, ok |-> ok, out |-> o, err |-> e])
  PROVE  Numbered(c)'
<1> DEFINE new == [of |-> of, ok |-> ok, out |-> o, err |-> e]
<1>1. replies[c] \in Seq(Responses)
  BY DEF OrderInv, Types
<1>2. \A i \in DOMAIN replies[c] : replies[c][i].of.conn = c /\ replies[c][i].of.number = i
  BY DEF OrderInv, Numbered
<1>3. /\ Len(replies'[c]) = Len(replies[c]) + 1
      /\ DOMAIN replies'[c] = 1..(Len(replies[c]) + 1)
      /\ \A i \in 1..Len(replies[c]) : replies'[c][i] = replies[c][i]
      /\ replies'[c][Len(replies[c]) + 1] = new
  <2> DEFINE S == Responses \cup {new}
  <2>1. replies[c] \in Seq(S) /\ new \in S
    BY <1>1
  <2> HIDE DEF S, new
  <2> QED BY <2>1 DEF new
<1>4. DOMAIN replies[c] = 1..Len(replies[c]) /\ Len(replies[c]) \in Nat
  BY <1>1
<1>5. ASSUME NEW i \in DOMAIN replies'[c]
      PROVE  /\ replies'[c][i].of.conn = c
             /\ \/ replies'[c][i].of.number = i
                \/ replies'[c][i].of.number = 0 /\ i = Len(replies'[c]) /\ pc'[c] = "closed"
  <2>1. CASE i = Len(replies[c]) + 1
    BY <1>3, <2>1
  <2>2. CASE i \in DOMAIN replies[c]
    BY <1>2, <1>3, <1>4, <2>2
  <2> QED BY <1>3, <1>4, <2>1, <2>2
<1> QED BY <1>5 DEF Numbered

LEMMA NumberedKept ==
  ASSUME NEW c \in Conns, Numbered(c), replies'[c] = replies[c],
         pc[c] = "closed" => pc'[c] = "closed"
  PROVE  Numbered(c)'
BY DEF Numbered

LEMMA OrderNext == OrderInv /\ [Next]_vars => OrderInv'
<1> SUFFICES ASSUME OrderInv, [Next]_vars PROVE \A c \in Conns : Counted(c)' /\ Numbered(c)'
  BY TypesNext DEF OrderInv
<1> USE DEF OrderInv
<1>1. CASE UNCHANGED vars
  BY <1>1 DEF vars, Counted, Numbered
<1>2. ASSUME NEW d \in Conns, Send(d) \/ HangUp(d)
      PROVE  \A c \in Conns : Counted(c)' /\ Numbered(c)'
  <2> SUFFICES ASSUME NEW c \in Conns PROVE Counted(c)' /\ Numbered(c)'
    OBVIOUS
  <2>1. pc' = pc /\ read' = read /\ replies' = replies
    BY <1>2 DEF Send, HangUp, reads
  <2>2. sent'[c] >= sent[c] /\ sent'[c] \in Nat /\ sent[c] \in Nat /\ read[c] \in Nat
    BY <1>2, TypesNext, ServerAssumption DEF Send, HangUp, Types
  <2> QED BY <2>1, <2>2, NumberedKept DEF Counted
<1>3. ASSUME NEW c \in Conns, Thread(c) PROVE \A d \in Conns : Counted(d)' /\ Numbered(d)'
  <2>1. \A d \in Conns \ {c} : Counted(d)' /\ Numbered(d)'
    BY <1>3, OthersKept, NumberedKept DEF Counted
  <2>2. Counted(c)' /\ Numbered(c)'
    <3> DEFINE n == Len(replies[c])
    <3>0. n \in Nat /\ read[c] \in Nat /\ sent[c] \in Nat /\ read'[c] \in Nat /\ sent'[c] \in Nat
          /\ replies[c] \in Seq(Responses) /\ Counted(c) /\ Numbered(c)
      BY TypesNext, ServerAssumption DEF Types
    <3>1. CASE ReadLine(c)
      <4> DEFINE bad == [of |-> Request(c)', ok |-> FALSE, out |-> <<>>, err |-> <<Request(c)'>>]
      <4>1. /\ pc[c] = "reading" /\ n = read[c] /\ read'[c] = read[c] + 1 /\ read'[c] <= sent'[c]
            /\ Request(c)' = [conn |-> c, number |-> n + 1]
        BY <3>0, <3>1 DEF ReadLine, Counted, clients, Types, Request
      <4>2. \/ /\ pc'[c] \in {"closed", "reading"}
               /\ replies'[c] = Append(replies[c], bad)
            \/ pc'[c] \in {"raising", "acquire"} /\ replies'[c] = replies[c]
        <5>1. CASE Refused(c)
          BY <5>1, WriteAnswers DEF Refused
        <5>2. CASE PassedOn(c)
          BY <5>2 DEF PassedOn, Goto, Types
        <5> QED BY <3>1, <5>1, <5>2, LineRead
      <4>3. CASE replies'[c] = replies[c] /\ pc'[c] \in {"raising", "acquire"}
        BY <3>0, <4>1, <4>3, NumberedKept DEF Counted, BeforeMain, AfterIt
      <4>4. CASE /\ pc'[c] \in {"closed", "reading"}
                 /\ replies'[c] = Append(replies[c], bad)
        <5>1. Numbered(c)'
          BY <4>1, <4>4, NumberedNext
        <5>2. Len(replies'[c]) = n + 1
          BY <3>0, <4>4
        <5> QED BY <3>0, <4>1, <4>4, <5>1, <5>2 DEF Counted, BeforeMain, AfterIt
      <4> QED BY <4>2, <4>3, <4>4
    <3>2. CASE ReadTimeout(c)
      <4> DEFINE none == [conn |-> c, number |-> 0]
                 late == [of |-> none, ok |-> FALSE, out |-> <<>>, err |-> <<none>>]
      <4>1. pc[c] = "reading" /\ n = read[c] /\ read'[c] = read[c] /\ sent'[c] = sent[c]
        BY <3>0, <3>2 DEF ReadTimeout, Counted, clients, reads
      <4>2. \/ /\ pc'[c] = "closed"
               /\ replies'[c] = Append(replies[c], late)
            \/ pc'[c] = "raising" /\ replies'[c] = replies[c]
        BY <3>2, WriteAnswers DEF ReadTimeout
      <4>3. CASE pc'[c] = "raising" /\ replies'[c] = replies[c]
        BY <3>0, <4>1, <4>3, NumberedKept DEF Counted, BeforeMain, AfterIt
      <4>4. CASE /\ pc'[c] = "closed"
                 /\ replies'[c] = Append(replies[c], late)
        <5>1. Numbered(c)'
          <6>1. none.conn = c /\ none.number = 0
            OBVIOUS
          <6> HIDE DEF none
          <6> QED BY ONLY <4>1, <4>4, <6>1, OrderInv, c \in Conns, NumberedNext
        <5>2. Len(replies'[c]) = n + 1
          BY <3>0, <4>4
        <5> QED BY <3>0, <4>1, <4>4, <5>1, <5>2 DEF Counted, BeforeMain, AfterIt
      <4> QED BY <4>2, <4>3, <4>4
    <3>3. CASE Respond(c)
      <4> DEFINE answer(ok, o, e) == [of |-> Request(c), ok |-> ok, out |-> o, err |-> e]
      <4>1. pc[c] = "respond" /\ n = read[c] - 1 /\ read'[c] = read[c] /\ sent'[c] = sent[c]
        BY <3>0, <3>3 DEF Respond, Counted, clients, reads, AfterIt
      <4>2. \E ok, o, e : Write(c, "reading", Request(c), ok, o, e)
        BY <3>3 DEF Respond
      <4>3. PICK ok, o, e :
              \/ /\ pc'[c] = "reading"
                 /\ replies'[c] = Append(replies[c], answer(ok, o, e))
              \/ pc'[c] = "raising" /\ replies'[c] = replies[c]
        BY <4>2, WriteAnswers
      <4>4. CASE pc'[c] = "raising" /\ replies'[c] = replies[c]
        BY <3>0, <4>1, <4>4, NumberedKept DEF Counted, BeforeMain, AfterIt
      <4>5. CASE /\ pc'[c] = "reading"
                 /\ replies'[c] = Append(replies[c], answer(ok, o, e))
        <5>1. Request(c).conn = c /\ Request(c).number = n + 1
          BY <3>0, <4>1 DEF Request
        <5>2. Numbered(c)'
          BY <4>1, <4>5, <5>1, NumberedNext
        <5>3. Len(replies'[c]) = n + 1
          BY <3>0, <4>5
        <5> QED BY <3>0, <4>1, <4>5, <5>2, <5>3 DEF Counted, BeforeMain, AfterIt
      <4> QED BY <4>3, <4>4, <4>5
    <3>4. CASE ReadEnd(c) \/ HandleError(c) \/ ShutDown(c)
      <4>1. /\ pc[c] \in {"reading", "raising", "closing"}
            /\ pc'[c] \in {"closing", "closed", "raising"}
            /\ read' = read /\ sent' = sent /\ replies' = replies
        BY <3>4 DEF ReadEnd, HandleError, ShutDown, Goto, clients, reads, Types
      <4> QED BY <3>0, <4>1, NumberedKept DEF Counted, BeforeMain, AfterIt
    <3>5. CASE Acquire(c) \/ RedirectStdout(c) \/ RedirectStderr(c) \/ Main(c)
               \/ RestoreStderr(c) \/ RestoreStdout(c) \/ Release(c)
      <4>1. /\ pc[c] \in BeforeMain \cup AfterIt
            /\ pc'[c] \in BeforeMain \cup AfterIt \cup {"raising"}
            /\ read' = read /\ sent' = sent /\ replies' = replies
        BY <3>5 DEF Acquire, RedirectStdout, RedirectStderr, Main, RestoreStderr, RestoreStdout,
                    Release, AfterMain, Goto, clients, reads, Types, BeforeMain, AfterIt
      <4> QED BY <3>0, <4>1, NumberedKept DEF Counted, BeforeMain, AfterIt
    <3> QED BY <1>3, <3>1, <3>2, <3>3, <3>4, <3>5 DEF Thread
  <2> QED BY <2>1, <2>2
<1> QED BY <1>1, <1>2, <1>3 DEF Next

LEMMA OrderSafe == OrderInv => InOrder
BY DEF OrderInv, Numbered, InOrder

LEMMA TypeSafe == OrderInv => TypeOK
<1> SUFFICES ASSUME OrderInv PROVE TypeOK
  OBVIOUS
<1>1. ASSUME NEW c \in Conns
      PROVE  sent[c] \in 0..MaxRequests /\ read[c] \in 0..sent[c] /\ Len(replies[c]) <= read[c] + 1
  <2>1. /\ sent[c] \in 0..MaxRequests /\ read[c] \in Nat /\ Len(replies[c]) \in Nat
        /\ pc[c] \in Steps /\ Counted(c)
    BY DEF OrderInv, Types
  <2> QED BY <2>1, ServerAssumption DEF Counted, Steps, BeforeMain, AfterIt
<1> QED BY <1>1 DEF OrderInv, Types, TypeOK

-----------------------------------------------------------------------------
\* Whose output the responses hold.

\* The tracebacks of connections that are over.
Final == {e \in Asked : pc[e.conn] \in {"closing", "closed"} /\ e.number = read[e.conn]}

OnePerConnection(text) ==
  \A j, k \in DOMAIN text : text[j].conn = text[k].conn => j = k

\* The buffers of a thread whose main has not run since the last response are new.
Fresh == BeforeMain \cup {"reading"}

\* A text has one entry per connection, its owner's for the request at hand.
Captured(c) ==
  /\ pc[c] \in Fresh => out[c] = <<>>
  /\ pc[c] \in AfterIt => out[c] = <<Request(c)>> /\ \E j \in DOMAIN err[c] : err[c][j] = Request(c)
  /\ \A j \in DOMAIN err[c] :
       \/ err[c][j] = Request(c) /\ pc[c] \notin Fresh
       \/ err[c][j].conn # c /\ err[c][j] \in Final
  /\ OnePerConnection(err[c])

Faithful(r, final) ==
  /\ r.ok => r.out = <<r.of>>
  /\ \E j \in DOMAIN r.err : r.err[j] = r.of
  /\ \A j \in DOMAIN r.err : r.err[j] = r.of \/ r.err[j] \in final
  /\ OnePerConnection(r.err)

OutputInv ==
  \A c \in Conns : Captured(c) /\ \A i \in DOMAIN replies[c] : Faithful(replies[c][i], Final)

ServerInv == Types /\ StreamsInv /\ OutputInv

LEMMA Appended ==
  ASSUME NEW S, NEW s \in Seq(S), NEW x \in S
  PROVE  /\ DOMAIN s = 1..Len(s) /\ Len(s) \in Nat
         /\ DOMAIN Append(s, x) = 1..(Len(s) + 1)
         /\ \A i \in 1..Len(s) : Append(s, x)[i] = s[i]
         /\ Append(s, x)[Len(s) + 1] = x
OBVIOUS

LEMMA OneRequest ==
  ASSUME NEW r
  PROVE  /\ OnePerConnection(<<r>>) /\ \E j \in DOMAIN <<r>> : <<r>>[j] = r
         /\ \A j \in DOMAIN <<r>> : <<r>>[j] = r
BY DEF OnePerConnection

LEMMA FinalKept ==
  ASSUME Types, NEW c \in Conns, Thread(c)
  PROVE  /\ Final \subseteq Final'
         /\ pc[c] # "closing" => \A e \in Final : e.conn # c
<1>1. CASE pc[c] \notin {"closing", "closed"}
  <2>1. \A e \in Final : e.conn \in Conns \ {c}
    BY <1>1 DEF Final, Asked
  <2> QED BY <2>1, OthersKept DEF Final
<1>2. CASE pc[c] \in {"closing", "closed"}
  <2>1. ShutDown(c)
    BY <1>2 DEF Thread, ReadLine, ReadEnd, ReadTimeout, Acquire, RedirectStdout, RedirectStderr,
                Main, RestoreStderr, RestoreStdout, Release, Respond, HandleError
  <2>2. pc[c] = "closing" /\ pc'[c] = "closed" /\ read' = read
    BY <2>1 DEF ShutDown, Goto, reads, Types
  <2>3. \A e \in Final : e.conn \in Conns
    BY DEF Final, Asked
  <2> QED BY <2>2, <2>3, OthersKept DEF Final
<1> QED BY <1>1, <1>2

LEMMA FaithfulKept ==
  ASSUME Types, NEW c \in Conns, Thread(c), NEW r, Faithful(r, Final)
  PROVE  Faithful(r, Final')
BY FinalKept DEF Faithful

LEMMA CapturedKept ==
  ASSUME Types, NEW c \in Conns, Thread(c), NEW d \in Conns, Captured(d),
         out'[d] = out[d], err'[d] = err[d], read'[d] = read[d],
         pc'[d] \in Fresh => pc[d] \in Fresh,
         pc'[d] \in AfterIt => pc[d] \in AfterIt
  PROVE  Captured(d)'
<1>1. Request(d)' = Request(d)
  BY DEF Request
<1> QED BY <1>1, FinalKept DEF Captured, OnePerConnection

\* A new response is faithful in the state after the step.
LEMMA FaithfulNext ==
  ASSUME Types, NEW c \in Conns, Thread(c), OutputInv,
         NEW of \in Asked, NEW ok \in BOOLEAN, NEW o \in Seq(Asked), NEW e \in Seq(Asked),
         ok => o = <<of>>, \E j \in DOMAIN e : e[j] = of,
         \A j \in DOMAIN e : e[j] = of \/ e[j] \in Final, OnePerConnection(e),
         \E step \in Steps : Write(c, step, of, ok, o, e)
  PROVE  \A i \in DOMAIN replies'[c] : Faithful(replies'[c][i], Final')
<1> DEFINE new == [of |-> of, ok |-> ok, out |-> o, err |-> e]
<1>1. new \in Responses
  BY DEF Responses
<1>2. Faithful(new, Final')
  BY FaithfulKept DEF Faithful
<1>3. replies[c] \in Seq(Responses) /\ \A i \in DOMAIN replies[c] : Faithful(replies[c][i], Final')
  BY FaithfulKept DEF Types, OutputInv
<1> HIDE DEF new
<1>4. CASE replies'[c] = replies[c]
  BY <1>3, <1>4
<1>5. CASE replies'[c] = Append(replies[c], new)
  <2>1. \A i \in DOMAIN replies'[c] :
          replies'[c][i] = new \/ (i \in DOMAIN replies[c] /\ replies'[c][i] = replies[c][i])
    BY <1>1, <1>3, <1>5, Appended
  <2> QED BY <1>2, <1>3, <2>1
<1> QED BY <1>4, <1>5, WriteAnswers DEF new

LEMMA OutputInit == Init => OutputInv
<1> SUFFICES ASSUME Init, NEW c \in Conns
             PROVE  Captured(c) /\ \A i \in DOMAIN replies[c] : Faithful(replies[c][i], Final)
  BY DEF OutputInv
<1>1. pc[c] = "reading" /\ out[c] = <<>> /\ DOMAIN err[c] = {} /\ DOMAIN replies[c] = {}
  BY DEF Init
<1> QED BY <1>1 DEF Captured, OnePerConnection, AfterIt

LEMMA OutputNext == ServerInv /\ [Next]_vars => OutputInv'
<1> SUFFICES ASSUME ServerInv, [Next]_vars PROVE OutputInv'
  OBVIOUS
<1> USE DEF ServerInv
<1>1. CASE UNCHANGED vars \/ \E d \in Conns : Send(d) \/ HangUp(d)
  <2>1. pc' = pc /\ read' = read /\ out' = out /\ err' = err /\ replies' = replies
    BY <1>1 DEF vars, Send, HangUp, reads, buffers
  <2>2. Final' = Final /\ \A c \in Conns : Request(c)' = Request(c)
    BY <2>1 DEF Final, Request
  <2> QED BY <2>1, <2>2 DEF OutputInv, Captured, OnePerConnection
<1>2. ASSUME NEW c \in Conns, Thread(c) PROVE OutputInv'
  <2> USE <1>2
  <2> DEFINE Answers(d) == \A i \in DOMAIN replies'[d] : Faithful(replies'[d][i], Final')
             r == Request(c)
  <2>1. ASSUME NEW d \in Conns, replies'[d] = replies[d] PROVE Answers(d)
    BY <2>1, FaithfulKept DEF OutputInv
  <2>2. \A d \in Conns \ {c} : Answers(d)
    BY <2>1, OthersKept
  <2>3. ASSUME NEW d \in Conns \ {c}, out'[d] = out[d], err'[d] = err[d] PROVE Captured(d)'
    BY <2>3, OthersKept, CapturedKept DEF OutputInv
  <2>4. r \in Asked /\ <<r>> \in Seq(Asked) /\ <<>> \in Seq(Asked)
    BY RequestType
  <2>5. Captured(c) /\ out[c] \in Seq(Asked) /\ err[c] \in Seq(Asked)
    BY DEF OutputInv, Types
  <2>6. CASE ReadLine(c)
    <3>1. pc[c] = "reading" /\ out' = out /\ err' = err
      BY <2>6 DEF ReadLine, buffers
    <3>2. /\ out[c] = <<>> /\ OnePerConnection(err[c])
          /\ \A j \in DOMAIN err[c] : err[c][j].conn # c /\ err[c][j] \in Final'
      BY <2>5, <3>1, FinalKept DEF Captured, Fresh
    <3>3. pc'[c] \notin AfterIt
      <4>1. CASE Refused(c)
        BY <4>1, WriteAnswers DEF Refused, AfterIt
      <4>2. CASE PassedOn(c)
        BY <4>2 DEF PassedOn, Goto, Types, AfterIt
      <4> QED BY <2>6, <4>1, <4>2, LineRead
    <3>4. Captured(c)'
      BY <3>1, <3>2, <3>3 DEF Captured, OnePerConnection
    <3>5. Answers(c)
      <4>1. Request(c)' \in Asked /\ <<Request(c)'>> \in Seq(Asked)
        <5>1. read'[c] \in Nat
          BY TypesNext DEF Types
        <5>2. Request(c)' \in Asked
          BY <5>1 DEF Request, Asked
        <5> QED BY <5>2
      <4>2. CASE Refused(c)
        <5>1. \E step \in Steps : Write(c, step, Request(c)', FALSE, <<>>, <<Request(c)'>>)
          BY <4>2 DEF Refused, Steps
        <5> QED BY <2>4, <4>1, <5>1, OneRequest, FaithfulNext
      <4>3. CASE PassedOn(c)
        BY <2>1, <4>3 DEF PassedOn
      <4> QED BY <2>6, <4>2, <4>3, LineRead
    <3> QED BY <2>2, <2>3, <3>1, <3>4, <3>5 DEF OutputInv
  <2>7. CASE ReadTimeout(c)
    <3> DEFINE none == [conn |-> c, number |-> 0]
    <3>1. none \in Asked /\ <<none>> \in Seq(Asked)
      BY DEF Asked
    <3>2. out' = out /\ err' = err /\ read' = read /\ pc'[c] \notin Fresh \cup AfterIt
      BY <2>7, WriteAnswers DEF ReadTimeout, buffers, reads, Fresh, BeforeMain, AfterIt
    <3>3. Captured(c)'
      BY <2>5, <3>2, CapturedKept
    <3>4. \E step \in Steps : Write(c, step, none, FALSE, <<>>, <<none>>)
      BY <2>7 DEF ReadTimeout, Steps
    <3> HIDE DEF none
    <3>5. Answers(c)
      BY <2>4, <3>1, <3>4, OneRequest, FaithfulNext
    <3> QED BY <2>2, <2>3, <3>2, <3>3, <3>5 DEF OutputInv
  <2>8. CASE Respond(c)
    <3>1. /\ out'[c] = <<>> /\ err'[c] = <<>> /\ DOMAIN err'[c] = {}
          /\ \A d \in Conns \ {c} : out'[d] = out[d] /\ err'[d] = err[d]
      BY <2>8 DEF Respond, Types
    <3>2. Captured(c)'
      <4>1. \E ok, o, e : Write(c, "reading", r, ok, o, e)
        BY <2>8 DEF Respond
      <4>2. pc'[c] \notin AfterIt
        BY <4>1, WriteAnswers DEF AfterIt
      <4> QED BY <3>1, <4>2 DEF Captured, OnePerConnection
    <3>3. Answers(c)
      <4>1. CASE kind[c] = "huge"
        <5>1. \E step \in Steps : Write(c, step, r, FALSE, <<>>, <<r>>)
          BY <2>8, <4>1 DEF Respond, Steps
        <5> HIDE DEF r
        <5> QED BY <2>4, <5>1, OneRequest, FaithfulNext
      <4>2. CASE kind[c] # "huge"
        <5>1. \E step \in Steps : Write(c, step, r, TRUE, out[c], err[c])
          BY <2>8, <4>2 DEF Respond, Steps
        <5>2. /\ out[c] = <<r>> /\ \E j \in DOMAIN err[c] : err[c][j] = r
              /\ \A j \in DOMAIN err[c] : err[c][j] = r \/ err[c][j] \in Final
              /\ OnePerConnection(err[c])
          BY <2>5, <2>8 DEF Captured, Respond, AfterIt
        <5> HIDE DEF r
        <5> QED BY <2>4, <2>5, <5>1, <5>2, FaithfulNext
      <4> QED BY <4>1, <4>2
    <3> QED BY <2>2, <2>3, <3>1, <3>2, <3>3 DEF OutputInv
  <2>9. CASE \/ ReadEnd(c) \/ Acquire(c) \/ RedirectStdout(c) \/ RedirectStderr(c)
             \/ RestoreStderr(c) \/ RestoreStdout(c) \/ Release(c) \/ ShutDown(c)
    <3>1. /\ out' = out /\ err' = err /\ read' = read /\ replies' = replies
          /\ pc'[c] \in Fresh => pc[c] \in Fresh
          /\ pc'[c] \in AfterIt => pc[c] \in AfterIt
      BY <2>9 DEF ReadEnd, Acquire, RedirectStdout, RedirectStderr, RestoreStderr, RestoreStdout,
                  Release, ShutDown, AfterMain, Goto, buffers, reads, Types, Fresh, BeforeMain,
                  AfterIt
    <3>2. Captured(c)'
      BY <2>5, <3>1, CapturedKept
    <3> QED BY <2>1, <2>2, <2>3, <3>1, <3>2 DEF OutputInv
  <2>10. CASE Main(c)
    <3>1. stdout = c /\ stderr = c
      BY <2>10 DEF Main, StreamsInv, HeldByOne, StreamsFollow, Holding
    <3>2. /\ out' = [out EXCEPT ![c] = Append(@, r)] /\ err' = [err EXCEPT ![c] = Append(@, r)]
          /\ read' = read /\ replies' = replies /\ pc[c] = "main" /\ pc'[c] = "restore_stderr"
      BY <2>10, <3>1, ServerAssumption DEF Main, Emit, Goto, reads, Types
    <3>3. /\ out'[c] = Append(out[c], r) /\ err'[c] = Append(err[c], r)
          /\ \A d \in Conns \ {c} : out'[d] = out[d] /\ err'[d] = err[d]
      BY <3>2 DEF Types
    <3>4. /\ out[c] = <<>> /\ OnePerConnection(err[c])
          /\ \A j \in DOMAIN err[c] : err[c][j].conn # c /\ err[c][j] \in Final'
      BY <2>5, <3>2, FinalKept DEF Captured, Fresh, BeforeMain
    <3>5. Request(c)' = r /\ r.conn = c
      BY <3>2 DEF Request
    <3> HIDE DEF r
    <3>6. /\ out'[c] = <<r>>
          /\ DOMAIN err'[c] = 1..(Len(err[c]) + 1) /\ DOMAIN err[c] = 1..Len(err[c])
          /\ Len(err[c]) \in Nat
          /\ err'[c][Len(err[c]) + 1] = r
          /\ \A j \in 1..Len(err[c]) : err'[c][j] = err[c][j]
      BY <2>4, <2>5, <3>3, <3>4, Appended
    <3>7. Captured(c)'
      <4>1. /\ \E j \in DOMAIN err'[c] : err'[c][j] = r
            /\ \A j \in DOMAIN err'[c] :
                 err'[c][j] = r \/ (err'[c][j].conn # c /\ err'[c][j] \in Final')
        <5> DEFINE n == Len(err[c])
        <5>1. n \in Nat /\ 1..(n + 1) = 1..n \cup {n + 1}
          BY <3>6
        <5> HIDE DEF n
        <5>2. /\ DOMAIN err'[c] = 1..n \cup {n + 1} /\ err'[c][n + 1] = r
              /\ \A j \in 1..n : err'[c][j] = err[c][j] /\ j \in DOMAIN err[c]
          BY <3>6, <5>1 DEF n
        <5> QED BY ONLY <3>4, <5>2
      <4>2. OnePerConnection(err'[c])
        BY <3>4, <3>5, <3>6 DEF OnePerConnection
      <4> QED BY <3>2, <3>5, <3>6, <4>1, <4>2 DEF Captured, OnePerConnection, Fresh, BeforeMain, AfterIt
    <3> QED BY <2>1, <2>2, <2>3, <3>2, <3>3, <3>7 DEF OutputInv
  <2>11. CASE HandleError(c)
    <3>0. PICK t : t = stderr
      OBVIOUS
    <3>1. /\ pc[c] = "raising" /\ pc'[c] = "closing" /\ out' = out /\ read' = read
          /\ replies' = replies /\ err' = Emit(err, t, r)
      BY <2>11, <3>0 DEF HandleError, Goto, reads, Types
    <3>2. t \in Targets /\ t # c
      <4>1. t \in {lock, Console} /\ lock # c
        BY <3>0, <3>1, StreamsSafe DEF StreamsRestored, StreamsInv, HeldByOne, Holding
      <4> QED BY <4>1, ServerAssumption DEF Types, Targets
    <3>3. r \in Final' /\ r.conn = c
      BY <2>4, <3>1 DEF Final, Request
    <3>4. \A d \in Conns \ {t} : err'[d] = err[d]
      BY <3>1, <3>2, ServerAssumption DEF Emit, Types, Targets
    <3>5. \A d \in Conns \ {t} : Captured(d)'
      <4>1. Captured(c)'
        BY <2>5, <3>1, <3>2, <3>4, CapturedKept DEF Fresh, BeforeMain, AfterIt
      <4> QED BY <2>3, <3>1, <3>4, <4>1
    <3>6. ASSUME t \in Conns PROVE Captured(t)'
      <4>1. err'[t] = Append(err[t], r)
        BY <3>1, <3>6, ServerAssumption DEF Emit, Types
      <4>2. /\ err[t] \in Seq(Asked) /\ Captured(t)
            /\ pc'[t] = pc[t] /\ out'[t] = out[t] /\ read'[t] = read[t]
        <5>1. pc'[t] = pc[t] /\ read'[t] = read[t]
          BY <3>2, <3>6, OthersKept
        <5> QED BY <3>1, <3>6, <5>1 DEF Types, OutputInv, Request
      <4>3. \A j \in DOMAIN err[t] :
              err[t][j] \in Final => err[t][j] \in Final' /\ err[t][j].conn # c
        BY <3>1, FinalKept
      <4>4. \A j \in DOMAIN err[t] : err[t][j].conn # c
        BY <3>2, <4>2, <4>3 DEF Captured, Request
      <4> HIDE DEF r
      <4>5. /\ DOMAIN err'[t] = 1..(Len(err[t]) + 1) /\ DOMAIN err[t] = 1..Len(err[t])
            /\ Len(err[t]) \in Nat
            /\ err'[t][Len(err[t]) + 1] = r
            /\ \A j \in 1..Len(err[t]) : err'[t][j] = err[t][j]
        BY <2>4, <4>1, <4>2, Appended
      <4>6. OnePerConnection(err'[t])
        BY <3>3, <4>2, <4>4, <4>5 DEF OnePerConnection, Captured
      <4>7. \A j \in DOMAIN err'[t] :
              \/ err'[t][j] = Request(t) /\ pc[t] \notin Fresh
              \/ err'[t][j].conn # t /\ err'[t][j] \in Final'
        BY <3>2, <3>3, <4>2, <4>3, <4>5 DEF Captured
      <4>8. pc[t] \in AfterIt => \E j \in DOMAIN err'[t] : err'[t][j] = Request(t)
        BY <4>2, <4>5 DEF Captured
      <4> QED BY <4>2, <4>6, <4>7, <4>8 DEF Captured, OnePerConnection, Request
    <3>7. \A d \in Conns : Captured(d)'
      BY <3>5, <3>6
    <3>8. \A d \in Conns : Answers(d)
      BY <2>1, <3>1
    <3> QED BY <3>7, <3>8 DEF OutputInv
  <2> QED BY <2>6, <2>7, <2>8, <2>9, <2>10, <2>11 DEF Thread
<1> QED BY <1>1, <1>2 DEF Next

LEMMA OutputSafe == ServerInv => ForeignOnlyFromEnded
<1> SUFFICES ASSUME ServerInv, NEW c \in Conns, NEW i \in DOMAIN replies[c]
             PROVE  LET r == replies[c][i]
                        Own == {j \in DOMAIN r.err : r.err[j] = r.of} IN
                    /\ r.ok => r.out = <<r.of>>
                    /\ \E j \in DOMAIN r.err : Own = {j}
                    /\ \A j \in DOMAIN r.err \ Own :
                         LET other == r.err[j].conn IN
                         /\ pc[other] \in {"closing", "closed"}
                         /\ r.err[j].number = read[other]
                         /\ \A k \in DOMAIN r.err : r.err[k].conn = other => k = j
  BY DEF ForeignOnlyFromEnded
<1> DEFINE r == replies[c][i]
           Own == {j \in DOMAIN r.err : r.err[j] = r.of}
<1>1. Faithful(r, Final)
  BY DEF ServerInv, OutputInv
<1>2. \E j \in DOMAIN r.err : Own = {j}
  <2>1. PICK j \in DOMAIN r.err : r.err[j] = r.of
    BY <1>1 DEF Faithful
  <2>2. \A k \in Own : k = j
    BY <1>1, <2>1 DEF Faithful, OnePerConnection
  <2> QED BY <2>1, <2>2
<1>3. \A j \in DOMAIN r.err \ Own : r.err[j] \in Final
  BY <1>1 DEF Faithful
<1> QED BY <1>1, <1>2, <1>3 DEF Faithful, Final, OnePerConnection

-----------------------------------------------------------------------------
\* No thread reads a request that was not sent, or writes more responses than it
\* has read requests, but for a timeout's (_JsonLineRequestHandler.handle).
THEOREM ServerTypes == Spec => []TypeOK
<1>1. Spec => []OrderInv
  BY OrderInit, OrderNext, PTL DEF Spec
<1> QED BY <1>1, TypeSafe, PTL

\* The responses of a connection answer its requests one by one, in order,
\* whatever the requests are and whenever clients go away or threads raise.
THEOREM AnswersInOrder == Spec => []InOrder
<1>1. Spec => []OrderInv
  BY OrderInit, OrderNext, PTL DEF Spec
<1> QED BY <1>1, OrderSafe, PTL

\* A response has its own request's output, once, and no other text but the
\* traceback of a connection that is over (handle_error writes it unlocked).
THEOREM OutputKeptApart == Spec => []ForeignOnlyFromEnded
<1>1. Init => ServerInv
  BY TypesInit, StreamsInit, OutputInit DEF ServerInv
<1>2. ServerInv /\ [Next]_vars => ServerInv'
  BY TypesNext, StreamsNext, OutputNext DEF ServerInv
<1>3. Spec => []ServerInv
  BY <1>1, <1>2, PTL DEF Spec
<1> QED BY <1>3, OutputSafe, PTL
=============================================================================
