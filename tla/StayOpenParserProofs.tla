------------------------- MODULE StayOpenParserProofs -------------------------
(***************************************************************************)
(* What the parser of a -stay_open session makes of a text that reaches    *)
(* it in pieces, for every text and every way to cut it: a session that is *)
(* a reader of the files after some lines stays one, some lines further.   *)
(***************************************************************************)
EXTENDS StayOpenLoop, FiniteSetTheorems, SequenceTheorems, TLAPS

\* Induction, from the well-foundedness of finite sets.
LEMMA Induction ==
  ASSUME NEW S, 0 \in S, \A n \in Nat : n \in S => n + 1 \in S
  PROVE  Nat \subseteq S
<1> DEFINE Initial == {0..n : n \in Nat \ S}
<1> SUFFICES ASSUME NEW m \in Nat, m \notin S PROVE FALSE
  OBVIOUS
<1>1. Initial \subseteq FiniteSubsetsOf(Nat) /\ Initial # {}
  <2>1. \A n \in Nat : IsFiniteSet(0..n) /\ 0..n \subseteq Nat
    BY FS_Interval
  <2> QED BY <2>1 DEF FiniteSubsetsOf
<1>2. PICK x \in Initial : \A y \in Initial : <<y, x>> \notin StrictSubsetOrdering(Nat)
  <2> HIDE DEF Initial
  <2> QED BY <1>1, WFMin, FS_StrictSubsetOrderingWellFounded
<1>3. PICK n \in Nat \ S : x = 0..n
  BY <1>2
<1>4. n - 1 \in Nat /\ n - 1 \notin S
  <2>1. n # 0
    BY <1>3
  <2>2. n - 1 \in Nat /\ (n - 1) + 1 = n
    BY <2>1
  <2> QED BY <2>2
<1>5. 0..(n - 1) \in Initial /\ 0..(n - 1) \subseteq 0..n /\ n \in 0..n /\ n \notin 0..(n - 1)
  BY <1>4
<1>6. <<0..(n - 1), x>> \in StrictSubsetOrdering(Nat)
  BY <1>3, <1>5 DEF StrictSubsetOrdering
<1> QED BY <1>2, <1>5, <1>6

-----------------------------------------------------------------------------
(* The functions of the session, token by token and line by line. *)

LEMMA One == ASSUME NEW x PROVE The({x}) = x
BY DEF The

LEMMA TakenOne == ASSUME NEW s, NEW token PROVE Taken(s, token) = Take(s, token)
<1>1. {Take(q, token) : q \in {s}} = {Take(s, token)}
  OBVIOUS
<1> QED BY <1>1, One DEF Taken

\* The sessions between the tokens of a text.
TakenInTurn(after, s, tokens) ==
  /\ after[0] = s /\ TakeAll(s, tokens) = after[Len(tokens)]
  /\ \A i \in 1..Len(tokens) : after[i] = Take(after[i - 1], tokens[i])

LEMMA TakeAllSteps ==
  ASSUME NEW s, NEW tokens, Len(tokens) \in Nat
  PROVE  \E after : TakenInTurn(after, s, tokens)
<1> DEFINE Step(f, i) == IF i = 0 THEN s ELSE Taken(f[i - 1], tokens[i])
           S == {k \in Nat : \E f : f = [i \in 0..k |-> Step(f, i)]}
<1>1. 0 \in S
  <2> DEFINE f == [i \in 0..0 |-> s]
  <2>1. f = [i \in 0..0 |-> Step(f, i)]
    OBVIOUS
  <2> QED BY <2>1
<1>2. ASSUME NEW k \in Nat, k \in S PROVE k + 1 \in S
  <2>1. PICK f : f = [i \in 0..k |-> Step(f, i)]
    BY <1>2
  <2> DEFINE g == [i \in 0..(k + 1) |-> IF i = k + 1 THEN Step(f, i) ELSE f[i]]
  <2>2. ASSUME NEW i \in 0..(k + 1) PROVE g[i] = Step(g, i)
    <3>1. i # 0 => g[i - 1] = f[i - 1]
      OBVIOUS
    <3>2. i # k + 1 => i \in 0..k /\ g[i] = f[i]
      OBVIOUS
    <3>3. \A j \in 0..k : f[j] = Step(f, j)
      BY <2>1
    <3>4. g[k + 1] = Step(f, k + 1)
      OBVIOUS
    <3> HIDE DEF g
    <3> QED BY <3>1, <3>2, <3>3, <3>4
  <2> HIDE DEF Step
  <2>3. g = [i \in 0..(k + 1) |-> g[i]]
    OBVIOUS
  <2> HIDE DEF g
  <2>4. g = [i \in 0..(k + 1) |-> Step(g, i)]
    <3>1. [i \in 0..(k + 1) |-> g[i]] = [i \in 0..(k + 1) |-> Step(g, i)]
      BY <2>2
    <3> QED BY <2>3, <3>1
  <2>5. \E h : h = [i \in 0..(k + 1) |-> Step(h, i)]
    BY <2>4
  <2> QED BY <2>5
<1>3. Nat \subseteq S
  <2> HIDE DEF S
  <2> QED BY <1>1, <1>2, Induction
<1> DEFINE after == CHOOSE f : f = [i \in 0..Len(tokens) |-> Step(f, i)]
<1>4. after = [i \in 0..Len(tokens) |-> Step(after, i)]
  <2>1. \E f : f = [i \in 0..Len(tokens) |-> Step(f, i)]
    BY <1>3
  <2> QED BY <2>1
<1>5. TakeAll(s, tokens) = after[Len(tokens)]
  BY DEF TakeAll
<1> HIDE DEF after
<1>6. \A i \in 0..Len(tokens) : after[i] = Step(after, i)
  BY <1>4
<1>7. ASSUME NEW i \in 1..Len(tokens) PROVE after[i] = Take(after[i - 1], tokens[i])
  <2>1. i \in 0..Len(tokens) /\ i # 0
    OBVIOUS
  <2> QED BY <1>6, <2>1, TakenOne
<1>8. after[0] = s
  BY <1>6
<1>9. TakenInTurn(after, s, tokens)
  BY <1>5, <1>7, <1>8 DEF TakenInTurn
<1> QED BY <1>9

LEMMA ObeyedOne == ASSUME NEW texts, NEW r PROVE Obeyed(texts, r) = Obey(texts, r)
<1>1. {Obey(texts, q) : q \in {r}} = {Obey(texts, r)}
  OBVIOUS
<1> QED BY <1>1, One DEF Obeyed

\* A reader that has gone n + 1 lines on has gone n, and one more.
LEMMA OnwardSteps ==
  ASSUME NEW texts, NEW r
  PROVE  /\ Onward(texts, r, 0) = r
         /\ \A n \in Nat : Onward(texts, r, n + 1) = Obey(texts, Onward(texts, r, n))
<1> DEFINE Step(f, i) == IF i = 0 THEN r ELSE Obeyed(texts, f[i - 1])
           Is(f, k) == f = [i \in 0..k |-> Step(f, i)]
           S == {k \in Nat : \E f : Is(f, k)}
           F(k) == CHOOSE f : Is(f, k)
<1>1. 0 \in S
  <2> DEFINE f == [i \in 0..0 |-> r]
  <2>1. Is(f, 0)
    OBVIOUS
  <2> QED BY <2>1
<1>2. ASSUME NEW k \in Nat, k \in S PROVE k + 1 \in S
  <2>1. PICK f : Is(f, k)
    BY <1>2
  <2> DEFINE g == [i \in 0..(k + 1) |-> IF i = k + 1 THEN Step(f, i) ELSE f[i]]
  <2>2. ASSUME NEW i \in 0..(k + 1) PROVE g[i] = Step(g, i)
    <3>1. i # 0 => g[i - 1] = f[i - 1]
      OBVIOUS
    <3>2. i # k + 1 => i \in 0..k /\ g[i] = f[i]
      OBVIOUS
    <3>3. \A j \in 0..k : f[j] = Step(f, j)
      BY <2>1
    <3>4. g[k + 1] = Step(f, k + 1)
      OBVIOUS
    <3> HIDE DEF g
    <3> QED BY <3>1, <3>2, <3>3, <3>4
  <2> HIDE DEF Step
  <2>3. g = [i \in 0..(k + 1) |-> g[i]]
    OBVIOUS
  <2> HIDE DEF g
  <2>4. [i \in 0..(k + 1) |-> g[i]] = [i \in 0..(k + 1) |-> Step(g, i)]
    BY <2>2
  <2>5. \E h : Is(h, k + 1)
    BY <2>3, <2>4
  <2> QED BY <2>5
<1>3. Nat \subseteq S
  <2> HIDE DEF S
  <2> QED BY <1>1, <1>2, Induction
<1>4. ASSUME NEW k \in Nat PROVE Is(F(k), k)
  <2>1. \E f : Is(f, k)
    BY <1>3
  <2> HIDE DEF Is
  <2> QED BY <2>1
<1>5. ASSUME NEW k \in Nat PROVE Onward(texts, r, k) = F(k)[k]
  BY DEF Onward
<1>6. ASSUME NEW k \in Nat, NEW i \in 0..k PROVE F(k)[i] = Step(F(k), i)
  <2> HIDE DEF F, Step
  <2> QED BY <1>4
<1>7. ASSUME NEW n \in Nat PROVE F(n + 1)[n] = F(n)[n]
  <2> DEFINE Same == {i \in Nat : i <= n => F(n + 1)[i] = F(n)[i]}
  <2>1. 0 \in Same
    <3>1. F(n + 1)[0] = r /\ F(n)[0] = r
      BY <1>6 
    <3> QED BY <3>1
  <2>2. ASSUME NEW i \in Nat, i \in Same PROVE i + 1 \in Same
    <3> SUFFICES ASSUME i + 1 <= n PROVE F(n + 1)[i + 1] = F(n)[i + 1]
      OBVIOUS
    <3>1. i + 1 \in 0..n /\ i + 1 \in 0..(n + 1) /\ (i + 1) - 1 = i /\ i + 1 # 0 /\ n + 1 \in Nat
      OBVIOUS
    <3>2. F(n + 1)[i] = F(n)[i]
      BY <2>2
    <3>3. F(n + 1)[i + 1] = Step(F(n + 1), i + 1) /\ F(n)[i + 1] = Step(F(n), i + 1)
      <4> HIDE DEF F, Step
      <4> QED BY <3>1, <1>6
    <3> HIDE DEF F
    <3> QED BY <3>1, <3>2, <3>3
  <2>3. Nat \subseteq Same
    <3> HIDE DEF Same
    <3> QED BY <2>1, <2>2, Induction
  <2> HIDE DEF F
  <2> QED BY <2>3
<1>8. Onward(texts, r, 0) = r
  <2>1. F(0)[0] = Step(F(0), 0)
    <3> HIDE DEF F, Step
    <3> QED BY <1>6
  <2> HIDE DEF F
  <2> QED BY <1>5, <2>1
<1>9. ASSUME NEW n \in Nat PROVE Onward(texts, r, n + 1) = Obey(texts, Onward(texts, r, n))
  <2>1. n + 1 \in Nat /\ n + 1 \in 0..(n + 1) /\ n + 1 # 0 /\ (n + 1) - 1 = n
    OBVIOUS
  <2>2. F(n + 1)[n + 1] = Step(F(n + 1), n + 1)
    <3> HIDE DEF F, Step
    <3> QED BY <2>1, <1>6
  <2> HIDE DEF F
  <2>3. F(n + 1)[n + 1] = Obey(texts, F(n + 1)[n])
    BY <2>1, <2>2, ObeyedOne
  <2> QED BY <1>5, <1>7, <2>1, <2>3
<1> QED BY <1>8, <1>9

-----------------------------------------------------------------------------
(* One line. *)

Statuses == {"open", "include", "switch", "shutdown", "failed"}

\* The sessions of the loop; what the arguments are not is not needed.
IsSession(s) ==
  /\ s = [buf |-> s.buf, args |-> s.args, opt |-> s.opt, stack |-> s.stack,
          waiting |-> s.waiting, status |-> s.status, next |-> s.next, runs |-> s.runs]
  /\ s.args \in Seq(Words)
  /\ s.opt \in ValueOptions \cup {NoOption}
  /\ s.status \in Statuses

\* Sessions that differ in what no line and no reader looks at.
Alike(s, q) ==
  /\ s.args = q.args /\ s.opt = q.opt /\ s.waiting = q.waiting /\ s.runs = q.runs
  /\ s.status = q.status
  /\ s.status \in {"include", "switch"} => s.next = q.next

LEMMA FrontTyped == ASSUME NEW S, NEW q \in Seq(S) PROVE Front(q) \in Seq(S)
<1>1. Len(q) \in Nat /\ \A i \in 1..(Len(q) - 1) : q[i] \in S
  BY LenProperties
<1> QED BY <1>1, SubSeqProperties DEF Front

LEMMA FrontElements ==
  ASSUME NEW S, NEW q \in Seq(S), q # <<>>
  PROVE  /\ Len(q) \in Nat \ {0} /\ Len(Front(q)) = Len(q) - 1
         /\ \A i \in 1..(Len(q) - 1) : Front(q)[i] = q[i]
         /\ Last(q) \in S
<1>1. Len(q) \in Nat \ {0} /\ \A i \in 1..Len(q) : q[i] \in S
  BY EmptySeq, ElementOfSeq
<1>2. \A i \in 1..(Len(q) - 1) : q[i] \in S
  BY <1>1
<1>3. /\ Len(Front(q)) = IF 1 <= Len(q) - 1 THEN (Len(q) - 1) - 1 + 1 ELSE 0
      /\ \A i \in 1..((Len(q) - 1) - 1 + 1) : Front(q)[i] = q[1 + i - 1]
  BY <1>1, <1>2, SubSeqProperties DEF Front
<1>4. (Len(q) - 1) - 1 + 1 = Len(q) - 1 /\ \A i \in 1..(Len(q) - 1) : 1 + i - 1 = i
  BY <1>1
<1>5. \A i \in 1..(Len(q) - 1) : Front(q)[i] = q[i]
  BY <1>3, <1>4
<1>6. Len(Front(q)) = Len(q) - 1
  <2> DEFINE n == Len(q)
             m == Len(Front(q))
  <2>1. n \in Nat \ {0} /\ m = IF 1 <= n - 1 THEN (n - 1) - 1 + 1 ELSE 0
    BY <1>1, <1>3
  <2> HIDE DEF n, m
  <2>2. m = n - 1
    BY <2>1
  <2> QED BY <2>2 DEF n, m
<1> QED BY <1>1, <1>5, <1>6 DEF Last

\* A command leaves the parser where it was, without arguments, unless it raises.
LEMMA RunTyped ==
  ASSUME NEW s, IsSession(s), NEW args, NEW execute
  PROVE  LET r == Run(s, args, execute) IN
         /\ IsSession(r) /\ r.buf = s.buf /\ r.stack = s.stack /\ r.opt = s.opt
         /\ r.waiting = s.waiting
         /\ r.status = IF Raises(args) THEN "failed" ELSE s.status
         /\ r.args = IF Raises(args) THEN s.args ELSE <<>>
         /\ r.runs = IF Raises(args) THEN s.runs ELSE Append(s.runs, Command(args, execute))
<1> DEFINE r == Run(s, args, execute)
           runs == Append(s.runs, Command(args, execute))
<1>1. CASE Raises(args)
  <2>1. r = [s EXCEPT !.status = "failed"]
    BY <1>1 DEF Run, Fail
  <2> HIDE DEF r, runs
  <2>2. r = [buf |-> s.buf, args |-> s.args, opt |-> s.opt, stack |-> s.stack,
             waiting |-> s.waiting, status |-> "failed", next |-> s.next, runs |-> s.runs]
    BY <2>1 DEF IsSession
  <2>3. IsSession(r)
    BY <2>2 DEF IsSession, Statuses
  <2> HIDE DEF IsSession
  <2>4. /\ r.buf = s.buf /\ r.stack = s.stack /\ r.opt = s.opt /\ r.status = "failed"
        /\ r.waiting = s.waiting /\ r.args = s.args /\ r.runs = s.runs
    BY <2>2
  <2> QED BY <1>1, <2>3, <2>4 DEF r
<1>2. CASE ~Raises(args)
  <2>1. r = [s EXCEPT !.runs = runs, !.args = <<>>]
    BY <1>2 DEF Run
  <2> HIDE DEF r, runs
  <2>2. r = [buf |-> s.buf, args |-> <<>>, opt |-> s.opt, stack |-> s.stack,
             waiting |-> s.waiting, status |-> s.status, next |-> s.next, runs |-> runs]
    BY <2>1 DEF IsSession
  <2>3. IsSession(r)
    BY <2>2, EmptySeq DEF IsSession
  <2> HIDE DEF IsSession
  <2>4. /\ r.buf = s.buf /\ r.stack = s.stack /\ r.opt = s.opt /\ r.status = s.status
        /\ r.waiting = s.waiting /\ r.args = <<>> /\ r.runs = runs
    BY <2>2
  <2> QED BY <1>2, <2>3, <2>4 DEF r, runs
<1> QED BY <1>1, <1>2

\* A control frame stops or keeps the parser, with its own argument as the file.
LEMMA FrameTyped ==
  ASSUME NEW s, IsSession(s), s.status = "open", s.opt = NoOption,
         NEW before \in Seq(Words), NEW value
  PROVE  /\ \A a \in {StayOpenFrame(s, before, value), ArgfileFrame(s, before, value)} :
              /\ IsSession(a) /\ a.buf = s.buf /\ a.stack = s.stack /\ a.opt = NoOption
              /\ a.status \in {"include", "switch"} => a.next = value
         /\ StayOpenFrame(s, before, value).status # "include"
<1>1. ASSUME NEW a, a = StayOpenFrame(s, before, value)
      PROVE  /\ IsSession(a) /\ a.buf = s.buf /\ a.stack = s.stack /\ a.opt = NoOption
             /\ a.status \notin {"include", "switch"}
  <2>1. CASE value \in {"False", "0"} /\ ~s.waiting /\ before = <<>>
    BY <1>1, <2>1 DEF StayOpenFrame, IsSession, Statuses
  <2>2. CASE value \in {"False", "0"} /\ ~s.waiting /\ before # <<>>
    <3> DEFINE r == Run(s, before, NoOption)
    <3>1. a = IF r.status = "failed" THEN r ELSE [r EXCEPT !.status = "shutdown"]
      BY <1>1, <2>2 DEF StayOpenFrame
    <3>2. IsSession(r) /\ r.buf = s.buf /\ r.stack = s.stack /\ r.opt = NoOption
      BY RunTyped
    <3> HIDE DEF r
    <3> QED BY <3>1, <3>2 DEF IsSession, Statuses
  <2>3. CASE /\ ~(value \in {"False", "0"} /\ ~s.waiting)
             /\ value \in {"True", "1"} /\ before = <<>>
    <3>1. a = [s EXCEPT !.waiting = TRUE, !.args = <<>>]
      BY <1>1, <2>3 DEF StayOpenFrame
    <3> QED BY <3>1, EmptySeq DEF IsSession, Statuses
  <2>4. CASE /\ ~(value \in {"False", "0"} /\ ~s.waiting)
             /\ ~(value \in {"True", "1"} /\ before = <<>>)
    <3>1. a = [s EXCEPT !.status = "failed"]
      BY <1>1, <2>4 DEF StayOpenFrame, Fail
    <3> QED BY <3>1 DEF IsSession, Statuses
  <2> QED BY <2>1, <2>2, <2>3, <2>4
<1>2. ASSUME NEW a, a = ArgfileFrame(s, before, value)
      PROVE  /\ IsSession(a) /\ a.buf = s.buf /\ a.stack = s.stack /\ a.opt = NoOption
             /\ a.status \in {"include", "switch"} => a.next = value
  <2>1. CASE ~s.waiting
    <3>1. a = [s EXCEPT !.status = "include", !.next = value, !.args = before]
      BY <1>2, <2>1 DEF ArgfileFrame
    <3> QED BY <3>1 DEF IsSession, Statuses
  <2>2. CASE s.waiting /\ before = <<>>
    <3>1. a = [s EXCEPT !.status = "switch", !.next = value, !.args = <<>>, !.waiting = FALSE]
      BY <1>2, <2>2 DEF ArgfileFrame
    <3> QED BY <3>1, EmptySeq DEF IsSession, Statuses
  <2>3. CASE s.waiting /\ before # <<>>
    <3>1. a = [s EXCEPT !.status = "failed"]
      BY <1>2, <2>3 DEF ArgfileFrame, Fail
    <3> QED BY <3>1 DEF IsSession, Statuses
  <2> QED BY <2>1, <2>2, <2>3
<1> QED BY <1>1, <1>2

\* A session whose option has its value.
LEMMA OptionMet ==
  ASSUME NEW s, IsSession(s)
  PROVE  [s EXCEPT !.opt = NoOption] =
           [buf |-> s.buf, args |-> s.args, opt |-> NoOption, stack |-> s.stack,
            waiting |-> s.waiting, status |-> s.status, next |-> s.next, runs |-> s.runs]
<1> DEFINE r == [buf |-> s.buf, args |-> s.args, opt |-> s.opt, stack |-> s.stack,
                 waiting |-> s.waiting, status |-> s.status, next |-> s.next, runs |-> s.runs]
<1>1. s = r
  BY DEF IsSession
<1>2. [r EXCEPT !.opt = NoOption] =
        [buf |-> s.buf, args |-> s.args, opt |-> NoOption, stack |-> s.stack,
         waiting |-> s.waiting, status |-> s.status, next |-> s.next, runs |-> s.runs]
  BY ONLY TRUE
<1> HIDE DEF r
<1> QED BY ONLY <1>1, <1>2

\* What one line does to a session.
Heeds(s, line, a) ==
  /\ IsSession(a) /\ a.buf = s.buf /\ a.stack = s.stack
  /\ a.opt # NoOption => a.opt = line /\ a.status = "open"
  /\ a.status \in {"include", "switch"} => a.next = line
  /\ a.status = "include" => s.opt = "-@"
LEMMA AcceptTyped ==
  ASSUME NEW s, IsSession(s), s.status = "open", NEW line \in Words
  PROVE  Heeds(s, line, Accept(s, line))
<1> SUFFICES ASSUME NEW a, a = Accept(s, line) PROVE Heeds(s, line, a)
  OBVIOUS
<1> DEFINE t == [s EXCEPT !.opt = NoOption]
<1>1. /\ IsSession(t) /\ t.status = "open" /\ t.opt = NoOption /\ t.buf = s.buf
      /\ t.stack = s.stack /\ t.args = s.args
  BY DEF IsSession
<1>2. Front(s.args) \in Seq(Words)
  BY FrontTyped DEF IsSession
<1>3. CASE s.opt = "-@"
  <2>1. NoOption # "-@"
    BY SessionAssumption
  <2>2. a = ArgfileFrame(t, Front(s.args), line)
    BY <1>3, <2>1 DEF Accept
  <2> HIDE DEF t
  <2> QED BY <1>1, <1>2, <1>3, <2>2, FrameTyped DEF Heeds
<1>4. CASE s.opt = "-stay_open"
  <2>1. NoOption # "-stay_open"
    BY SessionAssumption
  <2>2. a = StayOpenFrame(t, Front(s.args), line)
    BY <1>4, <2>1 DEF Accept
  <2> HIDE DEF t
  <2>3. /\ IsSession(a) /\ a.buf = s.buf /\ a.stack = s.stack /\ a.opt = NoOption
        /\ a.status \in {"include", "switch"} => a.next = line
        /\ a.status # "include"
    BY <1>1, <1>2, <2>2, FrameTyped DEF Heeds
  <2> QED BY <2>3 DEF Heeds
<1>5. CASE s.opt \notin {"-@", "-stay_open", NoOption}
  <2>1. a = [t EXCEPT !.args = Append(@, line)]
    BY <1>5 DEF Accept
  <2>2. Append(t.args, line) \in Seq(Words)
    BY <1>1, AppendProperties DEF IsSession
  <2> HIDE DEF t
  <2> QED BY <1>1, <2>1, <2>2 DEF IsSession, Statuses, Heeds
<1>6. CASE s.opt = NoOption /\ line \in Executes
  <2>1. CASE s.waiting
    <3>1. a = [s EXCEPT !.status = "failed"]
      BY <1>6, <2>1 DEF Accept, Fail
    <3> QED BY <1>6, <3>1 DEF IsSession, Statuses, Heeds
  <2>2. CASE ~s.waiting
    <3>1. a = Run(s, s.args, line)
      BY <1>6, <2>2 DEF Accept
    <3> QED BY <1>6, <3>1, RunTyped DEF Heeds
  <2> QED BY <2>1, <2>2
<1>7. CASE s.opt = NoOption /\ line \notin Executes
  <2>1. a = [s EXCEPT !.args = Append(@, line),
                      !.opt = IF line \in ValueOptions THEN line ELSE NoOption]
    BY <1>7 DEF Accept
  <2>2. Append(s.args, line) \in Seq(Words)
    BY AppendProperties DEF IsSession
  <2> QED BY <2>1, <2>2 DEF IsSession, Statuses, Heeds
<1> QED BY <1>3, <1>4, <1>5, <1>6, <1>7

\* A line does the same to sessions that are alike.
LEMMA AcceptAlike ==
  ASSUME NEW s, NEW q, IsSession(s), IsSession(q), Alike(s, q), s.status = "open", NEW line
  PROVE  Alike(Accept(s, line), Accept(q, line))
<1> DEFINE t == [s EXCEPT !.opt = NoOption]
           u == [q EXCEPT !.opt = NoOption]
<1>1. /\ IsSession(t) /\ IsSession(u) /\ Alike(t, u) /\ t.status = "open"
      /\ s.args = q.args /\ s.opt = q.opt /\ s.waiting = q.waiting
  <2>1. /\ t = [buf |-> s.buf, args |-> s.args, opt |-> NoOption, stack |-> s.stack,
                 waiting |-> s.waiting, status |-> s.status, next |-> s.next, runs |-> s.runs]
        /\ u = [buf |-> q.buf, args |-> q.args, opt |-> NoOption, stack |-> q.stack,
                 waiting |-> q.waiting, status |-> q.status, next |-> q.next, runs |-> q.runs]
    BY ONLY OptionMet, IsSession(s), IsSession(q)
  <2> HIDE DEF t, u
  <2>2. IsSession(t) /\ IsSession(u)
    BY <2>1 DEF IsSession
  <2> QED BY <2>1, <2>2 DEF Alike
<1>2. ASSUME NEW v, NEW w, IsSession(v), IsSession(w), Alike(v, w), v.status = "open",
             NEW args, NEW execute
      PROVE  Alike(Run(v, args, execute), Run(w, args, execute))
  <2>1. /\ v.runs = w.runs /\ v.opt = w.opt /\ v.waiting = w.waiting /\ v.args = w.args
        /\ w.status = "open"
    BY <1>2 DEF Alike
  <2> DEFINE a == Run(v, args, execute)
             b == Run(w, args, execute)
             runs == Append(v.runs, Command(args, execute))
  <2>2. /\ a.opt = v.opt /\ a.waiting = v.waiting
        /\ a.status = IF Raises(args) THEN "failed" ELSE "open"
        /\ a.args = IF Raises(args) THEN v.args ELSE <<>>
        /\ a.runs = IF Raises(args) THEN v.runs ELSE runs
    BY <1>2, RunTyped
  <2>3. /\ b.opt = v.opt /\ b.waiting = v.waiting
        /\ b.status = IF Raises(args) THEN "failed" ELSE "open"
        /\ b.args = IF Raises(args) THEN v.args ELSE <<>>
        /\ b.runs = IF Raises(args) THEN v.runs ELSE runs
    BY <1>2, <2>1, RunTyped
  <2> HIDE DEF a, b, runs
  <2>4. Alike(a, b)
    BY <2>2, <2>3 DEF Alike
  <2> QED BY <2>4 DEF a, b
<1>3. ASSUME NEW before, NEW value
      PROVE  Alike(StayOpenFrame(t, before, value), StayOpenFrame(u, before, value))
  <2>1. CASE value \in {"False", "0"} /\ ~t.waiting /\ before = <<>>
    BY <1>1, <2>1 DEF StayOpenFrame, IsSession, Alike
  <2>2. CASE value \in {"False", "0"} /\ ~t.waiting /\ before # <<>>
    <3> DEFINE v == Run(t, before, NoOption)
               w == Run(u, before, NoOption)
    <3>1. /\ StayOpenFrame(t, before, value) =
               IF v.status = "failed" THEN v ELSE [v EXCEPT !.status = "shutdown"]
          /\ StayOpenFrame(u, before, value) =
               IF w.status = "failed" THEN w ELSE [w EXCEPT !.status = "shutdown"]
      BY <1>1, <2>2 DEF StayOpenFrame, Alike
    <3>2. IsSession(v) /\ IsSession(w) /\ Alike(v, w)
      <4> HIDE DEF t, u
      <4> QED BY <1>1, <1>2, RunTyped
    <3> HIDE DEF v, w, t, u
    <3> QED BY <3>1, <3>2 DEF IsSession, Alike
  <2>3. CASE ~(value \in {"False", "0"} /\ ~t.waiting)
    <3> HIDE DEF t, u
    <3> QED BY <1>1, <2>3 DEF StayOpenFrame, Fail, IsSession, Alike
  <2> QED BY <2>1, <2>2, <2>3
<1>4. ASSUME NEW before, NEW value
      PROVE  Alike(ArgfileFrame(t, before, value), ArgfileFrame(u, before, value))
  <2> HIDE DEF t, u
  <2> QED BY <1>1 DEF ArgfileFrame, Fail, IsSession, Alike
<1>5. CASE s.opt # NoOption
  <2>1. CASE s.opt = "-@"
    <3>1. /\ Accept(s, line) = ArgfileFrame(t, Front(s.args), line)
          /\ Accept(q, line) = ArgfileFrame(u, Front(q.args), line)
      BY <1>1, <1>5, <2>1 DEF Accept
    <3> HIDE DEF t, u
    <3> QED BY <1>1, <1>4, <3>1
  <2>2. CASE s.opt = "-stay_open"
    <3>1. /\ Accept(s, line) = StayOpenFrame(t, Front(s.args), line)
          /\ Accept(q, line) = StayOpenFrame(u, Front(q.args), line)
      BY <1>1, <1>5, <2>2 DEF Accept
    <3> HIDE DEF t, u
    <3> QED BY <1>1, <1>3, <3>1
  <2>3. CASE s.opt \notin {"-@", "-stay_open"}
    <3>1. /\ Accept(s, line) = [t EXCEPT !.args = Append(@, line)]
          /\ Accept(q, line) = [u EXCEPT !.args = Append(@, line)]
      BY <1>1, <1>5, <2>3 DEF Accept
    <3> HIDE DEF t, u
    <3> QED BY <1>1, <3>1 DEF IsSession, Alike
  <2> QED BY <2>1, <2>2, <2>3
<1>6. CASE s.opt = NoOption /\ line \in Executes
  <2>1. CASE s.waiting
    <3>1. /\ Accept(s, line) = [s EXCEPT !.status = "failed"]
          /\ Accept(q, line) = [q EXCEPT !.status = "failed"]
      BY <1>1, <1>6, <2>1 DEF Accept, Fail
    <3> QED BY <3>1 DEF IsSession, Alike
  <2>2. CASE ~s.waiting
    <3>1. /\ Accept(s, line) = Run(s, s.args, line)
          /\ Accept(q, line) = Run(q, s.args, line)
      BY <1>1, <1>6, <2>2 DEF Accept
    <3> QED BY <1>2, <3>1
  <2> QED BY <2>1, <2>2
<1>7. CASE s.opt = NoOption /\ line \notin Executes
  <2>1. /\ Accept(s, line) = [s EXCEPT !.args = Append(@, line),
                                !.opt = IF line \in ValueOptions THEN line ELSE NoOption]
        /\ Accept(q, line) = [q EXCEPT !.args = Append(@, line),
                                !.opt = IF line \in ValueOptions THEN line ELSE NoOption]
    BY <1>1, <1>7 DEF Accept
  <2> QED BY <2>1 DEF IsSession, Alike
<1> QED BY <1>5, <1>6, <1>7

-----------------------------------------------------------------------------
(* The text of a file, as far as it was read. *)

\* What files hold, now or in the end: every second token of a file ends a line.
IsText(t) ==
  /\ Main \in DOMAIN t /\ MainUnnamed(t) /\ EndedIncludes(t)
  /\ \A f \in DOMAIN t : t[f] \in Seq(Words) /\ \A i \in DOMAIN t[f] : t[f][i] = NL <=> i % 2 = 0

\* Reader `r` is what `origin` comes to by obeying line after line.
Reached(origin, texts, r) == \E k \in Nat : r = Onward(texts, origin, k)

LEMMA ReachedNext ==
  ASSUME NEW origin, NEW texts, NEW r, Reached(origin, texts, r)
  PROVE  Reached(origin, texts, Obey(texts, r))
<1>1. PICK k \in Nat : r = Onward(texts, origin, k)
  BY DEF Reached
<1>2. \A n \in Nat : Onward(texts, origin, n + 1) = Obey(texts, Onward(texts, origin, n))
  BY OnwardSteps
<1>3. Obey(texts, r) = Onward(texts, origin, k + 1)
  BY <1>1, <1>2
<1>4. k + 1 \in Nat
  OBVIOUS
<1> QED BY <1>3, <1>4 DEF Reached

\* A reader is the same for sessions that are alike ...
LEMMA OutcomeAlike ==
  ASSUME NEW texts, NEW s, NEW q, Alike(s, q), NEW file, NEW pos, NEW below
  PROVE  Outcome(texts, s, file, pos, below) = Outcome(texts, q, file, pos, below)
<1>1. ASSUME NEW f, NEW p, NEW b PROVE Reader(s, f, p, b) = Reader(q, f, p, b)
  BY DEF Reader, Alike
<1>2. ASSUME NEW ph PROVE Ended(s, ph) = Ended(q, ph)
  BY DEF Ended, Alike
<1>3. s.status = q.status /\ (s.status \in {"include", "switch"} => s.next = q.next)
  BY DEF Alike
<1>4. CASE s.status = "include"
  BY <1>1, <1>2, <1>3, <1>4 DEF Outcome
<1>5. CASE s.status = "switch"
  BY <1>1, <1>2, <1>3, <1>5 DEF Outcome
<1>6. CASE s.status \notin {"include", "switch"}
  BY <1>1, <1>2, <1>3, <1>6 DEF Outcome
<1> QED BY <1>4, <1>5, <1>6

\* ... and what a reader keeps is all that an open session had between lines.
LEMMA BetweenAlike ==
  ASSUME NEW s, IsSession(s), s.status = "open", NEW file, NEW pos, NEW below
  PROVE  /\ IsSession(Between(Reader(s, file, pos, below)))
         /\ Alike(s, Between(Reader(s, file, pos, below)))
<1> SUFFICES ASSUME NEW b, b = Between(Reader(s, file, pos, below))
             PROVE  IsSession(b) /\ Alike(s, b)
  OBVIOUS
<1>1. b = [buf |-> <<>>, args |-> s.args, opt |-> s.opt, stack |-> <<>>, waiting |-> s.waiting,
           status |-> "open", next |-> NoOption, runs |-> s.runs]
  BY DEF Between, Reader, NewSession
<1> QED BY <1>1 DEF IsSession, Alike

\* A session between two lines that is a reader of the files stays one when it
\* obeys the next line.
LEMMA LineObeyed ==
  ASSUME NEW origin, NEW texts, NEW file \in DOMAIN texts, NEW below,
         NEW s, IsSession(s), s.status = "open", NEW e \in Nat,
         Reached(origin, texts, Outcome(texts, s, file, e, below)),
         NEW q, IsSession(q), Alike(s, q),
         \/ e + 1 < Len(texts[file])
         \/ e + 1 = Len(texts[file]) /\ below # <<>>
  PROVE  Reached(origin, texts, Outcome(texts, Accept(q, texts[file][e + 1]), file,
                       IF e + 1 < Len(texts[file]) THEN e + 2 ELSE e + 1, below))
<1> DEFINE r == Reader(s, file, e, below)
           line == texts[file][e + 1]
           b == Between(r)
           end == IF e + 1 < Len(texts[file]) THEN e + 2 ELSE e + 1
<1>1. Outcome(texts, s, file, e, below) = r
  BY DEF Outcome
<1>2. Reached(origin, texts, Obey(texts, r))
  BY <1>1, ReachedNext
<1>3. r.phase = "running" /\ r.file = file /\ r.pos = e /\ r.below = below
  BY DEF Reader
<1>4. Obey(texts, r) = Outcome(texts, Accept(b, line), file, end, below)
  <2> HIDE DEF r
  <2>1. CASE e + 1 < Len(texts[file])
    BY <1>3, <2>1 DEF Obey
  <2>2. CASE e + 1 = Len(texts[file]) /\ below # <<>>
    BY <1>3, <2>2 DEF Obey
  <2> QED BY <2>1, <2>2
<1>5. IsSession(b) /\ Alike(q, b) /\ q.status = "open"
  <2>1. IsSession(b) /\ Alike(s, b)
    BY BetweenAlike
  <2> HIDE DEF b
  <2> QED BY <2>1 DEF Alike
<1>6. Alike(Accept(q, line), Accept(b, line))
  <2> HIDE DEF b, line
  <2> QED BY <1>5, AcceptAlike
<1>7. Outcome(texts, Accept(q, line), file, end, below)
        = Outcome(texts, Accept(b, line), file, end, below)
  <2> HIDE DEF b, line, end
  <2> QED BY <1>6, OutcomeAlike
<1> HIDE DEF r, b
<1> QED BY <1>2, <1>4, <1>7

\* Session `s` has parsed the first e of the q tokens that were read of the file,
\* and has the rest in its buffer.
Parsed(origin, texts, file, below, q, s, e) ==
  /\ IsSession(s)
  /\ e \in 0..q /\ e % 2 = 0
  /\ s.buf = SubSeq(texts[file], e + 1, q)
  /\ s.opt # NoOption => s.status = "open" /\ e >= 2 /\ texts[file][e - 1] = s.opt
  /\ s.status = "include" => s.next # Main
  /\ Reached(origin, texts, Outcome(texts, s, file, e, below))
\* ... and nothing is in the buffer that it could obey.
Steady(s, q, e) == s.status = "open" => q <= e + 1

\* The tokens of a file.
LEMMA TextTyped ==
  ASSUME NEW t, IsText(t), NEW f \in DOMAIN t
  PROVE  /\ t[f] \in Seq(Words) /\ Len(t[f]) \in Nat /\ DOMAIN t[f] = 1..Len(t[f])
         /\ \A i \in 1..Len(t[f]) : t[f][i] \in Words /\ (t[f][i] = NL <=> i % 2 = 0)
<1>1. t[f] \in Seq(Words) /\ \A i \in DOMAIN t[f] : t[f][i] = NL <=> i % 2 = 0
  BY DEF IsText
<1> HIDE DEF Words
<1>2. Len(t[f]) \in Nat /\ DOMAIN t[f] = 1..Len(t[f]) /\ \A i \in 1..Len(t[f]) : t[f][i] \in Words
  BY <1>1, LenProperties, ElementOfSeq
<1> QED BY <1>1, <1>2

LEMMA SlicesTyped ==
  ASSUME NEW T \in Seq(Words), NEW m \in Nat, NEW n \in Nat, m <= n, n <= Len(T)
  PROVE  /\ SubSeq(T, m + 1, n) \in Seq(Words) /\ Len(SubSeq(T, m + 1, n)) = n - m
         /\ m < n => Last(SubSeq(T, m + 1, n)) = T[n]
         /\ n < Len(T) => Append(SubSeq(T, m + 1, n), T[n + 1]) = SubSeq(T, m + 1, n + 1)
<1> HIDE DEF Words
<1> DEFINE b == SubSeq(T, m + 1, n)
<1>1. Len(T) \in Nat /\ \A i \in 1..Len(T) : T[i] \in Words
  BY LenProperties, ElementOfSeq
<1>2. b \in Seq(Words) /\ Len(b) = n - m /\ \A i \in 1..(n - m) : b[i] = T[m + i]
  <2>1. \A i \in (m + 1)..n : T[i] \in Words
    BY <1>1
  <2>2. /\ b \in Seq(Words)
        /\ Len(b) = IF m + 1 <= n THEN n - (m + 1) + 1 ELSE 0
        /\ \A i \in 1..(n - (m + 1) + 1) : b[i] = T[(m + 1) + i - 1]
    BY <2>1, SubSeqProperties
  <2> HIDE DEF b
  <2>3. n - (m + 1) + 1 = n - m
    OBVIOUS
  <2>4. \A i \in 1..(n - m) : b[i] = T[m + i]
    BY <2>2, <2>3
  <2> QED BY <2>2, <2>4
<1>3. m < n => Last(b) = T[n]
  <2> HIDE DEF b
  <2>1. m < n => n - m \in 1..(n - m) /\ m + (n - m) = n
    OBVIOUS
  <2> QED BY <1>2, <2>1 DEF Last
<1>4. ASSUME n < Len(T) PROVE Append(b, T[n + 1]) = SubSeq(T, m + 1, n + 1)
  <2>1. m + 1 \in 1..Len(T) /\ n + 1 \in (m + 1)..Len(T) /\ (n + 1) - 1 = n /\ n + 1 \in 1..Len(T)
    BY <1>1, <1>4
  <2>2. SubSeq(T, m + 1, n + 1) = SubSeq(T, m + 1, (n + 1) - 1) \o <<T[n + 1]>>
    BY <2>1, SubSeqRecursiveSecond
  <2>3. Append(b, T[n + 1]) = b \o <<T[n + 1]>>
    <3> HIDE DEF b
    <3> QED BY <1>1, <1>2, <2>1, AppendIsConcat
  <2> QED BY <2>1, <2>2, <2>3
<1> HIDE DEF b
<1> QED BY <1>2, <1>3, <1>4 DEF b

\* One more token: a line that is complete is obeyed, or put back after a control.
LEMMA TakeParsed ==
  ASSUME NEW origin, NEW t, IsText(t), NEW f \in DOMAIN t, NEW below, NEW q \in Nat,
         q < Len(t[f]), NEW s, NEW e, Parsed(origin, t, f, below, q, s, e), Steady(s, q, e),
         NEW a, a = Take(s, t[f][q + 1])
  PROVE  \E d : Parsed(origin, t, f, below, q + 1, a, d) /\ Steady(a, q + 1, d) /\ a.stack = s.stack
<1> DEFINE T == t[f]
<1> HIDE DEF Words
<1>1. /\ IsSession(s) /\ e \in Nat /\ e <= q /\ e % 2 = 0 /\ s.buf = SubSeq(T, e + 1, q)
      /\ T \in Seq(Words) /\ Len(T) \in Nat
      /\ \A i \in 1..Len(T) : T[i] \in Words /\ (T[i] = NL <=> i % 2 = 0)
  BY TextTyped DEF Parsed
<1>2. Append(s.buf, T[q + 1]) = SubSeq(T, e + 1, q + 1)
  <2>1. T \in Seq(Words) /\ e \in Nat /\ e <= q /\ q < Len(T)
    BY <1>1
  <2> HIDE DEF T
  <2>2. Append(SubSeq(T, e + 1, q), T[q + 1]) = SubSeq(T, e + 1, q + 1)
    <3>1. q <= Len(T)
      BY <1>1, <2>1
    <3> QED BY ONLY <2>1, <3>1, q \in Nat, SlicesTyped
  <2> QED BY <1>1, <2>2
<1>3. CASE s.status # "open" \/ T[q + 1] # NL
  <2>1. a = [s EXCEPT !.buf = Append(@, T[q + 1])]
    BY <1>3 DEF Take
  <2> DEFINE b == SubSeq(T, e + 1, q + 1)
  <2>2. a = [buf |-> b, args |-> s.args, opt |-> s.opt, stack |-> s.stack,
             waiting |-> s.waiting, status |-> s.status, next |-> s.next, runs |-> s.runs]
    BY <1>1, <1>2, <2>1 DEF IsSession
  <2> HIDE DEF b
  <2>3. IsSession(a) /\ Alike(a, s) /\ a.buf = b /\ a.stack = s.stack
    BY <1>1, <2>2 DEF IsSession, Alike
  <2>4. Reached(origin, t, Outcome(t, a, f, e, below))
    BY <2>3, OutcomeAlike DEF Parsed
  <2>5. Parsed(origin, t, f, below, q + 1, a, e)
    <3>1. a.opt = s.opt /\ a.status = s.status /\ a.next = s.next
      BY <2>2
    <3> QED BY <1>1, <2>3, <2>4, <3>1 DEF Parsed, b
  <2>6. Steady(a, q + 1, e)
    <3>1. CASE s.status = "open"
      <4>1. q + 1 \in 1..Len(T) /\ T[q + 1] # NL
        BY <1>1, <1>3, <3>1
      <4>2. (q + 1) % 2 # 0
        BY <1>1, <4>1
      <4>3. q <= e + 1
        BY <3>1 DEF Steady
      <4>4. e \in Nat /\ e % 2 = 0 /\ e <= q
        BY <1>1
      <4>5. q = e
        BY ONLY <4>2, <4>3, <4>4, q \in Nat
      <4> QED BY <1>1, <4>5 DEF Steady
    <3>2. CASE s.status # "open"
      BY <2>2, <3>2 DEF Steady
    <3> QED BY <3>1, <3>2
  <2> QED BY <2>3, <2>5, <2>6
<1>4. CASE s.status = "open" /\ T[q + 1] = NL
  <2>1. q = e + 1 /\ e + 1 \in 1..Len(T) /\ q + 1 = e + 2
    <3>1. q + 1 \in 1..Len(T)
      BY <1>1
    <3>2. (q + 1) % 2 = 0 /\ q <= e + 1
      BY <1>1, <1>4, <3>1 DEF Steady
    <3>3. e \in Nat /\ e <= q /\ e % 2 = 0
      BY <1>1
    <3>4. q = e + 1 /\ q + 1 = e + 2
      BY ONLY <3>2, <3>3, q \in Nat
    <3>5. e + 1 \in 1..Len(T)
      BY <1>1, <3>3, <3>4
    <3> QED BY <3>4, <3>5
  <2> DEFINE line == T[e + 1]
             o == [s EXCEPT !.buf = <<>>]
  <2>2. Last(s.buf) = line
    <3> HIDE DEF T
    <3>1. Last(SubSeq(T, e + 1, q)) = T[q]
      BY <1>1, <2>1, SlicesTyped DEF T
    <3> QED BY <1>1, <2>1, <3>1
  <2>3. a = Accept(o, line)
    BY <1>4, <2>2 DEF Take
  <2>4. line \in Words /\ line # Main
    BY <1>1, <2>1, TextTyped DEF IsText, MainUnnamed
  <2>5. IsSession(o) /\ Alike(s, o) /\ o.status = "open" /\ o.buf = <<>> /\ o.stack = s.stack
    <3>1. o = [buf |-> <<>>, args |-> s.args, opt |-> s.opt, stack |-> s.stack,
               waiting |-> s.waiting, status |-> s.status, next |-> s.next, runs |-> s.runs]
      <4>1. IsSession(s)
        BY <1>1
      <4> QED BY ONLY <4>1 DEF IsSession, o
    <3> HIDE DEF o
    <3> QED BY <1>1, <1>4, <3>1 DEF IsSession, Alike
  <2>6. Heeds(o, line, a)
    <3> HIDE DEF o, line
    <3> QED BY <2>3, <2>4, <2>5, AcceptTyped
  <2>7. Reached(origin, t, Outcome(t, a, f, e + 2, below))
    <3>1. e + 1 < Len(t[f])
      BY <2>1
    <3>2. Reached(origin, t, Outcome(t, s, f, e, below))
      BY DEF Parsed
    <3> HIDE DEF o
    <3>3. Reached(origin, t, Outcome(t, Accept(o, t[f][e + 1]), f,
                       IF e + 1 < Len(t[f]) THEN e + 2 ELSE e + 1, below))
      BY <1>1, <1>4, <2>5, <3>1, <3>2, LineObeyed
    <3> QED BY <2>3, <3>1, <3>3
  <2> HIDE DEF o
  <2>8. Parsed(origin, t, f, below, q + 1, a, e + 2)
    <3>1. IsSession(a) /\ a.buf = <<>>
      BY <2>5, <2>6 DEF Heeds
    <3>2. e + 2 \in 0..(q + 1) /\ (e + 2) % 2 = 0
      <4> HIDE DEF T
      <4> QED BY <1>1, <2>1
    <3>3. SubSeq(t[f], (e + 2) + 1, q + 1) = <<>>
      BY <1>1, <2>1, SubSeqEmpty
    <3>4. a.opt # NoOption => a.status = "open" /\ e + 2 >= 2 /\ t[f][(e + 2) - 1] = a.opt
      BY <1>1, <2>6 DEF Heeds
    <3>5. a.status = "include" => a.next # Main
      BY <2>4, <2>6 DEF Heeds
    <3> HIDE DEF T
    <3> QED BY <2>7, <3>1, <3>2, <3>3, <3>4, <3>5 DEF Parsed
  <2>9. Steady(a, q + 1, e + 2) /\ a.stack = s.stack
    BY <1>1, <2>1, <2>5, <2>6 DEF Steady, Heeds
  <2> QED BY <2>8, <2>9
<1> QED BY <1>3, <1>4

\* The session at its next update.
Reopened(s) == [s EXCEPT !.status = "open"]

\* A session that begins an update, and its record.
Emptied(s) == [s EXCEPT !.buf = <<>>, !.status = "open"]
LEMMA EmptiedRecord ==
  ASSUME NEW s, IsSession(s), NEW o, o = Emptied(s)
  PROVE  o = [buf |-> <<>>, args |-> s.args, opt |-> s.opt, stack |-> s.stack,
              waiting |-> s.waiting, status |-> "open", next |-> s.next, runs |-> s.runs]
BY DEF IsSession, Emptied

\* What is buffered and the chunk are the tokens from the first unparsed one on.
LEMMA FeedParsed ==
  ASSUME NEW origin, NEW t, IsText(t), NEW f \in DOMAIN t, NEW below,
         NEW q \in Nat, NEW n \in Nat, q <= n, n <= Len(t[f]),
         NEW s, IsSession(s), NEW p, Parsed(origin, t, f, below, q, Reopened(s), p)
  PROVE  \E a, e : /\ Parsed(origin, t, f, below, n, a, e) /\ Steady(a, n, e) /\ a.stack = s.stack
                   /\ Feed(s, SubSeq(t[f], q + 1, n)) = Settle(a)
<1> DEFINE T == t[f]
           tokens == s.buf \o SubSeq(T, q + 1, n)
           o == Emptied(s)
<1> HIDE DEF Words
<1>1. /\ T \in Seq(Words) /\ Len(T) \in Nat /\ n <= Len(T)
      /\ \A i \in 1..Len(T) : T[i] \in Words /\ (T[i] = NL <=> i % 2 = 0)
  BY TextTyped
<1>2. /\ p \in Nat /\ p <= q /\ p % 2 = 0 /\ s.buf = SubSeq(T, p + 1, q)
      /\ s.opt # NoOption => p >= 2 /\ T[p - 1] = s.opt
  <2>1. Reopened(s).buf = s.buf /\ Reopened(s).opt = s.opt
    BY DEF IsSession, Reopened
  <2> QED BY <2>1 DEF Parsed
<1>3. tokens = SubSeq(T, p + 1, n) /\ Len(tokens) = n - p
      /\ \A i \in 1..(n - p) : tokens[i] = T[p + i]
  <2> HIDE DEF T
  <2>1. p + 1 \in 1..(Len(T) + 1) /\ q \in ((p + 1) - 1)..Len(T) /\ n \in q..Len(T)
    BY <1>1, <1>2
  <2>2. tokens = SubSeq(T, p + 1, n)
    BY <1>1, <1>2, <2>1, ConcatAdjacentSubSeq
  <2>3. Len(SubSeq(T, p + 1, n)) = n - p
    BY <1>1, <1>2, SlicesTyped
  <2>4. \A i \in (p + 1)..n : T[i] \in Words
    BY <1>1, <1>2
  <2>5. \A i \in 1..(n - (p + 1) + 1) : SubSeq(T, p + 1, n)[i] = T[(p + 1) + i - 1]
    BY <1>2, <2>4, SubSeqProperties
  <2> HIDE DEF tokens
  <2>6. ASSUME NEW i \in 1..(n - p) PROVE tokens[i] = T[p + i]
    <3>1. i \in 1..(n - (p + 1) + 1) /\ (p + 1) + i - 1 = p + i
      BY <1>2
    <3> QED BY <2>2, <2>5, <3>1
  <2> QED BY <2>2, <2>3, <2>6
<1>4. Parsed(origin, t, f, below, p, o, p) /\ o.stack = s.stack
  <2>1. o = [buf |-> <<>>, args |-> s.args, opt |-> s.opt, stack |-> s.stack,
             waiting |-> s.waiting, status |-> "open", next |-> s.next, runs |-> s.runs]
    BY EmptiedRecord
  <2>2. Reopened(s) = [buf |-> s.buf, args |-> s.args, opt |-> s.opt, stack |-> s.stack,
             waiting |-> s.waiting, status |-> "open", next |-> s.next, runs |-> s.runs]
    BY DEF IsSession, Reopened
  <2> HIDE DEF o
  <2>3. IsSession(o) /\ Alike(o, Reopened(s)) /\ o.buf = <<>> /\ o.stack = s.stack
    BY <2>1, <2>2 DEF IsSession, Alike, Statuses
  <2>4. Reached(origin, t, Outcome(t, o, f, p, below))
    BY <2>3, OutcomeAlike DEF Parsed
  <2>5. SubSeq(T, p + 1, p) = <<>>
    BY <1>2, SubSeqEmpty
  <2> QED BY <1>2, <2>1, <2>3, <2>4, <2>5 DEF Parsed
<1>5. PICK after : /\ after[0] = o /\ TakeAll(o, tokens) = after[n - p]
                   /\ \A i \in 1..(n - p) : after[i] = Take(after[i - 1], T[p + i])
  <2> HIDE DEF tokens, o
  <2>1. Len(tokens) \in Nat
    BY <1>2, <1>3
  <2>2. PICK after : TakenInTurn(after, o, tokens)
    BY <2>1, TakeAllSteps
  <2>3. ASSUME NEW i \in 1..(n - p) PROVE after[i] = Take(after[i - 1], T[p + i])
    <3>1. i \in 1..Len(tokens) /\ tokens[i] = T[p + i]
      BY <1>3
    <3> HIDE DEF T
    <3> QED BY <2>2, <3>1 DEF TakenInTurn
  <2> HIDE DEF T
  <2>4. after[0] = o /\ TakeAll(o, tokens) = after[n - p]
    BY <1>3, <2>2 DEF TakenInTurn
  <2> QED BY <2>3, <2>4
<1> DEFINE Good(i, d) == /\ Parsed(origin, t, f, below, p + i, after[i], d)
                         /\ Steady(after[i], p + i, d) /\ after[i].stack = s.stack
           S == {i \in Nat : i <= n - p => \E d : Good(i, d)}
<1>6. 0 \in S
  <2>1. p + 0 = p /\ Steady(o, p, p)
    BY <1>2 DEF Steady
  <2> HIDE DEF o
  <2>2. Good(0, p)
    BY <1>4, <1>5, <2>1
  <2> QED BY <2>2
<1>7. ASSUME NEW i \in Nat, i \in S PROVE i + 1 \in S
  <2> SUFFICES ASSUME i + 1 <= n - p PROVE \E d : Good(i + 1, d)
    OBVIOUS
  <2>1. PICK d : Good(i, d)
    BY <1>2, <1>7
  <2>2. /\ i + 1 \in 1..(n - p) /\ (i + 1) - 1 = i /\ p + (i + 1) = (p + i) + 1 /\ p + i \in Nat
        /\ p + i < Len(T)
    BY <1>1, <1>2
  <2>3. after[i + 1] = Take(after[i], T[(p + i) + 1])
    <3> HIDE DEF T
    <3> QED BY <1>5, <2>2
  <2> DEFINE b == after[i]
  <2>4. /\ Parsed(origin, t, f, below, p + i, b, d) /\ Steady(b, p + i, d) /\ b.stack = s.stack
    BY <2>1
  <2> HIDE DEF b
  <2> DEFINE c == after[i + 1]
  <2>5. c = Take(b, t[f][(p + i) + 1])
    BY <2>3 DEF b
  <2> HIDE DEF c
  <2>6. PICK d2 : /\ Parsed(origin, t, f, below, (p + i) + 1, c, d2)
                  /\ Steady(c, (p + i) + 1, d2) /\ c.stack = b.stack
    BY <2>2, <2>4, <2>5, TakeParsed
  <2>7. Good(i + 1, d2)
    BY <2>2, <2>4, <2>6 DEF c
  <2> QED BY <2>7
<1>8. Nat \subseteq S
  <2> HIDE DEF S
  <2> QED BY <1>6, <1>7, Induction
<1>9. PICK d : Good(n - p, d)
  <2>1. n - p \in Nat
    BY <1>2
  <2> HIDE DEF Good
  <2> QED BY <1>8, <2>1
<1>10. Feed(s, SubSeq(T, q + 1, n)) = Settle(after[n - p])
  <2> DEFINE z == TakeAll(o, tokens)
  <2>1. Feed(s, SubSeq(T, q + 1, n)) = The({Settle(x) : x \in {z}})
    BY DEF Feed, Emptied
  <2> HIDE DEF z
  <2>2. {Settle(x) : x \in {z}} = {Settle(z)}
    OBVIOUS
  <2>3. z = after[n - p]
    BY <1>5 DEF z
  <2> QED BY <2>1, <2>2, <2>3, One
<1>11. p + (n - p) = n
  BY <1>2
<1> HIDE DEF T, tokens, o
<1> QED BY <1>9, <1>10, <1>11 DEF T

-----------------------------------------------------------------------------
(* The end of an included file. *)

LEMMA TwoTokens == ASSUME NEW x, NEW y PROVE <<x>> \o <<y>> = <<x, y>>
<1> DEFINE S == {x, y}
           p == <<x>>
           q == <<y>>
           r == <<x, y>>
<1>1. p \in Seq(S) /\ q \in Seq(S) /\ r \in Seq(S) /\ Len(p) = 1 /\ Len(q) = 1 /\ Len(r) = 2
      /\ r[1] = x /\ r[2] = y /\ p[1] = x /\ q[1] = y
  OBVIOUS
<1> HIDE DEF p, q, r, S
<1>2. /\ p \o q \in Seq(S) /\ Len(p \o q) = Len(p) + Len(q)
      /\ \A i \in 1..(Len(p) + Len(q)) :
           (p \o q)[i] = IF i <= Len(p) THEN p[i] ELSE q[i - Len(p)]
  BY <1>1, ConcatProperties
<1>3. \A i \in 1..2 : (p \o q)[i] = r[i]
  BY <1>1, <1>2
<1>4. p \o q = r
  BY <1>1, <1>2, <1>3, SeqEqual
<1> QED BY <1>4 DEF p, q, r

\* A line end completes the one line that is buffered.
LEMMA FeedLine ==
  ASSUME NEW s, IsSession(s), NEW line, s.buf = <<line>>, line # NL
  PROVE  Feed(s, <<NL>>) = Settle(Accept(Emptied(s), line))
<1> DEFINE o == Emptied(s)
           tokens == <<line, NL>>
<1>1. s.buf \o <<NL>> = tokens /\ Len(tokens) = 2 /\ tokens[1] = line /\ tokens[2] = NL
  BY TwoTokens
<1>2. o = [buf |-> <<>>, args |-> s.args, opt |-> s.opt, stack |-> s.stack,
           waiting |-> s.waiting, status |-> "open", next |-> s.next, runs |-> s.runs]
  BY EmptiedRecord
<1> HIDE DEF o, tokens
<1>3. PICK after : TakenInTurn(after, o, tokens)
  <2>1. Len(tokens) \in Nat
    BY <1>1
  <2> QED BY <2>1, TakeAllSteps
<1> DEFINE b == after[1]
<1>4. b = Take(o, line) /\ after[2] = Take(b, NL) /\ TakeAll(o, tokens) = after[2]
  <2>1. 1 \in 1..2 /\ 2 \in 1..2 /\ 1 - 1 = 0 /\ 2 - 1 = 1
    OBVIOUS
  <2> QED BY <1>1, <1>3, <2>1 DEF TakenInTurn
<1> HIDE DEF b
<1>5. b = [buf |-> <<line>>, args |-> s.args, opt |-> s.opt, stack |-> s.stack,
           waiting |-> s.waiting, status |-> "open", next |-> s.next, runs |-> s.runs]
  <2>1. b = [o EXCEPT !.buf = Append(@, line)]
    BY <1>4 DEF Take
  <2> QED BY <1>2, <2>1
<1>6. [b EXCEPT !.buf = <<>>] = o /\ Last(b.buf) = line
  BY <1>2, <1>5 DEF Last
<1>7. Take(b, NL) = Accept(o, line)
  BY <1>5, <1>6 DEF Take
<1>8. Feed(s, <<NL>>) = The({Settle(x) : x \in {TakeAll(o, tokens)}})
  BY <1>1 DEF Feed, Emptied, o
<1> DEFINE z == TakeAll(o, tokens)
<1> HIDE DEF z
<1>9. {Settle(x) : x \in {z}} = {Settle(z)}
  OBVIOUS
<1> QED BY <1>4, <1>7, <1>8, <1>9, One DEF z, o

\* Without it, the buffer is not obeyed: a poll changes nothing but the status.
LEMMA FeedNothing ==
  ASSUME NEW s, IsSession(s), NEW line, s.buf \in {<<>>, <<line>>}, line # NL
  PROVE  Feed(s, <<>>) = Reopened(s)
<1> DEFINE o == Emptied(s)
           tokens == s.buf
           r == Reopened(s)
<1>1. s.buf \o <<>> = tokens
  OBVIOUS
<1>2. o = [buf |-> <<>>, args |-> s.args, opt |-> s.opt, stack |-> s.stack,
           waiting |-> s.waiting, status |-> "open", next |-> s.next, runs |-> s.runs]
  BY EmptiedRecord
<1>3. r = [buf |-> s.buf, args |-> s.args, opt |-> s.opt, stack |-> s.stack,
           waiting |-> s.waiting, status |-> "open", next |-> s.next, runs |-> s.runs]
  BY DEF IsSession, Reopened
<1> HIDE DEF o, r
<1>4. TakeAll(o, tokens) = r
  <2>1. Len(tokens) \in Nat
    OBVIOUS
  <2>2. PICK after : TakenInTurn(after, o, tokens)
    BY <2>1, TakeAllSteps
  <2>3. CASE s.buf = <<>>
    BY <1>2, <1>3, <2>2, <2>3 DEF TakenInTurn
  <2>4. CASE s.buf = <<line>>
    <3> DEFINE b == after[1]
    <3>1. Len(tokens) = 1 /\ tokens[1] = line /\ 1 \in 1..1 /\ 1 - 1 = 0
      BY <2>4
    <3> HIDE DEF tokens
    <3>2. b = Take(o, line) /\ TakeAll(o, tokens) = b
      BY <2>2, <3>1 DEF TakenInTurn
    <3> HIDE DEF b
    <3>3. b = [o EXCEPT !.buf = Append(@, line)]
      BY <3>2 DEF Take
    <3>4. b = r
      BY <1>2, <1>3, <2>4, <3>3
    <3> QED BY <3>2, <3>4
  <2> QED BY <2>3, <2>4
<1>5. Settle(r) = r
  BY <1>3 DEF Settle
<1>6. Feed(s, <<>>) = The({Settle(x) : x \in {r}})
  BY <1>1, <1>4 DEF Feed, Emptied, o
<1>7. {Settle(x) : x \in {r}} = {r}
  BY <1>5
<1> QED BY <1>6, <1>7, One DEF r
=============================================================================
