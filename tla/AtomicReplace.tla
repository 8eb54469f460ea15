---------------------------- MODULE AtomicReplace ----------------------------
(***************************************************************************)
(* What the rename-based writers of src/exifmodern/file_transaction.py     *)
(* promise their callers: the target is a register that a call replaces in *)
(* one step, at most once, between its invocation and its end.  A call     *)
(* that returns has replaced it and made the replacement durable; a call   *)
(* that raises or dies may or may not have replaced it, but has never left *)
(* anything but a whole value.                                             *)
(***************************************************************************)
CONSTANTS Writers, Data, Values

VARIABLES
  value,     \* what a reader of the target sees
  durable,   \* what the target may hold after a power loss
  phase,     \* "idle", "pending", "replaced", "durable" or "failed"
  data,      \* what the writer's call replaces the target with
  outcome

vars == <<value, durable, phase, data, outcome>>

Init ==
  /\ value \in Values
  /\ durable = {value}
  /\ phase = [w \in Writers |-> "idle"]
  /\ data \in [Writers -> Values]
  /\ outcome = [w \in Writers |-> "ok"]

Move(w, from, to) == phase[w] \in from /\ phase' = [phase EXCEPT ![w] = to]
Result(w, r) == outcome' = [outcome EXCEPT ![w] = r]

Invoke(w) ==
  /\ Move(w, {"idle"}, "pending")
  /\ \E d \in Data : data' = [data EXCEPT ![w] = d]
  /\ Result(w, "running")
  /\ UNCHANGED <<value, durable>>

Replace(w) ==
  /\ Move(w, {"pending"}, "replaced")
  /\ value' = data[w]
  /\ durable' = durable \cup {data[w]}
  /\ UNCHANGED <<data, outcome>>

MakeDurable(w) ==
  /\ Move(w, {"replaced"}, "durable")
  /\ durable' = {value}
  /\ UNCHANGED <<value, data, outcome>>

Return(w) ==
  /\ Move(w, {"durable"}, "idle")
  /\ Result(w, "ok")
  /\ UNCHANGED <<value, durable, data>>

Fail(w) ==
  /\ \/ Move(w, {"pending", "replaced", "durable"}, "failed")
     \/ Move(w, {"pending", "durable", "failed"}, "idle")
  /\ Result(w, "raised")
  /\ UNCHANGED <<value, durable, data>>

Die(w) ==
  /\ Move(w, {"pending", "replaced", "durable", "failed"}, "idle")
  /\ Result(w, "killed")
  /\ UNCHANGED <<value, durable, data>>

PowerLoss ==
  /\ value' \in durable
  /\ durable' = {value'}
  /\ phase' = [w \in Writers |-> "idle"]
  /\ outcome' = [w \in Writers |-> IF phase[w] = "idle" THEN outcome[w] ELSE "killed"]
  /\ UNCHANGED data

Next == \/ PowerLoss
        \/ \E w \in Writers : \/ Invoke(w) \/ Replace(w) \/ MakeDurable(w)
                              \/ Return(w) \/ Fail(w) \/ Die(w)

Spec == Init /\ [][Next]_vars
=============================================================================
