-------------------------- MODULE DiskPollSupervisor --------------------------
(***************************************************************************)
(* StayOpenDiskPollSupervisor of src/exifmodern/public_interface/          *)
(* stay_open.py: how the loop sleeps at the end of its ARGFILE, and how a  *)
(* SIGCONT of the client wakes it.  The signal handler runs in the loop's  *)
(* own thread, between any two of its steps, and sets a threading.Event,   *)
(* whose lock is not reentrant: the handler waits for ever if the step it  *)
(* interrupts holds it.  (So does a handler interrupted by a second one;   *)
(* the signal during "testing" stands for that too.)                       *)
(***************************************************************************)
VARIABLES
  at,    \* "reading", "eof", in the sleep: "testing", "asleep", "leaving", "woken",
         \* "clearing", and "stuck" when the handler waits for its own thread
  flag,  \* the Event
  owed   \* history: a signal came since the loop last began to read up to the end

supervisor == <<at, flag, owed>>

\* Inside Event.wait or Event.clear, with its lock.
Locked == at \in {"testing", "leaving", "clearing"}

SupervisorTypeOK ==
  /\ at \in {"reading", "eof", "testing", "asleep", "leaving", "woken", "clearing", "stuck"}
  /\ flag \in BOOLEAN /\ owed \in BOOLEAN

SupervisorInit == at = "reading" /\ flag = FALSE /\ owed = FALSE

\* A read that finds nothing, after all that was written has been read.
ReadEof == at = "reading" /\ at' = "eof" /\ owed' = FALSE /\ UNCHANGED flag

\* Mutant: the sleep clears the Event before it waits.
ClearsFirst(step) ==
  CASE step = "slept" -> "reading" [] step = "cleared" -> "testing" [] OTHER -> "clearing"
\* The order of sleep(): wait, then clear, then back to the loop.
Continue(step) ==
  CASE step = "slept" -> "woken" [] step = "cleared" -> "reading" [] OTHER -> "testing"

GoToSleep == at = "eof" /\ at' = Continue("polled") /\ UNCHANGED <<flag, owed>>

\* Event.wait returns at once if the Event is set.
Test ==
  /\ at = "testing" /\ at' = IF flag THEN Continue("slept") ELSE "asleep"
  /\ UNCHANGED <<flag, owed>>

\* STAY_OPEN_DISK_POLL_DELAY_SECONDS have passed.
TimeOut == at = "asleep" /\ at' = "leaving" /\ UNCHANGED <<flag, owed>>

Leave == at = "leaving" /\ at' = Continue("slept") /\ UNCHANGED <<flag, owed>>

Clear ==
  \/ at = "woken" /\ at' = "clearing" /\ UNCHANGED <<flag, owed>>
  \/ at = "clearing" /\ at' = Continue("cleared") /\ flag' = FALSE /\ UNCHANGED owed

Sleep == Test \/ TimeOut \/ Leave \/ Clear

\* notify_cont_signal, which also releases a waiting thread.
SigCont ==
  /\ at # "stuck"
  /\ owed' = TRUE
  /\ \/ Locked /\ at' = "stuck" /\ UNCHANGED flag
     \/ ~Locked /\ flag' = TRUE /\ at' = IF at = "asleep" THEN "leaving" ELSE at

\* No signal is lost: the loop never goes to sleep, or sleeps on, when a signal
\* came after it began the read that found the end of the file.
NoLostWakeup == at = "asleep" => ~owed
=============================================================================
