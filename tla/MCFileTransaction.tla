-------------------------- MODULE MCFileTransaction --------------------------
(* Small instances of FileTransaction: every writer is a process of its own. *)
EXTENDS FileTransaction
OwnPid == [w \in Writers |-> w]
=============================================================================
