---- MODULE MCRuntimeDrain ----
(***************************************************************************)
(* Instances of RuntimeDrain for TLC.  The signal's shutdown task and one  *)
(* request are two callers of start_drain.                                 *)
(***************************************************************************)
EXTENDS RuntimeDrain
====
