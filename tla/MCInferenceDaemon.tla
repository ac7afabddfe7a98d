--------------------------- MODULE MCInferenceDaemon ---------------------------
(***************************************************************************)
(* Instances of InferenceDaemon for TLC.                                      *)
(***************************************************************************)
EXTENDS InferenceDaemon

TwoTasks == {1, 2}
================================================================================
