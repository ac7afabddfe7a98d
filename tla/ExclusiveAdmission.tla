--------------------------- MODULE ExclusiveAdmission ---------------------------
(***************************************************************************)
(* What the exclusive tier promises (resources.py): one holder of a whole    *)
(* base model at a time, a process of its own or the generate that the       *)
(* daemon works on.  The model that the daemon keeps from one generate to    *)
(* the next is a lease: it stands until it is revoked, and no process is     *)
(* admitted beside it.                                                       *)
(***************************************************************************)
CONSTANTS Work, NoWork

VARIABLES
  jobs,      \* works whose own process holds a base model
  generate,  \* the work the daemon is busy with
  loaded     \* the daemon holds its model

vars == <<jobs, generate, loaded>>

Init == jobs = {} /\ generate = NoWork /\ loaded = FALSE

Free == jobs = {} /\ generate = NoWork

Spawn(w) ==
  /\ Free /\ ~loaded
  /\ jobs' = {w}
  /\ UNCHANGED <<generate, loaded>>

JobEnds ==
  /\ jobs # {} /\ jobs' = {}
  /\ UNCHANGED <<generate, loaded>>

Submit(w) ==
  /\ Free
  /\ generate' = w
  /\ UNCHANGED <<jobs, loaded>>

\* A model is loaded for a generate only.
Load ==
  /\ generate # NoWork
  /\ loaded' = TRUE
  /\ UNCHANGED <<jobs, generate>>

GenerateEnds ==
  /\ generate # NoWork /\ generate' = NoWork
  /\ UNCHANGED <<jobs, loaded>>

Revoke ==
  /\ loaded' = FALSE
  /\ UNCHANGED <<jobs, generate>>

\* The daemon's process is gone, or the whole server.
DaemonGone == generate' = NoWork /\ loaded' = FALSE /\ UNCHANGED jobs
ServerGone == jobs' = {} /\ generate' = NoWork /\ loaded' = FALSE

Next ==
  \/ \E w \in Work : Spawn(w) \/ Submit(w)
  \/ JobEnds \/ Load \/ GenerateEnds \/ Revoke
  \/ DaemonGone \/ ServerGone

Spec == Init /\ [][Next]_vars
================================================================================
