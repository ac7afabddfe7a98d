---------------------------- MODULE TaskQueueClaims ----------------------------
(***************************************************************************)
(* What the docs and comments of the queue say and the code does not always  *)
(* do.  Each property is the sentence it quotes; TaskQueue has the behaviour *)
(* that contradicts it.                                                      *)
(***************************************************************************)
EXTENDS TaskQueue

\* "pending/scheduled -> status=canceled immediately" (Supervisor.cancel): a row
\* that the endpoint has canceled stays so, nothing runs it afterwards.
CanceledStays ==
  [][\A w \in Work : row[w].status = "canceled" => row'[w].status \in {"canceled", "deleted"}]_vars

\* "create_task already lands the task as pending+generate ... the dispatcher skips
\* generate tasks with config_path=NULL" (enqueue_generate): a row whose enqueue is
\* still in progress is left alone.
EnqueueIsUndisturbed ==
  \A t \in Threads :
    api[t].op \in {"enqueue_type", "enqueue_cfg"} => row[api[t].w].status = "pending"

\* "cancel unfinished old eval jobs" (_clear_previous_task_eval): a canceled
\* evaluation job has no process, or one that was told to end.
CanceledEvalStops ==
  \A w \in Work :
    row[w].status = "canceled" /\ row[w].type = "eval_samples"
      => \A s \in SlotNames : Busy(s) /\ Alive(s) /\ child[s].id = w => child[s].term

\* "The next time the user clicks start generating, the daemon loads on demand"
\* (unload_daemon): an unload in progress is no reason to fail a generate.
UnloadDoesNotFailGenerate ==
  [][sup.pc = "gen_submit" /\ dmn.state = "unloading" => sup'.pc # "gen_reject"]_vars
================================================================================
