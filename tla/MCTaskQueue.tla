------------------------------ MODULE MCTaskQueue ------------------------------
(***************************************************************************)
(* Instances of TaskQueue for TLC: what the rows of each run are and how they *)
(* stand at the start.  Every kind that competes for an executor occurs: a    *)
(* training (TRAIN slot), a generate (daemon), an evaluation (DATA slot, of   *)
(* the exclusive tier) and a light job (DATA slot).                           *)
(***************************************************************************)
EXTENDS TaskQueueClaims, TaskQueueInduction

None == 0

TrainTrain   == <<"train", "train">>
TrainEval    == <<"train", "eval_samples">>
GenEval      == <<"generate", "eval_samples">>
GenGen       == <<"generate", "generate">>
GenTrainEval == <<"generate", "train", "eval_samples">>
GenGenTrainEval   == <<"generate", "generate", "train", "eval_samples">>
LightTrainGenEval == <<"light", "train", "generate", "eval_samples">>

\* Rows that belong to no version, and rows that share one.
NoVersions2 == <<None, None>>
NoVersions3 == <<None, None, None>>
NoVersions4 == <<None, None, None, None>>
OneVersion2 == <<1, 1>>

AllPending2   == <<"pending", "pending">>
AllPending3   == <<"pending", "pending", "pending">>
AllPending4   == <<"pending", "pending", "pending", "pending">>
OneScheduled3 == <<"pending", "scheduled", "pending">>
OnlyFirst2    == <<"pending", "absent">>
FirstScheduled2 == <<"scheduled", "absent">>
AllAbsent2    == <<"absent", "absent">>
FirstTwo4     == <<"pending", "pending", "absent", "absent">>
================================================================================
