--------------------------- MODULE TaskQueueInduction ---------------------------
(***************************************************************************)
(* The inductive invariants behind the theorems of TaskQueueProofs: what the *)
(* supervisor, the daemon's reader threads and the request threads may rely   *)
(* on at each of their steps.                                                 *)
(***************************************************************************)
EXTENDS TaskQueue

\* Steps of the supervisor that work on a row.
WorkSteps == SupSteps \ {"down", "promote", "promote_write", "reap", "dispatch"}

\* A thread that is to write a row knows which one, and what to write.
SupNamesWork ==
  /\ sup.pc \in WorkSteps => sup.w \in Work
  /\ sup.pc \in {"record", "release"} => sup.st \in TerminalStatuses \cup {"paused"}

ProcessesNameWork == \A s \in SlotNames : child[s].life # "none" => child[s].id \in Work

ReadersNameWork == \A r \in Readers : fin[r].pc \in {"clear", "write"} => fin[r].w \in Work

RequestsNameWork ==
  \A t \in Threads :
    /\ api[t].op # "none" => api[t].w \in Work
    /\ api[t].op \in {"resume_derive", "resume_version"} => VersionOf[api[t].w] # NoVersion
    /\ api[t].op = "resume_version" => api[t].seen \in VersionStatuses

\* The types, with what the steps in progress work on.
TypeInv ==
  TypeOK /\ SupNamesWork /\ ProcessesNameWork /\ ReadersNameWork /\ RequestsNameWork

\* A row has the type of its kind, except that an enqueue by create_task starts
\* with the default type: the row of a light or io job is never exclusive work.
RowsKeepTheirKind ==
  \A w \in Work : \/ row[w].type = KindOf[w]
                  \/ row[w].type = "train" /\ KindOf[w] \in {"generate", "reg_ai"}

\* The claims are exclusive and each row is dispatched as what it is.
ClaimInv == RowsKeepTheirKind /\ ExclusiveMutex

\* A live process belongs to the slot of its row, or to the dispatch that popen'ed it.
SlotsOwnTheirProcess ==
  /\ Alive("train") => Busy("train")
  /\ Alive("data") => slot["data"].id = child["data"].id \/ sup.pc \in {"job_mark", "job_attach"}
  /\ sup.pc \in {"job_mark", "job_attach"} => child["data"].id = sup.w

\* Steps between the choice of a generate and its submission or failure.
GenerateSteps == {"gen_start", "gen_wait", "gen_claim", "gen_run", "gen_submit",
                  "gen_reject", "fail"}

\* The task in the daemon is the one that is marked, and a reader thread about to
\* clear the marker clears that of a task that has left the daemon.
DaemonOwnsItsTask ==
  /\ dmn.state \in {"stopped", "starting"} =>
       ~dmn.loaded /\ dmn.unloads = 0 /\ dmn.active = NoWork
  /\ dmn.active # NoWork => dmnTask = dmn.active
  /\ sup.pc \in GenerateSteps => dmn.active = NoWork
  /\ sup.pc \in {"gen_run", "gen_submit"} => dmnTask = sup.w \/ dmn.state = "stopped"
  /\ \A r \in Readers :
       /\ fin[r].pc = "clear" =>
            /\ dmn.active = NoWork
            /\ \/ dmn.state = "stopped"
               \/ dmnTask = fin[r].w /\ sup.pc \notin GenerateSteps
       /\ fin[r].pc = "stopped" \/ (fin[r].pc # "idle" /\ fin[r].exit) => dmn.state = "stopped"

\* Nobody dispatches beside a loaded model.
DispatchAfterLease == (TrainClaim \/ DataClaim) => ~dmn.loaded

\* The processes agree with the claims.
ProcessInv == SlotsOwnTheirProcess /\ DaemonOwnsItsTask /\ DispatchAfterLease

\* The old reader thread of a daemon process that died has returned from its
\* callbacks by the time the next process starts.
OneReader == \A q, r \in Readers : q = r

\* The books of the supervisor agree with the processes of the machine: the
\* conjunction that every step preserves.
BooksAgree == TypeInv /\ ClaimInv /\ ProcessInv

--------------------------------------------------------------------------------
(* The rows behind the books: what the table says of the works that the       *)
(* executors hold.                                                            *)

\* Steps of the supervisor by the executor that they use.
SpawnSteps   == {"spawn", "spawn_write"}
DataSteps     == {"job_popen", "job_mark", "job_attach"}
MarkSteps    == {"gen_start", "gen_wait", "gen_claim"}
SubmitSteps  == {"gen_run", "gen_submit", "gen_reject", "gen_reject_write"}
ReleaseSteps == {"finish", "record", "release"}
\* Steps at which the row says running and the executor does not have it yet.
PassSteps    == {"job_attach", "gen_submit", "gen_reject", "gen_reject_write"}

\* A reader thread has this row to finalize.
Finalizes(r, w) == fin[r].pc \in {"clear", "write"} /\ fin[r].w = w

\* The row of a work that anybody holds, or is to act on, has been created.
HeldRowsExist ==
  /\ sup.pc \in WorkSteps => row[sup.w].status # "absent"
  /\ \A s \in SlotNames : Busy(s) => row[slot[s].id].status # "absent"
  /\ DaemonActive => row[dmnTask].status # "absent"
  /\ \A r \in Readers : fin[r].pc \in {"clear", "write"} => row[fin[r].w].status # "absent"
  /\ \A w \in disk \cup orphans : row[w].status # "absent"

\* What a request thread knows of its row: the type is written before the config, and
\* only trainings are scheduled or have a resume point.
ThreadKnows(t) ==
  /\ api[t].op # "none" => row[api[t].w].status # "absent"
  /\ api[t].op = "enqueue_cfg" =>
       row[api[t].w].type = KindOf[api[t].w] \/ row[api[t].w].status = "deleted"
  /\ api[t].op \in {"resume_write", "start_write"} => KindOf[api[t].w] = "train"
  /\ api[t].op = "delete_files" => row[api[t].w].status = "deleted"

ThreadsKnowTheirRow == \A t \in Threads : ThreadKnows(t)

\* A config comes after the type; only trainings are scheduled, only they write backups.
RowsOfTrainings ==
  /\ \A w \in Work : /\ row[w].cfg => row[w].type = KindOf[w]
                     /\ row[w].status = "scheduled" => KindOf[w] = "train"
  /\ \A w \in disk : KindOf[w] = "train"

TrainSlotKinds == {"train", "reg_ai"}
DataSlotKinds  == {"eval_samples", "light", "io"}

\* Each executor holds works of its kinds.
KindsOfExecutors ==
  /\ Busy("train") => KindOf[slot["train"].id] \in TrainSlotKinds
  /\ Busy("data") => KindOf[slot["data"].id] \in DataSlotKinds
  /\ DaemonActive => KindOf[dmnTask] = "generate"
  /\ \A r \in Readers : fin[r].pc \in {"clear", "write"} => KindOf[fin[r].w] = "generate"
  /\ sup.pc \in SpawnSteps => KindOf[sup.w] \in TrainSlotKinds
  /\ sup.pc \in DataSteps => KindOf[sup.w] \in DataSlotKinds
  /\ sup.pc \in MarkSteps \cup SubmitSteps => KindOf[sup.w] = "generate"

\* A slot and its process are of one work, but for a job that is being attached.
\* The supervisor works on what its slot holds, or on an executor that is free.
SlotsAgree ==
  /\ child["train"].id = slot["train"].id
  /\ child["data"].id = slot["data"].id \/ sup.pc \in {"job_mark", "job_attach"}
  /\ sup.pc \in ReleaseSteps => slot[sup.s].id = sup.w /\ Exited(sup.s)
  /\ sup.pc \in {"record", "release"} => child[sup.s].log = <<>>
  /\ sup.pc = "spawn" => ~Busy("train")
  /\ sup.pc = "spawn_write" => slot["train"].id = sup.w
  /\ sup.pc \in DataSteps => ~Busy("data")
  /\ sup.pc \in MarkSteps \cup {"fail"} => dmnTask = NoWork
  /\ sup.pc = "gen_reject_write" => dmnTask # sup.w

\* The generate that is dispatched is in no reader's hands, unless it was marked
\* and the daemon has stopped; one that has been handed over is not pending.
GeneratesOnce ==
  /\ sup.pc \in MarkSteps \cup {"fail"} => \A r \in Readers : ~Finalizes(r, sup.w)
  /\ \A r \in Readers :
       /\ fin[r].pc = "write" => dmnTask # fin[r].w
       /\ sup.pc \in SubmitSteps /\ Finalizes(r, sup.w) => fin[r].st # "done"
  /\ \A w \in Work :
       row[w].status = "pending" /\ (dmnTask = w \/ \E r \in Readers : Finalizes(r, w))
         => sup.pc = "gen_run" /\ sup.w = w

\* Nobody holds a row that is done or paused, but the slot that has just said so.
SettledIsLetGo ==
  \A w \in Work :
    row[w].status \in {"done", "paused"} =>
      /\ \A s \in SlotNames : slot[s].id = w => sup.pc = "release" /\ sup.s = s
      /\ dmnTask # w
      /\ \A r \in Readers : ~Finalizes(r, w)
      /\ sup.pc \in WorkSteps \ {"release"} => sup.w # w

\* A row that says running is carried by somebody, or the supervisor is between
\* its write and the executor.
RunningIsCarried ==
  /\ sup.pc = "release" => row[sup.w].status # "running"
  /\ sup.pc # "down" =>
       \A w \in Work :
         row[w].status = "running" =>
           \/ Carried(w)
           \/ sup.w = w /\ sup.pc \in PassSteps

\* The executors and the table agree on every row.
RowInv == /\ HeldRowsExist /\ ThreadsKnowTheirRow /\ RowsOfTrainings /\ KindsOfExecutors
          /\ SlotsAgree /\ GeneratesOnce /\ SettledIsLetGo /\ RunningIsCarried

\* The line is in the log of the slot's process, still to be read.
Says(log, e) == \E i \in DOMAIN log : log[i] = e
Logged(s, e) == Says(child[s].log, e)

\* The backup of the work is on disk, unless the row was deleted with it.
Kept(w) == w \in disk \/ (w \in Work /\ row[w].status = "deleted")

\* What is known of a slot: the data jobs log nothing, and a process that names a backup
\* has written it.
SlotTruth ==
  /\ child["data"].log = <<>>
  /\ child["train"].backed \/ child["train"].untold => Kept(child["train"].id)
  /\ Logged("train", "pause_at") \/ Logged("train", "backup") => Kept(child["train"].id)
  /\ \A s \in SlotNames : slot[s].path => s = "train" /\ Busy(s) /\ Kept(slot[s].id)

\* What the supervisor and the row make of that.
PausesAreOnDisk ==
  /\ sup.pc = "record" /\ sup.st = "paused" => Kept(sup.w)
  /\ \A w \in Work : row[w].status = "paused" => w \in disk

\* Before the first crash, a paused row has its resume point, or a cancel of it is
\* half done.
PausedHasPath ==
  crashes = 0 => \A w \in Work : row[w].status = "paused" =>
    row[w].paused \/ \E t \in Threads : AtOp(t, "cancel_write") /\ api[t].w = w

\* What a row calls its backup is on disk.
RowTruth == \A w \in Work : row[w].last => Kept(w)

BackupInv == SlotTruth /\ PausesAreOnDisk /\ PausedHasPath /\ RowTruth

\* The backup of a training is on disk and its row says so, or the line that says so
\* is still to be read from the process of its slot.
Reported(w) ==
  w \in disk /\ (row[w].last \/ (child["train"].id = w /\ Logged("train", "backup")))

\* A backup that its training has reported stays there and stays known, so that the
\* task can be resumed from it however the process ends (ADR 0006 Addendum 2): the
\* line reaches the row before the slot lets go of the task, no cancel, pause, resume,
\* retry or late line takes either away, and only a delete or the death of the server
\* may.  Nothing is said of a backup that a process dies before reporting.
BackupStaysKnown ==
  [][\A w \in Work : Reported(w) /\ crashes' = crashes
                        => Reported(w)' \/ row'[w].status = "deleted"]_vars

\* A light job that has been chosen found the exclusive tier free, and the daemon
\* without a model.
LightFoundRoom ==
  sup.pc = "job_popen" /\ KindOf[sup.w] = "light" => ~Busy("train") /\ ~DaemonActive /\ ~dmn.loaded

\* A client does not retry a task whose enqueue is not complete.
NoHalfCopies ==
  "retry" \in ApiOps => \A w \in Work : KindOf[w] \notin {"generate", "reg_ai"}

\* No delete beside a retry, which may have read a row whose config it takes away.
NoDeleteBesideRetry ==
  {"delete", "retry"} \subseteq ApiOps => \A t, u \in Threads : t = u

\* A training has its config from the start, and the supervisor finds it; so does a
\* retry that has read it.
TrainsConfigured ==
  /\ \A w \in Work : KindOf[w] = "train" /\ Exists(row, w) => row[w].cfg
  /\ sup.pc = "fail" => KindOf[sup.w] # "train"
  /\ \A t \in Threads :
       /\ AtOp(t, "retry_copy") =>
            "retry" \in ApiOps /\ (api[t].read.type = "train" => api[t].read.cfg /\ row[api[t].w].cfg)
       /\ AtOp(t, "delete_write") \/ AtOp(t, "delete_files") => "delete" \in ApiOps
================================================================================
