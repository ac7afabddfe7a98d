------------------------------- MODULE TaskQueue -------------------------------
(***************************************************************************)
(* The queue endpoints (studio/api/routers/queue/lifecycle.py and the enqueue *)
(* endpoints) running on request threads beside the supervisor thread of      *)
(* QueueSupervisor, and the properties of the whole.                          *)
(*                                                                            *)
(* update_task is an unconditional UPDATE, and a SELECT opens no transaction,  *)
(* so an endpoint that reads a row and then acts on what it read does so in   *)
(* several steps: op names the step a request thread takes next.              *)
(***************************************************************************)
EXTENDS QueueSupervisor

CONSTANTS
  Threads,   \* request threads
  ApiOps     \* the endpoints that clients of a run call

ASSUME ApiAssumption ==
  ApiOps \subseteq {"enqueue", "cancel", "pause", "resume", "start_now", "delete",
                    "retry", "hold", "reorder", "clear_eval", "unload"}

vars == <<supVars, api>>

ThreadOps == {"none", "enqueue_type", "enqueue_cfg",
              "retry_copy",
              "cancel_write", "cancel_clear", "cancel_find", "cancel_slot", "cancel_daemon",
              "pause_slot", "resume_write", "resume_derive", "resume_version",
              "start_write", "delete_write", "delete_files", "clear_write"}

\* s: the slot found; seen: the status read, or the version status derived; read: the
\* row that a retry is to copy.
ThreadRec == [op : ThreadOps, w : Work \cup {NoWork}, s : SlotNames,
              seen : Statuses \cup VersionStatuses, read : Row]

IdleThread == [op |-> "none", w |-> NoWork, s |-> "train", seen |-> "absent",
               read |-> NewRow("train", "absent", FALSE)]

\* Type invariant: a row, a slot, a process, the daemon and every thread only hold
\* values the code can give them.
TypeOK == SupTypeOK /\ api \in [Threads -> ThreadRec]

Init == SupInit /\ api = [t \in Threads |-> IdleThread]

--------------------------------------------------------------------------------
(* Steps of a request thread *)

Idle(t)         == api[t].op = "none"
AtOp(t, op)     == api[t].op = op
Continue(t, op, w) == api' = [api EXCEPT ![t] = [IdleThread EXCEPT !.op = op, !.w = w]]
Reply(t)        == api' = [api EXCEPT ![t] = IdleThread]

\* An endpoint called for row w, which it reads first.
Called(t, op, w) == op \in ApiOps /\ Idle(t) /\ Exists(row, w)

\* The UPDATE of the status that ends an endpoint.
WriteStatus(w, st) == row' = WithStatus(row, w, st)

(* Enqueue *)

\* POST /api/queue and the data job endpoints: one transaction.
Enqueue(t, w) ==
  /\ "enqueue" \in ApiOps /\ Idle(t)
  /\ KindOf[w] \notin {"generate", "reg_ai"} /\ IsNextId(row, w)
  /\ \E st \in IF KindOf[w] = "train" THEN {"pending", "scheduled"} ELSE {"pending"} :
       row' = [row EXCEPT ![w] = NewRow(KindOf[w], st, KindOf[w] = "train")]
  /\ UNCHANGED <<held, version, disk, procs, daemon, sup, host, api>>

\* enqueue_generate and the reg-AI endpoint: create_task commits the row first,
\* with the default task_type.
CreateDefault(t, w) ==
  /\ "enqueue" \in ApiOps /\ Idle(t)
  /\ KindOf[w] \in {"generate", "reg_ai"} /\ IsNextId(row, w)
  /\ row' = [row EXCEPT ![w] = NewRow("train", "pending", FALSE)]
  /\ Continue(t, "enqueue_type", w)
  /\ UNCHANGED <<held, version, disk, procs, daemon, sup, host>>

SetType(t) ==
  /\ AtOp(t, "enqueue_type")
  /\ LET w == api[t].w IN
     /\ row' = Update(row, w, [row[w] EXCEPT !.type = KindOf[w]])
     /\ Continue(t, "enqueue_cfg", w)
  /\ UNCHANGED <<held, version, disk, procs, daemon, sup, host>>

SetConfig(t) ==
  /\ AtOp(t, "enqueue_cfg")
  /\ LET w == api[t].w IN row' = Update(row, w, [row[w] EXCEPT !.cfg = TRUE])
  /\ Reply(t)
  /\ UNCHANGED <<held, version, disk, procs, daemon, sup, host>>

\* Preparing the config fails: enqueue_generate marks the row failed.
EnqueueFails(t) ==
  /\ AtOp(t, "enqueue_cfg") /\ KindOf[api[t].w] = "generate"
  /\ WriteStatus(api[t].w, "failed")
  /\ Reply(t)
  /\ UNCHANGED <<held, version, disk, procs, daemon, sup, host>>

\* Variant: the config is not copied.
CopyWithoutConfig(read, file) == [NewRow(read.type, "pending", FALSE) EXCEPT !.prio = read.prio]

\* The copy of a row as it was read; its config is frozen from the file, if there.
CopyOf(read, file) ==
  [NewRow(read.type, "pending", read.cfg /\ file) EXCEPT !.prio = read.prio]

\* An id for a copy of the row.
IdForCopy(read, new) == KindOf[new] = read.type /\ IsNextId(row, new)

\* retry reads a finished row, in no transaction yet.
RetryBegin(t, w) ==
  /\ Called(t, "retry", w)
  /\ row[w].status \in TerminalStatuses
  /\ \E new \in Work : IdForCopy(row[w], new)
  /\ api' = [api EXCEPT ![t] = [IdleThread EXCEPT !.op = "retry_copy", !.w = w, !.read = row[w]]]
  /\ UNCHANGED supVars

\* One transaction then writes what was read under a new id.  A delete may have taken
\* the config meanwhile: before the file is looked for, or between that and its copy,
\* which raises and leaves no row.
RetryCopy(t) ==
  /\ AtOp(t, "retry_copy")
  /\ LET read == api[t].read
         file == row[api[t].w].cfg IN
     \/ \E new \in Work : /\ IdForCopy(read, new)
                          /\ row' = [row EXCEPT ![new] = CopyOf(read, file)]
     \/ read.cfg /\ ~file /\ UNCHANGED row
  /\ Reply(t)
  /\ UNCHANGED <<held, version, disk, procs, daemon, sup, host>>

(* Cancel: Supervisor.cancel *)

CancelBegin(t, w) ==
  /\ Called(t, "cancel", w)
  /\ \/ row[w].status \in {"pending", "scheduled"} /\ Continue(t, "cancel_write", w)
     \/ row[w].status = "paused" /\ Continue(t, "cancel_clear", w)
     \/ row[w].status = "running" /\ Continue(t, "cancel_find", w)
  /\ UNCHANGED supVars

CancelWrite(t) ==
  /\ AtOp(t, "cancel_write")
  /\ WriteStatus(api[t].w, "canceled")
  /\ Reply(t)
  /\ UNCHANGED <<held, version, disk, procs, daemon, sup, host>>

CancelClear(t) ==
  /\ AtOp(t, "cancel_clear")
  /\ LET w == api[t].w IN
     /\ row' = Update(row, w, [row[w] EXCEPT !.paused = FALSE])
     /\ Continue(t, "cancel_write", w)
  /\ UNCHANGED <<held, version, disk, procs, daemon, sup, host>>

\* _find_slot, then the daemon; a running row found in neither is left alone.
CancelFind(t) ==
  /\ AtOp(t, "cancel_find")
  /\ LET w == api[t].w IN
     \/ \E s \in SlotNames :
          /\ slot[s].id = w
          /\ api' = [api EXCEPT ![t].op = "cancel_slot", ![t].s = s]
          /\ UNCHANGED dmnCancel
     \/ /\ \A s \in SlotNames : slot[s].id # w
        /\ IF dmnTask = w
             THEN /\ dmnCancel' = TRUE
                  /\ Continue(t, "cancel_daemon", w)
             ELSE /\ UNCHANGED dmnCancel
                  /\ Reply(t)
  /\ UNCHANGED <<ledger, procs, dmn, dmnTask, fin, sup, host>>

\* _signal_terminate_async acts on whatever the slot holds now.
CancelSlot(t) ==
  /\ AtOp(t, "cancel_slot")
  /\ LET s == api[t].s IN
     IF Busy(s)
       THEN /\ slot' = [slot EXCEPT ![s].cancel = TRUE]
            /\ child' = [child EXCEPT ![s].term = @ \/ Alive(s)]
       ELSE UNCHANGED procs
  /\ Reply(t)
  /\ UNCHANGED <<ledger, daemon, sup, host>>

\* cancel_active_task
CancelDaemon(t) ==
  /\ AtOp(t, "cancel_daemon")
  /\ IF dmn.state = "busy" /\ dmn.active = api[t].w
       THEN dmn' = [dmn EXCEPT !.cancel = TRUE]
       ELSE UNCHANGED dmn
  /\ Reply(t)
  /\ UNCHANGED <<ledger, procs, dmnTask, dmnCancel, fin, sup, host>>

(* Pause: Supervisor.pause *)

\* All the checks pass, the slot's process included.
PauseBegin(t, w) ==
  /\ Called(t, "pause", w)
  /\ row[w].status = "running"
  /\ LET sl == slot["train"] IN sl.id = w /\ sl.loop /\ ~sl.pause /\ ~sl.cancel
  /\ Continue(t, "pause_slot", w)
  /\ UNCHANGED supVars

\* _signal_pause_async sets the flag even on a slot reset since; the signal goes
\* to whatever process the slot holds now.
PauseSlot(t) ==
  /\ AtOp(t, "pause_slot")
  /\ slot' = [slot EXCEPT !["train"].pause = TRUE]
  /\ child' = IF Busy("train") /\ Alive("train") /\ child["train"].ints < 2
               THEN [child EXCEPT !["train"].ints = @ + 1] ELSE child
  /\ Reply(t)
  /\ UNCHANGED <<ledger, daemon, sup, host>>

(* Resume, start_now, delete *)

HasResumePoint(w) ==
  /\ w \in disk
  /\ \/ row[w].status = "paused" /\ row[w].paused
     \/ row[w].status \in {"failed", "canceled"} /\ row[w].last

ResumeBegin(t, w) ==
  /\ Called(t, "resume", w)
  /\ HasResumePoint(w)
  /\ api' = [api EXCEPT ![t] = [IdleThread EXCEPT !.op = "resume_write", !.w = w,
                                                  !.seen = row[w].status]]
  /\ UNCHANGED supVars

ResumeWrite(t) ==
  /\ AtOp(t, "resume_write")
  /\ LET w == api[t].w
         revived == api[t].seen # "paused" IN
     /\ row' = Update(row, w, [row[w] EXCEPT !.status = "pending",
                                             !.paused = @ \/ revived])
     /\ IF revived /\ VersionOf[w] # NoVersion THEN Continue(t, "resume_derive", w)
                                               ELSE Reply(t)
  /\ UNCHANGED <<held, version, disk, procs, daemon, sup, host>>

\* reconcile_version_status reads the rows, then writes what it derived.
ResumeDerive(t) ==
  /\ AtOp(t, "resume_derive")
  /\ api' = [api EXCEPT ![t].op = "resume_version",
                        ![t].seen = DerivedVersionStatus(row, VersionOf[api[t].w])]
  /\ UNCHANGED supVars

ResumeVersion(t) ==
  /\ AtOp(t, "resume_version")
  /\ version' = [version EXCEPT ![VersionOf[api[t].w]] = api[t].seen]
  /\ Reply(t)
  /\ UNCHANGED <<row, held, disk, procs, daemon, sup, host>>

StartBegin(t, w) ==
  /\ Called(t, "start_now", w)
  /\ row[w].status = "scheduled"
  /\ Continue(t, "start_write", w)
  /\ UNCHANGED supVars

StartWrite(t) ==
  /\ AtOp(t, "start_write")
  /\ WriteStatus(api[t].w, "pending")
  /\ Reply(t)
  /\ UNCHANGED <<held, version, disk, procs, daemon, sup, host>>

DeleteBegin(t, w) ==
  /\ Called(t, "delete", w)
  /\ row[w].status \in TerminalStatuses
  /\ Continue(t, "delete_write", w)
  /\ UNCHANGED supVars

\* Nothing is left of a row that is gone; its config is still on disk.
DeletedRow(w) == NewRow(row[w].type, "deleted", row[w].cfg)

DeleteWrite(t) ==
  /\ AtOp(t, "delete_write")
  /\ LET w == api[t].w IN
     /\ row' = Update(row, w, DeletedRow(w))
     /\ Continue(t, "delete_files", w)
  /\ UNCHANGED <<held, version, disk, procs, daemon, sup, host>>

\* The task's directory goes, with its config and its backup.
DeleteFiles(t) ==
  /\ AtOp(t, "delete_files")
  /\ row' = [row EXCEPT ![api[t].w].cfg = FALSE]
  /\ disk' = disk \ {api[t].w}
  /\ Reply(t)
  /\ UNCHANGED <<held, version, procs, daemon, sup, host>>

(* Queue switches, evaluation reruns, the daemon's unload button *)

SetHeld(t) ==
  /\ "hold" \in ApiOps /\ Idle(t)
  /\ held' \in BOOLEAN \ {held}
  /\ UNCHANGED <<row, version, disk, procs, daemon, sup, host, api>>

\* A list that lets one waiting row overtake another, as a dragged card does.
Reorder(t, ids) ==
  /\ "reorder" \in ApiOps /\ Idle(t)
  /\ Len(ids) <= MaxPrio
  /\ row' = Reordered(row, ids)
  /\ \E u, w \in Work : /\ row[u].status = "pending" /\ row[w].status = "pending"
                        /\ Ahead(row, u, w) /\ Ahead(row', w, u)
  /\ UNCHANGED <<held, version, disk, procs, daemon, sup, host, api>>

\* _clear_previous_task_eval cancels unfinished evaluation jobs in the table.
ClearEvalBegin(t, w) ==
  /\ Called(t, "clear_eval", w)
  /\ row[w].type = "eval_samples" /\ row[w].status \in {"pending", "running"}
  /\ Continue(t, "clear_write", w)
  /\ UNCHANGED supVars

ClearEvalWrite(t) ==
  /\ AtOp(t, "clear_write")
  /\ WriteStatus(api[t].w, "canceled")
  /\ Reply(t)
  /\ UNCHANGED <<held, version, disk, procs, daemon, sup, host>>

UnloadDaemon(t) ==
  /\ "unload" \in ApiOps /\ Idle(t)
  /\ YieldRequested
  /\ RequestUnloads(1)
  /\ UNCHANGED <<ledger, procs, dmnTask, dmnCancel, fin, sup, host, api>>

--------------------------------------------------------------------------------
(* The server process: everything but the table, the files and some processes *)

ServerGone(survivors) ==
  /\ slot' = [s \in SlotNames |-> IdleSlot]
  /\ child' = [s \in SlotNames |-> NoChild]
  /\ dmn' = StoppedDaemon
  /\ dmnTask' = NoWork
  /\ dmnCancel' = FALSE
  /\ fin' = [r \in Readers |-> IdleReader]
  /\ Goto("down", "train", NoWork, "none")
  /\ orphans' = orphans \cup survivors
  /\ crashes' = crashes + 1
  /\ api' = [t \in Threads |-> IdleThread]
  /\ UNCHANGED ledger

\* Supervisor.stop terminates the busy slots and the daemon; it does not see a
\* process that a tick in progress has not attached yet.
ServerStops ==
  /\ sup.pc # "down" /\ crashes < MaxCrashes
  /\ ServerGone({child[s].id : s \in {t \in SlotNames : Alive(t) /\ ~Busy(t)}})

\* A crash may leave any of them running.
ServerCrashes ==
  /\ sup.pc # "down" /\ crashes < MaxCrashes
  /\ \E survivors \in SUBSET RunningProcs : ServerGone(survivors)

--------------------------------------------------------------------------------
(* The whole *)

\* The steps a request thread takes once it has started.
Proceed(t) ==
  \/ SetType(t) \/ SetConfig(t) \/ EnqueueFails(t) \/ RetryCopy(t)
  \/ CancelWrite(t) \/ CancelClear(t) \/ CancelFind(t) \/ CancelSlot(t) \/ CancelDaemon(t)
  \/ PauseSlot(t)
  \/ ResumeWrite(t) \/ ResumeDerive(t) \/ ResumeVersion(t)
  \/ StartWrite(t) \/ DeleteWrite(t) \/ DeleteFiles(t) \/ ClearEvalWrite(t)

Request(t) ==
  \/ \E w \in Work :
       \/ Enqueue(t, w) \/ CreateDefault(t, w) \/ RetryBegin(t, w)
       \/ CancelBegin(t, w) \/ PauseBegin(t, w) \/ ResumeBegin(t, w)
       \/ StartBegin(t, w) \/ DeleteBegin(t, w) \/ ClearEvalBegin(t, w)
  \/ SetHeld(t) \/ UnloadDaemon(t)
  \/ \E u, w \in Work : Reorder(t, IF u = w THEN <<u>> ELSE <<u, w>>)

Next ==
  \/ \E t \in Threads : Request(t) \/ Proceed(t)
  \/ Supervise
  \/ \E s \in SlotNames : ChildStep(s) \/ TailerReads(s)
  \/ DaemonStep \/ DaemonExits \/ IdleTimeout
  \/ \E r \in Readers : Finalize(r)
  \/ Host
  \/ ServerStops \/ ServerCrashes

Spec == Init /\ [][Next]_vars

\* A server that keeps running: its threads go on, a started request is finished,
\* processes end, a terminated one dies, and the daemon answers.  Nothing says a
\* client calls, an epoch ends before a crash, or a dead server is restarted.
Fairness ==
  /\ WF_vars(Supervise)
  /\ \A t \in Threads : WF_vars(Proceed(t))
  /\ \A s \in SlotNames : /\ WF_vars(ChildStep(s))
                          /\ WF_vars(TailerReads(s))
  /\ WF_vars(DaemonStep)
  /\ \A r \in Readers : WF_vars(Finalize(r))

FairSpec == Spec /\ Fairness

--------------------------------------------------------------------------------
(* Properties *)

\* Works whose processes hold, or are about to hold, a whole base model.
OnGpu == {w \in RunningProcs : IsExclusive(w)}

\* The claims on the exclusive tier, each in the executor that makes it: the
\* TRAIN slot, the daemon, and the DATA slot running an eval_samples job.  A
\* dispatch in progress is a claim.
TrainClaim == Busy("train") \/ sup.pc = "spawn"
DaemonClaim == DaemonActive \/ sup.pc \in {"gen_start", "gen_wait", "gen_claim"}
DataClaim == \/ DataSlotExclusiveBusy
             \/ sup.pc \in {"job_popen", "job_mark", "job_attach"} /\ IsExclusive(sup.w)

\* At most one executor has a claim on the exclusive tier (_exclusive_busy as the
\* gate of every dispatch of train, reg_ai, generate and eval_samples).
ExclusiveMutex ==
  /\ ~(TrainClaim /\ DaemonClaim)
  /\ ~(TrainClaim /\ DataClaim)
  /\ ~(DaemonClaim /\ DataClaim)

\* At most one base-model process really runs at a time, whatever the books say
\* ("at most 1 system-wide at a time", resources.py): no process is left behind
\* by a slot that was reset or a marker that was cleared.
OneOnGpu == Cardinality(OnGpu) <= 1

\* While a training, reg-AI or evaluation process runs, the daemon holds no model:
\* its lease was revoked before the spawn (_maybe_yield_daemon) and nothing loads
\* a model again before the process ends.
LeaseRevoked ==
  \A s \in SlotNames : Alive(s) /\ IsExclusive(child[s].id) => ~dmn.loaded

\* Works whose own process, of either slot, holds a base model.
ExclusiveJobs == {child[s].id : s \in {t \in SlotNames : Alive(t) /\ IsExclusive(child[t].id)}}

Tier == INSTANCE ExclusiveAdmission WITH jobs <- ExclusiveJobs, generate <- dmn.active,
                                         loaded <- dmn.loaded

\* Processes and daemon together keep the promise of the exclusive tier: a holder is
\* admitted when there is none, never handed over to another in passing, a process
\* only after the lease is revoked, and the lease is taken by a generate at work only.
Admission == Tier!Spec

\* Who will write the end of a running row: the slot that holds it and its process,
\* the daemon that works on the marked task, or a reader thread in its callbacks.
Carried(w) ==
  \/ \E s \in SlotNames : slot[s].id = w /\ child[s].id = w
  \/ dmnTask = w /\ dmn.active = w
  \/ \E r \in Readers : \/ fin[r].pc \in {"clear", "write"} /\ fin[r].w = w
                        \/ fin[r].pc = "stopped" /\ dmnTask = w

\* Between ticks, every row that says running is carried by somebody: no row stays
\* running forever because the slot or the daemon forgot it.
NoLostRunning ==
  sup.pc = "promote" => \A w \in Work : row[w].status = "running" => Carried(w)

\* A paused row can be resumed: it has its resume point and the file is there,
\* unless a cancel of the paused row is half done (Supervisor.cancel clears the
\* fields before it writes the status).
PausedHasResumePoint ==
  \A w \in Work :
    row[w].status = "paused" /\ (\A t \in Threads : ~(AtOp(t, "cancel_write") /\ api[t].w = w))
      => row[w].paused /\ w \in disk

\* Neither a late end of the daemon, nor a restart, nor the slots ever take back a
\* result: a row that is done stays done until it is deleted, unless a request that
\* read it before it ended (a cancel, start_now, a clearing of evaluations: none of
\* them looks again before it writes) is still to write it.
DoneStays ==
  [][\A w \in Work : row[w].status = "done" =>
       \/ row'[w].status \in {"done", "deleted"}
       \/ \E t \in Threads : api[t].w = w]_vars

\* With light_tasks_during_train off, a light job is started only while no
\* base-model process runs and the daemon holds no model (_dispatch_data's
\* conservative path), even though the decision and the popen are two steps.
LightStartsAlone ==
  [][(~Alive("data") /\ Alive("data")' /\ KindOf[child'["data"].id] = "light")
       => OnGpu = {} /\ ~dmn.loaded]_vars

\* Every work that is queued leaves the queue, if the queue is not held for ever:
\* nothing waits for ever behind a loaded model, a busy slot, a half-enqueued
\* generate or the light-task setting, and a hold that is released only delays.
PendingIsServed ==
  <>[](~held) => \A w \in Work : row[w].status = "pending" ~> row[w].status # "pending"

\* Whatever is running comes to an end and says so.
RunningEnds ==
  \A w \in Work : row[w].status = "running" ~> row[w].status # "running"

\* A canceled row does not come back into the queue unless a request asks for it: a
\* promotion of scheduled rows that found it before the cancel leaves it alone, and
\* so do the reaping, a crash and the next start.
CanceledIsNotRequeued ==
  [][\A w \in Work : row[w].status = "canceled" /\ api' = api => row'[w].status # "pending"]_vars

\* A training enters the queue together with its config (POST /api/queue, retry and
\* resume commit both at once), so a queued training that no process works on is
\* never failed.
QueuedTrainIsRunnable ==
  [][\A w \in Work : row[w].status = "pending" /\ KindOf[w] = "train" /\ ~Carried(w)
                       => row'[w].status # "failed"]_vars
================================================================================
