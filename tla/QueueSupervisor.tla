---------------------------- MODULE QueueSupervisor ----------------------------
(***************************************************************************)
(* The task supervisor of studio/supervisor/core.py: one thread that, once a *)
(* second, promotes due rows, reaps the child processes of its two slots and *)
(* dispatches work to the idle ones; the children and the log tailers that   *)
(* talk back to it; and the inference daemon as the supervisor sees it       *)
(* (studio/services/inference/daemon.py), whose events are handled by the    *)
(* proxy's reader thread.  The module TaskQueue adds the HTTP endpoints.     *)
(*                                                                           *)
(* A step is what runs between two points where another thread can observe   *)
(* or change what this one uses: a commit of the database, the assignment of *)
(* the slot fields, a signal, an event read from a pipe.                     *)
(***************************************************************************)
EXTENDS QueueLedger

CONSTANTS
  InitStatus,     \* [Work -> Statuses]: the rows there at the start
  LightSettings,  \* values `queue.light_tasks_during_train` may have when read
  Readers,        \* reader threads of the daemon proxy that may exist at once
  AutoEval,       \* may a finished training queue an eval_samples row?
  MaxUnloads,     \* bound on unload commands in flight to the daemon
  MaxCrashes      \* bound on deaths of the server process

ASSUME InitAssumption   ==
  /\ InitStatus \in [Work -> {"absent", "pending", "scheduled"}]
  /\ \A w \in Work : InitStatus[w] = "scheduled" => KindOf[w] = "train"
ASSUME LightAssumption  == LightSettings \subseteq BOOLEAN /\ LightSettings # {}
ASSUME ReaderAssumption == Readers # {}
ASSUME BoundAssumption  == AutoEval \in BOOLEAN /\ MaxUnloads \in Nat /\ MaxCrashes \in Nat

VARIABLES
  row,        \* the tasks table
  held,       \* queue_settings: queue.held
  version,    \* status of each version
  disk,       \* rows whose auto_epoch_state.pt exists
  slot,       \* the supervisor's two _Slot objects
  child,      \* the process popen'ed for each slot
  dmn,        \* the daemon proxy and the commands in flight to its process
  dmnTask,    \* _daemon_active_task_id
  dmnCancel,  \* _daemon_cancel_pending
  fin,        \* where each reader thread of the proxy is in its callbacks
  sup,        \* the supervisor thread: step, slot and row it works on
  orphans,    \* works whose process outlived the server that started it
  crashes,    \* deaths of the server so far
  api         \* what each request thread is in the middle of (module TaskQueue)

ledger == <<row, held, version, disk>>
procs  == <<slot, child>>
daemon == <<dmn, dmnTask, dmnCancel, fin>>
host   == <<orphans, crashes>>
others == <<host, api>>
supVars == <<ledger, procs, daemon, sup, host>>

SlotNames == {"train", "data"}

--------------------------------------------------------------------------------
(* Types and initial state *)

SlotRec == [id : Work \cup {NoWork}, cancel : BOOLEAN, pause : BOOLEAN,
            path : BOOLEAN, loop : BOOLEAN, evalFin : BOOLEAN]

\* _Slot.reset
IdleSlot == [id |-> NoWork, cancel |-> FALSE, pause |-> FALSE,
             path |-> FALSE, loop |-> FALSE, evalFin |-> FALSE]

\* How a process stands.  "completed" and "paused" exit with code 0.
Lives == {"none", "alive", "completed", "paused", "crashed", "killed"}
Ended == Lives \ {"none", "alive"}

\* __EVENT__ lines of a training process that the supervisor acts on.
Events == {"loop", "resumed", "backup", "pause_at", "pause_none", "eval_finished"}

\* untold: it has written a backup that it has not reported yet; backed: its
\* interrupt handler knows of one.
ChildRec == [id : Work \cup {NoWork}, life : Lives, resume : BOOLEAN,
             looping : BOOLEAN, untold : BOOLEAN, backed : BOOLEAN, ints : 0..2,
             term : BOOLEAN, log : Seq(Events)]

NoChild == [id |-> NoWork, life |-> "none", resume |-> FALSE, looping |-> FALSE,
            untold |-> FALSE, backed |-> FALSE, ints |-> 0, term |-> FALSE, log |-> <<>>]

Popened(w, resume) == [NoChild EXCEPT !.id = w, !.life = "alive", !.resume = resume]

\* unloads: commands sent and not yet answered; ahead: those of them that were
\* sent before the active task and so are answered before it starts.
DaemonRec == [state : {"stopped", "starting", "idle", "busy", "unloading"},
              loaded : BOOLEAN, active : Work \cup {NoWork}, cancel : BOOLEAN,
              unloads : 0..MaxUnloads, ahead : 0..MaxUnloads, reader : Readers]

StoppedDaemon == [state |-> "stopped", loaded |-> FALSE, active |-> NoWork,
                  cancel |-> FALSE, unloads |-> 0, ahead |-> 0,
                  reader |-> CHOOSE r \in Readers : TRUE]

\* exit: the reader is handling the end of the process, so it still has the
\* `stopped` listener to call.
FinRec == [pc : {"idle", "clear", "write", "stopped"}, w : Work \cup {NoWork},
           st : TerminalStatuses, exit : BOOLEAN]

IdleReader == [pc |-> "idle", w |-> NoWork, st |-> "failed", exit |-> FALSE]

SupSteps == {"down", "promote", "promote_write", "reap", "finish", "record", "release", "dispatch",
             "spawn", "spawn_write", "fail", "job_popen", "job_mark", "job_attach",
             "gen_start", "gen_wait", "gen_claim", "gen_run", "gen_submit",
             "gen_reject", "gen_reject_write"}

\* st: the status being recorded, or whether the row to spawn is resumed; due:
\* the scheduled rows found due by this tick.
SupRec == [pc : SupSteps, s : SlotNames, w : Work \cup {NoWork}, due : SUBSET Work,
           st : TerminalStatuses \cup {"paused", "resume", "fresh", "none"}]

SupTypeOK ==
  /\ row \in [Work -> Row]
  /\ held \in BOOLEAN
  /\ version \in [Versions -> VersionStatuses]
  /\ disk \in SUBSET Work
  /\ slot \in [SlotNames -> SlotRec]
  /\ child \in [SlotNames -> ChildRec]
  /\ dmn \in DaemonRec
  /\ dmnTask \in Work \cup {NoWork}
  /\ dmnCancel \in BOOLEAN
  /\ fin \in [Readers -> FinRec]
  /\ sup \in SupRec
  /\ orphans \in SUBSET Work
  /\ crashes \in 0..MaxCrashes

InitRow(w) == NewRow(KindOf[w], InitStatus[w], KindOf[w] \in TaskKinds)

SupInit ==
  /\ row = [w \in Work |-> InitRow(w)]
  /\ held = FALSE
  /\ version = [v \in Versions |-> DerivedVersionStatus([w \in Work |-> InitRow(w)], v)]
  /\ disk = {}
  /\ slot = [s \in SlotNames |-> IdleSlot]
  /\ child = [s \in SlotNames |-> NoChild]
  /\ dmn = StoppedDaemon
  /\ dmnTask = NoWork
  /\ dmnCancel = FALSE
  /\ fin = [r \in Readers |-> IdleReader]
  /\ sup = [pc |-> "down", s |-> "train", w |-> NoWork, due |-> {}, st |-> "none"]
  /\ orphans = {}
  /\ crashes = 0

--------------------------------------------------------------------------------
(* What the supervisor reads before it acts *)

Busy(s) == slot[s].id # NoWork

DaemonActive == dmnTask # NoWork

DataSlotExclusiveBusy == Busy("data") /\ IsExclusive(slot["data"].id)

\* Variant: the evaluation job in the DATA slot is forgotten.
ExclusiveBusyButData == Busy("train") \/ DaemonActive
\* Variant: the generate on the daemon is forgotten.
ExclusiveBusyButDaemon == Busy("train") \/ DataSlotExclusiveBusy

ExclusiveBusy == Busy("train") \/ DaemonActive \/ DataSlotExclusiveBusy

ExclusiveTypes == TaskKinds \cup {"eval_samples"}

IsExclusiveHead(w) == IsHead(row, Pending(row, ExclusiveTypes), w)

\* Variant: an unload that was requested counts as done.
LeaseHeldUntilAsked == dmn.loaded /\ dmn.state # "unloading"

\* The resident model of the daemon is a lease on the GPU (_maybe_yield_daemon).
LeaseHeld == dmn.loaded

\* Variant: the unload is never requested.
YieldNeverRequested == FALSE

\* _maybe_yield_daemon asks for the unload only of a model that no generate uses.
YieldRequested == LeaseHeld /\ dmn.state # "busy"

\* request_unload n times, for a daemon that is neither stopped nor busy.
UnloadsSent(n) == [dmn EXCEPT !.state = "unloading", !.unloads = @ + n]

RequestUnloads(n) ==
  IF n > 0
    THEN /\ dmn.unloads + n <= MaxUnloads
         /\ dmn' = UnloadsSent(n)
    ELSE UNCHANGED dmn

Goto(pc, s, w, st) == sup' = [pc |-> pc, s |-> s, w |-> w, due |-> {}, st |-> st]

EndReap(s)     == IF s = "train" THEN Goto("reap", "data", NoWork, "none")
                                 ELSE Goto("dispatch", "train", NoWork, "none")
EndDispatch(s) == IF s = "train" THEN Goto("dispatch", "data", NoWork, "none")
                                 ELSE Goto("promote", "train", NoWork, "none")

--------------------------------------------------------------------------------
(* The supervisor thread: start, promotion, reaping *)

\* Variant: only the task types are reconciled, not the data jobs.
OrphanTaskRows == {w \in Work : row[w].status = "running" /\ row[w].type \in TaskKinds}

OrphanRows == {w \in Work : row[w].status = "running"}

\* _loop enters with _reconcile_orphans: rows left running have no process here.
Restart ==
  /\ sup.pc = "down"
  /\ row' = WithStatusIn(row, OrphanRows, "failed")
  /\ Goto("promote", "train", NoWork, "none")
  /\ UNCHANGED <<held, version, disk, procs, daemon, others>>

\* promote_due_scheduled selects the due rows - any of the scheduled ones may be
\* due by now - and then updates those of them that are still scheduled.
FindDue ==
  /\ sup.pc = "promote"
  /\ \E due \in SUBSET {w \in Work : row[w].status = "scheduled"} :
       IF due = {} THEN Goto("reap", "train", NoWork, "none")
                   ELSE sup' = [sup EXCEPT !.pc = "promote_write", !.due = due]
  /\ UNCHANGED <<ledger, procs, daemon, others>>

\* Variant: the update does not look at the status again.
FoundScheduled(due) == due

StillScheduled(due) == {w \in due : row[w].status = "scheduled"}

PromoteDue ==
  /\ sup.pc = "promote_write"
  /\ row' = WithStatusIn(row, StillScheduled(sup.due), "pending")
  /\ Goto("reap", "train", NoWork, "none")
  /\ UNCHANGED <<held, version, disk, procs, daemon, others>>

\* Variant: an exit code of 0 is taken for "still running".
ExitedNonzero(s) == child[s].life \in {"crashed", "killed"}

\* proc.poll() has an exit code.
Exited(s) == child[s].life \in Ended

ReapNothing ==
  /\ sup.pc = "reap"
  /\ ~Busy(sup.s) \/ ~Exited(sup.s)
  /\ EndReap(sup.s)
  /\ UNCHANGED <<ledger, procs, daemon, others>>

ReapExited ==
  /\ sup.pc = "reap"
  /\ Busy(sup.s)
  /\ Exited(sup.s)
  /\ Goto("finish", sup.s, slot[sup.s].id, "none")
  /\ UNCHANGED <<ledger, procs, daemon, others>>

\* Variant: a pause that reported no resume point counts as paused.
FinishedStatusAnyPause(sl, rc0) ==
  IF sl.pause THEN "paused"
  ELSE IF sl.cancel THEN "canceled"
  ELSE IF rc0 THEN "done"
  ELSE "failed"

\* The status _finish_slot gives a work from the slot's flags and the exit code.
FinishedStatus(sl, rc0) ==
  IF sl.pause /\ sl.path THEN "paused"
  ELSE IF sl.pause \/ sl.cancel THEN "canceled"
  ELSE IF rc0 THEN "done"
  ELSE "failed"

\* Variant: the tailer is stopped where it is.
TailerStopped(s) == child[s].log \in Seq(Events)

\* LogTailer.stop returns after a last read of the log.
TailerDrained(s) == child[s].log = <<>>

\* First half of _finish_slot: the tailer is stopped, then the flags are turned
\* into a status.
FinishSlot ==
  /\ sup.pc = "finish"
  /\ TailerDrained(sup.s)
  /\ Goto("record", sup.s, sup.w,
          FinishedStatus(slot[sup.s], child[sup.s].life \in {"completed", "paused"}))
  /\ UNCHANGED <<ledger, procs, daemon, others>>

\* The row and, for a terminal status of a task, the version.
FinalizedVersion(w, st) ==
  IF st \in TerminalStatuses /\ Exists(row, w) /\ VersionOf[w] # NoVersion
    THEN [version EXCEPT ![VersionOf[w]] = FinalVersionStatus(st)]
    ELSE version

RecordFinish ==
  /\ sup.pc = "record"
  /\ row' = Update(row, sup.w, [row[sup.w] EXCEPT
               !.status = sup.st, !.paused = @ \/ sup.st = "paused"])
  /\ version' = IF sup.s = "train" THEN FinalizedVersion(sup.w, sup.st) ELSE version
  /\ Goto("release", sup.s, sup.w, sup.st)
  /\ UNCHANGED <<held, disk, procs, daemon, others>>

\* A finished training with held-out validation queues its evaluation.
QueuesAutoEval(w) ==
  /\ AutoEval
  /\ sup.s = "train" /\ sup.st = "done" /\ slot["train"].evalFin
  /\ Exists(row, sup.w)
  /\ KindOf[w] = "eval_samples" /\ IsNextId(row, w)

ReleaseSlot ==
  /\ sup.pc = "release"
  /\ \/ UNCHANGED row
     \/ \E w \in Work : /\ QueuesAutoEval(w)
                        /\ row' = [row EXCEPT ![w] = NewRow("eval_samples", "pending", FALSE)]
  /\ slot' = [slot EXCEPT ![sup.s] = IdleSlot]
  /\ child' = [child EXCEPT ![sup.s] = NoChild]
  /\ EndReap(sup.s)
  /\ UNCHANGED <<held, version, disk, daemon, others>>

--------------------------------------------------------------------------------
(* The supervisor thread: dispatch of the exclusive queue *)

\* Reasons for _dispatch_exclusive_tasks to leave the head of the queue alone.
HeadMustWait(w) ==
  \/ row[w].type = "generate" /\ ~row[w].cfg          \* its enqueue is not complete
  \/ row[w].type = "eval_samples" /\ Busy("data")     \* a light job has the DATA slot
  \/ row[w].type # "generate" /\ LeaseHeld            \* the daemon has to unload first

CanDispatchExclusive == ~held /\ ~ExclusiveBusy

SkipSlot ==
  /\ sup.pc = "dispatch"
  /\ \/ Busy(sup.s)
     \/ held
     \/ sup.s = "train" /\ (ExclusiveBusy \/ Pending(row, ExclusiveTypes) = {})
  /\ EndDispatch(sup.s)
  /\ UNCHANGED <<ledger, procs, daemon, others>>

\* The head waits; if it waits for the model of an idle daemon, an unload is sent.
HeadWaits ==
  /\ sup.pc = "dispatch" /\ sup.s = "train"
  /\ CanDispatchExclusive
  /\ \E w \in Work :
       /\ IsExclusiveHead(w)
       /\ HeadMustWait(w)
       /\ LET yields == /\ row[w].type # "generate"
                        /\ ~(row[w].type = "eval_samples" /\ Busy("data"))
                        /\ YieldRequested
          IN  RequestUnloads(IF yields THEN 1 ELSE 0)
  /\ EndDispatch("train")
  /\ UNCHANGED <<ledger, procs, dmnTask, dmnCancel, fin, others>>

\* The row just read routes the work: the daemon, a job process, a task process.
SelectHead ==
  /\ sup.pc = "dispatch" /\ sup.s = "train"
  /\ CanDispatchExclusive
  /\ \E w \in Work :
       /\ IsExclusiveHead(w)
       /\ ~HeadMustWait(w)
       /\ CASE row[w].type = "generate"     -> Goto("gen_start", "train", w, "none")
            [] row[w].type = "eval_samples" -> Goto("job_popen", "data", w, "none")
            [] OTHER -> IF row[w].cfg
                          THEN Goto("spawn", "train", w,
                                    IF row[w].paused THEN "resume" ELSE "fresh")
                          ELSE Goto("fail", "train", w, "none")
  /\ UNCHANGED <<ledger, procs, daemon, others>>

\* _spawn_task up to the tailer: the process runs and owns the TRAIN slot.  Of
\* the slot's flags only cancel_pending is reset here.
SpawnTask ==
  /\ sup.pc = "spawn"
  /\ child' = [child EXCEPT !["train"] = Popened(sup.w, sup.st = "resume")]
  /\ slot' = [slot EXCEPT !["train"].id = sup.w, !["train"].cancel = FALSE]
  /\ Goto("spawn_write", "train", sup.w, "none")
  /\ UNCHANGED <<ledger, daemon, others>>

\* _write_task_running_to_db: an unconditional update of the row and the version.
WriteTaskRunning ==
  /\ sup.pc = "spawn_write"
  /\ row' = WithStatus(row, sup.w, "running")
  /\ version' = IF VersionOf[sup.w] = NoVersion THEN version
                ELSE [version EXCEPT ![VersionOf[sup.w]] = "training"]
  /\ EndDispatch("train")
  /\ UNCHANGED <<held, disk, procs, daemon, others>>

\* _fail_task_config_missing and _fail_daemon_task: the work never starts.
FailTask ==
  /\ sup.pc = "fail"
  /\ row' = WithStatus(row, sup.w, "failed")
  /\ dmnTask' = IF dmnTask = sup.w THEN NoWork ELSE dmnTask
  /\ EndDispatch("train")
  /\ UNCHANGED <<held, version, disk, procs, dmn, dmnCancel, fin, others>>

--------------------------------------------------------------------------------
(* The supervisor thread: dispatch of data jobs *)

\* Variant: the loaded model of an idle daemon is no obstacle.
MayRunBesideModel(w, lp) ==
  row[w].type = "light" => (lp \/ ~ExclusiveBusy)

\* A light job runs beside exclusive work only if the setting allows it, and
\* without the setting not beside a loaded model either.
MayRunNow(w, lp) ==
  row[w].type = "light" => (lp \/ (~ExclusiveBusy /\ ~LeaseHeld))

\* Light jobs passed over on the way to w that each call _maybe_yield_daemon.
YieldsBefore(jobs, w, lp) ==
  IF lp \/ ExclusiveBusy \/ ~YieldRequested THEN {}
  ELSE {u \in jobs : row[u].type = "light" /\ (w = NoWork \/ Ahead(row, u, w))}

DispatchData ==
  /\ sup.pc = "dispatch" /\ sup.s = "data"
  /\ ~Busy("data") /\ ~held
  /\ \E lp \in LightSettings :
       LET jobs == Pending(row, {"light", "io"})
           open == {w \in jobs : MayRunNow(w, lp)} IN
       \/ /\ open = {}
          /\ RequestUnloads(Cardinality(YieldsBefore(jobs, NoWork, lp)))
          /\ EndDispatch("data")
       \/ \E w \in open :
            /\ IsHead(row, open, w)
            /\ RequestUnloads(Cardinality(YieldsBefore(jobs, w, lp)))
            /\ Goto("job_popen", "data", w, "none")
  /\ UNCHANGED <<ledger, procs, dmnTask, dmnCancel, fin, others>>

\* _spawn_job in its three steps: the process, the row, the slot.
PopenJob ==
  /\ sup.pc = "job_popen"
  /\ child' = [child EXCEPT !["data"] = Popened(sup.w, FALSE)]
  /\ Goto("job_mark", "data", sup.w, "none")
  /\ UNCHANGED <<ledger, slot, daemon, others>>

MarkJobRunning ==
  /\ sup.pc = "job_mark"
  /\ row' = WithStatus(row, sup.w, "running")
  /\ Goto("job_attach", "data", sup.w, "none")
  /\ UNCHANGED <<held, version, disk, procs, daemon, others>>

AttachJob ==
  /\ sup.pc = "job_attach"
  /\ slot' = [slot EXCEPT !["data"].id = sup.w, !["data"].cancel = FALSE]
  /\ EndDispatch("data")
  /\ UNCHANGED <<ledger, child, daemon, others>>

--------------------------------------------------------------------------------
(* The supervisor thread: generate work goes to the daemon (_submit_to_daemon) *)

\* A stopped daemon is started, and the tick waits until it is ready.
StartDaemon ==
  /\ sup.pc = "gen_start"
  /\ IF dmn.state = "stopped"
       THEN \E r \in Readers :
              /\ fin[r].pc = "idle"
              /\ dmn' = [StoppedDaemon EXCEPT !.state = "starting", !.reader = r]
              /\ Goto("gen_wait", "train", sup.w, "none")
       ELSE /\ UNCHANGED dmn
            /\ Goto("gen_claim", "train", sup.w, "none")
  /\ UNCHANGED <<ledger, procs, dmnTask, dmnCancel, fin, others>>

\* start() returns when the daemon is idle and raises when the process exits or
\* READY_TIMEOUT passes.
AwaitDaemon ==
  /\ sup.pc = "gen_wait"
  /\ \/ dmn.state = "idle" /\ Goto("gen_claim", "train", sup.w, "none")
     \/ dmn.state \in {"stopped", "starting"} /\ Goto("fail", "train", sup.w, "none")
  /\ UNCHANGED <<ledger, procs, daemon, others>>

ClaimDaemon ==
  /\ sup.pc = "gen_claim"
  /\ dmnTask' = sup.w
  /\ dmnCancel' = FALSE
  /\ Goto("gen_run", "train", sup.w, "none")
  /\ UNCHANGED <<ledger, procs, dmn, fin, others>>

WriteGenerateRunning ==
  /\ sup.pc = "gen_run"
  /\ row' = WithStatus(row, sup.w, "running")
  /\ Goto("gen_submit", "train", sup.w, "none")
  /\ UNCHANGED <<held, version, disk, procs, daemon, others>>

\* submit_task takes the task only when idle; otherwise it raises and the task
\* is finalized as failed on this thread.
SubmitTask ==
  /\ sup.pc = "gen_submit"
  /\ IF dmn.state = "idle"
       THEN /\ dmn' = [dmn EXCEPT !.state = "busy", !.active = sup.w,
                                  !.cancel = FALSE, !.ahead = dmn.unloads]
            /\ EndDispatch("train")
       ELSE /\ UNCHANGED dmn
            /\ Goto("gen_reject", "train", sup.w, "none")
  /\ UNCHANGED <<ledger, procs, dmnTask, dmnCancel, fin, others>>

\* Variant: the marker is left for the next dispatch to overwrite.
NotReleased(w) == UNCHANGED <<dmnTask, dmnCancel>>

\* _finalize_daemon_task clears its marker only if the task still holds it.
Released(w) == /\ dmnTask' = IF dmnTask = w THEN NoWork ELSE dmnTask
               /\ dmnCancel' = IF dmnTask = w THEN FALSE ELSE dmnCancel

RejectTask ==
  /\ sup.pc = "gen_reject"
  /\ Released(sup.w)
  /\ Goto("gen_reject_write", "train", sup.w, "none")
  /\ UNCHANGED <<ledger, procs, dmn, fin, others>>

WriteRejected ==
  /\ sup.pc = "gen_reject_write"
  /\ row' = WithStatus(row, sup.w, "failed")
  /\ EndDispatch("train")
  /\ UNCHANGED <<held, version, disk, procs, daemon, others>>

Supervise ==
  \/ Restart \/ FindDue \/ PromoteDue
  \/ ReapNothing \/ ReapExited \/ FinishSlot \/ RecordFinish \/ ReleaseSlot
  \/ SkipSlot \/ HeadWaits \/ SelectHead
  \/ SpawnTask \/ WriteTaskRunning \/ FailTask
  \/ DispatchData \/ PopenJob \/ MarkJobRunning \/ AttachJob
  \/ StartDaemon \/ AwaitDaemon \/ ClaimDaemon \/ WriteGenerateRunning
  \/ SubmitTask \/ RejectTask \/ WriteRejected

--------------------------------------------------------------------------------
(* Child processes: training (runtime/anima_train.py) and data workers *)

Alive(s)    == child[s].life = "alive"
Training(s) == Alive(s) /\ KindOf[child[s].id] = "train"

\* Lines a process writes; the log file is read by the tailer.
Writes(s, lines) == [child[s] EXCEPT !.log = @ \o lines]

\* The end of the resume phase.  A process given --resume-state loads it if the
\* file is there and adopts it as its latest backup; then the loop starts.
LoopStarts(s) ==
  /\ Training(s) /\ ~child[s].looping /\ child[s].ints = 0
  /\ LET resumed == child[s].resume /\ child[s].id \in disk IN
     child' = [child EXCEPT ![s] =
       [Writes(s, IF resumed THEN <<"resumed", "backup", "loop">> ELSE <<"loop">>)
          EXCEPT !.looping = TRUE, !.backed = resumed]]
  /\ UNCHANGED <<ledger, slot, daemon, sup, others>>

\* Between two batches of the loop, no interrupt being handled.
InLoop(s) == Training(s) /\ child[s].looping /\ child[s].ints = 0

\* The first epoch of this process ends, in three steps: auto_epoch_state.pt is
\* replaced (and uploaded), the fields of handle_interrupt are set, the event goes
\* out.  Later epochs overwrite the file and repeat the event.
BackupReplaced(s) ==
  /\ InLoop(s) /\ ~child[s].backed /\ ~child[s].untold
  /\ disk' = disk \cup {child[s].id}
  /\ child' = [child EXCEPT ![s].untold = TRUE]
  /\ UNCHANGED <<row, held, version, slot, daemon, sup, others>>

BackupRemembered(s) ==
  /\ InLoop(s) /\ ~child[s].backed /\ child[s].untold
  /\ child' = [child EXCEPT ![s].backed = TRUE]
  /\ UNCHANGED <<ledger, slot, daemon, sup, others>>

BackupTold(s) ==
  /\ InLoop(s) /\ child[s].backed /\ child[s].untold
  /\ child' = [child EXCEPT ![s] = [Writes(s, <<"backup">>) EXCEPT !.untold = FALSE]]
  /\ UNCHANGED <<ledger, slot, daemon, sup, others>>

\* A process that has ended, with its last lines: what is left of it is its log.
Dead(s, life, lines) ==
  [NoChild EXCEPT !.id = child[s].id, !.life = life, !.log = child[s].log \o lines]

ChildCompletes(s) ==
  /\ Alive(s)
  /\ child[s].ints = 0
  /\ Training(s) => child[s].looping /\ ~child[s].untold
  /\ child' = [child EXCEPT ![s] =
       Dead(s, "completed", IF Training(s) THEN <<"eval_finished">> ELSE <<>>)]
  /\ UNCHANGED <<ledger, slot, daemon, sup, others>>

\* handle_interrupt: report the latest backup and exit with code 0.
ChildPauses(s) ==
  /\ Training(s) /\ child[s].looping /\ child[s].ints = 1
  /\ child' = [child EXCEPT ![s] =
       Dead(s, "paused", IF child[s].backed THEN <<"pause_at">> ELSE <<"pause_none">>)]
  /\ UNCHANGED <<ledger, slot, daemon, sup, others>>

\* A second interrupt inside the handler, an interrupt before the handler is
\* registered, or a failure of the work itself.
ChildCrashes(s) ==
  /\ Alive(s)
  /\ child' = [child EXCEPT ![s] = Dead(s, "crashed", <<>>)]
  /\ UNCHANGED <<ledger, slot, daemon, sup, others>>

\* SIGTERM, or the kill of the process tree once the grace period is over.
ChildKilled(s) ==
  /\ Alive(s) /\ child[s].term
  /\ child' = [child EXCEPT ![s] = Dead(s, "killed", <<>>)]
  /\ UNCHANGED <<ledger, slot, daemon, sup, others>>

\* One line reaches _on_task_log, which mirrors it onto the slot or the row.
TailerReads(s) ==
  /\ Busy(s) /\ child[s].log # <<>>
  /\ LET e == Head(child[s].log)
         w == slot[s].id IN
     /\ slot' = CASE e = "loop"          -> [slot EXCEPT ![s].loop = TRUE]
                  [] e = "pause_at"      -> [slot EXCEPT ![s].path = TRUE]
                  [] e = "eval_finished" -> [slot EXCEPT ![s].evalFin = TRUE]
                  [] OTHER               -> slot
     /\ row' = CASE e = "backup"  -> Update(row, w, [row[w] EXCEPT !.last = TRUE])
                 [] e = "resumed" -> Update(row, w, [row[w] EXCEPT !.paused = FALSE])
                 [] OTHER         -> row
  /\ child' = [child EXCEPT ![s].log = Tail(@)]
  /\ UNCHANGED <<held, version, disk, daemon, sup, others>>

ChildStep(s) == \/ LoopStarts(s)
                \/ BackupReplaced(s) \/ BackupRemembered(s) \/ BackupTold(s)
                \/ ChildCompletes(s) \/ ChildPauses(s) \/ ChildCrashes(s) \/ ChildKilled(s)

--------------------------------------------------------------------------------
(* The daemon process and the reader thread of its proxy *)

\* The reader handles one event at a time.
ReaderFree == fin[dmn.reader].pc = "idle"

DaemonReady ==
  /\ dmn.state = "starting"
  /\ ReaderFree
  /\ dmn' = [dmn EXCEPT !.state = "idle"]
  /\ UNCHANGED <<ledger, procs, dmnTask, dmnCancel, fin, sup, others>>

\* The task loads the model; the commands sent before the task come first.
ModelLoaded ==
  /\ dmn.active # NoWork /\ dmn.ahead = 0 /\ ~dmn.loaded
  /\ ReaderFree
  /\ dmn' = [dmn EXCEPT !.loaded = TRUE]
  /\ UNCHANGED <<ledger, procs, dmnTask, dmnCancel, fin, sup, others>>

\* Variant: every answer is taken for one sent before the task.
AheadOneLess == dmn.ahead - 1

AheadAfterUnload == IF dmn.ahead > 0 THEN dmn.ahead - 1 ELSE 0

\* `unloaded` makes the proxy idle whatever it was doing.
ModelUnloaded ==
  /\ dmn.unloads > 0
  /\ ReaderFree
  /\ dmn' = [dmn EXCEPT !.state = "idle", !.loaded = FALSE, !.unloads = @ - 1,
                        !.ahead = AheadAfterUnload]
  /\ UNCHANGED <<ledger, procs, dmnTask, dmnCancel, fin, sup, others>>

\* done / error / canceled: the proxy is idle again before the callback runs.  A
\* task is done on the model it loaded, which an unload answered while it ran (the
\* proxy is no longer busy) may have taken off the books.
TaskEnds(st) ==
  /\ dmn.active # NoWork /\ dmn.ahead = 0
  /\ st = "done" => dmn.loaded \/ dmn.state # "busy"
  /\ st = "canceled" => dmn.cancel
  /\ ReaderFree
  /\ dmn' = [dmn EXCEPT !.state = "idle", !.active = NoWork, !.cancel = FALSE]
  /\ fin' = [fin EXCEPT ![dmn.reader] =
              [pc |-> "clear", w |-> dmn.active, st |-> st, exit |-> FALSE]]
  /\ UNCHANGED <<ledger, procs, dmnTask, dmnCancel, sup, others>>

\* The process dies, by itself or killed by the task timeout.  An active task is
\* told unless the proxy was unloading; then the `stopped` listener runs.
DaemonExits ==
  /\ dmn.state # "stopped"
  /\ ReaderFree
  /\ dmn' = [StoppedDaemon EXCEPT !.reader = dmn.reader]
  /\ fin' = [fin EXCEPT ![dmn.reader] =
              IF dmn.active # NoWork /\ dmn.state # "unloading"
                THEN [pc |-> "clear", w |-> dmn.active, st |-> "failed", exit |-> TRUE]
                ELSE [IdleReader EXCEPT !.pc = "stopped"]]
  /\ UNCHANGED <<ledger, procs, dmnTask, dmnCancel, sup, others>>

\* _on_idle_timeout
IdleTimeout ==
  /\ dmn.state = "idle" /\ dmn.loaded
  /\ RequestUnloads(1)
  /\ UNCHANGED <<ledger, procs, dmnTask, dmnCancel, fin, sup, others>>

\* _finalize_daemon_task on the reader thread: the marker, then the row.
FinClear(r) ==
  /\ fin[r].pc = "clear"
  /\ Released(fin[r].w)
  /\ fin' = [fin EXCEPT ![r].pc = "write"]
  /\ UNCHANGED <<ledger, procs, dmn, sup, others>>

FinWrite(r) ==
  /\ fin[r].pc = "write"
  /\ row' = WithStatus(row, fin[r].w, fin[r].st)
  /\ fin' = [fin EXCEPT ![r] = IF fin[r].exit THEN [IdleReader EXCEPT !.pc = "stopped"]
                               ELSE IdleReader]
  /\ UNCHANGED <<held, version, disk, procs, dmn, dmnTask, dmnCancel, sup, others>>

TaskLeftBehind == dmnTask # NoWork

\* _on_daemon_global_event("stopped"): whatever task is marked now is finalized.
FinStopped(r) ==
  /\ fin[r].pc = "stopped"
  /\ fin' = [fin EXCEPT ![r] =
       IF ~TaskLeftBehind THEN IdleReader
       ELSE [pc |-> "clear", w |-> dmnTask,
             st |-> IF dmnCancel THEN "canceled" ELSE "failed", exit |-> FALSE]]
  /\ UNCHANGED <<ledger, procs, dmn, dmnTask, dmnCancel, sup, others>>

Finalize(r) == FinClear(r) \/ FinWrite(r) \/ FinStopped(r)

DaemonStep == \/ DaemonReady \/ ModelLoaded \/ ModelUnloaded
              \/ \E st \in TerminalStatuses : TaskEnds(st)

--------------------------------------------------------------------------------
(* The host: processes that outlived the server that started them *)

\* Works whose process uses the machine now.
RunningProcs == {child[s].id : s \in {t \in SlotNames : Alive(t)}}
                \cup (IF dmn.active # NoWork THEN {dmn.active} ELSE {})

OrphanEnds(w) ==
  /\ w \in orphans
  /\ orphans' = orphans \ {w}
  /\ UNCHANGED <<ledger, procs, daemon, sup, crashes, api>>

\* A training process nobody listens to still writes its backup.
OrphanEpochEnds(w) ==
  /\ w \in orphans /\ KindOf[w] = "train"
  /\ disk' = disk \cup {w}
  /\ UNCHANGED <<row, held, version, procs, daemon, sup, others>>

Host == \E w \in Work : OrphanEnds(w) \/ OrphanEpochEnds(w)
================================================================================
