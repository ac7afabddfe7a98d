# Verification of AnimaTrainHub

AnimaTrainHub (Anima LoRA Studio) is a web application around a trainer of
image-model adapters. A FastAPI server keeps a queue of GPU work in SQLite; one
supervisor thread runs it in child processes and in a resident inference daemon;
the trainer can be paused, crashed and resumed; the images it trains on are
curated, cropped and held out in the browser. This directory holds TLA+ models of
the queue, of the inference daemon, of a training run, of the training set and of
the cache of generated images, the TLC configurations that check them, and the
TLAPS proofs.

Paths below are relative to the repository (`src/` here).

## 1. Inventory

### Components, their state and operations

| component | source | state it keeps | operations | talks to |
|---|---|---|---|---|
| task supervisor | `studio/supervisor/core.py`, `slot.py`, `finalizer.py`, `process.py`, `cmd_builder.py` | two slots (TRAIN, DATA) with process, id, kind and pause/cancel flags; the marker of the active generate | tick (promote, reap, dispatch), cancel, pause, start, stop, callbacks of tailer and daemon | ledger (SQL), children (signals, exit codes), tailers (callbacks), daemon proxy, event bus |
| resource tiers | `studio/supervisor/resources.py` | none | kind -> exclusive / light / io | read by the supervisor |
| ledger | `studio/infrastructure/db.py`, `studio/services/projects/jobs.py` | `tasks`, `queue_settings` | create, update, promote, reorder, delete, hold | everybody, one connection per operation, autocommitted updates |
| queue endpoints | `studio/api/routers/queue/lifecycle.py` | none | enqueue, retry, cancel, pause, resume, start_now, delete, hold, release, reorder | ledger, supervisor |
| generate endpoints | `studio/api/routers/generate.py` | none | enqueue a generate, unload the daemon | ledger, daemon proxy |
| daemon proxy | `studio/services/inference/daemon.py` | process, state, loaded flag, active task, idle and task timers | start, stop, submit, cancel, unload, event handling on a reader thread | daemon process (pipes), supervisor (callbacks) |
| daemon process | `runtime/anima_daemon.py` | model cache, worker thread, cancel registry | generate, unload, cancel | proxy |
| training process | `runtime/anima_train.py`, `runtime/training/**` | loop state, checkpoint files | resume, epochs, backup, interrupt, finalize | supervisor through event lines in its log, signals, exit code |
| job workers | `studio/workers/*` | none | one job each | supervisor, as a child process |
| evaluation queueing | `studio/services/eval_auto.py`, `eval_samples.py` | run files | queue after training, rerun | ledger |
| versions and phases | `studio/services/projects/versions.py`, `phase.py`, `projects.py` | version status, phase cursor | dual write, derive, reconcile, advance, skip | ledger, supervisor |
| log tailer, monitor poller | `studio/infrastructure/log_tail.py` | file offset, partial line | poll, stop with a last read | supervisor callbacks |
| event bus, SSE | `studio/infrastructure/event_bus.py`, `studio/api/routers/events_sse.py` | bounded queues | publish, subscribe, drop when full | browser |
| image cache | `studio/services/inference/disk_cache.py` (`cache.py` has no caller) | LRU index, encrypted files, byte count | put, get, evict, flush | daemon proxy, endpoints, timers of `studio/api/lifespan.py` |
| training set | `studio/services/preprocess/manifest.py`, `studio/services/dataset/curation.py`, `studio/services/eval_validation.py`, `studio/workers/preprocess_worker.py` | image files, manifest, masks, held-out images | copy, remove, review, restore, inpaint, mask, crop, upscale, split | endpoints, the preprocess job, training |
| booru clients | `studio/services/booru/pool.py`, `downloader.py` | token buckets, sticky backoff | acquire, download in parallel | image boards |
| model downloader | `studio/services/models/downloader.py` | status per asset | start, delete | hubs |
| tunnel, installers, proxy | `studio/services/tunnel.py`, `studio/services/runtime/*`, `proxy_manager.py` | helper process, pending-install marker | start, stop, install | outside tools |
| block swap, offload | `runtime/training/block_swap.py`, `layer_offload.py` | ring of pinned buffers | copy in, compute, copy out | CUDA streams |
| numerics, networks | `runtime/training/*`, `modeling/*`, `utils/*` | tensors | training arithmetic | - |
| settings, schemas, migrations, CLI, web client | `studio/infrastructure/secrets.py`, `studio/domain/*`, `studio/cli.py`, `studio/web` | configuration | - | - |

The queue and the daemon are where correctness depends on interleavings:
request threads, the supervisor thread, the reader thread of the daemon proxy,
timers, the tailers, the children and the death of any of them. The training run
and the training set are where a long sequence of legal steps has to keep books
that no single step can see. The rest is I/O, tensor arithmetic or presentation,
or small enough to be tested; what has control worth modelling is in the plan.

### What makes each hard, and what makes it correct

* **Admission.** train, reg_ai, generate and eval_samples load a whole base
  model; one at a time may run, in three different executors. The gate
  (`_exclusive_busy`) is read, then a process is started some steps later; the
  daemon's resident model is a lease revoked by a message that is answered later.
* **The ledger.** `update_task` is an unconditional UPDATE that commits by itself.
  Every endpoint reads a status, decides, and writes; another thread may write in
  between. Enqueues of generate and reg-AI take several commits.
* **Pause and resume.** A pause is a signal; the verdict is assembled from slot
  flags, an event line read by another thread, and an exit code.
* **Crash and restart.** The table and the checkpoint files survive; slots, marker
  and in-flight endpoints do not; some children do.
* **Progress.** The head of the queue blocks everything behind it, so every reason
  to wait has to end.

* **The daemon.** Proxy and process talk through two pipes; the proxy changes its
  state under a lock and writes after it has let go of it; timers look, let go, act.
* **A training run.** It may die at any step and be resumed in another process;
  nothing shows a batch that was trained on twice.
* **The training set.** Every operation touches files, manifest, masks and captions;
  names change (X.jpg becomes X.png or X_c0.png) and share their stem.
* **The image cache.** Its files are read and written outside the lock of its index.

`PROJECT.json` lists the hazards one by one, at the line where each bites.

## 2. Modules

| module | models | lines to read first |
|---|---|---|
| `QueueLedger` | the rows of `tasks`, the updates, queue order, tiers, version status as pure operators | `db.py`, `resources.py`, `versions.py` |
| `QueueSupervisor` | the supervisor thread, the children, the tailers, the daemon in the small, orphaned processes | `core.py`, `daemon.py`, `log_tail.py` |
| `TaskQueue` | the endpoints on request threads, crash and stop of the server, the whole (`Next`, `Spec`, `FairSpec`), the properties | `lifecycle.py`, `generate.py`, `core.py` (cancel, pause) |
| `TaskQueueClaims` | statements quoted from docs and comments that the code breaks | - |
| `ExclusiveAdmission` | what the exclusive tier promises: one holder of a base model at a time, and a lease that is revoked before a process is spawned | `resources.py` |
| `DaemonService` | what the supervisor relies on when it hands a task to the daemon: the abstract contract | - |
| `InferenceDaemon` | proxy, lock, reader thread, timers, pipes, main loop and worker thread of the process | `daemon.py`, `anima_daemon.py` |
| `TrainingRun` | one training task over its processes: resume, batches, accumulation, recovery points, pause, end | `loop.py`, `state.py`, `phases/resume.py`, `context.py` |
| `TrainSet` | the images of one version, their manifest, masks and the held-out images | `manifest.py`, `curation.py`, `preprocess_worker.py` |
| `ImageCache` | the session cache, its readers and writers, the flush timers and the connections that start and cancel them | `disk_cache.py`, `lifespan.py`, `event_bus.py` |
| `MCTaskQueue`, `MCInferenceDaemon`, `MCTrainingRun`, `MCTrainSet`, `MCImageCache` | instances for TLC | - |
| `TaskQueueInduction` | the inductive invariants of the queue's proofs: types, claims, processes, rows, backups | - |
| `TaskQueueProofs`, `ExclusionProofs`, `ProcessProofs`, `LedgerProofs` | lemmas and theorems about the queue | - |
| `InferenceDaemonProofs`, `TrainingRunProofs`, `TrainSetProofs`, `ImageCacheProofs` | lemmas and theorems about the other components | - |

`QueueSupervisor` extends `QueueLedger`, `TaskQueue` extends `QueueSupervisor`;
the supervisor's module leaves `api` (what request threads are in the middle of)
unchanged and `TaskQueue` drives it. `TaskQueue` has an instance of
`ExclusiveAdmission` (`Tier`, its holders read off the processes and the daemon) and
implements it, checked by TLC and proved. `InferenceDaemon` has an instance of
`DaemonService` (`Service == INSTANCE DaemonService WITH ...`) and implements it: TLC
checks it with its liveness, TLAPS proves its safety. The other modules are components of
their own; the queue sees a training run as a child that writes backups and exits.

### The queue: state

| variable | code |
|---|---|
| `row` | `tasks`: status, task_type, config_path set?, paused_state_path set?, last_state_path set?, priority |
| `held` | `queue_settings['queue.held']` |
| `version` | `versions.status` |
| `disk` | which tasks have an `auto_epoch_state.pt` |
| `slot` | the two `_Slot` objects: id, cancel_pending, pause_pending, pause_state_path set?, train_loop_started, eval payload set? |
| `child` | the process of each slot: which row, how it stands, what it was given, interrupts received, event lines not yet read |
| `dmn` | the proxy's state, model_loaded, active task, cancel sent, unloads not yet answered (`ahead`: those sent before the task), its reader |
| `dmnTask`, `dmnCancel` | `_daemon_active_task_id`, `_daemon_cancel_pending` |
| `fin` | where each reader thread is in `_finalize_daemon_task` and the `stopped` listener |
| `sup` | the supervisor thread's next step and the row it works on |
| `orphans`, `crashes` | children that outlived their server; how often it died |
| `api` | per request thread: the next step of the endpoint it is in |

A row id is a number; ids grow with creation time, so the smaller id is the
older row. `KindOf` says what each row is meant to be; `row[w].type` is what the
table says, which differs in the middle of an enqueue.

### The queue: granularity

A step is what runs between two points at which another thread can observe or
change what this one uses: a commit, the assignment of a slot's fields, a signal,
an event read from a pipe. Merged into one step, because nothing can come between
them that matters:

* the reads of one dispatch decision. Claims are made by the supervisor thread
  alone, so a flag read early can only be out of date towards "busy", and a
  model is loaded only by a task that holds the marker;
* the status write of a row and the write of its version (two commits on one
  thread); no property relates the two in between, and `reconcile_version_status`
  in `resume` keeps its read and its write apart;
* the updates of `_reconcile_orphans`, which run before the first tick;
* the assignments that fill or reset a slot;
* the upload of a backup to wandb with the replace of its file before it: both leave a
  file that the process does not remember yet.

Kept apart, because something can come in between: the replace of a backup, the fields
the signal handler reads and the event (`BackupReplaced`, `BackupRemembered`,
`BackupTold`; `loop.py:1111-1134`); the read of a row by `retry` and its copy with the
config file, the row and the directory of a `delete`; the marker and the row of a
generate that ends (`FinClear`, `FinWrite`).

Abstracted: what an event line carries, except whether it names a resume point;
the epochs after the first one of a process (they overwrite the file and repeat
the event); the evaluation rows of one training (one row stands for those of all
checkpoints and the baseline); `scheduled_at` (any scheduled row may be due by
now); the light-task setting (`LightSettings`: any of its values at each read).
The signals are those of POSIX; on Windows a cancel kills the tree at once, which
is `CancelSlot` followed by `ChildKilled`.

### The inference daemon

`proxy` is what the lock guards (`_state`, `_model_loaded`, `_active`, whether
there is a `_proc`); `timer` the two timers; `late` what a caller that has left the
lock is about to write or kill, with the number of the process it holds; `stdin` and
`stdout` the pipes; `child` the process (main loop, worker, resident model, cancel
registry); `reader` the callback the reader thread is in; `sup`, `marker`, `status`
and `asked` the supervisor as far as it drives the proxy. A call of the proxy is two
steps, the part under the lock and the write after it; the worker's last event and
its `finally` are two; loading is three, with its event after it. The end of a task is two on
the supervisor's side, the marker (`TaskCallback`, `RejectTask`) and the row (`RecordEnd`,
`WriteRejected`): between them `_finalize_daemon_task` joins a poller and closes a log
(`core.py:1319-1346`), and a tick may take the next task. A task is its own request id,
since it is submitted once; tasks are numbered in the order of their dispatch. One field
of `proxy` is not the code's: `exposed` remembers that an unload may reach the worker of
the active task, because one was on its way to the pipe when the task was accepted, or
was answered since and made the busy proxy idle.

`Contract` says that this implements `DaemonService`, its liveness included: only the task
that the daemon has is computed, it is let go of when the work is over, and every task
taken ends, once, be it when the next one has been taken, and `canceled` only if somebody
asked. The instance has the same `status` and `asked`; what the daemon has is `marker`,
what is computed is the worker's task (`AtWork`), everything else is hidden.

What the run assumes of time, and where: the supervisor looks at the queue once a
second, by when other threads have done what they were about to do (`CaughtUp`); the
reader has left its two callbacks before the next process is ready (`StartProcess`);
a task timer of minutes fires while the task computes; the process dies while it
computes (`MayDie`). The constant `Faults` lifts these: with `"stall"` threads may be
held up for a second and with `"death"` the process may die at rest. Neither is in
the run, because the code does not survive them: see section 4.

### The training run

A batch is `<<epoch, position>>` in the order that the sampler, seeded by the epoch,
makes; weights are the sequence of gradient groups the optimizer has stepped on, so
that "trained on the same data" is an equation; `model.lost` is a history variable
for batches a NaN took. `packs` is how many batches the packer makes of each epoch,
which may differ. `ctx` has the locals of `loop.run` and the fields of
`TrainingContext`. A file is written in two steps (temporary file, `os.replace`), and
the process may be killed, or interrupted, between any two steps. `args` may be
edited between runs; the snapshot beside a backup freezes them. A state given as
`resume_state` is taken to be used under the settings it was written under. The
supervisor starts no further process for a training that is through (`Over`).

### The training set

A name is an original and how its file is called: its own name, the same stem as
`.png`, or a piece. `file` says what is there, how often it was cut or scaled
(`geo`), and whether it differs from the original (`touched`); `entry` is the manifest,
tombstones of the duplicate review included; `mask` the geometry a mask was drawn
for, by stem; `val` the held-out names; `job` the images a crop or upscale job has yet
to do, in no particular order, since its list was made before and requests come
between its images. One request is one step and so is one image of the job: the
assumption that the two do not overlap is the model's, and section 4 says what the
code does to it. One folder, and one original per file name.

### The image cache

`index` is the ordered index, `bytes` the count that the code keeps instead of
computing it, `disk` the files; `put` holds the file written and not yet indexed,
`get` the entry a request has looked up and not yet read. `conn` counts the queues
subscribed, `held` is the timer the hooks know of, `timer` where each timer thread is
in the flush. What is done under the lock is one step, I/O outside it another. A
failed read and the lock after it are one step, because a file that is gone stays
gone.

## 3. Runs

| run | module | instance | shows |
|---|---|---|---|
| `exclusion` | `MCTaskQueue` | generate, scheduled train, eval; cancel, unload, clear_eval; one crash or stop | `TypeOK`, `ExclusiveMutex`, `OneOnGpu`, `LeaseRevoked`, `NoLostRunning`, `BooksAgree`, `DoneStays`, `CanceledIsNotRequeued` |
| `pause_resume` | `MCTaskQueue` | two trains of one version, one scheduled, the other not there at first; start_now, pause, resume, cancel, delete, retry, reorder | `PausedHasResumePoint`, `BackupStaysKnown`, `QueuedTrainIsRunnable` |
| `served` | `MCTaskQueue` | light, train, generate, eval, two of them enqueued late or by the training itself; unload, enqueue, hold; light tasks off | `Admission` (refinement of `ExclusiveAdmission`), `LightStartsAlone`, and `PendingIsServed`, `RunningEnds` under `FairSpec` |
| `daemon` | `MCInferenceDaemon` | two tasks, two processes, two unloads at a time | `DaemonTypeOK`, `NoWorkBehindTheMarker`, `UnloadSparesWorker`, `Contract` (refinement of `DaemonService`, with its liveness) |
| `training` | `MCTrainingRun` | five settings, four processes, two NaNs | `TrainingTypeOK`, `EveryBatchOnce`, `RecoveryPointsExact`, `PauseCostsOneEpoch`, `BackupIsAPair`, `FinishedIsWhole`, `DisplayIsExact`, `BackupContinues` |
| `train_set` | `MCTrainSet` | a .jpg and a .png, crops into two | `TypeInvariant`, `OriginKnown`, `OneCopyEach`, `MaskFits`, `BadgeIsTrue`, `RemovalIsKept`, `NothingLost` |
| `image_cache` | `MCImageCache` | two images, one reader, two browsers, two timers | `CacheTypeOK`, `WithinBytes`, `HeldTimerIsAlone`, `OnlyLostReadsDrift`, `NothingLeftBehind`, `DepartureFlushes` under `FairSpec` |
| `lost_cancel` | `MCTaskQueue` | train; cancel | violated: `CanceledStays` |
| `half_enqueued` | `MCTaskQueue` | generate, eval; enqueue | violated: `EnqueueIsUndisturbed` |
| `cleared_eval` | `MCTaskQueue` | train, eval; clear_eval | violated: `CanceledEvalStops` |
| `unload_generate` | `MCTaskQueue` | two generates; unload | violated: `UnloadDoesNotFailGenerate` |
| `held_out` | `MCTrainSet` | one .jpg, crops into two | violated: `HeldOutWhole` |

Deadlock is checked for the queue (the supervisor loops for ever) and for the image
cache. It is off for `daemon`, `training` and `train_set`: a daemon whose tasks are
through and whose processes are used up stops, a training ends, and so does a training
set whose originals are gone and whose bounds are met.

### Bounds, and why they are enough

* `Work`: two to four rows. The exclusive tier has three executors, so a run with
  one row for each covers every pair; `exclusion` has these.
* `MaxUnloads`: unloads not yet answered. Two are needed for a second answer to
  arrive under a running task, and more repeat that effect. An action that would
  exceed the bound waits. `exclusion` and `daemon` have two; the theorems have any number.
* `MaxCrashes`: one, so that a restart meets every kind of leftover; a second
  crash starts from a state a first one can also reach.
* `MaxPrio`: the length of the lists `reorder` is called with: one, enough for a row to
  overtake another.
* `Threads`: one. One endpoint against the supervisor shows every race of a read and
  a write between the two; races of two endpoints with each other are not checked.
* `Readers`: one reader thread of the daemon proxy; see section 5.
* A process receives at most two interrupts that matter, and its log holds at most
  the lines it has written; neither needs a bound of its own.
* `daemon`: two tasks, so that one can be taken for the other; `MaxProcs` two, so that a
  task meets a process started for another.
* `training`: `MCTrainingRun` picks settings for what can go wrong: packs that shrink
  and grow, tails of one batch, states on every step, on the last step of an epoch and
  on the step that meets the limit. `MaxRuns` four: a resume of a resume of a resume.
  `MaxNaNs` two: one in each of two groups, or twice in one.
* `train_set`: two originals, since operations on one must leave the other alone, of the
  two sorts the name rules tell apart; `MaxGeo` two, a crop of a crop; `MaxTodo` two, so
  that a job goes on after a request; `MaxHeld` two, all of one original's pieces.
* `image_cache`: `Files` three, one more than fit; sizes one and two, so that a second
  image may throw out two; two timers, for an old flush to meet a new timer; `MaxDrift`
  one, the first wrong count. An image that finds no free name waits.

### Fairness

`Fairness` of the queue is that of a server that keeps running: the supervisor loop
takes its next step, a request thread that has started goes on, a tailer reads what is
there, a child process ends (a training ends, whatever it does before), the
daemon answers, and the reader thread finishes its callbacks. These are threads
and processes of the operating system, each with its own loop (`_loop`,
`LogTailer._run`, `_read_stdout_loop`), so weak fairness per thread is what its
scheduling gives. Not assumed: that clients call anything, that an idle time-out
fires, that the daemon exits, that an epoch ends before a failure, or that the
server is started again. `DaemonFairness` is the same for the threads of the proxy and
of the process, one by one; a worker comes to an end, a time-out or a cancel need not
come. `ImageCache` needs only that a timer thread runs: a `threading.Timer` that was
started fires and its function goes on. Browsers and requests owe nothing.

`training` and `train_set` state no liveness: nothing there waits for anything.

## 4. Disagreements

Each violation run quotes a sentence of the repository and finds a state or step
that contradicts it; `PROJECT.json` gives lines. In short: a cancel may be
overwritten by the write of `running`; the first commit of `enqueue_generate` is a
training, not a generate; a rerun cancels a running evaluation in the table only;
a generate that meets an unload in progress fails instead of loading on demand; the
validation split may hold out one piece of an image and train on another.

Behaviour that the models have, or were made to leave out, with no violation run:

* **Backups.** A backup lies on disk before its event is out: a kill or a failing upload
  in between leaves it unknown to its row, and the task has to start over. A pause there
  denies it if it is the first of its process (`PauseCostsOneEpoch` says that this costs
  that one epoch). `BackupStaysKnown` speaks of reported backups.
* **Queue.** A `DELETE` beside a `retry` may take the config after the row was read, and a
  training is queued without it (`lifecycle.py:495`, `518`, `547-555`; `NoDeleteBesideRetry`
  in section 5). A pause flag survives into the next task of the slot; a cancel signals the
  slot's next task; work runs twice after a crash between popen and the running write; a
  generate without config blocks the queue after a crash.
* **Daemon.** If the process dies between the lock and the write of `submit_task`, the
  proxy ends up idle without a process and fails every later generate (`IdleHasProcess`,
  against "daemon alive and waiting for commands", `daemon.py:48`). A timer's thread held
  up over a dispatch kills the next task's process. An unload of a busy daemon is "ignored"
  (`daemon.py:502`) but in two cases: it was let out before the task was accepted and
  written after it, or another was answered under the running task and made the proxy idle
  (`daemon.py:635`), which ticks and buttons that send one after another do in the run.
  `UnloadSparesWorker` says that there is no third case.
* **Training.** A resume at `max_steps` trains one step more, because the limit is looked
  at after the step (`loop.py:1019`); `DisplayIsExact` excludes it by its premise. A
  `resume_state` that is gone is ignored without a word (`phases/resume.py:79`).
* **Training set.** The preprocess job is a process of its own and writes the same
  `manifest.json` through the same temporary file as the server, whose lock it does not
  hold (`preprocess_worker.py:264`, `450`): of two overlapping updates one is lost. A kill
  between the pieces of a crop and its manifest entry leaves pieces without entry. The
  docstring of the endpoint that marks duplicates says "Physical files are untouched"
  (`routers/projects/curation.py:416`); the service deletes the images.
* **Image cache.** `get_image` reads outside the lock; if the entry was evicted, replaced
  or flushed meanwhile, it pops the newer entry of the key, whose file then belongs to
  nobody, and takes its own size off a second time, so that the byte count falls below
  the truth, the cap is no longer kept, and only the next flush repairs it
  (`disk_cache.py:190-193`). The end of an old flush forgets a newer timer
  (`lifespan.py:210`); that one cannot be canceled any more and flushes beside a browser
  that has come back, against "on reconnect ... the timer is canceled". The properties
  `OnlyLostReadsDrift`, `NothingLeftBehind` and `HeldTimerIsAlone` say that nothing else
  does either.
* **Monitor** (not modelled). The poller notes the mtime before it throttles
  (`log_tail.py:197`, `202`), so an update held back is not "picked up next round" unless
  the file changes again.

## 5. Proofs

`tlapm` checks every obligation of the eight proof modules. The theorems of the queue
hold for any finite set of rows, any assignment of kinds, any number of request
threads, any set of endpoints and any bounds, including crashes; those of the daemon for
any tasks, processes and faults; those of a training for any settings and any number of
processes and NaNs; those of the training set for any originals, suffixes of pieces,
fan-outs and bounds; those of the image cache for any images, limits, browsers and timer
threads.

| theorem | module | assumes |
|---|---|---|
| `TypeCorrect`: Spec => []TypeOK | `TaskQueueProofs` | - |
| `Exclusion`: Spec => []ExclusiveMutex | `ExclusionProofs` | - |
| `Books`: Spec => []BooksAgree | `ProcessProofs` | `OneReader` |
| `OneProcess`: Spec => []OneOnGpu | `ProcessProofs` | `OneReader` |
| `Lease`: Spec => []LeaseRevoked | `ProcessProofs` | `OneReader` |
| `RowsAgree`: Spec => [](BooksAgree /\ RowInv) | `LedgerProofs` | `OneReader` |
| `NoneLost`: Spec => []NoLostRunning | `LedgerProofs` | `OneReader` |
| `AdmissionKept`: Spec => Admission | `LedgerProofs` | `OneReader` |
| `ResultsStay`: Spec => DoneStays | `LedgerProofs` | `OneReader` |
| `CanceledStays`: Spec => CanceledIsNotRequeued | `LedgerProofs` | - |
| `LightRunsAlone`: Spec => LightStartsAlone | `LedgerProofs` | `OneReader`, `LightSettings = {FALSE}` |
| `QueuedTrainsRun`: Spec => QueuedTrainIsRunnable | `LedgerProofs` | `OneReader`, `NoHalfCopies`, `NoDeleteBesideRetry` |
| `BackupsAgree`: Spec => []BackupInv | `LedgerProofs` | `OneReader` |
| `PausedResumes`: Spec => [](crashes = 0 => PausedHasResumePoint) | `LedgerProofs` | `OneReader` |
| `BackupsResume`: Spec => BackupStaysKnown | `LedgerProofs` | `OneReader` |
| `DaemonTypes`: DaemonSpec => []DaemonTypeOK | `InferenceDaemonProofs` | - |
| `MarkerCovers`: DaemonSpec => []NoWorkBehindTheMarker | `InferenceDaemonProofs` | - |
| `CancelWasAsked`: DaemonSpec => []CanceledWasAsked | `InferenceDaemonProofs` | - |
| `KeepsContract`: DaemonSpec => Service!Safety | `InferenceDaemonProofs` | `Faults = {}` |
| `UnloadSpares`: DaemonSpec => UnloadSparesWorker | `InferenceDaemonProofs` | - |
| `TrainingTypes`: TrainingSpec => []TrainingTypeOK | `TrainingRunProofs` | - |
| `BatchesOnce`: TrainingSpec => []EveryBatchOnce | `TrainingRunProofs` | - |
| `PointsExact`: TrainingSpec => []RecoveryPointsExact | `TrainingRunProofs` | - |
| `PauseCost`: TrainingSpec => []PauseCostsOneEpoch | `TrainingRunProofs` | - |
| `BackupPair`: TrainingSpec => []BackupIsAPair | `TrainingRunProofs` | - |
| `FinishWhole`: TrainingSpec => []FinishedIsWhole | `TrainingRunProofs` | - |
| `DisplayExact`: TrainingSpec => []DisplayIsExact | `TrainingRunProofs` | - |
| `BackupGoesOn`: TrainingSpec => BackupContinues | `TrainingRunProofs` | - |
| `TrainSetTyped`: Spec => []TypeInvariant | `TrainSetProofs` | - |
| `ImagesTraced`: Spec => []OriginKnown | `TrainSetProofs` | - |
| `OneCopy`: Spec => []OneCopyEach | `TrainSetProofs` | - |
| `MasksFit`: Spec => []MaskFits | `TrainSetProofs` | - |
| `BadgesTrue`: Spec => []BadgeIsTrue | `TrainSetProofs` | - |
| `ReviewKept`: Spec => RemovalIsKept | `TrainSetProofs` | - |
| `NoneLost`: Spec => NothingLost | `TrainSetProofs` | - |
| `ReconnectIsSafe`: Spec => []HeldTimerIsAlone | `ImageCacheProofs` | - |
| `CacheTypes`: Spec => []CacheTypeOK | `ImageCacheProofs` | - |
| `BytesWithin`: Spec => []WithinBytes | `ImageCacheProofs` | - |
| `DriftOfLostReads`: Spec => OnlyLostReadsDrift | `ImageCacheProofs` | - |
| `NoStrays`: Spec => NothingLeftBehind | `ImageCacheProofs` | - |

All rest on the named assumptions of the modules (`WorkAssumption`, ...), which
say no more than that rows are natural numbers with kinds, that bounds are
numbers, and that only a training is `scheduled` when the server starts: the endpoints
that set `scheduled_at` are those that enqueue a training, and `start_now` leads out of
that status and not into it.

**Types.** `TypeOK` is not inductive: a step that writes "the row this thread
works on" needs to know that it names a row. `TypeInv` adds that for the
supervisor, the readers, the processes and the request threads. Per action a
lemma; frames (`SupervisorFrame`, `ProcessFrame`, `DaemonFrame`, `RequestFrame`)
say what each group of actions leaves alone.

**Exclusion.** `ExclusiveMutex` is about claims: a slot in use, a marker set, and a
dispatch in progress. Only `SelectHead` makes a new claim of the exclusive kind,
and only when there is none; every other step passes a claim on or gives it up
(`NoNewClaim`). What has to be known besides is that a row dispatched as a light
job is one: `RowsKeepTheirKind`, which allows the one exception the code has, the
default type of a row in the middle of its enqueue.

**Processes.** Claims are books; `ProcessInv` says that the machine agrees with
them. `SlotsOwnTheirProcess`: a live process belongs to its slot or to the
dispatch that started it. `DaemonOwnsItsTask`: the task in the daemon is the
marked one, and a reader thread about to clear the marker clears that of a task
that has left the daemon. `DispatchAfterLease`: nobody dispatches beside a loaded
model. From these and the exclusion of claims follow `OneOnGpu` and
`LeaseRevoked`.

**Admission.** The invariants say what never holds at once; `Admission` says how it
changes: no holder of the tier is replaced by another in one step, a process is
admitted only when there is no holder and no lease, and only a generate at work loads
a model. `ExclusiveJobs` maps the two slots to the works whose process holds a base
model. Without a popen a process stays or ends (`ProcessesEnd`), and there is one at
most, so `ExclusiveJobs` stays or becomes empty (`JobsStayOrEnd`). At a popen the
claims of `ClaimIsAlone` give the free tier, and `SlotsAgree` the empty slot; at
`SubmitTask` the marker is the claim. Every other step leaves the daemon alone or is
one of its own (`DaemonAdmits`). A light process maps to no step of the tier. A crash
empties the tier: what outlives it is not the new server's to admit (`orphans`).

**`OneReader`.** The proxy starts a new reader thread per daemon process; the old
one may still be in its callbacks. If it stalls before its `stopped` listener until
the next daemon is started and a generate submitted, the listener finalizes that
generate and clears its marker while the process works on it, and the next
dispatch runs beside it. With `Readers = {1, 2}` and two generates TLC finds this
in 29 steps. The callback must stall for the seconds a daemon takes to import and
report ready, so the theorems take it as an assumption: the old reader has
returned before the next process starts. `TypeCorrect` and `Exclusion` do not
need it.

**Rows.** `RowInv` says what the table may say of the works that executors hold; no
part of it is inductive without the others. A row that says `running` is in a slot, in
the daemon, with a reader thread that finalizes it, or in the hands of the supervisor
between its write and the executor (`RunningIsCarried`). A row that says `done` or
`paused` is in nobody's hands but the slot's that has just said so (`SettledIsLetGo`):
without this a late write would take a result back. That in turn needs to know that no
executor holds what it never ran (`KindsOfExecutors`, `RowsOfTrainings`), that a slot,
its process and the supervisor mean the same row (`SlotsAgree`), that a generate is in
one reader's hands at most and not handed over twice (`GeneratesOnce`), and that a
thread in the middle of an endpoint has a row to write (`HeldRowsExist`,
`ThreadsKnowTheirRow`). `RowsAgree` carries the claims, the processes and the rows
together; `NoLostRunning` is a consequence, `DoneStays` a fact of each step under it.
`CanceledIsNotRequeued` needs only the types: the one way from `canceled` to `pending` is
an endpoint.

**Light tasks.** `LightFoundRoom`: a light job that is about to be started found the
tier free, and nothing can fill it before the supervisor's next step, since claims are
the supervisor's. With `queue.light_tasks_during_train` on the code means them to run
beside training, hence the premise.

**Queued trainings.** `TrainsConfigured`: a training row has its config from its insert,
and the supervisor, which fails a task it finds no config for, never fails a training.
The premise `NoHalfCopies` (clients do not retry a generate or a reg-AI whose enqueue is
not complete) was found by the attempt to prove it: such a row still has the default
type `train` and no config, and a retry copies both, so that a `train` without config is
queued, chosen and failed. The premise `NoDeleteBesideRetry` (one request thread, if clients
both delete and retry) has the same origin: a delete may take the config away between the
retry's read and its copy.

**Backups.** `BackupInv` relates the places that know of a backup: the file, what the
process remembers, the line in the log that names it, the slot's flag and the row's path.
`SlotTruth`: a process, a slot or a line on its way speaks of a backup only if the file is
there; hence a row that says `paused` has its file, whatever crashes (`PausesAreOnDisk`),
and so has a row with a path (`RowTruth`). `PausedHasPath` is weaker: a stop or a crash may
fall between the two writes of a cancel, which clears the path first; so it speaks of the
first life of the server, as does `PausedResumes`; the run has no crash either.
`BackupStaysKnown` is a fact of each step under these and `RowInv`: the line that reports a
backup reaches the row, because the slot does not let go before its tailer has read it
(`TailerDrained`), and nobody but a delete takes the file. Steps in which the server dies
are excluded by its premise (the unread line goes with the tailer), and a backup that is
not yet reported is nobody's.

**The daemon.** `MarkerInv` is the inductive form of `NoWorkBehindTheMarker`: while the
proxy is anywhere between taking a task and calling back, the task is in at most one
place (the handing thread, the command pipe, the worker, the event pipe or the reader's
callback) and it is the marked one; whatever is left in the pipe of a dead process is
nobody's. It holds with every fault. `AskedFor` follows a cancel from `asked` through the
caller that writes it, the pipe and the worker's registry to the verdict. For the
refinement `Current` says besides that process, reader and pipes are those of the task
that is marked, and `Rows` that a row is taken exactly while its task is marked or a thread
has let go of the marker and is about to write its verdict; no two threads are about to
write the same. Both need threads that keep up, and `RefinementStep` maps each step to one
of the service or to a stutter. `UnloadInv` is about the other traffic and needs no
assumption: a task that is not `exposed` has a busy proxy, no caller is about to write an
unload (`Spared`), and those in the pipe are ahead of it (`Ordered`); the proxy knows the
task that is sent or computed (`Known`), and `ready` comes before everything else
(`ReadyFirst`). So the main loop meets no unload beside the worker of a task that is not
exposed, whatever the number of unloads.

**A training run.** `RunInv` has six parts. `WeightsInv` is the heart: the weights are a
sequence of gradient groups, of which each is a window of consecutive batches of one
epoch (less what a NaN took), in order and without a gap, up to where the loop stands;
recovery points on disk are such prefixes, and a resume continues from one. From it
follow `EveryBatchOnce` and `RecoveryPointsExact`. `BackupInv` ties the backup to its
settings and to the weights it is a prefix of (`BackupContinues`), `PauseInv` to the epoch in
progress, `FinishInv` to the report of the end, and `DisplayInv` says that the estimate of the
total is never below the steps taken and is their number once the last batch is seen; its
arithmetic is that of the division by `grad_accum` in `_display_total_steps`. Nothing is assumed but
that the settings are well formed.

**The training set.** None of the properties is inductive: they speak of images that
are there, and an operation may bring an image to a name that was empty. `IInv` adds
what holds of names without an image: an entry's origin is the original the name is made
of, tombstones included (`OriginIsOwn`); a whole image is the only name of its original
in the manifest (`WholeAlone`); and a mask without an image still has a name in the
manifest by which a removal or a restore finds it (`MaskOwned`), which is why a mask that
a split left behind can never come to lie beside a fresh copy. One lemma per action;
`RemovalIsKept` and `NothingLost` are then facts of each action under `IInv`.

**The flush timers.** `HooksInv`: the hooks hold a timer only while nobody is connected.
The first browser makes them let go, and only the last one makes them take one.

**The image cache.** `CacheInv` is the types and `Capped`: whatever the count is worth,
it is below the cap or the index is empty, since an eviction goes on until one of the
two holds. The sum of the sizes of the index is the number of the bytes of its entries
(`Total`), so that what an insert, an eviction or a lost read adds and takes away are
facts about unions of disjoint sets (`TotalUnion`) and need no induction. `Push`, `Pop`
and `Cut` say what the three ways of changing the index do to its keys and to that sum;
of the evictions that make room the shortest exists because numbers are well ordered
(`ExcessIs`). `WriteIs`, `LookupIs`, `GoneIs` and `FlushIs` then state the effect of each
operation, and the two action properties follow from them: the count leaves the truth,
or a file is left that nobody lists, only where a read fails on an entry that was
replaced meanwhile.

**Only model-checked.** Liveness (`PendingIsServed`, `RunningEnds`,
`DepartureFlushes`, the fairness in `Contract`): fairness and ENABLED are out of the
prover's reach. Every invariant and every action property that a passing run checks is
a theorem.

## 6. Not modelled, and why

Queue: exceptions that abort a tick (a failing Popen, a locked database); the time-out
of a tailer's join; a slot read field by field while it is reset; two request threads at
a time. What survives a crashed server is kept in `orphans`, but the exclusion
properties speak of the running server's processes: the code does not look for
survivors. Daemon: `stop()`, the stderr buffer, sampling and LoRA changes. Training run:
sampling, validation, logging and every tensor. Training set: creating, renaming and
deleting folders (a rename leaves the manifest's keys behind), clearing the set,
rebuilding a lost manifest, captions, one file name in several folders or datasets,
finding duplicates, tagging. Image cache: encryption, listing, start-up cleaning;
`drop_task` and `configure` have no caller. Event bus: dropped events. Image and network
services, numerics, installers and the web client are I/O or floating point, without
control that these parts depend on. By far most of the repository's lines are of that
sort (networks, optimizers, configuration schemas, file and network I/O), so the models
cover a small share of its lines and most of its concurrency.

## 7. Plan

1. The `dmn` of `QueueSupervisor` shown to be an abstraction of `InferenceDaemon`.
2. `MonitorFeed` and `LogTail`: the poller's cursors and throttle, bounded queues that
   drop, the merge of deltas in the browser; partial lines, join time-out.
3. Several folders, renames and captions in `TrainSet`; two processes on one manifest.
4. `VersionPhase`, booru backoff, downloader status, `BlockSwapRing`, in the order their
   control is worth it. Each takes the place of a run whose question it answers better.
