------------------------------ MODULE TrainingRun ------------------------------
(***************************************************************************)
(* One training task, seen from its process (runtime/training): the resume   *)
(* phase, the loop over epochs and batches, the recovery points it writes,   *)
(* the pause signal, the end.  A batch is <<epoch, position in the epoch's    *)
(* order>>; weights are the history that made them: the sequence of the      *)
(* gradient groups the optimizer has stepped on.                             *)
(***************************************************************************)
EXTENDS Integers, Sequences, FiniteSets, SequencesExt

CONSTANTS
  Settings,   \* the args a task may be started with
  MaxRuns,    \* bound on the processes started for the task
  MaxNaNs     \* bound on the losses and gradients that come out NaN or infinite

\* packs[e + 1] is the number of batches the sampler makes of the data in epoch
\* e: the NaViT packer, reshuffled every epoch, may make more or fewer.
\* A period or a limit of 0 is off.
SettingsRecord(s) ==
  /\ s.epochs \in Nat \ {0} /\ s.packs \in [1..s.epochs -> Nat \ {0}]
  /\ s.grad_accum \in Nat \ {0} /\ s.max_steps \in Nat
  /\ s.save_state_every_steps \in Nat /\ s.save_state_every_epochs \in Nat
  /\ s.ema_start \in Nat

ASSUME SettingsAssumption == \A s \in Settings : SettingsRecord(s)
ASSUME RunsAssumption == MaxRuns \in Nat \ {0} /\ MaxNaNs \in Nat

VARIABLES
  args,      \* the settings of this task
  pc,        \* where the process is; "absent" when there is none
  ctx,       \* TrainingContext and the locals of loop.run
  sampler,   \* the batch sampler: what it yields next, batches to skip
  model,     \* adapter, optimizer, gradients, EMA shadow
  disk,      \* the task's recovery points
  told,      \* what this process has told the supervisor
  bounds     \* processes started and NaNs met so far

vars == <<args, pc, ctx, sampler, model, disk, told, bounds>>

None == [epoch |-> -1]
NoConfig == [epochs |-> 0]

\* What a recovery point holds.  lost is history: batches a NaN took away.
Snapshot(e, offset) ==
  [epoch |-> e, offset |-> offset, step |-> ctx.step, weights |-> model.weights,
   ema |-> model.ema, lost |-> model.lost]

NoContext == [start |-> 0, offset |-> 0, from |-> 0, step |-> 0, epoch |-> 0, batch |-> 0,
              dl_len |-> 0, display |-> 0, last |-> FALSE]
NoModel   == [weights |-> <<>>, grads |-> {}, ema |-> 0, lost |-> {}]
Untold    == [backup |-> FALSE, paused |-> "no", finished |-> FALSE]

Init ==
  /\ args \in Settings
  /\ pc = "absent"
  /\ ctx = NoContext
  /\ sampler = [next |-> 0, skip |-> 0]
  /\ model = NoModel
  /\ disk = [auto |-> None, config |-> NoConfig, saved |-> {}, final |-> FALSE]
  /\ told = Untold
  /\ bounds = [runs |-> 0, nans |-> 0]

Packs(e)  == args.packs[e + 1]
Due(n, every) == every > 0 /\ n % every = 0
AtLimit(step) == args.max_steps > 0 /\ step >= args.max_steps
Ceil(a, b) == (a + b - 1) \div b

-----------------------------------------------------------------------------
(* Gradient accumulation and the step count shown.                           *)

\* Variant: only full groups make a step.
FullGroupsOnly(batch, len) == (batch + 1) % args.grad_accum = 0

\* _accumulation_step: is the batch the last of its gradient group?
IsGroupEnd(batch, len) ==
  \/ (batch + 1) % args.grad_accum = 0
  \/ args.grad_accum > 1 /\ batch + 1 = len

\* The steps the optimizer phase expects; the scheduler is built on it.
TotalSteps ==
  LET byEpochs == Ceil(Packs(0), args.grad_accum) * args.epochs
  IN  IF args.max_steps > 0 THEN Min({byEpochs, args.max_steps}) ELSE byEpochs

\* Variant: the batches skipped by a resume are counted again.
CountsSkipped(step, skipped, len, e) ==
  LET est == step + Ceil(len, args.grad_accum) * (args.epochs - e)
  IN  IF args.max_steps > 0 THEN Min({est, args.max_steps}) ELSE est

\* _display_total_steps, the batches skipped by a resume counted back in.
DisplayTotal(step, skipped, len, e) ==
  LET est == step - Ceil(skipped, args.grad_accum) + Ceil(len, args.grad_accum) * (args.epochs - e)
  IN  IF args.max_steps > 0 THEN Min({est, args.max_steps}) ELSE est

-----------------------------------------------------------------------------
(* Start and resume.                                                          *)

\* Variant: a backup that is not found is a training from the start.
StartsOver == {None} \cup disk.saved

\* The backup of the task, if it has one; else nothing, or a state the user
\* gives as resume_state.
ResumePoints == IF disk.auto # None THEN {disk.auto} ELSE {None} \cup disk.saved

\* The supervisor starts no process for a task that is through.
Over == told.paused = "nothing" \/ (told.finished /\ told.paused = "no")

\* load_training_state: gradients are not part of a recovery point.
LoadTrainingState(point) ==
  /\ ctx' = [NoContext EXCEPT !.start = point.epoch, !.epoch = point.epoch, !.offset = point.offset,
                              !.from = point.step, !.step = point.step, !.display = TotalSteps,
                              !.last = point = disk.auto /\ disk.config # NoConfig]
  /\ model' = [NoModel EXCEPT !.weights = point.weights, !.ema = point.ema, !.lost = point.lost]

\* Variant: the settings are those of the yaml, frozen or not.
EditedArgs(point, yaml) == yaml

\* _maybe_apply_pause_snapshot: a config snapshot beside the state freezes the settings.
FrozenArgs(point, yaml) ==
  IF point = disk.auto /\ disk.config # NoConfig THEN disk.config ELSE yaml

\* Everything up to train_loop_started.  A resume from the task's own backup
\* adopts and announces it.  No handler is registered before: a signal is a Kill.
\* The user may have edited the yaml in between; a state given as resume_state is
\* taken to be used under the settings it was written under.
Boot ==
  /\ pc = "absent" /\ ~Over /\ bounds.runs < MaxRuns
  /\ \E point \in ResumePoints, yaml \in Settings :
       /\ point = disk.auto \/ yaml = args
       /\ args' = IF point = None THEN args ELSE FrozenArgs(point, yaml)
       /\ IF point = None
            THEN ctx' = [NoContext EXCEPT !.display = TotalSteps] /\ model' = NoModel
            ELSE LoadTrainingState(point)
       /\ told' = [Untold EXCEPT !.backup = ctx'.last]
  /\ sampler' = [next |-> 0, skip |-> 0]
  /\ pc' = "epoch"
  /\ bounds' = [bounds EXCEPT !.runs = @ + 1]
  /\ UNCHANGED disk

-----------------------------------------------------------------------------
(* The loop.                                                                  *)

\* Variant: the length of epoch 0 is kept for every epoch.
StaleLength(e) == Packs(0)

\* len(ctx.dataloader), refreshed after set_epoch.
EpochLength(e) == Packs(e)

\* Iterating takes the skip and clears it: it serves one epoch.
SamplerIter(skip) == [next |-> skip, skip |-> 0]

EpochStart ==
  /\ pc = "epoch" /\ ctx.epoch < args.epochs
  /\ LET e    == ctx.epoch
         skip == IF e = ctx.start THEN ctx.offset ELSE 0
     IN  /\ sampler' = SamplerIter(IF skip > 0 THEN skip ELSE sampler.skip)
         /\ ctx' = [ctx EXCEPT !.dl_len = EpochLength(e), !.batch = skip,
                               !.display = DisplayTotal(ctx.step, skip, EpochLength(e), e)]
  /\ pc' = "batch"
  /\ UNCHANGED <<args, model, disk, told, bounds>>

Drained == sampler.next = Packs(ctx.epoch)
Current == <<ctx.epoch, sampler.next>>

Consume ==
  /\ sampler' = [sampler EXCEPT !.next = @ + 1]
  /\ UNCHANGED <<args, disk, told>>

\* Variant: a NaN keeps the gradients the group has so far.
DropBatchOnly == model' = [model EXCEPT !.lost = @ \cup {Current}]

\* A loss or a gradient that is not finite: zero_grad takes the whole group so far.
ZeroGrad == model' = [model EXCEPT !.grads = {}, !.lost = @ \cup model.grads \cup {Current}]

\* The loss is not finite, or the gradients are at the end of the group: `continue`.
SkipNaN ==
  /\ pc = "batch" /\ ~Drained /\ bounds.nans < MaxNaNs
  /\ bounds' = [bounds EXCEPT !.nans = @ + 1]
  /\ ZeroGrad
  /\ ctx' = [ctx EXCEPT !.batch = @ + 1]
  /\ Consume
  /\ UNCHANGED pc

Backward ==
  /\ pc = "batch" /\ ~Drained /\ ~IsGroupEnd(ctx.batch, ctx.dl_len)
  /\ model' = [model EXCEPT !.grads = @ \cup {Current}]
  /\ ctx' = [ctx EXCEPT !.batch = @ + 1]
  /\ Consume
  /\ UNCHANGED <<pc, bounds>>

\* AdapterEma.update: nothing before start_step.
EmaUpdate(n, step) == IF step < args.ema_start THEN n ELSE n + 1

AfterStep(step) == IF AtLimit(step) THEN "epoch_end" ELSE "batch"

\* ctx.batch stays on the batch of the step until the loop turns.
OptimizerStep ==
  /\ pc = "batch" /\ ~Drained /\ IsGroupEnd(ctx.batch, ctx.dl_len)
  /\ LET step == ctx.step + 1
     IN  /\ model' = [model EXCEPT !.weights = Append(@, model.grads \cup {Current}), !.grads = {},
                                   !.ema = EmaUpdate(@, step)]
         /\ IF Due(step, args.save_state_every_steps)
              THEN ctx' = [ctx EXCEPT !.step = step] /\ pc' = "write_step"
              ELSE ctx' = [ctx EXCEPT !.step = step, !.batch = @ + 1] /\ pc' = AfterStep(step)
  /\ Consume
  /\ UNCHANGED bounds

-----------------------------------------------------------------------------
(* Recovery points: a temporary file, then os.replace.                        *)

\* torch.save to the temporary file, which nobody reads.
WriteTmp(at, next) ==
  /\ pc = at /\ pc' = next
  /\ UNCHANGED <<args, ctx, sampler, model, disk, told, bounds>>

\* Variant: the batch of the step counts as not consumed.
OffsetOfThisBatch == Snapshot(ctx.epoch, ctx.batch)

StepPoint  == Snapshot(ctx.epoch, ctx.batch + 1)
EpochPoint == Snapshot(ctx.epoch + 1, 0)

ReplaceStepState ==
  /\ pc = "replace_step" /\ pc' = AfterStep(ctx.step)
  /\ disk' = [disk EXCEPT !.saved = {p \in @ : p.step # ctx.step} \cup {StepPoint}]
  /\ ctx' = [ctx EXCEPT !.batch = @ + 1]
  /\ UNCHANGED <<args, sampler, model, told, bounds>>

\* The batches are through, or max_steps broke out of them.  A run that has met
\* its limit leaves no backup.
EpochEnd ==
  /\ pc = "epoch_end" \/ (pc = "batch" /\ Drained)
  /\ pc' = IF AtLimit(ctx.step) THEN "finalize"
           ELSE IF Due(ctx.epoch + 1, args.save_state_every_epochs) THEN "write_epoch"
           ELSE "config"
  /\ UNCHANGED <<args, ctx, sampler, model, disk, told, bounds>>

ReplaceEpochState ==
  /\ pc = "replace_epoch" /\ pc' = "config"
  /\ disk' = [disk EXCEPT !.saved = {p \in @ : p.offset # 0 \/ p.epoch # ctx.epoch + 1} \cup {EpochPoint}]
  /\ UNCHANGED <<args, ctx, sampler, model, told, bounds>>

WriteConfig ==
  /\ pc = "config" /\ pc' = "write_auto"
  /\ disk' = [disk EXCEPT !.config = args]
  /\ UNCHANGED <<args, ctx, sampler, model, told, bounds>>

ReplaceAutoState ==
  /\ pc = "replace_auto" /\ pc' = "remember"
  /\ disk' = [disk EXCEPT !.auto = EpochPoint]
  /\ UNCHANGED <<args, ctx, sampler, model, told, bounds>>

\* Variant: the event goes out before the fields the handler reads are set.
AnnounceFirst ==
  /\ pc = "remember" /\ pc' = "announce"
  /\ told' = [told EXCEPT !.backup = TRUE]
  /\ UNCHANGED <<args, ctx, sampler, model, disk, bounds>>

\* ctx.last_auto_epoch_state_path and _config_path.
Remember ==
  /\ pc = "remember" /\ pc' = "announce"
  /\ ctx' = [ctx EXCEPT !.last = TRUE]
  /\ UNCHANGED <<args, sampler, model, disk, told, bounds>>

\* auto_epoch_backup_written, and the next epoch.
Announce ==
  /\ pc = "announce" /\ pc' = "epoch"
  /\ told' = [told EXCEPT !.backup = TRUE]
  /\ ctx' = [ctx EXCEPT !.epoch = @ + 1]
  /\ UNCHANGED <<args, sampler, model, disk, bounds>>

-----------------------------------------------------------------------------
(* The end, the pause, and the death of the process.                          *)

Finalize ==
  /\ pc = "finalize" \/ (pc = "epoch" /\ ctx.epoch >= args.epochs)
  /\ pc' = "closing"
  /\ disk' = [disk EXCEPT !.final = TRUE]
  /\ told' = [told EXCEPT !.finished = TRUE]
  /\ UNCHANGED <<args, ctx, sampler, model, bounds>>

Exit ==
  /\ pc = "closing" /\ pc' = "absent"
  /\ UNCHANGED <<args, ctx, sampler, model, disk, told, bounds>>

\* handle_interrupt, between any two steps, the wind-down included.
Interrupt ==
  /\ pc \notin {"absent", "pausing"} /\ pc' = "pausing"
  /\ UNCHANGED <<args, ctx, sampler, model, disk, told, bounds>>

\* wandb has been closed; pause_state and sys.exit(0).
EmitPauseState ==
  /\ pc = "pausing" /\ pc' = "absent"
  /\ told' = [told EXCEPT !.paused = IF ctx.last THEN "backup" ELSE "nothing"]
  /\ UNCHANGED <<args, ctx, sampler, model, disk, bounds>>

\* A second signal (sys.exit(1)), a kill, a power failure.
Kill ==
  /\ pc # "absent" /\ pc' = "absent"
  /\ UNCHANGED <<args, ctx, sampler, model, disk, told, bounds>>

Next ==
  \/ Boot \/ EpochStart \/ SkipNaN \/ Backward \/ OptimizerStep
  \/ WriteTmp("write_step", "replace_step") \/ ReplaceStepState
  \/ EpochEnd
  \/ WriteTmp("write_epoch", "replace_epoch") \/ ReplaceEpochState
  \/ WriteConfig \/ WriteTmp("write_auto", "replace_auto") \/ ReplaceAutoState
  \/ Remember \/ Announce
  \/ Finalize \/ Exit \/ Interrupt \/ EmitPauseState \/ Kill

TrainingSpec == Init /\ [][Next]_vars

-----------------------------------------------------------------------------
(* Properties.                                                                *)

InEpoch == {"batch", "write_step", "replace_step", "epoch_end", "write_epoch", "replace_epoch",
            "config", "write_auto", "replace_auto", "remember", "announce"}
Locations == InEpoch \cup {"absent", "epoch", "finalize", "closing", "pausing"}

Batches == UNION {{e} \X (0..(Packs(e) - 1)) : e \in 0..(args.epochs - 1)}

\* The batches before batch number n of epoch e, in an uninterrupted run.
Before(e, n) == {b \in Batches : b[1] < e \/ (b[1] = e /\ b[2] < n)}

RecoveryPoints == disk.saved \cup ({disk.auto} \ {None})

\* Type invariant.  The position in the epoch never passes the length the loop
\* believes the epoch has (loop.run, dl_len).
TrainingTypeOK ==
  /\ args \in Settings /\ pc \in Locations
  /\ ctx.step = Len(model.weights) /\ ctx.epoch \in 0..args.epochs
  /\ pc \in InEpoch => ctx.batch \in 0..ctx.dl_len
  /\ sampler.next \in Nat /\ sampler.skip \in Nat
  /\ model.grads \subseteq Batches /\ model.lost \subseteq Batches
  /\ \A i \in DOMAIN model.weights : model.weights[i] \subseteq Batches
  /\ told.paused \in {"no", "backup", "nothing"}
  /\ bounds.runs \in 0..MaxRuns /\ bounds.nans \in 0..MaxNaNs

\* The accumulation window a batch falls in.
Window(b) == <<b[1], b[2] \div args.grad_accum>>

\* Each batch seen is in one gradient group, pending, or lost to a NaN, and in
\* one of these only; a group is made of one window and a window makes one group.
Accounts(weights, grads, lost, seen) ==
  /\ (UNION Range(weights)) \cup grads \cup lost = seen
  /\ grads \cap lost = {}
  /\ \A i \in DOMAIN weights :
       /\ weights[i] \cap (grads \cup lost) = {}
       /\ \A b, c \in weights[i] : Window(b) = Window(c)
       /\ \A j \in 1..(i - 1), b \in weights[i] : \A c \in weights[j] : Window(b) # Window(c)

\* However often the task was paused, killed and resumed, the weights are made of
\* the batches an uninterrupted run would have seen by now, each once, and the
\* gradients pending are of the open accumulation window (loop.run: the offset
\* and skip_batches, the tail group, zero_grad on a NaN).
EveryBatchOnce ==
  pc \in InEpoch => Accounts(model.weights, model.grads, model.lost, Before(ctx.epoch, sampler.next))

\* Every recovery point on disk, whenever the process dies, is such a state: its
\* epoch and offset are exactly what its weights have seen, no pending gradient
\* is missing from it, and step and EMA count agree with the weights
\* (save_training_state, and its callers' epoch, epoch + 1 and batch_idx + 1).
RecoveryPointsExact ==
  \A p \in RecoveryPoints :
    /\ Accounts(p.weights, {}, p.lost, Before(p.epoch, p.offset))
    /\ p.step = Len(p.weights)
    /\ p.ema = Cardinality({k \in 1..p.step : k >= args.ema_start})

\* The batches this process and those it continues have trained on, or lost.
Trained == (UNION Range(model.weights)) \cup model.grads \cup model.lost

\* A pause costs at most one epoch, whole or in part: what the handler names holds
\* all that was trained on but for batches of the epoch after it, and if it names
\* nothing all was of the epoch the process began in.  It never denies a backup that
\* was announced; the one on disk it may deny is the first of this process, replaced
\* and not remembered yet (handle_interrupt; loop.run, the upload before the fields
\* are set), and the task then starts over.
PauseCostsOneEpoch ==
  pc = "pausing" =>
    /\ told.backup => ctx.last
    /\ \A b \in Trained : b[1] <= (IF ctx.last THEN disk.auto.epoch ELSE ctx.start)
    /\ ~ctx.last /\ disk.auto # None => disk.auto.epoch = ctx.start + 1 /\ ctx.epoch = ctx.start

\* The state of a backup never lies there without the snapshot of the settings it
\* was trained under, whatever becomes of the yaml (write_config_snapshot before
\* save_training_state, _maybe_apply_pause_snapshot).
BackupIsAPair == disk.auto # None => disk.config = args

\* A training that reports its end has seen all batches of all epochs, or has met
\* its limit of steps (loop.run, finalize).
FinishedIsWhole ==
  told.finished =>
    \/ AtLimit(ctx.step)
    \/ (UNION Range(model.weights)) \cup model.lost = Batches

\* The total the monitor shows at the end is the number of steps taken, if no NaN
\* took any and the process began short of the limit (_display_total_steps:
\* "exact on the last epoch").
DisplayIsExact ==
  pc = "closing" /\ model.lost = {} /\ ctx.start < args.epochs /\ ~AtLimit(ctx.from)
    => ctx.display = ctx.step

\* Each backup continues the one it overwrites: no pause, kill or resume lets a
\* task fall back behind its own backup (loop.run, the single overwritten file).
BackupContinues ==
  [][disk.auto # None =>
       disk'.auto.epoch >= disk.auto.epoch /\ IsPrefix(disk.auto.weights, disk'.auto.weights)]_vars
================================================================================
