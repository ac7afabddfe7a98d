----------------------------- MODULE ProcessProofs -----------------------------
(***************************************************************************)
(* The processes behind the claims of ExclusionProofs: every live process    *)
(* belongs to the claim that started it, so that at most one process uses    *)
(* the GPU and the daemon has no model beside a training.                    *)
(***************************************************************************)
EXTENDS ExclusionProofs

--------------------------------------------------------------------------------
(* Slots and their processes *)

\* A row id is not the empty slot's.
LEMMA WorkIsNamed == NoWork \notin Work
BY WorkAssumption

\* The slots and processes, read off the invariant.
LEMMA ProcsTyped ==
  TypeInv => /\ slot \in [SlotNames -> SlotRec] /\ child \in [SlotNames -> ChildRec]
             /\ sup \in SupRec /\ (sup.pc \in WorkSteps => sup.w \in Work)
             /\ \A s \in SlotNames : Alive(s) => child[s].id \in Work
BY DEF TypeInv, TypeOK, SupTypeOK, SupNamesWork, ProcessesNameWork, Alive

\* Steps of the supervisor between the popen of a data job and its slot.
JobSteps == {"job_mark", "job_attach"}

\* A step that attaches no slot, starts no process and leaves the supervisor outside
\* the popen of a data job.
LEMMA QuietProcs ==
  ASSUME SlotsOwnTheirProcess,
         \A s \in SlotNames : /\ slot'[s].id = slot[s].id
                              /\ child'[s].id = child[s].id
                              /\ Alive(s)' => Alive(s),
         sup' = sup \/ (sup.pc \notin JobSteps /\ sup'.pc \notin JobSteps)
  PROVE  SlotsOwnTheirProcess'
BY DEF SlotsOwnTheirProcess, Busy, SlotNames, JobSteps

\* The supervisor attaches what it starts and releases a slot with its process.
LEMMA SuperviseSlots == TypeInv /\ SlotsOwnTheirProcess /\ Supervise => SlotsOwnTheirProcess'
<1> SUFFICES ASSUME TypeInv, SlotsOwnTheirProcess, Supervise
             PROVE  SlotsOwnTheirProcess'
  OBVIOUS
<1>0. /\ slot \in [SlotNames -> SlotRec] /\ child \in [SlotNames -> ChildRec] /\ sup \in SupRec
      /\ sup.pc \in WorkSteps => sup.w \in Work /\ sup.w # NoWork
  BY ProcsTyped, WorkIsNamed
<1>1. CASE Restart \/ FindDue \/ PromoteDue \/ ReapNothing \/ ReapExited \/ FinishSlot
           \/ RecordFinish \/ SkipSlot \/ HeadWaits \/ SelectHead \/ WriteTaskRunning
           \/ FailTask \/ DispatchData \/ StartDaemon \/ AwaitDaemon \/ ClaimDaemon
           \/ WriteGenerateRunning \/ SubmitTask \/ RejectTask \/ WriteRejected
  <2>1. UNCHANGED procs
    BY <1>1 DEF Restart, FindDue, PromoteDue, ReapNothing, ReapExited, FinishSlot, RecordFinish,
       SkipSlot, HeadWaits, SelectHead, WriteTaskRunning, FailTask, DispatchData, StartDaemon,
       AwaitDaemon, ClaimDaemon, WriteGenerateRunning, SubmitTask, RejectTask, WriteRejected
  <2>2. sup.pc \notin JobSteps
    BY <1>1 DEF Restart, FindDue, PromoteDue, ReapNothing, ReapExited, FinishSlot, RecordFinish,
       SkipSlot, HeadWaits, SelectHead, WriteTaskRunning, FailTask, DispatchData, StartDaemon,
       AwaitDaemon, ClaimDaemon, WriteGenerateRunning, SubmitTask, RejectTask, WriteRejected,
       JobSteps
  <2>3. sup'.pc \notin JobSteps
    <3>1. CASE FindDue
      BY <3>1, <1>0, AfterGoto DEF FindDue, SupRec, JobSteps
    <3>2. CASE SelectHead
      BY <3>2, AfterGoto DEF SelectHead, JobSteps
    <3>3. CASE DispatchData
      BY <3>3, AfterGoto, AfterEnd DEF DispatchData, JobSteps
    <3>4. CASE StartDaemon \/ AwaitDaemon \/ ClaimDaemon \/ WriteGenerateRunning \/ SubmitTask
               \/ RejectTask
      BY <3>4, AfterGoto, AfterEnd DEF StartDaemon, AwaitDaemon, ClaimDaemon,
         WriteGenerateRunning, SubmitTask, RejectTask, JobSteps
    <3>5. CASE Restart \/ PromoteDue \/ ReapNothing \/ ReapExited \/ FinishSlot \/ RecordFinish
               \/ SkipSlot \/ HeadWaits \/ WriteTaskRunning \/ FailTask \/ WriteRejected
      BY <3>5, AfterGoto, AfterEnd DEF Restart, PromoteDue, ReapNothing, ReapExited, FinishSlot,
         RecordFinish, SkipSlot, HeadWaits, WriteTaskRunning, FailTask, WriteRejected, JobSteps
    <3>6. QED
      BY <1>1, <3>1, <3>2, <3>3, <3>4, <3>5
  <2>4. QED
    BY <2>1, <2>2, <2>3, QuietProcs DEF procs, Alive
<1>2. CASE ReleaseSlot
  <2>1. /\ slot'[sup.s] = IdleSlot /\ child'[sup.s] = NoChild
        /\ \A s \in SlotNames \ {sup.s} : slot'[s] = slot[s] /\ child'[s] = child[s]
    BY <1>2, <1>0 DEF ReleaseSlot, SupRec
  <2>2. sup.pc \notin JobSteps /\ sup'.pc \notin JobSteps
    BY <1>2, AfterEnd DEF ReleaseSlot, JobSteps
  <2>3. QED
    BY <2>1, <2>2 DEF SlotsOwnTheirProcess, Alive, Busy, NoChild, SlotNames, JobSteps
<1>3. CASE SpawnTask
  <2>1. /\ sup'.pc = "spawn_write" /\ sup.pc = "spawn" /\ sup.w # NoWork
        /\ slot'["train"].id = sup.w
        /\ slot'["data"] = slot["data"] /\ child'["data"] = child["data"]
    BY <1>3, <1>0, AfterGoto DEF SpawnTask, SlotNames, SlotRec, WorkSteps, SupSteps
  <2>2. QED
    BY <2>1 DEF SlotsOwnTheirProcess, Alive, Busy
<1>4. CASE PopenJob
  <2>1. /\ sup'.pc = "job_mark" /\ sup'.w = sup.w /\ UNCHANGED slot
        /\ child'["train"] = child["train"] /\ child'["data"].id = sup.w
    BY <1>4, <1>0, AfterGoto DEF PopenJob, SlotNames, Popened, NoChild
  <2>2. QED
    BY <2>1 DEF SlotsOwnTheirProcess, Alive, Busy
<1>5. CASE MarkJobRunning
  <2>1. sup.pc = "job_mark" /\ sup'.pc = "job_attach" /\ sup'.w = sup.w /\ UNCHANGED procs
    BY <1>5, AfterGoto DEF MarkJobRunning
  <2>2. QED
    BY <2>1 DEF SlotsOwnTheirProcess, Alive, Busy, procs
<1>6. CASE AttachJob
  <2>1. /\ sup.pc = "job_attach" /\ sup'.pc \notin JobSteps /\ UNCHANGED child
        /\ slot'["train"] = slot["train"] /\ slot'["data"].id = sup.w
    BY <1>6, <1>0, AfterEnd DEF AttachJob, SlotNames, SlotRec, JobSteps
  <2>2. QED
    BY <2>1 DEF SlotsOwnTheirProcess, Alive, Busy, JobSteps
<1>7. QED
  BY <1>1, <1>2, <1>3, <1>4, <1>5, <1>6 DEF Supervise

\* A child, its tailer and a request keep the process of each slot or end it.
LEMMA ChildKeepsId ==
  \A s \in SlotNames : TypeInv /\ (ChildStep(s) \/ TailerReads(s))
    => /\ UNCHANGED sup
       /\ \A q \in SlotNames : /\ slot'[q].id = slot[q].id
                               /\ child'[q].id = child[q].id
                               /\ Alive(q)' => Alive(q)
<1> SUFFICES ASSUME NEW s \in SlotNames, TypeInv, ChildStep(s) \/ TailerReads(s)
             PROVE  /\ UNCHANGED sup
                    /\ \A q \in SlotNames : /\ slot'[q].id = slot[q].id
                                            /\ child'[q].id = child[q].id
                                            /\ Alive(q)' => Alive(q)
  OBVIOUS
<1>0. slot \in [SlotNames -> SlotRec] /\ child \in [SlotNames -> ChildRec] /\ child[s] \in ChildRec
  BY ProcsTyped
<1>1. UNCHANGED sup
  BY DEF ChildStep, LoopStarts, InLoop, BackupReplaced, BackupRemembered, BackupTold, Dead, ChildCompletes, ChildPauses, ChildCrashes, ChildKilled,
     TailerReads
<1>2. \A q \in SlotNames : slot'[q].id = slot[q].id
  BY <1>0 DEF ChildStep, LoopStarts, InLoop, BackupReplaced, BackupRemembered, BackupTold, Dead, ChildCompletes, ChildPauses, ChildCrashes,
     ChildKilled, TailerReads, SlotRec
<1>3. child'[s].id = child[s].id /\ (child'[s].life = "alive" => child[s].life = "alive")
  <2>1. CASE TailerReads(s) \/ ChildCrashes(s) \/ ChildKilled(s)
    BY <2>1, <1>0 DEF TailerReads, ChildCrashes, ChildKilled, Dead, NoChild, ChildRec
  <2>2. CASE LoopStarts(s)
    BY <2>2, <1>0 DEF LoopStarts, Writes, Training, Alive, ChildRec
  <2>3. CASE BackupReplaced(s) \/ BackupRemembered(s) \/ BackupTold(s)
    BY <2>3, <1>0 DEF InLoop, BackupReplaced, BackupRemembered, BackupTold, Writes, Training, Alive,
       ChildRec
  <2>4. CASE ChildCompletes(s)
    BY <2>4, <1>0 DEF Dead, ChildCompletes, NoChild, ChildRec
  <2>5. CASE ChildPauses(s)
    BY <2>5, <1>0 DEF ChildPauses, Dead, NoChild, ChildRec
  <2>6. QED
    BY <2>1, <2>2, <2>3, <2>4, <2>5 DEF ChildStep
<1>4. \A q \in SlotNames \ {s} : child'[q] = child[q]
  BY <1>0 DEF ChildStep, LoopStarts, InLoop, BackupReplaced, BackupRemembered, BackupTold, Dead, ChildCompletes, ChildPauses, ChildCrashes,
     ChildKilled, TailerReads
<1>5. QED
  BY <1>1, <1>2, <1>3, <1>4 DEF Alive

\* Every step keeps a live process with the slot or the dispatch that started it.
LEMMA NextSlots == TypeInv /\ SlotsOwnTheirProcess /\ [Next]_vars => SlotsOwnTheirProcess'
<1> SUFFICES ASSUME TypeInv, SlotsOwnTheirProcess, [Next]_vars
             PROVE  SlotsOwnTheirProcess'
  OBVIOUS
<1>0. slot \in [SlotNames -> SlotRec] /\ child \in [SlotNames -> ChildRec]
  BY ProcsTyped
<1>1. CASE Supervise
  BY <1>1, SuperviseSlots
<1>2. ASSUME NEW s \in SlotNames, ChildStep(s) \/ TailerReads(s)
      PROVE  SlotsOwnTheirProcess'
  BY <1>2, ChildKeepsId, QuietProcs
<1>3. CASE UNCHANGED <<procs, sup>>
  BY <1>3, QuietProcs DEF procs, Alive
<1>4. ASSUME NEW t \in Threads, CancelSlot(t) \/ PauseSlot(t)
      PROVE  SlotsOwnTheirProcess'
  <2>1. \A s \in SlotNames : slot'[s].id = slot[s].id
    BY <1>4, <1>0 DEF CancelSlot, PauseSlot, procs, SlotRec
  <2>2. \A s \in SlotNames : child'[s].id = child[s].id /\ child'[s].life = child[s].life
    <3>1. CASE PauseSlot(t)
      BY <3>1, <1>0 DEF PauseSlot, ChildRec
    <3>2. CASE CancelSlot(t)
      <4> DEFINE k == api[t].s
                 ended(b) == [child[k] EXCEPT !.term = b]
      <4>1. \A b \in BOOLEAN : k \in SlotNames => /\ ended(b).id = child[k].id
                                                  /\ ended(b).life = child[k].life
        BY <1>0 DEF ChildRec
      <4>2. child' = child \/ \E b \in BOOLEAN : child' = [child EXCEPT ![k] = ended(b)]
        <5>1. (child[k].term \/ Alive(k)) \in BOOLEAN
          OBVIOUS
        <5>2. QED
          BY <3>2, <5>1 DEF CancelSlot, procs
      <4> HIDE DEF ended
      <4>3. QED
        BY <1>0, <4>1, <4>2
    <3>3. QED
      BY <1>4, <3>1, <3>2
  <2>3. UNCHANGED sup
    BY <1>4 DEF CancelSlot, PauseSlot
  <2>4. QED
    BY <2>1, <2>2, <2>3, QuietProcs DEF Alive
<1>5. CASE ServerStops \/ ServerCrashes
  BY <1>5, AfterGoto DEF ServerStops, ServerCrashes, ServerGone, NoChild, SlotsOwnTheirProcess,
     Alive, SlotNames
<1>6. QED
  <2>1. DaemonStep \/ DaemonExits \/ IdleTimeout \/ Host \/ UNCHANGED vars
          => UNCHANGED <<procs, sup>>
    BY DEF DaemonStep, DaemonReady, ModelLoaded, ModelUnloaded, TaskEnds, DaemonExits,
       IdleTimeout, Host, OrphanEnds, OrphanEpochEnds, vars, supVars
  <2>2. ASSUME NEW r \in Readers, Finalize(r)
        PROVE  UNCHANGED <<procs, sup>>
    BY <2>2 DEF Finalize, FinClear, FinWrite, FinStopped
  <2>3. ASSUME NEW t \in Threads, Request(t)
        PROVE  UNCHANGED <<procs, sup>>
    BY <2>3 DEF Request, Enqueue, CreateDefault, RetryBegin, RetryCopy, CancelBegin, PauseBegin, ResumeBegin,
       StartBegin, DeleteBegin, ClearEvalBegin, SetHeld, UnloadDaemon, Reorder, supVars
  <2>4. ASSUME NEW t \in Threads, Proceed(t), ~CancelSlot(t), ~PauseSlot(t)
        PROVE  UNCHANGED <<procs, sup>>
    BY <2>4 DEF Proceed, SetType, SetConfig, EnqueueFails, RetryCopy, CancelWrite, CancelClear, CancelFind,
       CancelDaemon, ResumeWrite, ResumeDerive, ResumeVersion, StartWrite, DeleteWrite, DeleteFiles,
       ClearEvalWrite, supVars
  <2>5. QED
    BY <1>1, <1>2, <1>3, <1>4, <1>5, <2>1, <2>2, <2>3, <2>4 DEF Next

--------------------------------------------------------------------------------
(* The daemon and its task *)

\* The daemon and its reader threads, read off the invariant.
LEMMA DaemonTyped ==
  TypeInv => /\ dmn \in DaemonRec /\ dmnTask \in Work \cup {NoWork} /\ fin \in [Readers -> FinRec]
             /\ sup \in SupRec /\ (sup.pc \in WorkSteps => sup.w \in Work)
             /\ \A r \in Readers : fin[r].pc = "clear" => fin[r].w \in Work
BY DEF TypeInv, TypeOK, SupTypeOK, SupNamesWork, ReadersNameWork

\* A step that leaves the daemon's task alone and chooses no generate.
LEMMA QuietDaemon ==
  ASSUME DaemonOwnsItsTask, UNCHANGED <<dmnTask, fin>>,
         dmn'.state = dmn.state, dmn'.loaded = dmn.loaded, dmn'.unloads = dmn.unloads,
         dmn'.active = dmn.active,
         sup' = sup \/ sup'.pc \notin GenerateSteps
  PROVE  DaemonOwnsItsTask'
BY DEF DaemonOwnsItsTask, GenerateSteps

\* A step from one generate step to another that marks no task.
LEMMA GenerateGoesOn ==
  ASSUME DaemonOwnsItsTask, UNCHANGED <<dmn, dmnTask, fin>>, sup.pc \in GenerateSteps,
         sup'.pc \in GenerateSteps,
         sup'.pc \in {"gen_run", "gen_submit"} => sup.pc \in {"gen_run", "gen_submit"} /\ sup'.w = sup.w
  PROVE  DaemonOwnsItsTask'
BY DEF DaemonOwnsItsTask

\* Unloads requested of a daemon that is up.
LEMMA UnloadsAreQuiet ==
  ASSUME TypeInv, DaemonOwnsItsTask, UNCHANGED <<dmnTask, fin>>, NEW n \in Nat, RequestUnloads(n),
         n > 0 => dmn.state \notin {"stopped", "starting"},
         sup' = sup \/ sup'.pc \notin GenerateSteps
  PROVE  DaemonOwnsItsTask'
<1>1. CASE n = 0
  BY <1>1, QuietDaemon DEF RequestUnloads
<1>2. CASE n > 0
  <2>1. /\ dmn'.state = "unloading" /\ dmn'.active = dmn.active /\ dmn.state # "stopped"
    BY <1>2, DaemonTyped DEF RequestUnloads, UnloadsSent, DaemonRec
  <2>2. QED
    BY <2>1 DEF DaemonOwnsItsTask, GenerateSteps
<1>3. QED
  BY <1>1, <1>2

\* A daemon that is asked to give its model back is up.
LEMMA YieldingIsUp ==
  DaemonOwnsItsTask /\ YieldRequested => dmn.state \notin {"stopped", "starting"}
BY DEF DaemonOwnsItsTask, YieldRequested, LeaseHeld

\* The steps of the supervisor that ask for unloads.
LEMMA DispatchUnloads ==
  TypeInv /\ DaemonOwnsItsTask /\ (HeadWaits \/ DispatchData) => DaemonOwnsItsTask'
<1> SUFFICES ASSUME TypeInv, DaemonOwnsItsTask, HeadWaits \/ DispatchData
             PROVE  DaemonOwnsItsTask'
  OBVIOUS
<1>1. CASE HeadWaits
  <2>1. \E n \in {0, 1} : RequestUnloads(n) /\ (n = 1 => YieldRequested)
    BY <1>1 DEF HeadWaits
  <2>2. UNCHANGED <<dmnTask, fin>> /\ sup'.pc \notin GenerateSteps
    BY <1>1, AfterEnd DEF HeadWaits, GenerateSteps
  <2>3. QED
    BY <2>1, <2>2, YieldingIsUp, UnloadsAreQuiet
<1>2. CASE DispatchData
  <2>1. PICK jobs, w, lp : RequestUnloads(Cardinality(YieldsBefore(jobs, w, lp))) /\ jobs \subseteq Work
    BY <1>2, RowsTyped DEF DispatchData, Pending
  <2> DEFINE n == Cardinality(YieldsBefore(jobs, w, lp))
  <2>2. n \in Nat
    <3>1. YieldsBefore(jobs, w, lp) \subseteq Work /\ IsFiniteSet(Work)
      BY <2>1, WorkAssumption DEF YieldsBefore
    <3>2. QED
      BY <3>1, FS_Subset, FS_CardinalityType
  <2>3. n > 0 => YieldRequested
    <3>1. ~YieldRequested => YieldsBefore(jobs, w, lp) = {}
      BY DEF YieldsBefore
    <3>2. QED
      BY <3>1, FS_EmptySet
  <2>4. UNCHANGED <<dmnTask, fin>> /\ sup'.pc \notin GenerateSteps
    BY <1>2, AfterEnd, AfterGoto DEF DispatchData, GenerateSteps
  <2> HIDE DEF n
  <2>5. RequestUnloads(n)
    BY <2>1 DEF n
  <2>6. QED
    BY <2>2, <2>3, <2>4, <2>5, YieldingIsUp, UnloadsAreQuiet
<1>3. QED
  BY <1>1, <1>2

\* A generate is chosen when nothing is claimed, so no task is in the daemon and no
\* reader thread is about to clear a marker of one that was.
LEMMA SelectDaemon == TypeInv /\ DaemonOwnsItsTask /\ SelectHead => DaemonOwnsItsTask'
<1> SUFFICES ASSUME TypeInv, DaemonOwnsItsTask, SelectHead
             PROVE  DaemonOwnsItsTask'
  OBVIOUS
<1>1. dmnTask = NoWork /\ UNCHANGED <<dmn, dmnTask, fin>>
  BY DEF SelectHead, CanDispatchExclusive, ExclusiveBusy, DaemonActive, daemon
<1>2. sup'.pc \in {"gen_start", "job_popen", "spawn", "fail"}
  BY AfterGoto DEF SelectHead
<1>3. dmn.active = NoWork
  BY <1>1 DEF DaemonOwnsItsTask
<1>4. \A r \in Readers : fin[r].pc = "clear" => dmn.state = "stopped"
  BY <1>1, DaemonTyped, WorkIsNamed DEF DaemonOwnsItsTask
<1>5. QED
  BY <1>1, <1>2, <1>3, <1>4 DEF DaemonOwnsItsTask

\* The supervisor hands a generate to the daemon.
LEMMA SubmitDaemon ==
  TypeInv /\ DaemonOwnsItsTask /\ OneReader
    /\ (StartDaemon \/ AwaitDaemon \/ ClaimDaemon \/ WriteGenerateRunning \/ SubmitTask
        \/ RejectTask \/ FailTask)
    => DaemonOwnsItsTask'
<1> SUFFICES ASSUME TypeInv, DaemonOwnsItsTask, OneReader,
                    StartDaemon \/ AwaitDaemon \/ ClaimDaemon \/ WriteGenerateRunning
                    \/ SubmitTask \/ RejectTask \/ FailTask
             PROVE  DaemonOwnsItsTask'
  OBVIOUS
<1>0. dmn \in DaemonRec /\ fin \in [Readers -> FinRec]
  BY DaemonTyped
<1>1. CASE StartDaemon
  <2>1. CASE dmn.state = "stopped"
    <3>1. PICK r \in Readers : /\ fin[r].pc = "idle"
                              /\ dmn' = [StoppedDaemon EXCEPT !.state = "starting", !.reader = r]
                              /\ Goto("gen_wait", "train", sup.w, "none")
      BY <1>1, <2>1 DEF StartDaemon
    <3>2. \A q \in Readers : fin[q].pc = "idle"
      BY <3>1 DEF OneReader
    <3>3. /\ dmn'.state = "starting" /\ ~dmn'.loaded /\ dmn'.unloads = 0 /\ dmn'.active = NoWork
          /\ UNCHANGED <<dmnTask, fin>> /\ sup'.pc = "gen_wait"
      BY <3>1, <1>1, AfterGoto DEF StartDaemon, StoppedDaemon
    <3>4. QED
      BY <3>2, <3>3 DEF DaemonOwnsItsTask
  <2>2. CASE dmn.state # "stopped"
    <3>1. sup.pc = "gen_start" /\ sup'.pc = "gen_claim" /\ UNCHANGED <<dmn, dmnTask, fin>>
      BY <1>1, <2>2, AfterGoto DEF StartDaemon
    <3>2. QED
      BY <3>1, GenerateGoesOn DEF GenerateSteps
  <2>3. QED
    BY <2>1, <2>2
<1>2. CASE AwaitDaemon
  <2>1. sup.pc = "gen_wait" /\ sup'.pc \in {"gen_claim", "fail"} /\ UNCHANGED <<dmn, dmnTask, fin>>
    BY <1>2, AfterGoto DEF AwaitDaemon, daemon
  <2>2. QED
    BY <2>1, GenerateGoesOn DEF GenerateSteps
<1>3. CASE ClaimDaemon
  <2>1. /\ sup.pc = "gen_claim" /\ sup'.pc = "gen_run" /\ sup'.w = sup.w
        /\ dmnTask' = sup.w /\ UNCHANGED <<dmn, fin>>
    BY <1>3, AfterGoto DEF ClaimDaemon
  <2>2. QED
    BY <2>1 DEF DaemonOwnsItsTask, GenerateSteps
<1>4. CASE WriteGenerateRunning
  <2>1. /\ sup.pc = "gen_run" /\ sup'.pc = "gen_submit" /\ sup'.w = sup.w
        /\ UNCHANGED <<dmn, dmnTask, fin>>
    BY <1>4, AfterGoto DEF WriteGenerateRunning, daemon
  <2>2. QED
    BY <2>1, GenerateGoesOn DEF GenerateSteps
<1>5. CASE SubmitTask
  <2>1. CASE dmn.state = "idle"
    <3>1. /\ dmn'.state = "busy" /\ dmn'.active = sup.w
          /\ sup.pc = "gen_submit" /\ UNCHANGED <<dmnTask, fin>>
          /\ sup'.pc \in {"promote", "reap", "dispatch"}
      BY <1>5, <2>1, <1>0, AfterEnd DEF SubmitTask, DaemonRec
    <3>2. dmnTask = sup.w /\ \A r \in Readers : fin[r].pc # "clear"
      BY <3>1, <2>1 DEF DaemonOwnsItsTask, GenerateSteps
    <3>3. QED
      BY <3>1, <3>2, <2>1 DEF DaemonOwnsItsTask, GenerateSteps
  <2>2. CASE dmn.state # "idle"
    <3>1. sup.pc = "gen_submit" /\ sup'.pc = "gen_reject" /\ UNCHANGED <<dmn, dmnTask, fin>>
      BY <1>5, <2>2, AfterGoto DEF SubmitTask
    <3>2. QED
      BY <3>1, GenerateGoesOn DEF GenerateSteps
  <2>3. QED
    BY <2>1, <2>2
<1>6. CASE RejectTask \/ FailTask
  <2>1. sup.pc \in {"gen_reject", "fail"} /\ sup'.pc \notin GenerateSteps /\ UNCHANGED <<dmn, fin>>
    BY <1>6, AfterGoto, AfterEnd DEF RejectTask, FailTask, GenerateSteps
  <2>2. dmn.active = NoWork /\ \A r \in Readers : fin[r].pc = "clear" => dmn.state = "stopped"
    BY <2>1 DEF DaemonOwnsItsTask, GenerateSteps
  <2>3. QED
    BY <2>1, <2>2 DEF DaemonOwnsItsTask, GenerateSteps
<1>7. QED
  BY <1>1, <1>2, <1>3, <1>4, <1>5, <1>6

\* Every step of the supervisor keeps the books of the daemon.
LEMMA SuperviseDaemon ==
  TypeInv /\ DaemonOwnsItsTask /\ OneReader /\ Supervise => DaemonOwnsItsTask'
<1> SUFFICES ASSUME TypeInv, DaemonOwnsItsTask, OneReader, Supervise
             PROVE  DaemonOwnsItsTask'
  OBVIOUS
<1>1. CASE HeadWaits \/ DispatchData \/ SelectHead
  BY <1>1, DispatchUnloads, SelectDaemon
<1>2. CASE StartDaemon \/ AwaitDaemon \/ ClaimDaemon \/ WriteGenerateRunning \/ SubmitTask
           \/ RejectTask \/ FailTask
  BY <1>2, SubmitDaemon
<1>3. CASE \/ Restart \/ FindDue \/ PromoteDue \/ ReapNothing \/ ReapExited \/ FinishSlot
           \/ RecordFinish \/ ReleaseSlot \/ SkipSlot \/ WriteTaskRunning \/ WriteRejected
           \/ SpawnTask \/ PopenJob \/ MarkJobRunning \/ AttachJob
  <2>1. UNCHANGED <<dmn, dmnTask, fin>>
    BY <1>3 DEF Restart, FindDue, PromoteDue, ReapNothing, ReapExited, FinishSlot, RecordFinish,
       ReleaseSlot, SkipSlot, WriteTaskRunning, WriteRejected, SpawnTask, PopenJob,
       MarkJobRunning, AttachJob, daemon
  <2>2. sup'.pc \notin GenerateSteps
    <3>1. CASE FindDue
      BY <3>1, DaemonTyped, AfterGoto DEF FindDue, SupRec, GenerateSteps
    <3>2. CASE SpawnTask \/ PopenJob \/ MarkJobRunning \/ AttachJob \/ ReleaseSlot
      BY <3>2, AfterGoto, AfterEnd DEF SpawnTask, PopenJob, MarkJobRunning, AttachJob, ReleaseSlot,
         GenerateSteps
    <3>3. CASE \/ Restart \/ PromoteDue \/ ReapNothing \/ ReapExited \/ FinishSlot \/ RecordFinish
               \/ SkipSlot \/ WriteTaskRunning \/ WriteRejected
      BY <3>3, AfterGoto, AfterEnd DEF Restart, PromoteDue, ReapNothing, ReapExited, FinishSlot,
         RecordFinish, SkipSlot, WriteTaskRunning, WriteRejected, GenerateSteps
    <3>4. QED
      BY <1>3, <3>1, <3>2, <3>3
  <2>3. QED
    BY <2>1, <2>2, QuietDaemon
<1>4. QED
  BY <1>1, <1>2, <1>3 DEF Supervise

\* Every event of the daemon process keeps them.
LEMMA EventsDaemon ==
  TypeInv /\ DaemonOwnsItsTask /\ (DaemonStep \/ DaemonExits \/ IdleTimeout)
    => DaemonOwnsItsTask'
<1> SUFFICES ASSUME TypeInv, DaemonOwnsItsTask, DaemonStep \/ DaemonExits \/ IdleTimeout
             PROVE  DaemonOwnsItsTask'
  OBVIOUS
<1>0. dmn \in DaemonRec /\ fin \in [Readers -> FinRec] /\ dmn.reader \in Readers
  BY DaemonTyped DEF DaemonRec
<1>1. CASE DaemonReady \/ ModelLoaded
  <2>1. /\ dmn'.active = dmn.active /\ dmn'.unloads = dmn.unloads
        /\ dmn'.state # "starting" \/ dmn'.state = dmn.state
        /\ dmn'.state = "stopped" => dmn.state = "stopped"
        /\ dmn.state = "stopped" => dmn'.state = "stopped"
        /\ dmn'.loaded => dmn.loaded \/ dmn.active # NoWork
        /\ UNCHANGED <<dmnTask, fin, sup>>
    BY <1>1, <1>0 DEF DaemonReady, ModelLoaded, DaemonRec
  <2>2. QED
    BY <2>1 DEF DaemonOwnsItsTask
<1>2. CASE ModelUnloaded
  <2>1. /\ dmn'.active = dmn.active /\ dmn'.state = "idle" /\ dmn.unloads > 0
        /\ UNCHANGED <<dmnTask, fin, sup>>
    BY <1>2, <1>0 DEF ModelUnloaded, DaemonRec
  <2>2. dmn.state \notin {"stopped", "starting"}
    BY <2>1 DEF DaemonOwnsItsTask
  <2>3. QED
    BY <2>1, <2>2 DEF DaemonOwnsItsTask
<1>3. ASSUME NEW st \in TerminalStatuses, TaskEnds(st)
      PROVE  DaemonOwnsItsTask'
  <2>1. /\ dmn.active # NoWork /\ dmn'.active = NoWork /\ dmn'.state = "idle"
        /\ fin'[dmn.reader].pc = "clear" /\ fin'[dmn.reader].w = dmn.active
        /\ ~fin'[dmn.reader].exit
        /\ \A r \in Readers \ {dmn.reader} : fin'[r] = fin[r]
        /\ UNCHANGED <<dmnTask, sup>>
    BY <1>3, <1>0 DEF TaskEnds, DaemonRec
  <2>2. dmnTask = dmn.active /\ sup.pc \notin GenerateSteps /\ dmn.state # "stopped"
    BY <2>1 DEF DaemonOwnsItsTask
  <2>3. QED
    BY <2>1, <2>2 DEF DaemonOwnsItsTask, GenerateSteps
<1>4. CASE DaemonExits
  <2>1. /\ dmn'.state = "stopped" /\ ~dmn'.loaded /\ dmn'.unloads = 0 /\ dmn'.active = NoWork
        /\ UNCHANGED <<dmnTask, sup>>
    BY <1>4 DEF DaemonExits, StoppedDaemon
  <2>2. QED
    BY <2>1 DEF DaemonOwnsItsTask
<1>5. CASE IdleTimeout
  BY <1>5, UnloadsAreQuiet DEF IdleTimeout
<1>6. QED
  BY <1>1, <1>2, <1>3, <1>4, <1>5 DEF DaemonStep

\* So does the reader thread in its callbacks, if it is the only one.
LEMMA FinalizeDaemon ==
  \A r \in Readers : TypeInv /\ DaemonOwnsItsTask /\ OneReader /\ Finalize(r)
                       => DaemonOwnsItsTask'
<1> SUFFICES ASSUME NEW r \in Readers, TypeInv, DaemonOwnsItsTask, OneReader, Finalize(r)
             PROVE  DaemonOwnsItsTask'
  OBVIOUS
<1>0. fin \in [Readers -> FinRec] /\ \A q \in Readers : q = r
  BY DaemonTyped DEF OneReader
<1>1. CASE FinClear(r)
  <2>1. /\ fin[r].pc = "clear" /\ fin'[r].pc = "write" /\ fin'[r].exit = fin[r].exit
        /\ UNCHANGED <<dmn, sup>>
    BY <1>1, <1>0 DEF FinClear, FinRec
  <2>2. dmn.active = NoWork /\ (dmn.state = "stopped" \/ sup.pc \notin GenerateSteps)
    BY <2>1 DEF DaemonOwnsItsTask
  <2>3. QED
    BY <2>1, <2>2, <1>0 DEF DaemonOwnsItsTask, GenerateSteps
<1>2. CASE FinWrite(r)
  <2>1. /\ fin[r].pc = "write" /\ UNCHANGED <<dmn, dmnTask, sup>>
        /\ fin'[r].pc = "idle" \/ (fin'[r].pc = "stopped" /\ fin[r].exit)
    BY <1>2, <1>0 DEF FinWrite, IdleReader
  <2>2. QED
    BY <2>1, <1>0 DEF DaemonOwnsItsTask
<1>3. CASE FinStopped(r)
  <2>1. /\ fin[r].pc = "stopped" /\ fin'[r].pc \in {"idle", "clear"} /\ ~fin'[r].exit
        /\ UNCHANGED <<dmn, dmnTask, sup>>
    BY <1>3, <1>0 DEF FinStopped, IdleReader
  <2>2. dmn.state = "stopped"
    BY <2>1 DEF DaemonOwnsItsTask
  <2>3. QED
    BY <2>1, <2>2, <1>0 DEF DaemonOwnsItsTask
<1>4. QED
  BY <1>1, <1>2, <1>3 DEF Finalize

\* A request asks for an unload or for a cancel, and nothing else of the daemon.
LEMMA RequestDaemon ==
  \A t \in Threads : TypeInv /\ DaemonOwnsItsTask /\ (Request(t) \/ Proceed(t))
                       => DaemonOwnsItsTask'
<1> SUFFICES ASSUME NEW t \in Threads, TypeInv, DaemonOwnsItsTask, Request(t) \/ Proceed(t)
             PROVE  DaemonOwnsItsTask'
  OBVIOUS
<1>0. UNCHANGED <<dmnTask, fin, sup>>
  BY DEF Request, Enqueue, CreateDefault, RetryBegin, RetryCopy, CancelBegin, PauseBegin, ResumeBegin, StartBegin,
     DeleteBegin, ClearEvalBegin, SetHeld, UnloadDaemon, Reorder, Proceed, SetType, SetConfig,
     EnqueueFails, CancelWrite, CancelClear, CancelFind, CancelSlot, CancelDaemon, PauseSlot,
     ResumeWrite, ResumeDerive, ResumeVersion, StartWrite, DeleteWrite, DeleteFiles, ClearEvalWrite, supVars,
     daemon
<1>1. CASE UNCHANGED dmn
  BY <1>0, <1>1, QuietDaemon
<1>2. CASE UnloadDaemon(t)
  BY <1>0, <1>2, YieldingIsUp, UnloadsAreQuiet DEF UnloadDaemon
<1>3. CASE CancelDaemon(t)
  <2>1. /\ dmn'.state = dmn.state /\ dmn'.loaded = dmn.loaded /\ dmn'.unloads = dmn.unloads
        /\ dmn'.active = dmn.active
    BY <1>3, DaemonTyped DEF CancelDaemon, DaemonRec
  <2>2. QED
    BY <1>0, <2>1, QuietDaemon
<1>4. QED
  BY <1>1, <1>2, <1>3 DEF Request, Enqueue, CreateDefault, RetryBegin, RetryCopy, CancelBegin, PauseBegin,
     ResumeBegin, StartBegin, DeleteBegin, ClearEvalBegin, SetHeld, Reorder, Proceed, SetType,
     SetConfig, EnqueueFails, CancelWrite, CancelClear, CancelFind, CancelSlot, PauseSlot,
     ResumeWrite, ResumeDerive, ResumeVersion, StartWrite, DeleteWrite, DeleteFiles, ClearEvalWrite, supVars,
     daemon

\* Every step keeps the books of the daemon.
LEMMA NextDaemon ==
  TypeInv /\ DaemonOwnsItsTask /\ OneReader /\ [Next]_vars => DaemonOwnsItsTask'
<1> SUFFICES ASSUME TypeInv, DaemonOwnsItsTask, OneReader, [Next]_vars
             PROVE  DaemonOwnsItsTask'
  OBVIOUS
<1>1. CASE UNCHANGED <<daemon, sup>>
  BY <1>1, QuietDaemon DEF daemon
<1>2. CASE ServerStops \/ ServerCrashes
  <2>1. /\ dmn' = StoppedDaemon /\ dmnTask' = NoWork /\ sup'.pc = "down"
        /\ \A r \in Readers : fin'[r] = IdleReader
    BY <1>2, AfterGoto DEF ServerStops, ServerCrashes, ServerGone
  <2>2. QED
    BY <2>1 DEF DaemonOwnsItsTask, StoppedDaemon, IdleReader, GenerateSteps
<1>3. \A s \in SlotNames : ChildStep(s) \/ TailerReads(s) => UNCHANGED <<daemon, sup>>
  BY DEF ChildStep, LoopStarts, InLoop, BackupReplaced, BackupRemembered, BackupTold, Dead, ChildCompletes, ChildPauses, ChildCrashes, ChildKilled,
     TailerReads
<1>4. Host \/ UNCHANGED vars => UNCHANGED <<daemon, sup>>
  BY DEF Host, OrphanEnds, OrphanEpochEnds, vars, supVars
<1>5. QED
  BY <1>1, <1>2, <1>3, <1>4, SuperviseDaemon, EventsDaemon, FinalizeDaemon, RequestDaemon DEF Next

--------------------------------------------------------------------------------
(* The lease on the GPU *)

\* Only the task that the daemon works on loads the model.
LEMMA LoadIsOfTheTask ==
  ASSUME TypeInv, [Next]_vars, dmn'.loaded
  PROVE  dmn.loaded \/ ModelLoaded
<1>0. dmn \in DaemonRec
  BY DaemonTyped
<1>1. CASE UNCHANGED dmn
  BY <1>1
<1>2. \A n \in Nat : RequestUnloads(n) => dmn'.loaded = dmn.loaded
  BY <1>0 DEF RequestUnloads, UnloadsSent, DaemonRec
<1>3. CASE Supervise
  <2>1. CASE HeadWaits
    BY <1>2, <2>1 DEF HeadWaits
  <2>2. CASE DispatchData
    <3>1. PICK jobs, w, lp : RequestUnloads(Cardinality(YieldsBefore(jobs, w, lp)))
      BY <2>2 DEF DispatchData
    <3>2. dmn'.loaded = dmn.loaded
      BY <3>1, <1>0 DEF RequestUnloads, UnloadsSent, DaemonRec
    <3>3. QED
      BY <3>2
  <2>3. CASE StartDaemon \/ SubmitTask
    BY <2>3, <1>0 DEF StartDaemon, SubmitTask, StoppedDaemon, DaemonRec
  <2>4. QED
    BY <1>1, <1>3, <2>1, <2>2, <2>3 DEF Supervise, Restart, FindDue, PromoteDue, ReapNothing,
       ReapExited, FinishSlot, RecordFinish, ReleaseSlot, SkipSlot, SelectHead, SpawnTask,
       WriteTaskRunning, FailTask, PopenJob, MarkJobRunning, AttachJob, AwaitDaemon, ClaimDaemon,
       WriteGenerateRunning, RejectTask, WriteRejected, daemon
<1>4. CASE DaemonStep \/ DaemonExits \/ IdleTimeout
  BY <1>4, <1>0, <1>2 DEF DaemonStep, DaemonReady, ModelUnloaded, TaskEnds, DaemonExits,
     IdleTimeout, StoppedDaemon, DaemonRec
<1>5. ASSUME NEW t \in Threads, Request(t) \/ Proceed(t)
      PROVE  dmn'.loaded = dmn.loaded
  <2>1. CASE UnloadDaemon(t)
    BY <1>2, <2>1 DEF UnloadDaemon
  <2>2. CASE CancelDaemon(t)
    <3>1. [dmn EXCEPT !.cancel = TRUE].loaded = dmn.loaded
      BY <1>0 DEF DaemonRec
    <3>2. QED
      BY <2>2, <3>1 DEF CancelDaemon
  <2>3. CASE UNCHANGED dmn
    BY <2>3
  <2>4. QED
    BY <1>5, <2>1, <2>2, <2>3 DEF Request, Enqueue, CreateDefault, RetryBegin, RetryCopy, CancelBegin, PauseBegin,
       ResumeBegin, StartBegin, DeleteBegin, ClearEvalBegin, SetHeld, Reorder, Proceed, SetType,
       SetConfig, EnqueueFails, CancelWrite, CancelClear, CancelFind, CancelSlot, PauseSlot,
       ResumeWrite, ResumeDerive, ResumeVersion, StartWrite, DeleteWrite, DeleteFiles, ClearEvalWrite, supVars,
       daemon
<1>6. \/ \E s \in SlotNames : ChildStep(s) \/ TailerReads(s)
      \/ \E r \in Readers : Finalize(r)
      \/ Host \/ UNCHANGED vars
      => UNCHANGED dmn
  BY DEF ChildStep, LoopStarts, InLoop, BackupReplaced, BackupRemembered, BackupTold, Dead, ChildCompletes, ChildPauses, ChildCrashes, ChildKilled,
     TailerReads, Finalize, FinClear, FinWrite, FinStopped, Host, OrphanEnds, OrphanEpochEnds,
     vars, supVars, daemon
<1>7. ServerStops \/ ServerCrashes => ~dmn'.loaded
  BY DEF ServerStops, ServerCrashes, ServerGone, StoppedDaemon
<1>8. QED
  BY <1>1, <1>3, <1>4, <1>5, <1>6, <1>7 DEF Next

\* Every step keeps the claims of the slots apart from the daemon's model.
LEMMA NextLease ==
  TypeInv /\ ClaimInv /\ DaemonOwnsItsTask /\ DispatchAfterLease /\ [Next]_vars
    => DispatchAfterLease'
<1> SUFFICES ASSUME TypeInv, ClaimInv, DaemonOwnsItsTask, DispatchAfterLease, [Next]_vars,
                    (TrainClaim \/ DataClaim)'
             PROVE  ~dmn'.loaded
  BY DEF DispatchAfterLease
<1>1. CASE SelectHead
  <2>1. ~ExclusiveBusy /\ sup.pc = "dispatch" /\ UNCHANGED <<slot, dmn>>
    BY <1>1 DEF SelectHead, CanDispatchExclusive, procs, daemon
  <2>2. sup'.pc \in {"spawn", "job_popen"}
    <3>1. sup'.pc \in {"gen_start", "job_popen", "spawn", "fail"}
      BY <1>1, AfterGoto DEF SelectHead
    <3>2. QED
      BY <2>1, <3>1 DEF TrainClaim, DataClaim, ExclusiveBusy, DataSlotExclusiveBusy, Busy
  <2>3. PICK w \in Work :
          /\ ~HeadMustWait(w)
          /\ CASE row[w].type = "generate"     -> Goto("gen_start", "train", w, "none")
               [] row[w].type = "eval_samples" -> Goto("job_popen", "data", w, "none")
               [] OTHER -> IF row[w].cfg
                             THEN Goto("spawn", "train", w,
                                       IF row[w].paused THEN "resume" ELSE "fresh")
                             ELSE Goto("fail", "train", w, "none")
    BY <1>1 DEF SelectHead
  <2>4. row[w].type # "generate"
    BY <2>2, <2>3, AfterGoto
  <2>5. QED
    BY <2>1, <2>3, <2>4 DEF HeadMustWait, LeaseHeld
<1>2. CASE NoNewClaim
  <2>1. ~dmn.loaded
    BY <1>2 DEF NoNewClaim, DispatchAfterLease
  <2>2. ~ModelLoaded
    <3>1. dmn.active = NoWork
      BY <1>2 DEF NoNewClaim, ClaimInv, ExclusiveMutex, DaemonOwnsItsTask, DaemonClaim, DaemonActive
    <3>2. QED
      BY <3>1 DEF ModelLoaded
  <2>3. QED
    BY <2>1, <2>2, LoadIsOfTheTask
<1>3. QED
  BY <1>1, <1>2, NextClaims DEF ClaimInv

--------------------------------------------------------------------------------
(* The books agree with the processes *)

\* They do at the start.
LEMMA InitProcesses == Init => ProcessInv
BY DEF Init, SupInit, ProcessInv, SlotsOwnTheirProcess, DaemonOwnsItsTask, DispatchAfterLease, Alive,
       Busy, TrainClaim, DataClaim, DataSlotExclusiveBusy, IdleSlot, NoChild, StoppedDaemon,
       IdleReader, SlotNames, GenerateSteps

\* They do after every step.
LEMMA NextBooks == OneReader /\ BooksAgree /\ [Next]_vars => BooksAgree'
<1> SUFFICES ASSUME OneReader, TypeInv, ClaimInv, ProcessInv, [Next]_vars
             PROVE  BooksAgree'
  BY DEF BooksAgree
<1>1. TypeInv' /\ ClaimInv'
  BY NextType, NextExclusion
<1>2. SlotsOwnTheirProcess' /\ DaemonOwnsItsTask' /\ DispatchAfterLease'
  BY NextSlots, NextDaemon, NextLease DEF ProcessInv
<1>3. QED
  BY <1>1, <1>2 DEF BooksAgree, ProcessInv

\* The books of the supervisor agree with the processes of the machine, for any
\* number of rows, requests and crashes (BooksAgree), as long as the reader thread
\* of a daemon process is done before the next process starts.
THEOREM Books ==
  ASSUME OneReader
  PROVE  Spec => []BooksAgree
<1>1. Init => BooksAgree
  BY InitType, InitExclusion, InitProcesses DEF BooksAgree
<1>2. BooksAgree /\ [Next]_vars => BooksAgree'
  BY NextBooks
<1>3. QED
  BY <1>1, <1>2, PTL DEF Spec

\* Each process on the GPU has its claim.
LEMMA ProcessesHaveClaims ==
  BooksAgree => /\ Alive("train") => TrainClaim
                /\ Alive("data") /\ IsExclusive(child["data"].id) => DataClaim
                /\ dmn.active # NoWork => DaemonClaim
<1> SUFFICES ASSUME BooksAgree
             PROVE  /\ Alive("train") => TrainClaim
                    /\ Alive("data") /\ IsExclusive(child["data"].id) => DataClaim
                    /\ dmn.active # NoWork => DaemonClaim
  OBVIOUS
<1>1. Alive("train") => TrainClaim
  BY DEF BooksAgree, ProcessInv, SlotsOwnTheirProcess, TrainClaim
<1>2. Alive("data") /\ IsExclusive(child["data"].id) => DataClaim
  <2>1. Alive("data") => child["data"].id # NoWork
    BY ProcsTyped, WorkIsNamed DEF BooksAgree, SlotNames
  <2>2. QED
    BY <2>1 DEF BooksAgree, ProcessInv, SlotsOwnTheirProcess, DataClaim, DataSlotExclusiveBusy, Busy
<1>3. dmn.active # NoWork => DaemonClaim
  BY DEF BooksAgree, ProcessInv, DaemonOwnsItsTask, DaemonClaim, DaemonActive
<1>4. QED
  BY <1>1, <1>2, <1>3

\* At most one base-model process runs at a time (OneOnGpu): no process is left behind
\* by a slot that was reset or a marker that was cleared.
THEOREM OneProcess ==
  ASSUME OneReader
  PROVE  Spec => []OneOnGpu
<1>1. BooksAgree => OneOnGpu
  <2> SUFFICES ASSUME BooksAgree
               PROVE  OneOnGpu
    OBVIOUS
  <2>1. \A u, w \in OnGpu : u = w
    BY ProcessesHaveClaims DEF OnGpu, RunningProcs, SlotNames, BooksAgree, ClaimInv, ExclusiveMutex
  <2>2. OnGpu = {} \/ \E w : OnGpu = {w}
    BY <2>1
  <2>3. QED
    BY <2>2, FS_EmptySet, FS_Singleton DEF OneOnGpu
<1>2. QED
  BY <1>1, Books, PTL

\* The daemon holds no model while a training, reg-AI or evaluation process runs
\* (LeaseRevoked): the lease is revoked before the spawn and not taken again.
THEOREM Lease ==
  ASSUME OneReader
  PROVE  Spec => []LeaseRevoked
<1>1. BooksAgree => LeaseRevoked
  BY ProcessesHaveClaims DEF LeaseRevoked, SlotNames, BooksAgree, ProcessInv, DispatchAfterLease
<1>2. QED
  BY <1>1, Books, PTL
================================================================================
