---------------------------- MODULE ExclusionProofs ----------------------------
(***************************************************************************)
(* The exclusive tier of TaskQueue: at most one executor claims it, and at   *)
(* most one process uses it.                                                 *)
(***************************************************************************)
EXTENDS TaskQueueProofs

--------------------------------------------------------------------------------
(* Rows keep their kind *)

\* A write that keeps the type of a row keeps all types.
LEMMA UpdateKeepsTypes ==
  ASSUME NEW rows \in [Work -> Row], NEW w \in Work, NEW new \in Row, new.type = rows[w].type
  PROVE  \A u \in Work : Update(rows, w, new)[u].type = rows[u].type
BY DEF Update

\* Types that stay keep the kinds.
LEMMA SameTypesSameKinds ==
  ASSUME RowsKeepTheirKind, \A u \in Work : row'[u].type = row[u].type
  PROVE  RowsKeepTheirKind'
BY DEF RowsKeepTheirKind

\* The types of the table, read off the invariant.
LEMMA RowsTyped == TypeInv => row \in [Work -> Row]
BY DEF TypeInv, TypeOK, SupTypeOK

\* Such a write of one row keeps the kinds.
LEMMA WriteKeepsKinds ==
  ASSUME TypeInv, RowsKeepTheirKind, NEW w \in Work,
         \E new \in Row : new.type = row[w].type /\ row' = Update(row, w, new)
  PROVE  RowsKeepTheirKind'
BY UpdateKeepsTypes, SameTypesSameKinds, RowsTyped

\* Writing a status keeps all types.
LEMMA WithStatusKeepsTypes ==
  ASSUME NEW rows \in [Work -> Row], NEW w \in Work, NEW st \in Statuses
  PROVE  \A u \in Work : WithStatus(rows, w, st)[u].type = rows[u].type
<1>1. [rows[w] EXCEPT !.status = st] \in Row /\ [rows[w] EXCEPT !.status = st].type = rows[w].type
  BY DEF Row
<1>2. QED
  BY <1>1, UpdateKeepsTypes DEF WithStatus

\* So does writing the status of a set of rows.
LEMMA WithStatusInKeepsTypes ==
  ASSUME NEW rows \in [Work -> Row], NEW ws, NEW st
  PROVE  \A u \in Work : WithStatusIn(rows, ws, st)[u].type = rows[u].type
BY DEF WithStatusIn, Row

\* So does a reorder.
LEMMA ReorderedKeepsTypes ==
  ASSUME NEW rows \in [Work -> Row], NEW ids
  PROVE  \A u \in Work : Reordered(rows, ids)[u].type = rows[u].type
BY DEF Reordered, Row

\* The supervisor never changes the type of a row; the one it creates is an evaluation.
LEMMA SuperviseKinds == TypeInv /\ RowsKeepTheirKind /\ Supervise => RowsKeepTheirKind'
<1> SUFFICES ASSUME TypeInv, RowsKeepTheirKind, Supervise
             PROVE  RowsKeepTheirKind'
  OBVIOUS
<1>0. row \in [Work -> Row] /\ (sup.pc \in WorkSteps => sup.w \in Work)
  BY RowsTyped DEF TypeInv, SupNamesWork
<1>1. CASE UNCHANGED row
  BY <1>1, SameTypesSameKinds
<1>2. CASE Restart \/ PromoteDue
  BY <1>2, <1>0, WithStatusInKeepsTypes, SameTypesSameKinds DEF Restart, PromoteDue
<1>3. CASE RecordFinish
  <2>1. sup.w \in Work /\ sup.st \in Statuses
    BY <1>3, StatusFacts DEF RecordFinish, WorkSteps, SupSteps, TypeInv, SupNamesWork
  <2> DEFINE new == [row[sup.w] EXCEPT !.status = sup.st, !.paused = @ \/ sup.st = "paused"]
  <2>2. new \in Row /\ new.type = row[sup.w].type
    <3>1. \A b \in BOOLEAN : [row[sup.w] EXCEPT !.status = sup.st, !.paused = b] \in Row
      BY <1>0, <2>1 DEF Row
    <3>2. (row[sup.w].paused \/ sup.st = "paused") \in BOOLEAN
      OBVIOUS
    <3>3. new.type = row[sup.w].type
      BY <1>0, <2>1 DEF Row
    <3>4. QED
      BY <3>1, <3>2, <3>3
  <2>3. QED
    BY <1>3, <1>0, <2>1, <2>2, UpdateKeepsTypes, SameTypesSameKinds DEF RecordFinish
<1>4. CASE ReleaseSlot
  BY <1>4, <1>0 DEF ReleaseSlot, QueuesAutoEval, NewRow, RowsKeepTheirKind
<1>5. CASE WriteTaskRunning \/ FailTask \/ MarkJobRunning \/ WriteGenerateRunning \/ WriteRejected
  <2>1. sup.w \in Work
    BY <1>5, <1>0 DEF WriteTaskRunning, FailTask, MarkJobRunning, WriteGenerateRunning,
                      WriteRejected, WorkSteps, SupSteps
  <2>2. \E st \in {"running", "failed"} : row' = WithStatus(row, sup.w, st)
    BY <1>5 DEF WriteTaskRunning, FailTask, MarkJobRunning, WriteGenerateRunning, WriteRejected
  <2>3. {"running", "failed"} \subseteq Statuses
    BY StatusFacts DEF TerminalStatuses
  <2>4. QED
    BY <1>0, <2>1, <2>2, <2>3, WithStatusKeepsTypes, SameTypesSameKinds
<1>6. QED
  BY <1>1, <1>2, <1>3, <1>4, <1>5 DEF Supervise, FindDue, ReapNothing, ReapExited, FinishSlot,
     SkipSlot, HeadWaits, SelectHead, SpawnTask, DispatchData, PopenJob, AttachJob, StartDaemon,
     AwaitDaemon, ClaimDaemon, SubmitTask, RejectTask, ledger

\* Neither do the children, their tailers and the daemon.
LEMMA ProcessKinds ==
  TypeInv /\ RowsKeepTheirKind
    /\ (\/ \E s \in SlotNames : ChildStep(s) \/ TailerReads(s)
        \/ DaemonStep \/ DaemonExits \/ IdleTimeout \/ \E r \in Readers : Finalize(r))
    => RowsKeepTheirKind'
<1> SUFFICES ASSUME TypeInv, RowsKeepTheirKind,
                    \/ \E s \in SlotNames : ChildStep(s) \/ TailerReads(s)
                    \/ DaemonStep \/ DaemonExits \/ IdleTimeout \/ \E r \in Readers : Finalize(r)
             PROVE  RowsKeepTheirKind'
  OBVIOUS
<1>0. row \in [Work -> Row]
  BY RowsTyped
<1>1. CASE UNCHANGED row
  BY <1>1, SameTypesSameKinds
<1>2. ASSUME NEW s \in SlotNames, TailerReads(s)
      PROVE  RowsKeepTheirKind'
  <2> DEFINE w == slot[s].id
  <2>1. w \in Work
    BY <1>2 DEF TailerReads, Busy, TypeInv, TypeOK, SupTypeOK, SlotRec
  <2>2. \A u \in Row : /\ [u EXCEPT !.last = TRUE] \in Row
                      /\ [u EXCEPT !.last = TRUE].type = u.type
                      /\ [u EXCEPT !.paused = FALSE] \in Row
                      /\ [u EXCEPT !.paused = FALSE].type = u.type
    BY DEF Row
  <2>3. \/ row' = row
        \/ row' = Update(row, w, [row[w] EXCEPT !.last = TRUE])
        \/ row' = Update(row, w, [row[w] EXCEPT !.paused = FALSE])
    BY <1>2 DEF TailerReads
  <2>4. row[w] \in Row
    BY <1>0, <2>1
  <2>5. UNCHANGED row \/ \E new \in Row : new.type = row[w].type /\ row' = Update(row, w, new)
    BY <2>2, <2>3, <2>4
  <2>6. QED
    BY <2>1, <2>5, <1>1, WriteKeepsKinds
<1>3. ASSUME NEW r \in Readers, FinWrite(r)
      PROVE  RowsKeepTheirKind'
  <2>1. fin[r].w \in Work /\ fin[r].st \in Statuses
    BY <1>3, StatusFacts DEF FinWrite, TypeInv, TypeOK, SupTypeOK, FinRec, ReadersNameWork
  <2>2. QED
    BY <1>3, <1>0, <2>1, WithStatusKeepsTypes, SameTypesSameKinds DEF FinWrite
<1>4. QED
  BY <1>1, <1>2, <1>3 DEF ChildStep, LoopStarts, InLoop, BackupReplaced, BackupRemembered, BackupTold, Dead, ChildCompletes, ChildPauses,
     ChildCrashes, ChildKilled, DaemonStep, DaemonReady, ModelLoaded, ModelUnloaded, TaskEnds,
     DaemonExits, IdleTimeout, Finalize, FinClear, FinStopped, ledger

\* An endpoint gives a row the type of its kind, or the default of create_task.
LEMMA RequestKinds ==
  \A t \in Threads : TypeInv /\ RowsKeepTheirKind /\ (Request(t) \/ Proceed(t))
                       => RowsKeepTheirKind'
<1> SUFFICES ASSUME NEW t \in Threads, TypeInv, RowsKeepTheirKind, Request(t) \/ Proceed(t)
             PROVE  RowsKeepTheirKind'
  OBVIOUS
<1>0. row \in [Work -> Row] /\ api[t] \in ThreadRec /\ (api[t].op # "none" => api[t].w \in Work)
  BY RowsTyped DEF TypeInv, TypeOK, RequestsNameWork
<1>1. CASE UNCHANGED row
  BY <1>1, SameTypesSameKinds
<1>2. ASSUME NEW w \in Work, Enqueue(t, w) \/ CreateDefault(t, w)
      PROVE  RowsKeepTheirKind'
  BY <1>2, <1>0 DEF Enqueue, CreateDefault, NewRow, RowsKeepTheirKind
<1>3. CASE RetryCopy(t)
  <2>1. \A read, file : CopyOf(read, file).type = read.type
    BY DEF CopyOf, NewRow
  <2>2. \/ row' = row
        \/ \E new \in Work : /\ KindOf[new] = api[t].read.type
                             /\ row' = [row EXCEPT ![new] = CopyOf(api[t].read, row[api[t].w].cfg)]
    BY <1>3 DEF RetryCopy, IdForCopy
  <2>3. QED
    BY <1>0, <2>1, <2>2 DEF RowsKeepTheirKind
<1>4. ASSUME NEW ids, Reorder(t, ids)
      PROVE  RowsKeepTheirKind'
  BY <1>4, <1>0, ReorderedKeepsTypes, SameTypesSameKinds DEF Reorder
<1>5. CASE SetType(t)
  <2>1. api[t].w \in Work
    BY <1>5, <1>0 DEF SetType, AtOp
  <2>2. QED
    BY <1>5, <1>0, <2>1 DEF SetType, Update, RowsKeepTheirKind, Row
<1>6. CASE SetConfig(t) \/ CancelClear(t) \/ ResumeWrite(t)
  <2> DEFINE w == api[t].w
  <2>1. w \in Work
    BY <1>6, <1>0 DEF SetConfig, CancelClear, ResumeWrite, AtOp
  <2>2. \A u \in Row, b \in BOOLEAN :
          /\ [u EXCEPT !.cfg = b] \in Row /\ [u EXCEPT !.cfg = b].type = u.type
          /\ [u EXCEPT !.paused = b] \in Row /\ [u EXCEPT !.paused = b].type = u.type
          /\ [u EXCEPT !.status = "pending", !.paused = b] \in Row
          /\ [u EXCEPT !.status = "pending", !.paused = b].type = u.type
    BY StatusFacts DEF Row
  <2>3. (row[w].paused \/ api[t].seen # "paused") \in BOOLEAN
    OBVIOUS
  <2>4. \/ row' = Update(row, w, [row[w] EXCEPT !.cfg = TRUE])
        \/ row' = Update(row, w, [row[w] EXCEPT !.paused = FALSE])
        \/ \E b \in BOOLEAN : row' = Update(row, w, [row[w] EXCEPT !.status = "pending", !.paused = b])
    BY <1>6, <2>3 DEF SetConfig, CancelClear, ResumeWrite
  <2>5. row[w] \in Row
    BY <1>0, <2>1
  <2>6. \E new \in Row : new.type = row[w].type /\ row' = Update(row, w, new)
    BY <2>2, <2>4, <2>5
  <2>7. QED
    BY <2>1, <2>6, WriteKeepsKinds
<1>7. CASE EnqueueFails(t) \/ CancelWrite(t) \/ StartWrite(t) \/ ClearEvalWrite(t)
  <2>1. api[t].w \in Work
    BY <1>7, <1>0 DEF EnqueueFails, CancelWrite, StartWrite, ClearEvalWrite, AtOp
  <2>2. \E st \in {"failed", "canceled", "pending"} : row' = WithStatus(row, api[t].w, st)
    BY <1>7 DEF EnqueueFails, CancelWrite, StartWrite, ClearEvalWrite, WriteStatus
  <2>3. {"failed", "canceled", "pending"} \subseteq Statuses
    BY StatusFacts DEF TerminalStatuses
  <2>4. QED
    BY <1>0, <2>1, <2>2, <2>3, WithStatusKeepsTypes, SameTypesSameKinds
<1>9. CASE DeleteWrite(t)
  <2>1. api[t].w \in Work
    BY <1>9, <1>0 DEF DeleteWrite, AtOp
  <2>2. row[api[t].w].type \in Kinds /\ row[api[t].w].cfg \in BOOLEAN
    BY <1>0, <2>1 DEF Row
  <2>3. DeletedRow(api[t].w) \in Row /\ DeletedRow(api[t].w).type = row[api[t].w].type
    BY <2>2, NewRowType, StatusFacts DEF DeletedRow, NewRow
  <2>4. QED
    BY <1>9, <2>1, <2>3, WriteKeepsKinds DEF DeleteWrite
<1>10. CASE DeleteFiles(t)
  <2>1. row' = [row EXCEPT ![api[t].w].cfg = FALSE] /\ api[t].w \in Work
    BY <1>10, <1>0 DEF DeleteFiles, AtOp
  <2>2. \A w \in Work : row'[w].type = row[w].type
    BY <1>0, <2>1 DEF Row
  <2>3. QED
    BY <2>2 DEF RowsKeepTheirKind
<1>8. QED
  BY <1>1, <1>2, <1>3, <1>4, <1>5, <1>6, <1>7, <1>9, <1>10 DEF Request, Proceed, CancelBegin, PauseBegin,
     RetryBegin, ResumeBegin, StartBegin, DeleteBegin, ClearEvalBegin, SetHeld, UnloadDaemon, CancelFind,
     CancelSlot, CancelDaemon, PauseSlot, ResumeDerive, ResumeVersion, supVars, ledger

\* Every step keeps the kinds of the rows.
LEMMA NextKinds == TypeInv /\ RowsKeepTheirKind /\ [Next]_vars => RowsKeepTheirKind'
<1>1. RowsKeepTheirKind /\ UNCHANGED row => RowsKeepTheirKind'
  BY DEF RowsKeepTheirKind
<1>2. Host \/ ServerStops \/ ServerCrashes \/ UNCHANGED vars => UNCHANGED row
  BY DEF Host, OrphanEnds, OrphanEpochEnds, ServerStops, ServerCrashes, ServerGone, vars, supVars,
         ledger
<1>3. QED
  BY <1>1, <1>2, SuperviseKinds, ProcessKinds, RequestKinds DEF Next

--------------------------------------------------------------------------------
(* Claims on the exclusive tier *)

\* Steps of the supervisor at which a dispatch in progress is a claim.
ClaimSteps == {"spawn", "gen_start", "gen_wait", "gen_claim", "job_popen", "job_mark", "job_attach"}

\* No executor has a claim that it did not have before.
NoNewClaim ==
  /\ TrainClaim' => TrainClaim
  /\ DaemonClaim' => DaemonClaim
  /\ DataClaim' => DataClaim

\* A step that attaches no slot, marks no task and leaves the supervisor outside a
\* dispatch makes no claim.
LEMMA QuietStep ==
  ASSUME \A s \in SlotNames : slot'[s].id \in {slot[s].id, NoWork},
         dmnTask' \in {dmnTask, NoWork},
         sup' = sup \/ sup'.pc \notin ClaimSteps
  PROVE  NoNewClaim
BY DEF NoNewClaim, TrainClaim, DaemonClaim, DataClaim, DataSlotExclusiveBusy, DaemonActive,
       Busy, ClaimSteps, SlotNames

\* Where the supervisor is after a step.
LEMMA AfterGoto ==
  ASSUME NEW pc, NEW s, NEW w, NEW st, Goto(pc, s, w, st)
  PROVE  sup'.pc = pc /\ sup'.w = w
BY DEF Goto

\* Where it is at the end of a reap or of a dispatch.
LEMMA AfterEnd ==
  ASSUME NEW s, EndReap(s) \/ EndDispatch(s)
  PROVE  sup'.pc \in {"promote", "reap", "dispatch"}
BY AfterGoto DEF EndReap, EndDispatch

\* The claim of a work that is dispatched moves from step to step: only the choice
\* of a work makes a new one.
LEMMA SuperviseClaims ==
  TypeInv /\ RowsKeepTheirKind /\ Supervise => SelectHead \/ NoNewClaim
<1> SUFFICES ASSUME TypeInv, RowsKeepTheirKind, Supervise, ~SelectHead
             PROVE  NoNewClaim
  OBVIOUS
<1>0. /\ row \in [Work -> Row] /\ slot \in [SlotNames -> SlotRec] /\ sup \in SupRec
      /\ sup.pc \in WorkSteps => sup.w \in Work
  BY DEF TypeInv, TypeOK, SupTypeOK, SupNamesWork
<1>1. CASE Restart \/ FindDue \/ PromoteDue \/ ReapNothing \/ ReapExited \/ FinishSlot
           \/ RecordFinish \/ SkipSlot \/ HeadWaits \/ WriteTaskRunning \/ WriteRejected
  <2>1. UNCHANGED <<slot, dmnTask>>
    BY <1>1 DEF Restart, FindDue, PromoteDue, ReapNothing, ReapExited, FinishSlot, RecordFinish,
                SkipSlot, HeadWaits, WriteTaskRunning, WriteRejected, procs, daemon
  <2>2. sup'.pc \notin ClaimSteps
    <3>1. CASE FindDue
      BY <3>1, <1>0, AfterGoto DEF FindDue, SupRec, ClaimSteps
    <3>2. CASE ~FindDue
      BY <3>2, <1>1, AfterGoto, AfterEnd DEF Restart, PromoteDue, ReapNothing, ReapExited,
         FinishSlot, RecordFinish, SkipSlot, HeadWaits, WriteTaskRunning, WriteRejected, ClaimSteps
    <3>3. QED
      BY <3>1, <3>2
  <2>3. QED
    BY <2>1, <2>2, QuietStep
<1>2. CASE ReleaseSlot
  <2>1. \A s \in SlotNames : slot'[s].id \in {slot[s].id, NoWork}
    BY <1>2, <1>0 DEF ReleaseSlot, IdleSlot
  <2>2. UNCHANGED dmnTask /\ sup'.pc \notin ClaimSteps
    BY <1>2, AfterEnd DEF ReleaseSlot, daemon, ClaimSteps
  <2>3. QED
    BY <2>1, <2>2, QuietStep
<1>3. CASE FailTask \/ WriteGenerateRunning \/ SubmitTask \/ RejectTask
  <2>1. UNCHANGED slot /\ dmnTask' \in {dmnTask, NoWork}
    BY <1>3 DEF FailTask, WriteGenerateRunning, SubmitTask, RejectTask, Released, procs, daemon
  <2>2. sup'.pc \notin ClaimSteps
    BY <1>3, AfterGoto, AfterEnd DEF FailTask, WriteGenerateRunning, SubmitTask, RejectTask,
       ClaimSteps
  <2>3. QED
    BY <2>1, <2>2, QuietStep
<1>4. CASE SpawnTask
  <2>1. /\ sup.pc = "spawn" /\ sup'.pc = "spawn_write" /\ UNCHANGED dmnTask
        /\ slot'["data"].id = slot["data"].id
    BY <1>4, <1>0, AfterGoto DEF SpawnTask, daemon, SlotNames
  <2>2. QED
    BY <2>1 DEF NoNewClaim, TrainClaim, DaemonClaim, DataClaim, DataSlotExclusiveBusy,
       DaemonActive, Busy
<1>5. CASE DispatchData
  <2>1. UNCHANGED <<slot, dmnTask>>
    BY <1>5 DEF DispatchData, procs
  <2>2. \/ sup'.pc \notin ClaimSteps
        \/ sup'.pc = "job_popen" /\ ~IsExclusive(sup'.w)
    <3>1. CASE EndDispatch("data")
      BY <3>1, AfterEnd DEF ClaimSteps
    <3>2. ASSUME NEW w \in Pending(row, {"light", "io"}), Goto("job_popen", "data", w, "none")
          PROVE  sup'.pc = "job_popen" /\ ~IsExclusive(sup'.w)
      <4>1. w \in Work /\ row[w].type \in {"light", "io"}
        BY <1>0 DEF Pending
      <4>2. KindOf[w] \in {"light", "io"}
        BY <4>1 DEF RowsKeepTheirKind
      <4>3. QED
        BY <3>2, <4>2, AfterGoto DEF IsExclusive, ResourceClass
    <3>3. QED
      BY <1>5, <3>1, <3>2 DEF DispatchData, IsHead
  <2>3. CASE sup'.pc \notin ClaimSteps
    BY <2>1, <2>3, QuietStep
  <2>4. CASE sup'.pc = "job_popen" /\ ~IsExclusive(sup'.w)
    BY <2>1, <2>4 DEF NoNewClaim, TrainClaim, DaemonClaim, DataClaim, DataSlotExclusiveBusy,
       DaemonActive, Busy
  <2>5. QED
    BY <2>2, <2>3, <2>4
<1>6. CASE PopenJob \/ MarkJobRunning
  <2>1. /\ sup.pc \in {"job_popen", "job_mark"} /\ sup'.pc \in {"job_mark", "job_attach"}
        /\ sup'.w = sup.w /\ UNCHANGED <<slot, dmnTask>>
    BY <1>6, AfterGoto DEF PopenJob, MarkJobRunning, procs, daemon
  <2>2. QED
    BY <2>1 DEF NoNewClaim, TrainClaim, DaemonClaim, DataClaim, DataSlotExclusiveBusy,
       DaemonActive, Busy
<1>7. CASE AttachJob
  <2>1. /\ sup.pc = "job_attach" /\ sup'.pc \notin ClaimSteps /\ UNCHANGED dmnTask
        /\ slot'["train"].id = slot["train"].id /\ slot'["data"].id = sup.w
    BY <1>7, <1>0, AfterEnd DEF AttachJob, daemon, SlotNames, ClaimSteps, SlotRec
  <2>2. QED
    BY <2>1 DEF NoNewClaim, TrainClaim, DaemonClaim, DataClaim, DataSlotExclusiveBusy,
       DaemonActive, Busy, ClaimSteps
<1>8. CASE StartDaemon \/ AwaitDaemon \/ ClaimDaemon
  <2>1. /\ sup.pc \in {"gen_start", "gen_wait", "gen_claim"}
        /\ sup'.pc \in {"gen_wait", "gen_claim", "gen_run", "fail"} /\ UNCHANGED slot
    BY <1>8, AfterGoto DEF StartDaemon, AwaitDaemon, ClaimDaemon, procs
  <2>2. QED
    BY <2>1 DEF NoNewClaim, TrainClaim, DaemonClaim, DataClaim, DataSlotExclusiveBusy,
       DaemonActive, Busy
<1>9. QED
  BY <1>1, <1>2, <1>3, <1>4, <1>5, <1>6, <1>7, <1>8 DEF Supervise

\* A work is chosen only when nothing is claimed, and it makes one claim.
LEMMA SelectClaims == ExclusiveMutex /\ SelectHead => ExclusiveMutex'
<1> SUFFICES ASSUME ExclusiveMutex, SelectHead
             PROVE  ExclusiveMutex'
  OBVIOUS
<1>1. sup.pc = "dispatch" /\ ~ExclusiveBusy /\ UNCHANGED <<slot, dmnTask>>
  BY DEF SelectHead, CanDispatchExclusive, procs, daemon
<1>2. sup'.pc \in {"gen_start", "job_popen", "spawn", "fail"}
  BY AfterGoto DEF SelectHead
<1>3. QED
  BY <1>1, <1>2 DEF ExclusiveMutex, TrainClaim, DaemonClaim, DataClaim, ExclusiveBusy,
     DataSlotExclusiveBusy, DaemonActive, Busy

\* Nobody else makes a claim.
LEMMA OthersMakeNoClaim ==
  TypeInv /\ [Next]_vars /\ ~Supervise
    => /\ \A s \in SlotNames : slot'[s].id \in {slot[s].id, NoWork}
       /\ dmnTask' \in {dmnTask, NoWork}
       /\ sup' = sup \/ sup'.pc = "down"
<1> SUFFICES ASSUME TypeInv, [Next]_vars, ~Supervise
             PROVE  /\ \A s \in SlotNames : slot'[s].id \in {slot[s].id, NoWork}
                    /\ dmnTask' \in {dmnTask, NoWork}
                    /\ sup' = sup \/ sup'.pc = "down"
  OBVIOUS
<1>0. slot \in [SlotNames -> SlotRec]
  BY DEF TypeInv, TypeOK, SupTypeOK
<1>1. CASE UNCHANGED <<slot, dmnTask, sup>>
  BY <1>1
<1>2. ASSUME NEW s \in SlotNames, TailerReads(s)
      PROVE  /\ \A q \in SlotNames : slot'[q].id \in {slot[q].id, NoWork}
             /\ dmnTask' \in {dmnTask, NoWork} /\ sup' = sup
  BY <1>2, <1>0 DEF TailerReads, daemon, SlotRec
<1>3. ASSUME NEW t \in Threads, CancelSlot(t) \/ PauseSlot(t)
      PROVE  /\ \A s \in SlotNames : slot'[s].id \in {slot[s].id, NoWork}
             /\ dmnTask' \in {dmnTask, NoWork} /\ sup' = sup
  BY <1>3, <1>0 DEF CancelSlot, PauseSlot, daemon, procs, SlotRec
<1>4. ASSUME NEW r \in Readers, FinClear(r)
      PROVE  UNCHANGED slot /\ dmnTask' \in {dmnTask, NoWork} /\ sup' = sup
  BY <1>4 DEF FinClear, Released, procs
<1>5. CASE ServerStops \/ ServerCrashes
  BY <1>5, AfterGoto DEF ServerStops, ServerCrashes, ServerGone, IdleSlot
<1>6. QED
  <2>1. ASSUME NEW s \in SlotNames, ChildStep(s)
        PROVE  UNCHANGED <<slot, dmnTask, sup>>
    BY <2>1 DEF ChildStep, LoopStarts, InLoop, BackupReplaced, BackupRemembered, BackupTold, Dead, ChildCompletes, ChildPauses, ChildCrashes,
       ChildKilled, daemon
  <2>2. DaemonStep \/ DaemonExits \/ IdleTimeout \/ Host \/ UNCHANGED vars
          => UNCHANGED <<slot, dmnTask, sup>>
    BY DEF DaemonStep, DaemonReady, ModelLoaded, ModelUnloaded, TaskEnds, DaemonExits,
       IdleTimeout, Host, OrphanEnds, OrphanEpochEnds, vars, supVars, procs, daemon
  <2>3. ASSUME NEW r \in Readers, FinWrite(r) \/ FinStopped(r)
        PROVE  UNCHANGED <<slot, dmnTask, sup>>
    BY <2>3 DEF FinWrite, FinStopped, procs
  <2>4. ASSUME NEW t \in Threads, Request(t)
        PROVE  UNCHANGED <<slot, dmnTask, sup>>
    BY <2>4 DEF Request, Enqueue, CreateDefault, RetryBegin, CancelBegin, PauseBegin, ResumeBegin,
       StartBegin, DeleteBegin, ClearEvalBegin, SetHeld, UnloadDaemon, Reorder, supVars, procs,
       daemon
  <2>5. ASSUME NEW t \in Threads, Proceed(t), ~CancelSlot(t), ~PauseSlot(t)
        PROVE  UNCHANGED <<slot, dmnTask, sup>>
    BY <2>5 DEF Proceed, SetType, SetConfig, EnqueueFails, RetryCopy, CancelWrite, CancelClear, CancelFind,
       CancelDaemon, ResumeWrite, ResumeDerive, ResumeVersion, StartWrite, DeleteWrite, DeleteFiles,
       ClearEvalWrite, supVars, procs, daemon
  <2>6. QED
    BY <1>1, <1>2, <1>3, <1>4, <1>5, <2>1, <2>2, <2>3, <2>4, <2>5 DEF Next, Finalize

\* Only the choice of a work makes a claim.
LEMMA NextClaims == TypeInv /\ RowsKeepTheirKind /\ [Next]_vars => SelectHead \/ NoNewClaim
<1>1. TypeInv /\ [Next]_vars /\ ~Supervise => NoNewClaim
  BY OthersMakeNoClaim, QuietStep DEF ClaimSteps
<1>2. QED
  BY <1>1, SuperviseClaims

\* Every step keeps the exclusion of claims.
LEMMA NextExclusion == TypeInv /\ ClaimInv /\ [Next]_vars => ClaimInv'
<1> SUFFICES ASSUME TypeInv, ClaimInv, [Next]_vars
             PROVE  ClaimInv'
  OBVIOUS
<1>1. RowsKeepTheirKind'
  BY NextKinds DEF ClaimInv
<1>2. SelectHead \/ NoNewClaim
  BY NextClaims DEF ClaimInv
<1>3. ExclusiveMutex'
  BY <1>2, SelectClaims DEF ClaimInv, NoNewClaim, ExclusiveMutex
<1>4. QED
  BY <1>1, <1>3 DEF ClaimInv

\* Nothing is claimed at the start.
LEMMA InitExclusion == Init => ClaimInv
BY DEF Init, SupInit, InitRow, NewRow, ClaimInv, RowsKeepTheirKind, ExclusiveMutex, TrainClaim,
       DaemonClaim, DataClaim, DataSlotExclusiveBusy, DaemonActive, Busy, IdleSlot, SlotNames

\* At most one executor - TRAIN slot, daemon, evaluation in the DATA slot - has a
\* claim on the exclusive tier, however many rows, requests, reader threads and
\* crashes there are (ExclusiveMutex).
THEOREM Exclusion == Spec => []ExclusiveMutex
<1>1. Init => TypeInv /\ ClaimInv
  BY InitType, InitExclusion
<1>2. TypeInv /\ ClaimInv /\ [Next]_vars => (TypeInv /\ ClaimInv)'
  BY NextType, NextExclusion
<1>3. ClaimInv => ExclusiveMutex
  BY DEF ClaimInv
<1>4. QED
  BY <1>1, <1>2, <1>3, PTL DEF Spec
================================================================================
