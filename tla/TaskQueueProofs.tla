---------------------------- MODULE TaskQueueProofs ----------------------------
(* Theorems about TaskQueue, for every set of rows, request threads and readers. *)
EXTENDS TaskQueueInduction, FiniteSetTheorems, SequenceTheorems, TLAPS

--------------------------------------------------------------------------------
(* The table *)

\* A new row of a known type and status is a row.
LEMMA NewRowType ==
  ASSUME NEW type \in Kinds, NEW st \in Statuses, NEW cfg \in BOOLEAN
  PROVE  NewRow(type, st, cfg) \in Row
BY PrioAssumption DEF NewRow, Row

\* Writing a row into the table, if it is still there, gives a table.
LEMMA UpdateType ==
  ASSUME NEW rows \in [Work -> Row], NEW w \in Work, NEW new \in Row
  PROVE  Update(rows, w, new) \in [Work -> Row]
BY DEF Update

\* Writing a status gives a table.
LEMMA WithStatusType ==
  ASSUME NEW rows \in [Work -> Row], NEW w \in Work, NEW st \in Statuses
  PROVE  WithStatus(rows, w, st) \in [Work -> Row]
<1>1. [rows[w] EXCEPT !.status = st] \in Row
  BY DEF Row
<1>2. QED
  BY <1>1, UpdateType DEF WithStatus

\* The same for several rows at once.
LEMMA WithStatusInType ==
  ASSUME NEW rows \in [Work -> Row], NEW ws, NEW st \in Statuses
  PROVE  WithStatusIn(rows, ws, st) \in [Work -> Row]
BY DEF WithStatusIn, Row

\* The statuses that are written are statuses of rows.
LEMMA StatusFacts ==
  /\ TerminalStatuses \cup {"paused", "pending", "running", "scheduled", "deleted"} \subseteq Statuses
  /\ \A st : FinalVersionStatus(st) \in VersionStatuses
  /\ \A rows, v : DerivedVersionStatus(rows, v) \in VersionStatuses
BY DEF TerminalStatuses, Statuses, ValidStatuses, NoRowStatuses, FinalVersionStatus,
       VersionStatuses, DerivedVersionStatus

\* Reordering stays within the bound on priorities.
LEMMA ReorderedType ==
  ASSUME NEW rows \in [Work -> Row], NEW ids \in Seq(Work), Len(ids) <= MaxPrio
  PROVE  Reordered(rows, ids) \in [Work -> Row]
<1> SUFFICES ASSUME NEW w \in Work
             PROVE  Reordered(rows, ids)[w] \in Row
  BY DEF Reordered
<1>1. CASE rows[w].status = "pending" /\ \E i \in DOMAIN ids : ids[i] = w
  <2> DEFINE i == CHOOSE j \in DOMAIN ids : ids[j] = w
  <2>1. i \in DOMAIN ids
    BY <1>1
  <2>2. i \in 1..Len(ids) /\ Len(ids) \in Nat
    BY <2>1
  <2>3. Len(ids) + 1 - i \in 0..MaxPrio
    BY <2>2, PrioAssumption
  <2>4. [rows[w] EXCEPT !.prio = Len(ids) + 1 - i] \in Row
    BY <2>3 DEF Row
  <2>5. Reordered(rows, ids)[w] = [rows[w] EXCEPT !.prio = Len(ids) + 1 - i]
    BY <1>1 DEF Reordered
  <2>6. QED
    BY <2>4, <2>5
<1>2. CASE ~(rows[w].status = "pending" /\ \E i \in DOMAIN ids : ids[i] = w)
  BY <1>2 DEF Reordered
<1>3. QED
  BY <1>1, <1>2

--------------------------------------------------------------------------------
(* Types: the records that are built from scratch *)

\* Idle slots, absent processes and idle readers are records of their types.
LEMMA IdleRecords == IdleSlot \in SlotRec /\ NoChild \in ChildRec /\ IdleReader \in FinRec
<1>1. IdleSlot \in SlotRec
  BY DEF IdleSlot, SlotRec
<1>2. NoChild \in ChildRec
  <2>1. <<>> \in Seq(Events)
    OBVIOUS
  <2>2. \A log \in Seq(Events) :
          [id |-> NoWork, life |-> "none", resume |-> FALSE, looping |-> FALSE,
           untold |-> FALSE, backed |-> FALSE, ints |-> 0, term |-> FALSE, log |-> log] \in ChildRec
    BY DEF ChildRec, Lives
  <2>3. QED
    BY <2>1, <2>2 DEF NoChild
<1>3. IdleReader \in FinRec
  BY DEF IdleReader, FinRec, TerminalStatuses
<1>4. QED
  BY <1>1, <1>2, <1>3

\* A process just started.
LEMMA PopenedType ==
  ASSUME NEW w \in Work, NEW resume \in BOOLEAN
  PROVE  Popened(w, resume) \in ChildRec /\ Popened(w, resume).id \in Work
BY IdleRecords DEF Popened, ChildRec, Lives

\* A stopped daemon.
LEMMA StoppedDaemonType == StoppedDaemon \in DaemonRec
<1>1. (CHOOSE r \in Readers : TRUE) \in Readers
  BY ReaderAssumption
<1>2. QED
  BY <1>1, BoundAssumption DEF StoppedDaemon, DaemonRec

\* Unload requests stay within their bound.
LEMMA RequestUnloadsType ==
  ASSUME dmn \in DaemonRec, NEW n \in Nat, RequestUnloads(n)
  PROVE  dmn' \in DaemonRec
<1>1. dmn.unloads \in 0..MaxUnloads /\ MaxUnloads \in Nat
  BY BoundAssumption DEF DaemonRec
<1>2. n > 0 => dmn.unloads + n \in 0..MaxUnloads
  BY <1>1 DEF RequestUnloads
<1>3. n > 0 => UnloadsSent(n) \in DaemonRec
  BY <1>2 DEF UnloadsSent, DaemonRec
<1>4. QED
  BY <1>3 DEF RequestUnloads

--------------------------------------------------------------------------------
(* Types: the supervisor *)

\* A supervisor that goes to a step with a row, where the step needs one, is well
\* typed.
LEMMA GotoType ==
  ASSUME NEW pc \in SupSteps, NEW s \in SlotNames, NEW w \in Work \cup {NoWork},
         NEW st \in TerminalStatuses \cup {"paused", "resume", "fresh", "none"},
         pc \in WorkSteps => w \in Work,
         pc \in {"record", "release"} => st \in TerminalStatuses \cup {"paused"},
         Goto(pc, s, w, st)
  PROVE  sup' \in SupRec /\ SupNamesWork'
BY DEF Goto, SupRec, SupNamesWork

\* The end of a reap and the end of a dispatch go on to the next slot or step.
LEMMA EndReapType ==
  ASSUME NEW s, EndReap(s)
  PROVE  sup' \in SupRec /\ SupNamesWork'
BY GotoType DEF EndReap, SupSteps, WorkSteps, SlotNames

\* The end of a dispatch, likewise.
LEMMA EndDispatchType ==
  ASSUME NEW s, EndDispatch(s)
  PROVE  sup' \in SupRec /\ SupNamesWork'
BY GotoType DEF EndDispatch, SupSteps, WorkSteps, SlotNames

\* What the supervisor never writes keeps its type; what it may write has to.
LEMMA SupervisorFrame ==
  ASSUME TypeInv, UNCHANGED <<held, disk, fin, others>>,
         row' \in [Work -> Row], version' \in [Versions -> VersionStatuses],
         slot' \in [SlotNames -> SlotRec],
         child' \in [SlotNames -> ChildRec] /\ ProcessesNameWork',
         dmn' \in DaemonRec, dmnTask' \in Work \cup {NoWork}, dmnCancel' \in BOOLEAN,
         sup' \in SupRec /\ SupNamesWork'
  PROVE  TypeInv'
BY DEF TypeInv, TypeOK, SupTypeOK, ReadersNameWork, RequestsNameWork, others, host

\* A step of the supervisor that only moves on.
LEMMA SupervisorMoves ==
  ASSUME TypeInv, UNCHANGED <<ledger, procs, daemon, others>>, sup' \in SupRec /\ SupNamesWork'
  PROVE  TypeInv'
BY SupervisorFrame DEF ProcessesNameWork, TypeInv, TypeOK, SupTypeOK, ledger, procs, daemon

\* A step of the supervisor that writes the table and moves on.
LEMMA SupervisorWrites ==
  ASSUME TypeInv, UNCHANGED <<held, version, disk, procs, daemon, others>>,
         row' \in [Work -> Row], sup' \in SupRec /\ SupNamesWork'
  PROVE  TypeInv'
BY SupervisorFrame DEF ProcessesNameWork, TypeInv, TypeOK, SupTypeOK, procs, daemon

\* Each step of the supervisor keeps the types.
LEMMA SuperviseType == TypeInv /\ Supervise => TypeInv'
<1> SUFFICES ASSUME TypeInv, Supervise
             PROVE  TypeInv'
  OBVIOUS
<1> DEFINE SupType == sup \in SupRec /\ SupNamesWork
<1>0. /\ row \in [Work -> Row] /\ version \in [Versions -> VersionStatuses]
      /\ slot \in [SlotNames -> SlotRec] /\ child \in [SlotNames -> ChildRec]
      /\ dmn \in DaemonRec /\ dmnTask \in Work \cup {NoWork} /\ dmnCancel \in BOOLEAN
      /\ sup \in SupRec /\ SupNamesWork /\ ProcessesNameWork
  BY DEF TypeInv, TypeOK, SupTypeOK
<1>s. /\ sup.s \in SlotNames /\ sup.w \in Work \cup {NoWork} /\ sup.due \in SUBSET Work
      /\ sup.pc \in WorkSteps => sup.w \in Work
  BY <1>0 DEF SupRec, SupNamesWork
<1>1. CASE Restart
  <2>1. SupType'
    BY <1>1, GotoType DEF Restart, SupSteps, WorkSteps, SlotNames
  <2>2. row' \in [Work -> Row]
    BY <1>1, <1>0, WithStatusInType, StatusFacts DEF Restart, TerminalStatuses
  <2>3. QED
    BY <1>1, <2>1, <2>2, SupervisorWrites DEF Restart
<1>2. CASE FindDue
  <2>1. SupType'
    <3>1. CASE Goto("reap", "train", NoWork, "none")
      BY <3>1, GotoType DEF SupSteps, WorkSteps, SlotNames
    <3>2. CASE \E due \in SUBSET {w \in Work : row[w].status = "scheduled"} :
                 sup' = [sup EXCEPT !.pc = "promote_write", !.due = due]
      BY <3>2, <1>0 DEF SupRec, SupSteps, SupNamesWork, WorkSteps
    <3>3. QED
      BY <1>2, <3>1, <3>2 DEF FindDue
  <2>2. QED
    BY <1>2, <2>1, SupervisorMoves DEF FindDue
<1>3. CASE PromoteDue
  <2>1. SupType'
    BY <1>3, GotoType DEF PromoteDue, SupSteps, WorkSteps, SlotNames
  <2>2. row' \in [Work -> Row]
    BY <1>3, <1>0, WithStatusInType, StatusFacts DEF PromoteDue
  <2>3. QED
    BY <1>3, <2>1, <2>2, SupervisorWrites DEF PromoteDue
<1>4. CASE ReapNothing
  BY <1>4, EndReapType, SupervisorMoves DEF ReapNothing
<1>5. CASE ReapExited
  <2>1. slot[sup.s].id \in Work
    BY <1>5, <1>0, <1>s DEF ReapExited, Busy, SlotRec
  <2>2. SupType'
    BY <1>5, <1>s, <2>1, GotoType DEF ReapExited, SupSteps, WorkSteps
  <2>3. QED
    BY <1>5, <2>2, SupervisorMoves DEF ReapExited
<1>6. CASE FinishSlot
  <2>1. \A sl, rc0 : FinishedStatus(sl, rc0) \in TerminalStatuses \cup {"paused"}
    BY DEF FinishedStatus, TerminalStatuses
  <2>2. SupType'
    BY <1>6, <1>s, <2>1, GotoType DEF FinishSlot, SupSteps, WorkSteps
  <2>3. QED
    BY <1>6, <2>2, SupervisorMoves DEF FinishSlot
<1>7. CASE RecordFinish
  <2>1. sup.w \in Work /\ sup.st \in TerminalStatuses \cup {"paused"}
    BY <1>7, <1>s, <1>0 DEF RecordFinish, WorkSteps, SupSteps, SupNamesWork
  <2>2. SupType'
    BY <1>7, <1>s, <2>1, GotoType DEF RecordFinish, SupSteps, WorkSteps
  <2>3. [row[sup.w] EXCEPT !.status = sup.st, !.paused = @ \/ sup.st = "paused"] \in Row
    BY <1>0, <2>1, StatusFacts DEF Row
  <2>4. row' \in [Work -> Row]
    BY <1>7, <1>0, <2>1, <2>3, UpdateType DEF RecordFinish
  <2>5. FinalizedVersion(sup.w, sup.st) \in [Versions -> VersionStatuses]
    BY <1>0, <2>1, StatusFacts DEF FinalizedVersion
  <2>6. version' \in [Versions -> VersionStatuses]
    BY <1>7, <1>0, <2>5 DEF RecordFinish
  <2>7. QED
    BY <1>7, <1>0, <2>2, <2>4, <2>6, SupervisorFrame DEF ProcessesNameWork, RecordFinish, procs, daemon
<1>8. CASE ReleaseSlot
  <2>1. SupType'
    BY <1>8, EndReapType DEF ReleaseSlot
  <2>2. NewRow("eval_samples", "pending", FALSE) \in Row
    BY NewRowType, StatusFacts DEF Kinds
  <2>3. row' \in [Work -> Row]
    BY <1>8, <1>0, <2>2 DEF ReleaseSlot
  <2>4. /\ slot' \in [SlotNames -> SlotRec]
        /\ child' \in [SlotNames -> ChildRec] /\ ProcessesNameWork'
    BY <1>8, <1>0, IdleRecords DEF ReleaseSlot, ProcessesNameWork, NoChild
  <2>5. QED
    BY <1>8, <1>0, <2>1, <2>3, <2>4, SupervisorFrame DEF ReleaseSlot, daemon
<1>9. CASE SkipSlot
  BY <1>9, EndDispatchType, SupervisorMoves DEF SkipSlot
<1>10. CASE HeadWaits
  <2>1. PICK n \in {0, 1} : RequestUnloads(n)
    BY <1>10 DEF HeadWaits
  <2>2. dmn' \in DaemonRec
    BY <1>0, <2>1, RequestUnloadsType
  <2>3. SupType'
    BY <1>10, EndDispatchType DEF HeadWaits
  <2>4. QED
    BY <1>10, <1>0, <2>2, <2>3, SupervisorFrame DEF ProcessesNameWork, HeadWaits, ledger, procs
<1>11. CASE SelectHead
  <2>1. PICK w \in Work :
          \/ Goto("gen_start", "train", w, "none") \/ Goto("job_popen", "data", w, "none")
          \/ Goto("spawn", "train", w, "resume") \/ Goto("spawn", "train", w, "fresh")
          \/ Goto("fail", "train", w, "none")
    BY <1>11 DEF SelectHead
  <2>2. SupType'
    BY <2>1, GotoType DEF SupSteps, WorkSteps, SlotNames
  <2>3. QED
    BY <1>11, <2>2, SupervisorMoves DEF SelectHead
<1>12. CASE SpawnTask
  <2>1. sup.w \in Work
    BY <1>12, <1>s DEF SpawnTask, WorkSteps, SupSteps
  <2>2. SupType'
    BY <1>12, <2>1, GotoType DEF SpawnTask, SupSteps, WorkSteps, SlotNames
  <2>3. child' \in [SlotNames -> ChildRec] /\ ProcessesNameWork'
    BY <1>12, <1>0, <2>1, PopenedType DEF SpawnTask, ProcessesNameWork
  <2>4. slot' \in [SlotNames -> SlotRec]
    BY <1>12, <1>0, <2>1 DEF SpawnTask, SlotRec, SlotNames
  <2>5. QED
    BY <1>12, <1>0, <2>2, <2>3, <2>4, SupervisorFrame DEF SpawnTask, ledger, daemon
<1>13. CASE WriteTaskRunning
  <2>1. sup.w \in Work
    BY <1>13, <1>s DEF WriteTaskRunning, WorkSteps, SupSteps
  <2>2. SupType'
    BY <1>13, EndDispatchType DEF WriteTaskRunning
  <2>3. row' \in [Work -> Row]
    BY <1>13, <1>0, <2>1, WithStatusType, StatusFacts DEF WriteTaskRunning
  <2>4. version' \in [Versions -> VersionStatuses]
    BY <1>13, <1>0 DEF WriteTaskRunning, VersionStatuses
  <2>5. QED
    BY <1>13, <1>0, <2>2, <2>3, <2>4, SupervisorFrame DEF ProcessesNameWork, WriteTaskRunning, procs, daemon
<1>14. CASE FailTask
  <2>1. sup.w \in Work
    BY <1>14, <1>s DEF FailTask, WorkSteps, SupSteps
  <2>2. row' \in [Work -> Row]
    BY <1>14, <1>0, <2>1, WithStatusType, StatusFacts DEF FailTask, TerminalStatuses
  <2>3. SupType'
    BY <1>14, EndDispatchType DEF FailTask
  <2>4. dmnTask' \in Work \cup {NoWork}
    BY <1>14, <1>0 DEF FailTask
  <2>5. QED
    BY <1>14, <1>0, <2>2, <2>3, <2>4, SupervisorFrame DEF ProcessesNameWork, FailTask, procs
<1>15. CASE DispatchData
  <2>1. dmn' \in DaemonRec
    <3>1. PICK lp \in LightSettings :
            \/ RequestUnloads(Cardinality(YieldsBefore(Pending(row, {"light", "io"}), NoWork, lp)))
            \/ \E w \in Work :
                 RequestUnloads(Cardinality(YieldsBefore(Pending(row, {"light", "io"}), w, lp)))
      BY <1>15, <1>0 DEF DispatchData, Pending, IsHead
    <3>2. \A w : Cardinality(YieldsBefore(Pending(row, {"light", "io"}), w, lp)) \in Nat
      <4> SUFFICES ASSUME NEW w
                   PROVE  Cardinality(YieldsBefore(Pending(row, {"light", "io"}), w, lp)) \in Nat
        OBVIOUS
      <4>1. YieldsBefore(Pending(row, {"light", "io"}), w, lp) \in SUBSET Work
        BY <1>0 DEF YieldsBefore, Pending
      <4>2. QED
        BY <4>1, WorkAssumption, FS_Subset, FS_CardinalityType
    <3>3. QED
      BY <1>0, <3>1, <3>2, RequestUnloadsType
  <2>2. SupType'
    <3>1. EndDispatch("data") \/ \E w \in Work : Goto("job_popen", "data", w, "none")
      BY <1>15, <1>0 DEF DispatchData, Pending, IsHead
    <3>2. QED
      BY <3>1, EndDispatchType, GotoType DEF SupSteps, WorkSteps, SlotNames
  <2>3. QED
    BY <1>15, <1>0, <2>1, <2>2, SupervisorFrame DEF ProcessesNameWork, DispatchData, ledger, procs
<1>16. CASE PopenJob
  <2>1. sup.w \in Work
    BY <1>16, <1>s DEF PopenJob, WorkSteps, SupSteps
  <2>2. child' \in [SlotNames -> ChildRec] /\ ProcessesNameWork'
    BY <1>16, <1>0, <2>1, PopenedType DEF PopenJob, ProcessesNameWork
  <2>3. SupType'
    BY <1>16, <2>1, GotoType DEF PopenJob, SupSteps, WorkSteps, SlotNames
  <2>4. QED
    BY <1>16, <1>0, <2>2, <2>3, SupervisorFrame DEF PopenJob, ledger, daemon
<1>17. CASE MarkJobRunning
  <2>1. sup.w \in Work
    BY <1>17, <1>s DEF MarkJobRunning, WorkSteps, SupSteps
  <2>2. row' \in [Work -> Row]
    BY <1>17, <1>0, <2>1, WithStatusType, StatusFacts DEF MarkJobRunning
  <2>3. SupType'
    BY <1>17, <2>1, GotoType DEF MarkJobRunning, SupSteps, WorkSteps, SlotNames
  <2>4. QED
    BY <1>17, <2>2, <2>3, SupervisorWrites DEF MarkJobRunning
<1>18. CASE AttachJob
  <2>1. sup.w \in Work
    BY <1>18, <1>s DEF AttachJob, WorkSteps, SupSteps
  <2>2. slot' \in [SlotNames -> SlotRec]
    BY <1>18, <1>0, <2>1 DEF AttachJob, SlotRec, SlotNames
  <2>3. SupType'
    BY <1>18, EndDispatchType DEF AttachJob
  <2>4. QED
    BY <1>18, <1>0, <2>2, <2>3, SupervisorFrame DEF ProcessesNameWork, AttachJob, ledger, daemon
<1>19. CASE StartDaemon
  <2>1. sup.w \in Work
    BY <1>19, <1>s DEF StartDaemon, WorkSteps, SupSteps
  <2>2. SupType'
    <3>1. Goto("gen_wait", "train", sup.w, "none") \/ Goto("gen_claim", "train", sup.w, "none")
      BY <1>19 DEF StartDaemon
    <3>2. QED
      BY <3>1, <2>1, GotoType DEF SupSteps, WorkSteps, SlotNames
  <2>3. dmn' \in DaemonRec
    BY <1>19, <1>0, StoppedDaemonType DEF StartDaemon, DaemonRec
  <2>4. QED
    BY <1>19, <1>0, <2>2, <2>3, SupervisorFrame DEF ProcessesNameWork, StartDaemon, ledger, procs
<1>20. CASE AwaitDaemon
  <2>1. sup.w \in Work
    BY <1>20, <1>s DEF AwaitDaemon, WorkSteps, SupSteps
  <2>2. SupType'
    BY <1>20, <2>1, GotoType DEF AwaitDaemon, SupSteps, WorkSteps, SlotNames
  <2>3. QED
    BY <1>20, <2>2, SupervisorMoves DEF AwaitDaemon
<1>21. CASE ClaimDaemon
  <2>1. sup.w \in Work
    BY <1>21, <1>s DEF ClaimDaemon, WorkSteps, SupSteps
  <2>2. SupType'
    BY <1>21, <2>1, GotoType DEF ClaimDaemon, SupSteps, WorkSteps, SlotNames
  <2>3. QED
    BY <1>21, <1>0, <2>1, <2>2, SupervisorFrame DEF ProcessesNameWork, ClaimDaemon, ledger, procs
<1>22. CASE WriteGenerateRunning
  <2>1. sup.w \in Work
    BY <1>22, <1>s DEF WriteGenerateRunning, WorkSteps, SupSteps
  <2>2. row' \in [Work -> Row]
    BY <1>22, <1>0, <2>1, WithStatusType, StatusFacts DEF WriteGenerateRunning
  <2>3. SupType'
    BY <1>22, <2>1, GotoType DEF WriteGenerateRunning, SupSteps, WorkSteps, SlotNames
  <2>4. QED
    BY <1>22, <2>2, <2>3, SupervisorWrites DEF WriteGenerateRunning
<1>23. CASE SubmitTask
  <2>1. sup.w \in Work
    BY <1>23, <1>s DEF SubmitTask, WorkSteps, SupSteps
  <2>2. SupType'
    BY <1>23, <2>1, EndDispatchType, GotoType DEF SubmitTask, SupSteps, WorkSteps, SlotNames
  <2>3. dmn' \in DaemonRec
    BY <1>23, <1>0, <2>1 DEF SubmitTask, DaemonRec
  <2>4. QED
    BY <1>23, <1>0, <2>2, <2>3, SupervisorFrame DEF ProcessesNameWork, SubmitTask, ledger, procs
<1>24. CASE RejectTask
  <2>1. sup.w \in Work
    BY <1>24, <1>s DEF RejectTask, WorkSteps, SupSteps
  <2>2. SupType'
    BY <1>24, <2>1, GotoType DEF RejectTask, SupSteps, WorkSteps, SlotNames
  <2>3. dmnTask' \in Work \cup {NoWork} /\ dmnCancel' \in BOOLEAN
    BY <1>24, <1>0 DEF RejectTask, Released
  <2>4. QED
    BY <1>24, <1>0, <2>2, <2>3, SupervisorFrame DEF ProcessesNameWork, RejectTask, ledger, procs
<1>25. CASE WriteRejected
  <2>1. sup.w \in Work
    BY <1>25, <1>s DEF WriteRejected, WorkSteps, SupSteps
  <2>2. row' \in [Work -> Row]
    BY <1>25, <1>0, <2>1, WithStatusType, StatusFacts DEF WriteRejected, TerminalStatuses
  <2>3. QED
    BY <1>25, <2>2, EndDispatchType, SupervisorWrites DEF WriteRejected
<1>26. QED
  BY <1>1, <1>2, <1>3, <1>4, <1>5, <1>6, <1>7, <1>8, <1>9, <1>10, <1>11, <1>12, <1>13, <1>14,
     <1>15, <1>16, <1>17, <1>18, <1>19, <1>20, <1>21, <1>22, <1>23, <1>24, <1>25 DEF Supervise

--------------------------------------------------------------------------------
(* Types: children, tailers and the daemon *)

\* Lines appended to a log of events leave a process record.
LEMMA WritesType ==
  ASSUME TypeInv, NEW s \in SlotNames, NEW lines \in Seq(Events)
  PROVE  /\ Writes(s, lines) \in ChildRec
         /\ Writes(s, lines).id = child[s].id
<1>1. child[s] \in ChildRec
  BY DEF TypeInv, TypeOK, SupTypeOK
<1>2. child[s].log \o lines \in Seq(Events)
  <2>1. child[s].log \in Seq(Events)
    BY <1>1 DEF ChildRec
  <2>2. QED
    BY <2>1, ConcatProperties
<1>3. QED
  BY <1>1, <1>2 DEF Writes, ChildRec

\* So does the record of a process that has ended.
LEMMA DeadType ==
  ASSUME TypeInv, NEW s \in SlotNames, NEW life \in Lives, NEW lines \in Seq(Events)
  PROVE  /\ Dead(s, life, lines) \in ChildRec
         /\ Dead(s, life, lines).id = child[s].id /\ Dead(s, life, lines).life = life
         /\ Dead(s, life, lines).log = child[s].log \o lines
         /\ ~Dead(s, life, lines).backed /\ ~Dead(s, life, lines).untold
<1>1. child[s] \in ChildRec
  BY DEF TypeInv, TypeOK, SupTypeOK
<1>2. child[s].log \o lines \in Seq(Events)
  <2>1. child[s].log \in Seq(Events)
    BY <1>1 DEF ChildRec
  <2>2. QED
    BY <2>1, ConcatProperties
<1>3. /\ NoChild \in ChildRec /\ ~NoChild.backed /\ ~NoChild.untold
      /\ child[s].id \in Work \cup {NoWork}
  BY <1>1, IdleRecords DEF ChildRec, NoChild
<1>4. QED
  BY <1>2, <1>3 DEF Dead, ChildRec

\* The logs a process writes are lists of events.
LEMMA LinesAreEvents ==
  {<<>>, <<"loop">>, <<"backup">>, <<"resumed", "backup", "loop">>, <<"eval_finished">>,
   <<"pause_at">>, <<"pause_none">>} \subseteq Seq(Events)
BY DEF Events

\* What a child, its tailer or a request never writes keeps its type.
LEMMA ProcessFrame ==
  ASSUME TypeInv, UNCHANGED <<held, version, daemon, sup, others>>,
         row' \in [Work -> Row], disk' \in SUBSET Work,
         slot' \in [SlotNames -> SlotRec],
         child' \in [SlotNames -> ChildRec] /\ ProcessesNameWork'
  PROVE  TypeInv'
BY DEF TypeInv, TypeOK, SupTypeOK, SupNamesWork, ReadersNameWork, RequestsNameWork,
       daemon, others, host

\* A step that replaces one process record.
LEMMA ChildFrame ==
  ASSUME TypeInv, UNCHANGED <<ledger, slot, daemon, sup, others>>,
         NEW s \in SlotNames, NEW new \in ChildRec, child' = [child EXCEPT ![s] = new],
         new.id = child[s].id, child[s].life # "none"
  PROVE  TypeInv'
BY ProcessFrame DEF TypeInv, TypeOK, SupTypeOK, ProcessesNameWork, ledger

\* A process that ends.
LEMMA DeadKeepsTypes ==
  ASSUME TypeInv, UNCHANGED <<ledger, slot, daemon, sup, others>>,
         NEW s \in SlotNames, NEW life \in {"completed", "paused", "crashed", "killed"},
         NEW lines \in Seq(Events), child' = [child EXCEPT ![s] = Dead(s, life, lines)],
         child[s].life # "none"
  PROVE  TypeInv'
<1> DEFINE new == Dead(s, life, lines)
<1>1. life \in Lives
  BY DEF Lives
<1>2. new \in ChildRec /\ new.id = child[s].id
  BY <1>1, DeadType
<1>3. child' = [child EXCEPT ![s] = new]
  OBVIOUS
<1> HIDE DEF new
<1>4. QED
  BY <1>2, <1>3, ChildFrame

\* Each step of a child keeps the types.
LEMMA ChildType == \A s \in SlotNames : TypeInv /\ ChildStep(s) => TypeInv'
<1> SUFFICES ASSUME NEW s \in SlotNames, TypeInv, ChildStep(s)
             PROVE  TypeInv'
  OBVIOUS
<1>0. /\ row \in [Work -> Row] /\ disk \in SUBSET Work /\ slot \in [SlotNames -> SlotRec]
      /\ child \in [SlotNames -> ChildRec] /\ child[s] \in ChildRec
      /\ ProcessesNameWork
  BY DEF TypeInv, TypeOK, SupTypeOK
<1>a. child[s].life = "alive" /\ child[s].id \in Work
  BY <1>0 DEF ChildStep, LoopStarts, InLoop, BackupReplaced, BackupRemembered, BackupTold, Dead, ChildCompletes, ChildPauses, ChildCrashes,
              ChildKilled, Training, Alive, ProcessesNameWork
<1>1. CASE LoopStarts(s)
  <2> DEFINE resumed == child[s].resume /\ child[s].id \in disk
             lines == IF resumed THEN <<"resumed", "backup", "loop">> ELSE <<"loop">>
             new == [Writes(s, lines) EXCEPT !.looping = TRUE, !.backed = resumed]
  <2>1. Writes(s, lines) \in ChildRec /\ Writes(s, lines).id = child[s].id /\ resumed \in BOOLEAN
    BY WritesType, LinesAreEvents
  <2> HIDE DEF lines, resumed
  <2>2. new \in ChildRec /\ new.id = child[s].id
    BY <2>1 DEF ChildRec
  <2>3. child' = [child EXCEPT ![s] = new]
    BY <1>1 DEF LoopStarts, lines, resumed
  <2> HIDE DEF new
  <2>4. QED
    BY <1>1, <1>a, <2>2, <2>3, ChildFrame DEF LoopStarts
<1>2. CASE BackupReplaced(s)
  <2> DEFINE new == [child[s] EXCEPT !.untold = TRUE]
  <2>2. new \in ChildRec /\ new.id = child[s].id
    BY <1>0 DEF ChildRec
  <2>3. child' \in [SlotNames -> ChildRec] /\ ProcessesNameWork'
    BY <1>2, <1>0, <1>a, <2>2 DEF BackupReplaced, ProcessesNameWork
  <2>4. disk' \in SUBSET Work
    BY <1>2, <1>0, <1>a DEF BackupReplaced
  <2>5. QED
    BY <1>2, <1>0, <2>3, <2>4, ProcessFrame DEF BackupReplaced
<1>8. CASE BackupRemembered(s)
  <2> DEFINE new == [child[s] EXCEPT !.backed = TRUE]
  <2>2. new \in ChildRec /\ new.id = child[s].id
    BY <1>0 DEF ChildRec
  <2>3. child' = [child EXCEPT ![s] = new]
    BY <1>8, <1>0 DEF BackupRemembered
  <2> HIDE DEF new
  <2>4. QED
    BY <1>8, <1>a, <2>2, <2>3, ChildFrame DEF BackupRemembered
<1>9. CASE BackupTold(s)
  <2> DEFINE new == [Writes(s, <<"backup">>) EXCEPT !.untold = FALSE]
  <2>1. Writes(s, <<"backup">>) \in ChildRec /\ Writes(s, <<"backup">>).id = child[s].id
    BY WritesType, LinesAreEvents
  <2>2. new \in ChildRec /\ new.id = child[s].id
    BY <2>1 DEF ChildRec
  <2>3. child' = [child EXCEPT ![s] = new]
    BY <1>9 DEF BackupTold
  <2> HIDE DEF new
  <2>4. QED
    BY <1>9, <1>a, <2>2, <2>3, ChildFrame DEF BackupTold
<1>3. CASE ChildCompletes(s)
  <2> DEFINE lines == IF Training(s) THEN <<"eval_finished">> ELSE <<>>
  <2>1. lines \in Seq(Events)
    BY LinesAreEvents
  <2>2. /\ child' = [child EXCEPT ![s] = Dead(s, "completed", lines)]
        /\ UNCHANGED <<ledger, slot, daemon, sup, others>>
    BY <1>3 DEF ChildCompletes
  <2> HIDE DEF lines
  <2>3. QED
    BY <1>a, <2>1, <2>2, DeadKeepsTypes
<1>4. CASE ChildPauses(s)
  <2> DEFINE lines == IF child[s].backed THEN <<"pause_at">> ELSE <<"pause_none">>
  <2>1. lines \in Seq(Events)
    BY LinesAreEvents
  <2>2. /\ child' = [child EXCEPT ![s] = Dead(s, "paused", lines)]
        /\ UNCHANGED <<ledger, slot, daemon, sup, others>>
    BY <1>4 DEF ChildPauses
  <2> HIDE DEF lines
  <2>3. QED
    BY <1>a, <2>1, <2>2, DeadKeepsTypes
<1>5. CASE ChildCrashes(s)
  BY <1>5, <1>a, LinesAreEvents, DeadKeepsTypes DEF ChildCrashes
<1>6. CASE ChildKilled(s)
  BY <1>6, <1>a, LinesAreEvents, DeadKeepsTypes DEF ChildKilled
<1>7. QED
  BY <1>1, <1>2, <1>3, <1>4, <1>5, <1>6, <1>8, <1>9 DEF ChildStep

\* A line that reaches the supervisor's callback keeps the types.
LEMMA TailerType == \A s \in SlotNames : TypeInv /\ TailerReads(s) => TypeInv'
<1> SUFFICES ASSUME NEW s \in SlotNames, TypeInv, TailerReads(s)
             PROVE  TypeInv'
  OBVIOUS
<1>0. /\ row \in [Work -> Row] /\ disk \in SUBSET Work /\ slot \in [SlotNames -> SlotRec]
      /\ child \in [SlotNames -> ChildRec] /\ child[s] \in ChildRec
      /\ slot[s].id \in Work /\ ProcessesNameWork
  BY DEF TypeInv, TypeOK, SupTypeOK, TailerReads, Busy, SlotRec
<1>1. child' \in [SlotNames -> ChildRec] /\ ProcessesNameWork'
  <2>1. Tail(child[s].log) \in Seq(Events)
    BY <1>0, HeadTailProperties DEF TailerReads, ChildRec
  <2>2. [child[s] EXCEPT !.log = Tail(@)] \in ChildRec
    BY <1>0, <2>1 DEF ChildRec
  <2>3. QED
    BY <1>0, <2>2 DEF TailerReads, ProcessesNameWork
<1>2. slot' \in [SlotNames -> SlotRec]
  <2>1. \/ slot' = slot
        \/ slot' = [slot EXCEPT ![s].loop = TRUE]
        \/ slot' = [slot EXCEPT ![s].path = TRUE]
        \/ slot' = [slot EXCEPT ![s].evalFin = TRUE]
    BY DEF TailerReads
  <2>2. /\ [slot[s] EXCEPT !.loop = TRUE] \in SlotRec
        /\ [slot[s] EXCEPT !.path = TRUE] \in SlotRec
        /\ [slot[s] EXCEPT !.evalFin = TRUE] \in SlotRec
    BY <1>0 DEF SlotRec
  <2>3. QED
    BY <1>0, <2>1, <2>2
<1>3. row' \in [Work -> Row]
  <2> DEFINE w == slot[s].id
  <2>1. [row[w] EXCEPT !.last = TRUE] \in Row /\ [row[w] EXCEPT !.paused = FALSE] \in Row
    BY <1>0 DEF Row
  <2>2. \/ row' = row
        \/ row' = Update(row, w, [row[w] EXCEPT !.last = TRUE])
        \/ row' = Update(row, w, [row[w] EXCEPT !.paused = FALSE])
    BY DEF TailerReads
  <2>3. QED
    BY <1>0, <2>1, <2>2, UpdateType
<1>4. QED
  BY <1>0, <1>1, <1>2, <1>3, ProcessFrame DEF TailerReads

\* What the daemon's side never writes keeps its type.
LEMMA DaemonFrame ==
  ASSUME TypeInv, UNCHANGED <<held, version, disk, procs, sup, others>>,
         row' \in [Work -> Row], dmn' \in DaemonRec, dmnTask' \in Work \cup {NoWork},
         dmnCancel' \in BOOLEAN, fin' \in [Readers -> FinRec] /\ ReadersNameWork'
  PROVE  TypeInv'
BY DEF TypeInv, TypeOK, SupTypeOK, SupNamesWork, ProcessesNameWork, RequestsNameWork, procs,
       others, host

\* Each step of the daemon, of its timers and of its reader threads keeps the types.
LEMMA DaemonType ==
  TypeInv /\ (DaemonStep \/ DaemonExits \/ IdleTimeout \/ \E r \in Readers : Finalize(r))
    => TypeInv'
<1> SUFFICES ASSUME TypeInv,
                    DaemonStep \/ DaemonExits \/ IdleTimeout \/ \E r \in Readers : Finalize(r)
             PROVE  TypeInv'
  OBVIOUS
<1>0. /\ row \in [Work -> Row] /\ dmn \in DaemonRec /\ dmnTask \in Work \cup {NoWork}
      /\ dmnCancel \in BOOLEAN /\ fin \in [Readers -> FinRec] /\ ReadersNameWork
  BY DEF TypeInv, TypeOK, SupTypeOK
<1>d. /\ dmn.active \in Work \cup {NoWork} /\ dmn.reader \in Readers
      /\ dmn.unloads \in 0..MaxUnloads /\ dmn.ahead \in 0..MaxUnloads
  BY <1>0 DEF DaemonRec
<1>1. CASE DaemonReady
  BY <1>1, <1>0, DaemonFrame DEF DaemonReady, DaemonRec, ledger, ReadersNameWork
<1>2. CASE ModelLoaded
  BY <1>2, <1>0, DaemonFrame DEF ModelLoaded, DaemonRec, ledger, ReadersNameWork
<1>3. CASE ModelUnloaded
  <2>1. dmn.unloads - 1 \in 0..MaxUnloads /\ AheadAfterUnload \in 0..MaxUnloads
    BY <1>3, <1>d, BoundAssumption DEF ModelUnloaded, AheadAfterUnload
  <2>2. dmn' \in DaemonRec
    BY <1>3, <1>0, <2>1 DEF ModelUnloaded, DaemonRec
  <2>3. QED
    BY <1>3, <1>0, <2>2, DaemonFrame DEF ModelUnloaded, ledger, ReadersNameWork
<1>4. ASSUME NEW st \in TerminalStatuses, TaskEnds(st)
      PROVE  TypeInv'
  <2>1. dmn' \in DaemonRec
    BY <1>4, <1>0 DEF TaskEnds, DaemonRec
  <2>2. fin' \in [Readers -> FinRec]
    BY <1>4, <1>0, <1>d DEF TaskEnds, FinRec
  <2>3. ReadersNameWork'
    BY <1>4, <1>0, <1>d DEF TaskEnds, ReadersNameWork
  <2>4. QED
    BY <1>4, <1>0, <2>1, <2>2, <2>3, DaemonFrame DEF TaskEnds, ledger
<1>5. CASE DaemonExits
  <2>1. dmn' \in DaemonRec
    BY <1>5, <1>d, StoppedDaemonType DEF DaemonExits, DaemonRec
  <2> DEFINE new == IF dmn.active # NoWork /\ dmn.state # "unloading"
                      THEN [pc |-> "clear", w |-> dmn.active, st |-> "failed", exit |-> TRUE]
                      ELSE [IdleReader EXCEPT !.pc = "stopped"]
  <2>2. new \in FinRec /\ (new.pc \in {"clear", "write"} => new.w \in Work)
    BY <1>d, IdleRecords DEF FinRec, TerminalStatuses
  <2>3. fin' = [fin EXCEPT ![dmn.reader] = new]
    BY <1>5 DEF DaemonExits
  <2> HIDE DEF new
  <2>4. fin' \in [Readers -> FinRec] /\ ReadersNameWork'
    BY <1>0, <1>d, <2>2, <2>3 DEF ReadersNameWork
  <2>5. QED
    BY <1>5, <1>0, <2>1, <2>4, DaemonFrame DEF DaemonExits, ledger
<1>6. CASE IdleTimeout
  <2>1. dmn' \in DaemonRec
    BY <1>6, <1>0, RequestUnloadsType DEF IdleTimeout
  <2>2. QED
    BY <1>6, <1>0, <2>1, DaemonFrame DEF IdleTimeout, ledger, ReadersNameWork
<1>7. ASSUME NEW r \in Readers, FinClear(r)
      PROVE  TypeInv'
  <2>1. fin' \in [Readers -> FinRec] /\ ReadersNameWork'
    BY <1>7, <1>0 DEF FinClear, FinRec, ReadersNameWork
  <2>2. dmnTask' \in Work \cup {NoWork} /\ dmnCancel' \in BOOLEAN
    BY <1>7, <1>0 DEF FinClear, Released
  <2>3. QED
    BY <1>7, <1>0, <2>1, <2>2, DaemonFrame DEF FinClear, ledger
<1>8. ASSUME NEW r \in Readers, FinWrite(r)
      PROVE  TypeInv'
  <2>1. fin[r].w \in Work /\ fin[r].st \in TerminalStatuses
    BY <1>8, <1>0 DEF FinWrite, FinRec, ReadersNameWork
  <2>2. row' \in [Work -> Row]
    BY <1>8, <1>0, <2>1, WithStatusType, StatusFacts DEF FinWrite
  <2>3. IdleReader \in FinRec /\ [IdleReader EXCEPT !.pc = "stopped"] \in FinRec
    BY IdleRecords DEF FinRec
  <2>4. fin' \in [Readers -> FinRec]
    BY <1>8, <1>0, <2>3 DEF FinWrite
  <2>5. ReadersNameWork'
    BY <1>8, <1>0 DEF FinWrite, ReadersNameWork, IdleReader
  <2>6. QED
    BY <1>8, <1>0, <2>2, <2>4, <2>5, DaemonFrame DEF FinWrite
<1>9. ASSUME NEW r \in Readers, FinStopped(r)
      PROVE  TypeInv'
  <2> DEFINE new == IF ~TaskLeftBehind THEN IdleReader
                    ELSE [pc |-> "clear", w |-> dmnTask,
                          st |-> IF dmnCancel THEN "canceled" ELSE "failed", exit |-> FALSE]
  <2>1. new \in FinRec /\ (new.pc \in {"clear", "write"} => new.w \in Work)
    BY <1>0, IdleRecords DEF FinRec, TerminalStatuses, TaskLeftBehind, IdleReader
  <2>2. fin' = [fin EXCEPT ![r] = new]
    BY <1>9 DEF FinStopped
  <2> HIDE DEF new
  <2>3. fin' \in [Readers -> FinRec] /\ ReadersNameWork'
    BY <1>0, <2>1, <2>2 DEF ReadersNameWork
  <2>4. QED
    BY <1>9, <1>0, <2>3, DaemonFrame DEF FinStopped, ledger
<1>10. QED
  BY <1>1, <1>2, <1>3, <1>4, <1>5, <1>6, <1>7, <1>8, <1>9 DEF DaemonStep, Finalize

--------------------------------------------------------------------------------
(* Types: requests *)

\* A thread that serves no request.
LEMMA IdleThreadType == IdleThread \in ThreadRec /\ IdleThread.op = "none"
<1>1. NewRow("train", "absent", FALSE) \in Row
  BY NewRowType DEF Kinds, TaskKinds, Statuses, NoRowStatuses
<1>2. "none" \in ThreadOps /\ "train" \in SlotNames /\ "absent" \in Statuses
  BY DEF ThreadOps, SlotNames, Statuses, NoRowStatuses
<1>3. QED
  BY <1>1, <1>2 DEF IdleThread, ThreadRec

\* A request that returns, or goes on with a row, leaves the threads well typed.
LEMMA ReplyType ==
  ASSUME TypeInv, NEW t \in Threads, Reply(t)
  PROVE  api' \in [Threads -> ThreadRec] /\ RequestsNameWork'
BY IdleThreadType DEF TypeInv, TypeOK, Reply, RequestsNameWork

\* A request that goes on names a step and a row.
LEMMA ContinueType ==
  ASSUME TypeInv, NEW t \in Threads, NEW op \in ThreadOps \ {"resume_version"},
         NEW w \in Work, op = "resume_derive" => VersionOf[w] # NoVersion,
         Continue(t, op, w)
  PROVE  api' \in [Threads -> ThreadRec] /\ RequestsNameWork'
<1> DEFINE new == [IdleThread EXCEPT !.op = op, !.w = w]
<1>1. new \in ThreadRec /\ new.op = op /\ new.w = w
  BY IdleThreadType DEF ThreadRec
<1>2. api' = [api EXCEPT ![t] = new]
  BY DEF Continue
<1> HIDE DEF new
<1>3. QED
  BY <1>1, <1>2 DEF TypeInv, TypeOK, RequestsNameWork, ThreadOps

\* What a request never writes keeps its type.
LEMMA RequestFrame ==
  ASSUME TypeInv, UNCHANGED <<dmnTask, fin, sup, host>>,
         row' \in [Work -> Row], held' \in BOOLEAN,
         version' \in [Versions -> VersionStatuses], disk' \in SUBSET Work,
         slot' \in [SlotNames -> SlotRec],
         child' \in [SlotNames -> ChildRec] /\ ProcessesNameWork',
         dmn' \in DaemonRec, dmnCancel' \in BOOLEAN,
         api' \in [Threads -> ThreadRec] /\ RequestsNameWork'
  PROVE  TypeInv'
BY DEF TypeInv, TypeOK, SupTypeOK, SupNamesWork, ReadersNameWork, host

\* A step of a request that only moves on, and one that writes the table.
LEMMA RequestMoves ==
  ASSUME TypeInv, UNCHANGED supVars, api' \in [Threads -> ThreadRec] /\ RequestsNameWork'
  PROVE  TypeInv'
BY RequestFrame DEF TypeInv, TypeOK, SupTypeOK, ProcessesNameWork, supVars, ledger, procs, daemon

\* A step of a request that writes the table keeps the types if the rows do.
LEMMA RequestWrites ==
  ASSUME TypeInv, UNCHANGED <<held, version, disk, procs, daemon, sup, host>>,
         row' \in [Work -> Row], api' \in [Threads -> ThreadRec] /\ RequestsNameWork'
  PROVE  TypeInv'
BY RequestFrame DEF TypeInv, TypeOK, SupTypeOK, ProcessesNameWork, procs, daemon

\* Every step of an endpoint that has started keeps the types.
LEMMA ProceedType == \A t \in Threads : TypeInv /\ Proceed(t) => TypeInv'
<1> SUFFICES ASSUME NEW t \in Threads, TypeInv, Proceed(t)
             PROVE  TypeInv'
  OBVIOUS
<1> DEFINE ApiType == api \in [Threads -> ThreadRec] /\ RequestsNameWork
<1>0. /\ row \in [Work -> Row] /\ held \in BOOLEAN /\ version \in [Versions -> VersionStatuses]
      /\ disk \in SUBSET Work /\ slot \in [SlotNames -> SlotRec]
      /\ child \in [SlotNames -> ChildRec] /\ ProcessesNameWork
      /\ dmn \in DaemonRec /\ dmnTask \in Work \cup {NoWork} /\ dmnCancel \in BOOLEAN
      /\ api \in [Threads -> ThreadRec] /\ RequestsNameWork
  BY DEF TypeInv, TypeOK, SupTypeOK
<1>w. api[t].w \in Work /\ api[t].s \in SlotNames
  <2>1. api[t].op # "none"
    BY DEF Proceed, AtOp, SetType, SetConfig, EnqueueFails, CancelWrite, CancelClear, CancelFind,
           CancelSlot, CancelDaemon, PauseSlot, ResumeWrite, ResumeDerive, ResumeVersion,
           StartWrite, DeleteWrite, DeleteFiles, ClearEvalWrite, RetryCopy
  <2>2. QED
    BY <1>0, <2>1 DEF RequestsNameWork, ThreadRec
<1>s. \A st \in TerminalStatuses \cup {"pending", "deleted"} :
         WriteStatus(api[t].w, st) => row' \in [Work -> Row]
  BY <1>0, <1>w, WithStatusType, StatusFacts DEF WriteStatus
<1>1. CASE SetType(t)
  <2>1. [row[api[t].w] EXCEPT !.type = KindOf[api[t].w]] \in Row
    BY <1>0, <1>w, KindAssumption DEF Row
  <2>2. row' \in [Work -> Row]
    BY <1>1, <1>0, <1>w, <2>1, UpdateType DEF SetType
  <2>3. ApiType'
    BY <1>1, <1>w, ContinueType DEF SetType, ThreadOps
  <2>4. QED
    BY <1>1, <2>2, <2>3, RequestWrites DEF SetType
<1>2. CASE SetConfig(t)
  <2>1. [row[api[t].w] EXCEPT !.cfg = TRUE] \in Row
    BY <1>0, <1>w DEF Row
  <2>2. row' \in [Work -> Row]
    BY <1>2, <1>0, <1>w, <2>1, UpdateType DEF SetConfig
  <2>3. QED
    BY <1>2, <2>2, ReplyType, RequestWrites DEF SetConfig
<1>3. CASE EnqueueFails(t)
  BY <1>3, <1>s, ReplyType, RequestWrites DEF EnqueueFails, TerminalStatuses
<1>4. CASE CancelWrite(t)
  BY <1>4, <1>s, ReplyType, RequestWrites DEF CancelWrite, TerminalStatuses
<1>5. CASE CancelClear(t)
  <2>1. [row[api[t].w] EXCEPT !.paused = FALSE] \in Row
    BY <1>0, <1>w DEF Row
  <2>2. row' \in [Work -> Row]
    BY <1>5, <1>0, <1>w, <2>1, UpdateType DEF CancelClear
  <2>3. ApiType'
    BY <1>5, <1>w, ContinueType DEF CancelClear, ThreadOps
  <2>4. QED
    BY <1>5, <2>2, <2>3, RequestWrites DEF CancelClear
<1>6. CASE CancelFind(t)
  <2>1. ApiType'
    <3>1. CASE \E s \in SlotNames : api' = [api EXCEPT ![t].op = "cancel_slot", ![t].s = s]
      <4>1. PICK s \in SlotNames : api' = [api EXCEPT ![t].op = "cancel_slot", ![t].s = s]
        BY <3>1
      <4> DEFINE new == [api[t] EXCEPT !.op = "cancel_slot", !.s = s]
      <4>2. new \in ThreadRec /\ new.w = api[t].w /\ new.op = "cancel_slot"
        BY <1>0 DEF ThreadRec, ThreadOps
      <4>3. api' = [api EXCEPT ![t] = new]
        BY <1>0, <4>1
      <4> HIDE DEF new
      <4>4. QED
        BY <1>0, <1>w, <4>2, <4>3 DEF RequestsNameWork
    <3>2. CASE Continue(t, "cancel_daemon", api[t].w)
      BY <3>2, <1>w, ContinueType DEF ThreadOps
    <3>3. CASE Reply(t)
      BY <3>3, ReplyType
    <3>4. QED
      BY <1>6, <3>1, <3>2, <3>3 DEF CancelFind
  <2>2. dmnCancel' \in BOOLEAN
    BY <1>6, <1>0 DEF CancelFind
  <2>3. QED
    BY <1>6, <1>0, <2>1, <2>2, RequestFrame DEF CancelFind, ProcessesNameWork, ledger, procs
<1>7. CASE CancelSlot(t)
  <2> DEFINE s == api[t].s
             ended(b) == [child[s] EXCEPT !.term = b]
  <2>1. s \in SlotNames /\ slot[s] \in SlotRec /\ child[s] \in ChildRec
    BY <1>0, <1>w
  <2>2. /\ [slot[s] EXCEPT !.cancel = TRUE] \in SlotRec
        /\ \A b \in BOOLEAN : /\ ended(b) \in ChildRec
                              /\ ended(b).id = child[s].id /\ ended(b).life = child[s].life
    BY <2>1 DEF SlotRec, ChildRec
  <2>3. slot' \in [SlotNames -> SlotRec]
    BY <1>7, <1>0, <2>1, <2>2 DEF CancelSlot, procs
  <2>4. child' = child \/ \E b \in BOOLEAN : child' = [child EXCEPT ![s] = ended(b)]
    <3>1. (child[s].term \/ Alive(s)) \in BOOLEAN
      OBVIOUS
    <3>2. QED
      BY <1>7, <3>1 DEF CancelSlot, procs
  <2> HIDE DEF ended
  <2>5. child' \in [SlotNames -> ChildRec] /\ ProcessesNameWork'
    BY <1>0, <2>1, <2>2, <2>4 DEF ProcessesNameWork
  <2>6. QED
    BY <1>7, <1>0, <2>3, <2>5, ReplyType, RequestFrame DEF CancelSlot, ledger, daemon
<1>8. CASE CancelDaemon(t)
  <2>1. dmn' \in DaemonRec
    BY <1>8, <1>0 DEF CancelDaemon, DaemonRec
  <2>2. QED
    BY <1>8, <1>0, <2>1, ReplyType, RequestFrame DEF CancelDaemon, ProcessesNameWork, ledger, procs
<1>9. CASE PauseSlot(t)
  <2>1. slot' \in [SlotNames -> SlotRec]
    BY <1>9, <1>0 DEF PauseSlot, SlotRec, SlotNames
  <2>2. child' \in [SlotNames -> ChildRec]
    <3>1. CASE child["train"].ints < 2
      <4>1. [child["train"] EXCEPT !.ints = @ + 1] \in ChildRec
        BY <1>0, <3>1 DEF ChildRec, SlotNames
      <4>2. QED
        BY <1>9, <1>0, <4>1 DEF PauseSlot
    <3>2. CASE ~(child["train"].ints < 2)
      BY <1>9, <1>0, <3>2 DEF PauseSlot
    <3>3. QED
      BY <3>1, <3>2
  <2>3. ProcessesNameWork'
    BY <1>9, <1>0 DEF PauseSlot, ProcessesNameWork, SlotNames, ChildRec
  <2>4. QED
    BY <1>9, <1>0, <2>1, <2>2, <2>3, ReplyType, RequestFrame DEF PauseSlot, ledger, daemon
<1>10. CASE ResumeWrite(t)
  <2> DEFINE revived == api[t].seen # "paused"
  <2>1. \A b \in BOOLEAN : [row[api[t].w] EXCEPT !.status = "pending", !.paused = b] \in Row
    BY <1>0, <1>w, StatusFacts DEF Row
  <2>2. (row[api[t].w].paused \/ revived) \in BOOLEAN
    OBVIOUS
  <2>3. row' \in [Work -> Row]
    BY <1>10, <1>0, <1>w, <2>1, <2>2, UpdateType DEF ResumeWrite
  <2>4. ApiType'
    <3>1. CASE Continue(t, "resume_derive", api[t].w) /\ VersionOf[api[t].w] # NoVersion
      BY <3>1, <1>w, ContinueType DEF ThreadOps
    <3>2. CASE Reply(t)
      BY <3>2, ReplyType
    <3>3. QED
      BY <1>10, <3>1, <3>2 DEF ResumeWrite
  <2>5. QED
    BY <1>10, <2>3, <2>4, RequestWrites DEF ResumeWrite
<1>11. CASE ResumeDerive(t)
  <2> DEFINE new == [api[t] EXCEPT !.op = "resume_version",
                                   !.seen = DerivedVersionStatus(row, VersionOf[api[t].w])]
  <2>1. /\ new \in ThreadRec /\ new.w = api[t].w /\ new.seen \in VersionStatuses
        /\ VersionOf[new.w] # NoVersion
    BY <1>11, <1>0, StatusFacts DEF ResumeDerive, AtOp, ThreadRec, ThreadOps, RequestsNameWork
  <2>2. api' = [api EXCEPT ![t] = new]
    BY <1>11, <1>0 DEF ResumeDerive
  <2> HIDE DEF new
  <2>3. ApiType'
    BY <1>0, <1>w, <2>1, <2>2 DEF RequestsNameWork
  <2>4. QED
    BY <1>11, <2>3, RequestMoves DEF ResumeDerive
<1>12. CASE ResumeVersion(t)
  <2>1. VersionOf[api[t].w] \in Versions /\ api[t].seen \in VersionStatuses
    BY <1>12, <1>0, <1>w DEF ResumeVersion, AtOp, RequestsNameWork, Versions
  <2>2. version' \in [Versions -> VersionStatuses]
    BY <1>12, <1>0, <2>1 DEF ResumeVersion
  <2>3. QED
    BY <1>12, <1>0, <2>2, ReplyType, RequestFrame DEF ResumeVersion, ProcessesNameWork, procs, daemon
<1>13. CASE StartWrite(t)
  BY <1>13, <1>s, ReplyType, RequestWrites DEF StartWrite
<1>14. CASE DeleteWrite(t)
  <2>1. row[api[t].w].type \in Kinds /\ row[api[t].w].cfg \in BOOLEAN
    BY <1>0, <1>w DEF Row
  <2>2. DeletedRow(api[t].w) \in Row
    BY <2>1, NewRowType, StatusFacts DEF DeletedRow
  <2>3. row' \in [Work -> Row]
    BY <1>14, <1>0, <1>w, <2>2, UpdateType DEF DeleteWrite
  <2>4. ApiType'
    BY <1>14, <1>w, ContinueType DEF DeleteWrite, ThreadOps
  <2>5. QED
    BY <1>14, <2>3, <2>4, RequestWrites DEF DeleteWrite
<1>17. CASE DeleteFiles(t)
  <2>1. [row[api[t].w] EXCEPT !.cfg = FALSE] \in Row
    BY <1>0, <1>w DEF Row
  <2>2. row' \in [Work -> Row]
    BY <1>17, <1>0, <1>w, <2>1 DEF DeleteFiles
  <2>3. QED
    BY <1>17, <1>0, <2>2, ReplyType, RequestFrame DEF DeleteFiles, ProcessesNameWork, procs, daemon
<1>18. CASE RetryCopy(t)
  <2> DEFINE read == api[t].read
             file == row[api[t].w].cfg
  <2>1. read \in Row /\ file \in BOOLEAN
    BY <1>0, <1>w DEF ThreadRec, Row
  <2>2. CopyOf(read, file) \in Row
    <3>1. /\ read.type \in Kinds /\ (read.cfg /\ file) \in BOOLEAN /\ read.prio \in 0..MaxPrio
      BY <2>1 DEF Row
    <3>2. NewRow(read.type, "pending", read.cfg /\ file) \in Row
      BY <3>1, NewRowType, StatusFacts
    <3>3. QED
      BY <3>1, <3>2 DEF CopyOf, Row
  <2>3. row' \in [Work -> Row]
    <3>1. row' = row \/ \E new \in Work : row' = [row EXCEPT ![new] = CopyOf(read, file)]
      BY <1>18 DEF RetryCopy
    <3> HIDE DEF read, file
    <3>2. QED
      BY <1>0, <2>2, <3>1
  <2>4. QED
    BY <1>18, <2>3, ReplyType, RequestWrites DEF RetryCopy
<1>15. CASE ClearEvalWrite(t)
  BY <1>15, <1>s, ReplyType, RequestWrites DEF ClearEvalWrite, TerminalStatuses
<1>16. QED
  BY <1>1, <1>2, <1>3, <1>4, <1>5, <1>6, <1>7, <1>8, <1>9, <1>10, <1>11, <1>12, <1>13, <1>14,
     <1>15, <1>17, <1>18 DEF Proceed

\* Every endpoint's first step, and the ones that are a single step, keep the types.
LEMMA RequestType == \A t \in Threads : TypeInv /\ Request(t) => TypeInv'
<1> SUFFICES ASSUME NEW t \in Threads, TypeInv, Request(t)
             PROVE  TypeInv'
  OBVIOUS
<1> DEFINE ApiType == api \in [Threads -> ThreadRec] /\ RequestsNameWork
<1>0. /\ row \in [Work -> Row] /\ held \in BOOLEAN /\ version \in [Versions -> VersionStatuses]
      /\ disk \in SUBSET Work /\ slot \in [SlotNames -> SlotRec]
      /\ child \in [SlotNames -> ChildRec] /\ ProcessesNameWork
      /\ dmn \in DaemonRec /\ dmnCancel \in BOOLEAN
      /\ api \in [Threads -> ThreadRec] /\ RequestsNameWork
  BY DEF TypeInv, TypeOK, SupTypeOK
<1>k. \A w \in Work : KindOf[w] \in Kinds
  BY KindAssumption
<1>c. \A w \in Work :
        \A op \in {"cancel_write", "cancel_clear", "cancel_find", "pause_slot", "start_write",
                   "delete_write", "clear_write", "enqueue_type"} :
          Continue(t, op, w) => ApiType'
  <2> SUFFICES ASSUME NEW w \in Work,
                      NEW op \in {"cancel_write", "cancel_clear", "cancel_find", "pause_slot",
                                  "start_write", "delete_write", "clear_write", "enqueue_type"},
                      Continue(t, op, w)
               PROVE  ApiType'
    OBVIOUS
  <2>1. op \in ThreadOps \ {"resume_version"} /\ op # "resume_derive"
    BY DEF ThreadOps
  <2>2. QED
    BY <2>1, ContinueType
<1>1. ASSUME NEW w \in Work, Enqueue(t, w)
      PROVE  TypeInv'
  <2>1. \A st \in {"pending", "scheduled"} : NewRow(KindOf[w], st, KindOf[w] = "train") \in Row
    BY <1>k, NewRowType, StatusFacts
  <2>2. row' \in [Work -> Row]
    BY <1>1, <1>0, <2>1 DEF Enqueue
  <2>3. ApiType'
    BY <1>1, <1>0 DEF Enqueue, RequestsNameWork
  <2>4. QED
    BY <1>1, <2>2, <2>3, RequestWrites DEF Enqueue
<1>2. ASSUME NEW w \in Work, CreateDefault(t, w)
      PROVE  TypeInv'
  <2>1. NewRow("train", "pending", FALSE) \in Row
    BY NewRowType, StatusFacts DEF Kinds, TaskKinds
  <2>2. row' \in [Work -> Row]
    BY <1>2, <1>0, <2>1 DEF CreateDefault
  <2>3. QED
    BY <1>2, <1>c, <2>2, RequestWrites DEF CreateDefault
<1>3. ASSUME NEW w \in Work, RetryBegin(t, w)
      PROVE  TypeInv'
  <2> DEFINE new == [IdleThread EXCEPT !.op = "retry_copy", !.w = w, !.read = row[w]]
  <2>1. new \in ThreadRec /\ new.w = w /\ new.op = "retry_copy"
    <3>1. "retry_copy" \in ThreadOps /\ row[w] \in Row /\ row[w].status \in Statuses
      BY <1>0 DEF Row, ThreadOps
    <3>2. QED
      BY <3>1, IdleThreadType DEF ThreadRec
  <2>2. api' = [api EXCEPT ![t] = new]
    BY <1>3 DEF RetryBegin
  <2> HIDE DEF new
  <2>3. ApiType'
    BY <1>0, <2>1, <2>2 DEF RequestsNameWork
  <2>4. QED
    BY <1>3, <2>3, RequestMoves DEF RetryBegin
<1>4. ASSUME NEW w \in Work, CancelBegin(t, w)
      PROVE  TypeInv'
  BY <1>4, <1>c, RequestMoves DEF CancelBegin
<1>5. ASSUME NEW w \in Work, PauseBegin(t, w)
      PROVE  TypeInv'
  BY <1>5, <1>c, RequestMoves DEF PauseBegin
<1>6. ASSUME NEW w \in Work, ResumeBegin(t, w)
      PROVE  TypeInv'
  <2> DEFINE new == [IdleThread EXCEPT !.op = "resume_write", !.w = w, !.seen = row[w].status]
  <2>1. new \in ThreadRec /\ new.w = w /\ new.op = "resume_write"
    <3>1. "resume_write" \in ThreadOps /\ row[w] \in Row /\ row[w].status \in Statuses
      BY <1>0 DEF Row, ThreadOps
    <3>2. QED
      BY <3>1, IdleThreadType DEF ThreadRec
  <2>2. api' = [api EXCEPT ![t] = new]
    BY <1>6 DEF ResumeBegin
  <2> HIDE DEF new
  <2>3. ApiType'
    BY <1>0, <2>1, <2>2 DEF RequestsNameWork
  <2>4. QED
    BY <1>6, <2>3, RequestMoves DEF ResumeBegin
<1>7. ASSUME NEW w \in Work, StartBegin(t, w)
      PROVE  TypeInv'
  BY <1>7, <1>c, RequestMoves DEF StartBegin
<1>8. ASSUME NEW w \in Work, DeleteBegin(t, w)
      PROVE  TypeInv'
  BY <1>8, <1>c, RequestMoves DEF DeleteBegin
<1>9. ASSUME NEW w \in Work, ClearEvalBegin(t, w)
      PROVE  TypeInv'
  BY <1>9, <1>c, RequestMoves DEF ClearEvalBegin
<1>10. CASE SetHeld(t)
  BY <1>10, <1>0, RequestFrame DEF SetHeld, ProcessesNameWork, RequestsNameWork, procs, daemon
<1>11. CASE UnloadDaemon(t)
  <2>1. dmn' \in DaemonRec
    BY <1>11, <1>0, RequestUnloadsType DEF UnloadDaemon
  <2>2. QED
    BY <1>11, <1>0, <2>1, RequestFrame DEF UnloadDaemon, ProcessesNameWork, RequestsNameWork,
       ledger, procs
<1>12. ASSUME NEW ids \in Seq(Work), Reorder(t, ids)
      PROVE  TypeInv'
  <2>1. row' \in [Work -> Row]
    BY <1>12, <1>0, ReorderedType DEF Reorder
  <2>2. ApiType'
    BY <1>12, <1>0 DEF Reorder, RequestsNameWork
  <2>3. QED
    BY <1>12, <2>1, <2>2, RequestWrites DEF Reorder
<1>13. QED
  <2>1. \A u, w \in Work : (IF u = w THEN <<u>> ELSE <<u, w>>) \in Seq(Work)
    OBVIOUS
  <2>2. QED
    BY <1>1, <1>2, <1>3, <1>4, <1>5, <1>6, <1>7, <1>8, <1>9, <1>10, <1>11, <1>12, <2>1 DEF Request

--------------------------------------------------------------------------------
(* Types: the whole *)

\* What happens outside the server, and the end of the server, keep the types.
LEMMA OutsideType == TypeInv /\ (Host \/ ServerStops \/ ServerCrashes) => TypeInv'
<1> SUFFICES ASSUME TypeInv, Host \/ ServerStops \/ ServerCrashes
             PROVE  TypeInv'
  OBVIOUS
<1> USE DEF TypeInv, TypeOK, SupTypeOK
<1>1. ASSUME NEW w \in Work, OrphanEnds(w)
      PROVE  TypeInv'
  BY <1>1 DEF OrphanEnds, SupNamesWork, ProcessesNameWork, ReadersNameWork, RequestsNameWork,
              ledger, procs, daemon
<1>2. ASSUME NEW w \in Work, OrphanEpochEnds(w)
      PROVE  TypeInv'
  BY <1>2 DEF OrphanEpochEnds, SupNamesWork, ProcessesNameWork, ReadersNameWork,
              RequestsNameWork, procs, daemon, others, host
<1>3. ASSUME NEW survivors \in SUBSET Work, ServerGone(survivors), crashes < MaxCrashes
      PROVE  TypeInv'
  <2>1. /\ slot' \in [SlotNames -> SlotRec] /\ child' \in [SlotNames -> ChildRec]
        /\ ProcessesNameWork' /\ fin' \in [Readers -> FinRec] /\ ReadersNameWork'
    BY <1>3, IdleRecords DEF ServerGone, ProcessesNameWork, ReadersNameWork, NoChild, IdleReader
  <2>2. dmn' \in DaemonRec /\ dmnTask' \in Work \cup {NoWork} /\ dmnCancel' \in BOOLEAN
    BY <1>3, StoppedDaemonType DEF ServerGone
  <2>3. sup' \in SupRec /\ SupNamesWork'
    BY <1>3, GotoType DEF ServerGone, SupSteps, WorkSteps, SlotNames
  <2>4. IdleThread \in ThreadRec /\ IdleThread.op = "none"
    BY IdleThreadType
  <2>5. api' \in [Threads -> ThreadRec] /\ RequestsNameWork'
    BY <1>3, <2>4 DEF ServerGone, RequestsNameWork
  <2>6. orphans' \in SUBSET Work /\ crashes' \in 0..MaxCrashes
    BY <1>3, BoundAssumption DEF ServerGone
  <2>7. UNCHANGED ledger
    BY <1>3 DEF ServerGone
  <2>8. QED
    BY <2>1, <2>2, <2>3, <2>5, <2>6, <2>7 DEF ledger
<1>4. \A s \in SlotNames : Alive(s) => child[s].id \in Work
  BY DEF ProcessesNameWork, Alive
<1>5. CASE ServerStops
  <2>1. {child[s].id : s \in {t \in SlotNames : Alive(t) /\ ~Busy(t)}} \in SUBSET Work
    BY <1>4
  <2>2. QED
    BY <1>3, <1>5, <2>1 DEF ServerStops
<1>6. CASE ServerCrashes
  <2>1. dmn.active \in Work \cup {NoWork}
    BY DEF DaemonRec
  <2>2. RunningProcs \in SUBSET Work
    BY <1>4, <2>1 DEF RunningProcs
  <2>3. QED
    BY <1>3, <1>6, <2>2 DEF ServerCrashes
<1>7. QED
  BY <1>1, <1>2, <1>5, <1>6 DEF Host

\* The initial state is well typed.
LEMMA InitType == Init => TypeInv
<1> SUFFICES ASSUME Init
             PROVE  TypeInv
  OBVIOUS
<1> USE DEF Init, SupInit
<1>1. \A w \in Work : InitRow(w) \in Row
  <2> SUFFICES ASSUME NEW w \in Work
               PROVE  InitRow(w) \in Row
    OBVIOUS
  <2>1. KindOf[w] \in Kinds /\ InitStatus[w] \in Statuses
    BY KindAssumption, InitAssumption DEF Statuses, ValidStatuses, NoRowStatuses
  <2>2. (KindOf[w] \in TaskKinds) \in BOOLEAN
    OBVIOUS
  <2>3. QED
    BY <2>1, <2>2, NewRowType DEF InitRow
<1>2. row \in [Work -> Row] /\ version \in [Versions -> VersionStatuses]
  BY <1>1, StatusFacts
<1>3. slot \in [SlotNames -> SlotRec] /\ child \in [SlotNames -> ChildRec] /\ ProcessesNameWork
  BY IdleRecords DEF ProcessesNameWork, NoChild
<1>4. dmn \in DaemonRec /\ fin \in [Readers -> FinRec] /\ ReadersNameWork
  BY IdleRecords, StoppedDaemonType DEF ReadersNameWork, IdleReader
<1>5. sup \in SupRec /\ SupNamesWork
  BY DEF SupRec, SupSteps, SlotNames, SupNamesWork, WorkSteps
<1>6. IdleThread \in ThreadRec /\ IdleThread.op = "none"
  BY IdleThreadType
<1>7. api \in [Threads -> ThreadRec] /\ RequestsNameWork
  BY <1>6 DEF RequestsNameWork
<1>8. /\ held \in BOOLEAN /\ disk \in SUBSET Work /\ dmnTask \in Work \cup {NoWork}
      /\ dmnCancel \in BOOLEAN /\ orphans \in SUBSET Work
  OBVIOUS
<1>9. crashes \in 0..MaxCrashes
  BY BoundAssumption
<1>10. QED
  BY <1>2, <1>3, <1>4, <1>5, <1>7, <1>8, <1>9 DEF TypeInv, TypeOK, SupTypeOK

\* Every step keeps the types.
LEMMA NextType == TypeInv /\ [Next]_vars => TypeInv'
<1>1. TypeInv /\ UNCHANGED vars => TypeInv'
  BY DEF TypeInv, TypeOK, SupTypeOK, SupNamesWork, ProcessesNameWork, ReadersNameWork,
         RequestsNameWork, vars, supVars, ledger, procs, daemon, host
<1>2. QED
  BY <1>1, SuperviseType, ChildType, TailerType, DaemonType, ProceedType, RequestType, OutsideType
  DEF Next

\* The type invariant of the queue, for every instance of it, together with what
\* each thread knows of the row it is about to write.
THEOREM TypeCorrect == Spec => []TypeOK
<1>1. Spec => []TypeInv
  BY InitType, NextType, PTL DEF Spec
<1>2. TypeInv => TypeOK
  BY DEF TypeInv
<1>3. QED
  BY <1>1, <1>2, PTL
================================================================================
