------------------------------ MODULE LedgerProofs ------------------------------
(***************************************************************************)
(* The rows behind the books of ProcessProofs: a row that says running has   *)
(* somebody who will end it, a row that is settled has nobody left who could *)
(* write it, and a backup that was reported is there and stays known.        *)
(***************************************************************************)
EXTENDS ProcessProofs

--------------------------------------------------------------------------------
(* What a step does to one row *)

\* A row keeps what the invariants look at.
RowStays(w) ==
  /\ row'[w].status = row[w].status /\ row'[w].type = row[w].type
  /\ row'[w].cfg = row[w].cfg /\ row'[w].paused = row[w].paused /\ row'[w].last = row[w].last

\* Only the status of one row is written, and only if the row is there.
StatusWritten(w, st) ==
  /\ \A u \in Work \ {w} : RowStays(u)
  /\ row'[w].status = IF row[w].status \in NoRowStatuses THEN row[w].status ELSE st
  /\ row'[w].type = row[w].type /\ row'[w].cfg = row[w].cfg
  /\ row'[w].paused = row[w].paused /\ row'[w].last = row[w].last

LEMMA WrittenStatus ==
  ASSUME TypeInv, NEW w \in Work, NEW st, row' = WithStatus(row, w, st)
  PROVE  StatusWritten(w, st)
BY RowsTyped DEF StatusWritten, RowStays, WithStatus, Update, Exists, Row

\* A table that is not written keeps every row.
LEMMA RowsUntouched == UNCHANGED row => \A w \in Work : RowStays(w)
BY DEF RowStays

\* A request takes a row, or its files.
RowDeleted == \E t \in Threads : DeleteWrite(t) \/ DeleteFiles(t)

\* The line that names the backup of the work is read.
LineRead(w) ==
  \E s \in SlotNames : TailerReads(s) /\ slot[s].id = w /\ Head(child[s].log) = "backup"

\* What every step does to a row: none disappears, the types and configs are set in
\* order, and no config and no note of a backup is lost but with the row.
RowLives(w) ==
  /\ row[w].status # "absent" =>
       /\ row'[w].status # "absent" /\ row'[w].type \in {row[w].type, KindOf[w]}
       /\ \/ (row[w].cfg => row'[w].cfg) /\ (row[w].last => row'[w].last)
          \/ row'[w].status = "deleted" /\ RowDeleted
  /\ row'[w].last => row[w].last \/ LineRead(w)
  /\ row[w].status = "deleted" => row'[w].status = "deleted"
  /\ row'[w].cfg => row'[w].type = KindOf[w]
  /\ row'[w].status = "scheduled" => KindOf[w] = "train"

\* What no step but a dispatch does to a row: it makes no row run, done or paused, and
\* none wait again but a training.
RowMoves(w) ==
  /\ RowLives(w)
  /\ row'[w].status \in {"done", "paused", "running"} => row[w].status = row'[w].status
  /\ row'[w].status = "pending" =>
       row[w].status \in {"pending", "absent"} \/ KindOf[w] = "train"

\* A row that stays, or that ends without a result, moves so.
LEMMA StayingMoves ==
  ASSUME RowsOfTrainings, NEW w \in Work, RowStays(w)
  PROVE  RowMoves(w)
BY DEF RowsOfTrainings, RowStays, RowMoves, RowLives

LEMMA EndingMoves ==
  ASSUME RowsOfTrainings, NEW w \in Work, NEW st \in {"failed", "canceled"},
         StatusWritten(w, st)
  PROVE  \A u \in Work : RowMoves(u)
BY DEF RowsOfTrainings, RowStays, RowMoves, RowLives, StatusWritten, NoRowStatuses

--------------------------------------------------------------------------------
(* Steps that leave the executors alone *)

\* The slots, the daemon and the readers hold what they held; what has ended and has
\* been read to the end stays so.
ExecutorsStay ==
  /\ \A s \in SlotNames : /\ slot'[s].id = slot[s].id /\ child'[s].id = child[s].id
                          /\ Exited(s) => Exited(s)'
                          /\ Exited(s) /\ child[s].log = <<>> => child'[s].log = <<>>
  /\ dmnTask' = dmnTask /\ dmn'.active = dmn.active /\ fin' = fin

\* Backups are of trainings, and what has a backup or a process has a row.
FilesKnown ==
  \A w \in disk' \cup orphans' :
    w \in Work /\ row[w].status # "absent" /\ (w \in disk' => KindOf[w] = "train")

\* The supervisor stays where it is, or ends what it did with everything carried.
SupervisorRests ==
  \/ sup' = sup
  \/ /\ sup'.pc \notin WorkSteps \cup {"down"}
     /\ sup.pc \notin {"release", "job_mark", "job_attach", "gen_run"}
     /\ \A w \in Work : row'[w].status = "running" => Carried(w)

LEMMA SameCarriers == ASSUME ExecutorsStay PROVE \A w : Carried(w)' <=> Carried(w)
BY DEF ExecutorsStay, Carried

\* What the threads know survives every step that moves the rows so.
LEMMA ThreadStillKnows ==
  ASSUME NEW t \in Threads, ThreadKnows(t), api'[t] = api[t], RequestsNameWork, \A w \in Work : RowLives(w)
  PROVE  ThreadKnows(t)'
BY DEF ThreadKnows, RequestsNameWork, RowMoves, RowLives

\* A step that moves rows and leaves the executors alone keeps the agreement.
LEMMA QuietRows ==
  ASSUME TypeInv, RowInv, ExecutorsStay, FilesKnown, SupervisorRests, \A w \in Work : RowMoves(w)
  PROVE  /\ HeldRowsExist' /\ RowsOfTrainings' /\ KindsOfExecutors' /\ SlotsAgree'
         /\ GeneratesOnce' /\ SettledIsLetGo' /\ RunningIsCarried'
<1>0. /\ HeldRowsExist /\ ThreadsKnowTheirRow /\ RowsOfTrainings /\ KindsOfExecutors
      /\ SlotsAgree /\ GeneratesOnce /\ SettledIsLetGo /\ RunningIsCarried
  BY DEF RowInv
<1>1. /\ \A s \in SlotNames : slot[s].id \in Work \cup {NoWork}
      /\ dmnTask \in Work \cup {NoWork} /\ disk \subseteq Work /\ orphans \subseteq Work
      /\ \A r \in Readers : fin[r].pc \in {"clear", "write"} => fin[r].w \in Work
      /\ sup.pc \in WorkSteps => sup.w \in Work
      /\ sup.s \in SlotNames
  BY DEF TypeInv, TypeOK, SupTypeOK, SlotRec, SupRec, SupNamesWork, ReadersNameWork
<1>2. HeldRowsExist'
  BY <1>0, <1>1 DEF HeldRowsExist, ExecutorsStay, FilesKnown, SupervisorRests, RowMoves,
     RowLives, Busy,
     DaemonActive
<1>3. RowsOfTrainings'
  BY DEF RowsOfTrainings, RowMoves, RowLives, FilesKnown
<1>4. KindsOfExecutors'
  BY <1>0 DEF KindsOfExecutors, ExecutorsStay, SupervisorRests, Busy, DaemonActive,
     SlotNames,
     SpawnSteps, DataSteps, MarkSteps, SubmitSteps, WorkSteps, SupSteps
<1>5. SlotsAgree'
  BY <1>0, <1>1 DEF SlotsAgree, ExecutorsStay, SupervisorRests, Busy, SlotNames,
     ReleaseSteps,
     DataSteps, MarkSteps, WorkSteps, SupSteps
<1>6. GeneratesOnce'
  <2>1. ASSUME NEW w \in Work, row'[w].status = "pending", dmnTask = w \/ \E r \in Readers : Finalizes(r, w)
        PROVE  sup'.pc = "gen_run" /\ sup'.w = w
    <3>1. KindOf[w] = "generate" /\ row[w].status # "absent"
      BY <2>1, <1>0, WorkIsNamed DEF KindsOfExecutors, HeldRowsExist, DaemonActive,
         Finalizes
    <3>2. row[w].status = "pending"
      BY <2>1, <3>1 DEF RowMoves, RowLives
    <3>3. QED
      BY <2>1, <3>2, <1>0 DEF GeneratesOnce, SupervisorRests
  <2>2. \A r, w : Finalizes(r, w)' <=> Finalizes(r, w)
    BY DEF ExecutorsStay, Finalizes
  <2>3. QED
    BY <2>1, <2>2, <1>0 DEF GeneratesOnce, ExecutorsStay, SupervisorRests, MarkSteps,
       SubmitSteps,
       WorkSteps, SupSteps
<1>7. SettledIsLetGo'
  BY <1>0, <1>1 DEF SettledIsLetGo, ExecutorsStay, SupervisorRests, RowMoves, RowLives,
     Finalizes, WorkSteps, SupSteps
<1>8. RunningIsCarried'
  BY <1>0, <1>1, SameCarriers DEF RunningIsCarried, SupervisorRests, RowMoves, RowLives,
     WorkSteps, SupSteps, PassSteps
<1>9. QED
  BY <1>2, <1>3, <1>4, <1>5, <1>6, <1>7, <1>8

--------------------------------------------------------------------------------
(* Requests *)

\* A row that is created moves so, whoever creates it.
LEMMA BirthMoves ==
  ASSUME TypeInv, RowsOfTrainings, NEW w \in Work, IsNextId(row, w), NEW new,
         row' = [row EXCEPT ![w] = new], new.status \in {"pending", "scheduled"},
         new.cfg => new.type = KindOf[w], new.status = "scheduled" => KindOf[w] = "train",
         ~new.last
  PROVE  (\A u \in Work : RowMoves(u)) /\ row[w].status = "absent" /\ row'[w] = new
<1>1. row \in [Work -> Row]
  BY RowsTyped
<1>2. row[w].status = "absent" /\ row'[w] = new /\ \A u \in Work \ {w} : row'[u] = row[u]
  BY <1>1, WorkAssumption DEF IsNextId
<1>3. QED
  BY <1>2 DEF RowMoves, RowLives, RowsOfTrainings

\* An UPDATE of the row that a thread knows.
LEMMA UpdateMoves ==
  ASSUME TypeInv, RowsOfTrainings, NEW w \in Work, NEW new, row' = Update(row, w, new),
         row[w].status # "absent",
         new.status = row[w].status \/ (new.status = "pending" /\ KindOf[w] = "train"),
         new.type \in {row[w].type, KindOf[w]},
         Exists(row, w) /\ new.cfg => new.type = KindOf[w], row[w].cfg => new.cfg,
         row[w].last => new.last, new.last => row[w].last \/ LineRead(w)
  PROVE  \A u \in Work : RowMoves(u)
BY RowsTyped DEF Update, Exists, NoRowStatuses, RowMoves, RowLives, RowsOfTrainings

\* A row that is deleted, and then its files.
LEMMA DeleteMoves ==
  ASSUME TypeInv, RowInv, NEW t \in Threads, DeleteWrite(t) \/ DeleteFiles(t)
  PROVE  /\ api[t].w \in Work /\ row'[api[t].w].status = "deleted"
         /\ \A u \in Work : RowMoves(u)
<1> DEFINE w == api[t].w
<1>0. row \in [Work -> Row] /\ w \in Work /\ row[w].status # "absent" /\ RowsOfTrainings
  BY RowsTyped DEF TypeInv, RequestsNameWork, RowInv, ThreadsKnowTheirRow, ThreadKnows, DeleteWrite,
     DeleteFiles, AtOp
<1>1. CASE DeleteWrite(t)
  <2>1. row' = Update(row, w, DeletedRow(w))
    BY <1>1 DEF DeleteWrite
  <2>2. /\ DeletedRow(w).status = "deleted" /\ DeletedRow(w).type = row[w].type
        /\ DeletedRow(w).cfg = row[w].cfg /\ ~DeletedRow(w).last
    BY DEF DeletedRow, NewRow
  <2>3. /\ \A u \in Work \ {w} : row'[u] = row[u]
        /\ row'[w].status = "deleted" /\ row'[w].type = row[w].type /\ row'[w].cfg = row[w].cfg
        /\ row'[w].last => row[w].last
    BY <2>1, <2>2, <1>0 DEF Update, Exists, NoRowStatuses
  <2>4. RowDeleted
    BY <1>1 DEF RowDeleted
  <2>5. QED
    BY <2>3, <2>4, <1>0 DEF RowMoves, RowLives, RowsOfTrainings
<1>2. CASE DeleteFiles(t)
  <2>1. row' = [row EXCEPT ![w].cfg = FALSE] /\ row[w].status = "deleted"
    BY <1>2 DEF DeleteFiles, RowInv, ThreadsKnowTheirRow, ThreadKnows, AtOp
  <2>2. /\ \A u \in Work \ {w} : row'[u] = row[u]
        /\ row'[w].status = "deleted" /\ row'[w].type = row[w].type /\ ~row'[w].cfg
        /\ row'[w].last = row[w].last
    BY <2>1, <1>0 DEF Row
  <2>3. RowDeleted
    BY <1>2 DEF RowDeleted
  <2>4. QED
    BY <2>1, <2>2, <2>3, <1>0 DEF RowMoves, RowLives, RowsOfTrainings
<1>3. QED
  BY <1>1, <1>2

\* A reorder only changes priorities.
LEMMA ReorderStays ==
  ASSUME TypeInv, NEW ids, row' = Reordered(row, ids)
  PROVE  \A w \in Work : RowStays(w)
BY RowsTyped DEF Reordered, RowStays, Row

\* What a request thread writes into the table.
LEMMA RequestMovesRows ==
  \A t \in Threads : TypeInv /\ RowInv /\ (Request(t) \/ Proceed(t)) => \A w \in Work : RowMoves(w)
<1> SUFFICES ASSUME NEW t \in Threads, TypeInv, RowInv, Request(t) \/ Proceed(t)
             PROVE  \A w \in Work : RowMoves(w)
  OBVIOUS
<1>0. /\ row \in [Work -> Row] /\ (api[t].op # "none" => api[t].w \in Work)
      /\ ThreadKnows(t) /\ RowsOfTrainings
  BY RowsTyped DEF TypeInv, RequestsNameWork, RowInv, ThreadsKnowTheirRow
<1>1. CASE UNCHANGED row
  BY <1>1, <1>0, RowsUntouched, StayingMoves
<1>2. ASSUME NEW w \in Work, Enqueue(t, w) \/ CreateDefault(t, w)
      PROVE  \A u \in Work : RowMoves(u)
  <2>1. PICK new : /\ row' = [row EXCEPT ![w] = new] /\ IsNextId(row, w)
                   /\ new.status \in {"pending", "scheduled"} /\ (new.cfg => new.type = KindOf[w])
                   /\ new.status = "scheduled" => KindOf[w] = "train"
                   /\ ~new.last
    <3>1. CASE CreateDefault(t, w)
      <4>1. NewRow("train", "pending", FALSE).status = "pending" /\ ~NewRow("train", "pending", FALSE).cfg
            /\ ~NewRow("train", "pending", FALSE).last
        BY DEF NewRow
      <4>2. QED
        BY <3>1, <4>1 DEF CreateDefault
    <3>2. CASE Enqueue(t, w)
      <4>1. PICK st \in IF KindOf[w] = "train" THEN {"pending", "scheduled"} ELSE {"pending"} :
              row' = [row EXCEPT ![w] = NewRow(KindOf[w], st, KindOf[w] = "train")]
        BY <3>2 DEF Enqueue
      <4>2. LET new == NewRow(KindOf[w], st, KindOf[w] = "train")
            IN  new.status = st /\ new.type = KindOf[w] /\ ~new.last
        BY DEF NewRow
      <4>3. QED
        BY <3>2, <4>1, <4>2 DEF Enqueue
    <3>3. QED
      BY <1>2, <3>1, <3>2
  <2>2. QED
    BY <2>1, <1>0, BirthMoves
<1>3. CASE RetryCopy(t)
  <2> DEFINE read == api[t].read
             file == row[api[t].w].cfg
  <2>1. CASE UNCHANGED row
    BY <2>1, <1>1
  <2>2. CASE ~UNCHANGED row
    <3>1. PICK new \in Work : /\ row' = [row EXCEPT ![new] = CopyOf(read, file)]
                              /\ IsNextId(row, new) /\ KindOf[new] = read.type
      BY <1>3, <2>2 DEF RetryCopy, IdForCopy
    <3>2. /\ CopyOf(read, file).status = "pending" /\ CopyOf(read, file).type = read.type
          /\ ~CopyOf(read, file).last
      BY DEF CopyOf, NewRow
    <3>3. QED
      BY <3>1, <3>2, <1>0, BirthMoves
  <2>3. QED
    BY <2>1, <2>2
<1>4. ASSUME NEW ids, Reorder(t, ids)
      PROVE  \A u \in Work : RowMoves(u)
  BY <1>4, <1>0, ReorderStays, StayingMoves DEF Reorder
<1>5. CASE SetType(t) \/ SetConfig(t) \/ CancelClear(t) \/ ResumeWrite(t)
  <2> DEFINE w == api[t].w
  <2>1. w \in Work /\ row[w].status # "absent" /\ row[w] \in Row
    BY <1>5, <1>0 DEF SetType, SetConfig, CancelClear, ResumeWrite, AtOp, ThreadKnows
  <2>2. CASE SetType(t)
    <3>1. row' = Update(row, w, [row[w] EXCEPT !.type = KindOf[w]])
      BY <2>2 DEF SetType
    <3>2. LET new == [row[w] EXCEPT !.type = KindOf[w]]
          IN  new.status = row[w].status /\ new.type = KindOf[w] /\ new.cfg = row[w].cfg
              /\ new.last = row[w].last
      BY <2>1 DEF Row
    <3>3. QED
      BY <3>1, <3>2, <2>1, <1>0, UpdateMoves
  <2>3. CASE SetConfig(t)
    <3>1. row' = Update(row, w, [row[w] EXCEPT !.cfg = TRUE])
      BY <2>3 DEF SetConfig
    <3>2. LET new == [row[w] EXCEPT !.cfg = TRUE]
          IN  new.status = row[w].status /\ new.type = row[w].type /\ new.cfg /\ new.last = row[w].last
      BY <2>1 DEF Row
    <3>3. Exists(row, w) => row[w].type = KindOf[w]
      BY <2>3, <1>0 DEF SetConfig, AtOp, ThreadKnows, Exists, NoRowStatuses
    <3>4. QED
      BY <3>1, <3>2, <3>3, <2>1, <1>0, UpdateMoves
  <2>4. CASE CancelClear(t)
    <3>1. row' = Update(row, w, [row[w] EXCEPT !.paused = FALSE])
      BY <2>4 DEF CancelClear
    <3>2. LET new == [row[w] EXCEPT !.paused = FALSE]
          IN  new.status = row[w].status /\ new.type = row[w].type /\ new.cfg = row[w].cfg
              /\ new.last = row[w].last
      BY <2>1 DEF Row
    <3>3. QED
      BY <3>1, <3>2, <2>1, <1>0, UpdateMoves DEF RowsOfTrainings
  <2>5. CASE ResumeWrite(t)
    <3>1. PICK b : row' = Update(row, w, [row[w] EXCEPT !.status = "pending", !.paused = b])
      BY <2>5 DEF ResumeWrite
    <3>2. LET new == [row[w] EXCEPT !.status = "pending", !.paused = b]
          IN  new.status = "pending" /\ new.type = row[w].type /\ new.cfg = row[w].cfg
              /\ new.last = row[w].last
      BY <2>1 DEF Row
    <3>3. KindOf[w] = "train"
      BY <2>5, <1>0 DEF ResumeWrite, AtOp, ThreadKnows
    <3>4. QED
      BY <3>1, <3>2, <3>3, <2>1, <1>0, UpdateMoves DEF RowsOfTrainings
  <2>6. QED
    BY <1>5, <2>2, <2>3, <2>4, <2>5
<1>6. CASE EnqueueFails(t) \/ CancelWrite(t) \/ ClearEvalWrite(t)
  <2>1. api[t].w \in Work
    BY <1>6, <1>0 DEF EnqueueFails, CancelWrite, ClearEvalWrite, AtOp
  <2>2. \E st \in {"failed", "canceled"} : row' = WithStatus(row, api[t].w, st)
    BY <1>6 DEF EnqueueFails, CancelWrite, ClearEvalWrite, WriteStatus
  <2>3. QED
    BY <2>1, <2>2, <1>0, WrittenStatus, EndingMoves
<1>7. CASE StartWrite(t)
  <2>1. /\ api[t].w \in Work /\ KindOf[api[t].w] = "train" /\ row' = WithStatus(row, api[t].w, "pending")
        /\ row[api[t].w].status # "absent"
    BY <1>7, <1>0 DEF StartWrite, AtOp, ThreadKnows, WriteStatus
  <2>2. StatusWritten(api[t].w, "pending")
    BY <2>1, WrittenStatus
  <2>3. QED
    BY <2>1, <2>2, <1>0 DEF StatusWritten, RowsOfTrainings, RowStays, RowMoves, RowLives,
       NoRowStatuses
<1>8. QED
  BY <1>1, <1>2, <1>3, <1>4, <1>5, <1>6, <1>7, DeleteMoves DEF Request, Proceed, RetryBegin,
     CancelBegin, PauseBegin,
     ResumeBegin, StartBegin, DeleteBegin, ClearEvalBegin, SetHeld, UnloadDaemon, CancelFind,
     CancelSlot, CancelDaemon, PauseSlot, ResumeDerive, ResumeVersion, supVars, ledger

\* A request thread attaches nothing and takes no task from the daemon.
LEMMA RequestLeavesExecutors ==
  \A t \in Threads : TypeInv /\ (Request(t) \/ Proceed(t))
    => ExecutorsStay /\ UNCHANGED <<sup, orphans>> /\ disk' \subseteq disk
<1> SUFFICES ASSUME NEW t \in Threads, TypeInv, Request(t) \/ Proceed(t)
             PROVE  ExecutorsStay /\ UNCHANGED <<sup, orphans>> /\ disk' \subseteq disk
  OBVIOUS
<1>0. slot \in [SlotNames -> SlotRec] /\ child \in [SlotNames -> ChildRec] /\ dmn \in DaemonRec
  BY ProcsTyped DEF TypeInv, TypeOK, SupTypeOK
<1>1. CASE UNCHANGED <<procs, daemon, sup, host, disk>>
  BY <1>1 DEF ExecutorsStay, procs, daemon, host, Exited
<1>2. CASE CancelSlot(t)
  <2>1. UNCHANGED <<daemon, sup, host, disk>>
    BY <1>2 DEF CancelSlot, ledger
  <2> DEFINE s == api[t].s
  <2>2. \/ UNCHANGED procs
        \/ /\ slot' = [slot EXCEPT ![s].cancel = TRUE]
           /\ \E b : child' = [child EXCEPT ![s].term = b]
    BY <1>2 DEF CancelSlot
  <2>3. \A q \in SlotNames : slot'[q].id = slot[q].id
    BY <2>2, <1>0 DEF procs, SlotRec
  <2>4. \A q \in SlotNames : /\ child'[q].id = child[q].id /\ child'[q].log = child[q].log
                             /\ child'[q].life = child[q].life
    <3>1. ASSUME NEW b, child' = [child EXCEPT ![s].term = b], NEW q \in SlotNames
          PROVE  /\ child'[q].id = child[q].id /\ child'[q].log = child[q].log
                 /\ child'[q].life = child[q].life
      <4>1. child[q] \in ChildRec
        BY <1>0
      <4>2. child'[q] = child[q] \/ child'[q] = [child[q] EXCEPT !.term = b]
        BY <3>1, <1>0
      <4>3. QED
        BY <4>1, <4>2 DEF ChildRec
    <3>2. QED
      BY <2>2, <3>1 DEF procs
  <2>5. QED
    BY <2>1, <2>3, <2>4 DEF ExecutorsStay, daemon, host, Exited
<1>3. CASE PauseSlot(t)
  <2>1. UNCHANGED <<daemon, sup, host, disk>>
    BY <1>3 DEF PauseSlot, ledger
  <2>2. /\ \A s \in SlotNames : slot'[s].id = slot[s].id
        /\ \A s \in SlotNames : child'[s].id = child[s].id /\ child'[s].log = child[s].log
                                /\ child'[s].life = child[s].life
    BY <1>3, <1>0 DEF PauseSlot, SlotRec, ChildRec
  <2>3. QED
    BY <2>1, <2>2 DEF ExecutorsStay, daemon, host, Exited
<1>4. CASE CancelFind(t) \/ CancelDaemon(t) \/ UnloadDaemon(t)
  <2>1. UNCHANGED <<procs, dmnTask, fin, sup, host, disk>>
    BY <1>4 DEF CancelFind, CancelDaemon, UnloadDaemon, ledger
  <2>2. dmn'.active = dmn.active
    BY <1>4, <1>0 DEF CancelFind, CancelDaemon, UnloadDaemon, RequestUnloads, UnloadsSent,
       DaemonRec
  <2>3. QED
    BY <2>1, <2>2 DEF ExecutorsStay, procs, host, Exited
<1>5. CASE DeleteWrite(t) \/ DeleteFiles(t)
  BY <1>5 DEF DeleteWrite, DeleteFiles, ExecutorsStay, procs, daemon, host, Exited
<1>6. QED
  BY <1>1, <1>2, <1>3, <1>4, <1>5 DEF Request, Proceed, CancelBegin, PauseBegin, Enqueue,
     CreateDefault, RetryBegin, RetryCopy, Reorder, SetType, SetConfig, EnqueueFails, CancelWrite, CancelClear,
     ResumeWrite, StartWrite, ClearEvalWrite,
     ResumeBegin, StartBegin, DeleteBegin, ClearEvalBegin, SetHeld, ResumeDerive, ResumeVersion,
     supVars, ledger

\* What the threads know after a step of one of them.
LEMMA RequestKnows ==
  \A t \in Threads : TypeInv /\ RowInv /\ (Request(t) \/ Proceed(t)) => ThreadsKnowTheirRow'
<1> SUFFICES ASSUME NEW t \in Threads, TypeInv, RowInv, Request(t) \/ Proceed(t), NEW u \in Threads
             PROVE  ThreadKnows(u)'
  BY DEF ThreadsKnowTheirRow
<1>0. /\ row \in [Work -> Row] /\ api \in [Threads -> ThreadRec]
      /\ (api[t].op # "none" => api[t].w \in Work)
      /\ ThreadKnows(t) /\ ThreadKnows(u) /\ RowsOfTrainings /\ RequestsNameWork
      /\ \A w \in Work : RowMoves(w)
  BY RowsTyped, RequestMovesRows DEF TypeInv, TypeOK, RequestsNameWork, RowInv,
     ThreadsKnowTheirRow
<1>1. CASE api'[u] = api[u]
  BY <1>0, <1>1, ThreadStillKnows DEF RowMoves
<1>2. CASE api'[u] = IdleThread
  BY <1>2 DEF ThreadKnows, IdleThread
<1>3. \A q \in Threads : \A op, w : Continue(q, op, w) =>
         /\ \A p \in Threads \ {q} : api'[p] = api[p]
         /\ api'[q].op = op /\ api'[q].w = w
  BY <1>0 DEF Continue, IdleThread
<1>4. \A q \in Threads : Reply(q) =>
         (\A p \in Threads \ {q} : api'[p] = api[p]) /\ api'[q] = IdleThread
  BY <1>0 DEF Reply
<1>5. ASSUME NEW w \in Work, CancelBegin(t, w) \/ PauseBegin(t, w) \/ DeleteBegin(t, w) \/ ClearEvalBegin(t, w)
      PROVE  ThreadKnows(u)'
  <2>1. row'[w].status = row[w].status /\ row[w].status # "absent"
    BY <1>5 DEF CancelBegin, PauseBegin, DeleteBegin, ClearEvalBegin, Called, Exists,
       NoRowStatuses, supVars, ledger
  <2>2. \E op \in {"cancel_write", "cancel_clear", "cancel_find", "pause_slot", "delete_write", "clear_write"} :
          Continue(t, op, w)
    BY <1>5 DEF CancelBegin, PauseBegin, DeleteBegin, ClearEvalBegin
  <2>3. QED
    BY <2>1, <2>2, <1>1, <1>3 DEF ThreadKnows
<1>12. ASSUME NEW w \in Work, RetryBegin(t, w)
       PROVE  ThreadKnows(u)'
  <2>1. row'[w].status = row[w].status /\ row[w].status # "absent"
    BY <1>12 DEF RetryBegin, Called, Exists, NoRowStatuses, supVars, ledger
  <2>2. /\ \A p \in Threads \ {t} : api'[p] = api[p]
        /\ api'[t].op = "retry_copy" /\ api'[t].w = w
    BY <1>12, <1>0 DEF RetryBegin, IdleThread
  <2>3. QED
    BY <2>1, <2>2, <1>1 DEF ThreadKnows
<1>13. CASE DeleteWrite(t)
  <2>1. Continue(t, "delete_files", api[t].w) /\ api[t].w \in Work /\ row'[api[t].w].status = "deleted"
    BY <1>13, DeleteMoves DEF DeleteWrite
  <2>2. QED
    BY <2>1, <1>1, <1>3 DEF ThreadKnows
<1>6. ASSUME NEW w \in Work, StartBegin(t, w) \/ ResumeBegin(t, w)
      PROVE  ThreadKnows(u)'
  <2>1. row'[w].status = row[w].status /\ row[w].status # "absent"
    BY <1>6 DEF StartBegin, ResumeBegin, Called, Exists, NoRowStatuses, supVars, ledger
  <2>2. KindOf[w] = "train"
    BY <1>6, <1>0 DEF StartBegin, ResumeBegin, HasResumePoint, RowsOfTrainings
  <2>3. /\ \A p \in Threads \ {t} : api'[p] = api[p]
        /\ api'[t].op \in {"start_write", "resume_write"} /\ api'[t].w = w
    <3>1. CASE StartBegin(t, w)
      BY <3>1, <1>3 DEF StartBegin
    <3>2. CASE ResumeBegin(t, w)
      BY <3>2, <1>0 DEF ResumeBegin, IdleThread
    <3>3. QED
      BY <1>6, <3>1, <3>2
  <2>4. QED
    BY <2>1, <2>2, <2>3, <1>1 DEF ThreadKnows
<1>7. ASSUME NEW w \in Work, CreateDefault(t, w)
      PROVE  ThreadKnows(u)'
  <2>1. Continue(t, "enqueue_type", w) /\ row'[w].status = "pending"
    BY <1>7, <1>0 DEF CreateDefault, NewRow
  <2>2. QED
    BY <2>1, <1>1, <1>3 DEF ThreadKnows
<1>8. CASE SetType(t)
  <2> DEFINE w == api[t].w
  <2>1. w \in Work /\ row[w].status # "absent" /\ Continue(t, "enqueue_cfg", w)
    BY <1>8, <1>0 DEF SetType, AtOp, ThreadKnows
  <2>2. row'[w].status # "absent" /\ (row'[w].type = KindOf[w] \/ row'[w].status = "deleted")
    BY <1>8, <1>0, <2>1 DEF SetType, Update, Exists, NoRowStatuses, Row
  <2>3. QED
    BY <2>1, <2>2, <1>1, <1>3 DEF ThreadKnows
<1>9. CASE CancelClear(t) \/ CancelFind(t) \/ ResumeWrite(t) \/ ResumeDerive(t)
  <2> DEFINE w == api[t].w
  <2>1. w \in Work /\ row'[w].status # "absent"
    BY <1>9, <1>0 DEF CancelClear, CancelFind, ResumeWrite, ResumeDerive, AtOp, ThreadKnows,
       RowMoves, RowLives
  <2>2. \A p \in Threads \ {t} : api'[p] = api[p]
    BY <1>9, <1>0, <1>3, <1>4 DEF CancelClear, CancelFind, ResumeWrite, ResumeDerive
  <2>3. \/ api'[t] = IdleThread
        \/ /\ api'[t].op \in {"cancel_write", "cancel_slot", "cancel_daemon", "resume_derive", "resume_version"}
           /\ api'[t].w = w
    <3>1. CASE CancelClear(t) \/ ResumeWrite(t)
      BY <3>1, <1>3, <1>4 DEF CancelClear, ResumeWrite
    <3>2. CASE ResumeDerive(t)
      BY <3>2, <1>0 DEF ResumeDerive, ThreadRec
    <3>3. CASE CancelFind(t)
      BY <3>3, <1>0, <1>3, <1>4 DEF CancelFind, ThreadRec
    <3>4. QED
      BY <1>9, <3>1, <3>2, <3>3
  <2>4. QED
    BY <2>1, <2>2, <2>3, <1>1, <1>2 DEF ThreadKnows
<1>10. CASE UNCHANGED api \/ Reply(t)
  BY <1>10, <1>1, <1>2, <1>4
<1>11. QED
  BY <1>5, <1>6, <1>7, <1>8, <1>9, <1>10, <1>12, <1>13 DEF Request, Proceed, Enqueue, RetryCopy,
     Reorder, SetConfig, EnqueueFails, CancelWrite, CancelSlot, CancelDaemon, PauseSlot,
     ResumeVersion, StartWrite, DeleteFiles, ClearEvalWrite, SetHeld, UnloadDaemon

\* A request keeps the agreement of the rows.
LEMMA RequestRows ==
  \A t \in Threads : TypeInv /\ RowInv /\ (Request(t) \/ Proceed(t)) => RowInv'
<1> SUFFICES ASSUME NEW t \in Threads, TypeInv, RowInv, Request(t) \/ Proceed(t)
             PROVE  RowInv'
  OBVIOUS
<1>1. FilesKnown /\ SupervisorRests
  BY RequestLeavesExecutors DEF FilesKnown, SupervisorRests, RowInv, RowsOfTrainings,
     HeldRowsExist,
     TypeInv, TypeOK, SupTypeOK
<1>2. QED
  BY <1>1, RequestLeavesExecutors, RequestMovesRows, RequestKnows, QuietRows DEF RowInv

--------------------------------------------------------------------------------
(* Processes, tailers and the daemon *)

\* The threads learn nothing from a step that is not theirs.
LEMMA OthersKnow ==
  TypeInv /\ RowInv /\ UNCHANGED api /\ (\A w \in Work : RowLives(w)) => ThreadsKnowTheirRow'
BY ThreadStillKnows DEF TypeInv, RowInv, ThreadsKnowTheirRow

\* So a step of a process that leaves the executors alone keeps the agreement.
LEMMA ProcessQuiet ==
  ASSUME TypeInv, RowInv, UNCHANGED <<api, sup>>, ExecutorsStay, FilesKnown, \A w \in Work : RowMoves(w)
  PROVE  RowInv'
BY OthersKnow, QuietRows DEF SupervisorRests, RowInv, RowMoves

\* The files, when they are not touched.
LEMMA FilesUntouched == TypeInv /\ RowInv /\ UNCHANGED <<disk, orphans>> => FilesKnown
BY DEF FilesKnown, RowInv, RowsOfTrainings, HeldRowsExist, TypeInv, TypeOK, SupTypeOK

\* The rows, when they are not touched.
LEMMA UntouchedMove == RowInv /\ UNCHANGED row => \A w \in Work : RowMoves(w)
BY RowsUntouched, StayingMoves DEF RowInv

\* A process that runs is of a work that has its row.
LEMMA ProcessHasRow ==
  ASSUME TypeInv, SlotsOwnTheirProcess, RowInv, NEW s \in SlotNames, Alive(s)
  PROVE  child[s].id \in Work /\ row[child[s].id].status # "absent"
<1>1. child[s].id \in Work /\ child[s].id # NoWork
  BY ProcsTyped, WorkIsNamed
<1>2. child[s].id = slot[s].id \/ (child[s].id = sup.w /\ sup.pc \in {"job_mark", "job_attach"})
  BY DEF RowInv, SlotsAgree, SlotsOwnTheirProcess, SlotNames
<1>3. QED
  BY <1>1, <1>2 DEF RowInv, HeldRowsExist, Busy, WorkSteps, SupSteps

\* A process changes nothing but itself and its backup.
LEMMA ChildRows ==
  \A s \in SlotNames : TypeInv /\ SlotsOwnTheirProcess /\ RowInv /\ ChildStep(s) => RowInv'
<1> SUFFICES ASSUME NEW s \in SlotNames, TypeInv, SlotsOwnTheirProcess, RowInv, ChildStep(s)
             PROVE  RowInv'
  OBVIOUS
<1>1. /\ UNCHANGED <<row, slot, daemon, sup, others>> /\ Alive(s)
      /\ \A q \in SlotNames \ {s} : child'[q] = child[q]
  BY ProcsTyped DEF ChildStep, LoopStarts, InLoop, BackupReplaced, BackupRemembered, BackupTold, Dead, ChildCompletes, ChildPauses,
     ChildCrashes, ChildKilled,
     ledger, Training
<1>2. ExecutorsStay
  <2>1. \A q \in SlotNames : slot'[q].id = slot[q].id /\ child'[q].id = child[q].id
    BY ChildKeepsId
  <2>2. ~Exited(s)
    BY <1>1 DEF Exited, Alive, Ended
  <2>3. QED
    BY <1>1, <2>1, <2>2 DEF ExecutorsStay, daemon, Exited
<1>3. FilesKnown
  <2>1. UNCHANGED orphans /\ (disk' = disk \/ (disk' = disk \cup {child[s].id} /\ Training(s)))
    BY <1>1 DEF ChildStep, LoopStarts, InLoop, BackupReplaced, BackupRemembered, BackupTold, Dead, ChildCompletes, ChildPauses, ChildCrashes,
       ChildKilled,
       ledger, others, host
  <2>2. child[s].id \in Work /\ row[child[s].id].status # "absent"
    BY <1>1, ProcessHasRow
  <2>3. QED
    BY <2>1, <2>2, FilesUntouched DEF FilesKnown, Training, RowInv, RowsOfTrainings,
       HeldRowsExist,
       TypeInv, TypeOK, SupTypeOK
<1>4. QED
  BY <1>1, <1>2, <1>3, UntouchedMove, ProcessQuiet DEF others

\* A tailer notes in the row what the process says of its backup.
LEMMA TailerMoves ==
  \A s \in SlotNames : TypeInv /\ RowInv /\ TailerReads(s) => \A w \in Work : RowMoves(w)
<1> SUFFICES ASSUME NEW s \in SlotNames, TypeInv, RowInv, TailerReads(s)
             PROVE  \A w \in Work : RowMoves(w)
  OBVIOUS
<1> DEFINE w == slot[s].id
<1>1. w \in Work /\ row[w] \in Row /\ row[w].status # "absent" /\ RowsOfTrainings
  BY RowsTyped DEF TailerReads, Busy, RowInv, HeldRowsExist, TypeInv, TypeOK, SupTypeOK,
     SlotRec
<1>2. \/ row' = row
      \/ row' = Update(row, w, [row[w] EXCEPT !.last = TRUE]) /\ Head(child[s].log) = "backup"
      \/ row' = Update(row, w, [row[w] EXCEPT !.paused = FALSE])
  BY DEF TailerReads
<1>3. \A new \in {[row[w] EXCEPT !.last = TRUE], [row[w] EXCEPT !.paused = FALSE]} :
         new.status = row[w].status /\ new.type = row[w].type /\ new.cfg = row[w].cfg
         /\ (row[w].last => new.last)
  BY <1>1 DEF Row
<1>4. row[w].cfg => row[w].type = KindOf[w]
  BY <1>1 DEF RowsOfTrainings
<1>5. CASE row' = row
  BY <1>5, UntouchedMove
<1>6. CASE row' = Update(row, w, [row[w] EXCEPT !.last = TRUE]) /\ Head(child[s].log) = "backup"
  <2>1. LineRead(w)
    BY <1>6 DEF LineRead
  <2>2. QED
    BY <2>1, <1>6, <1>1, <1>3, <1>4, UpdateMoves
<1>7. CASE row' = Update(row, w, [row[w] EXCEPT !.paused = FALSE])
  <2>1. [row[w] EXCEPT !.paused = FALSE].last = row[w].last
    BY <1>1 DEF Row
  <2>2. QED
    BY <2>1, <1>7, <1>1, <1>3, <1>4, UpdateMoves
<1>8. QED
  BY <1>2, <1>5, <1>6, <1>7

LEMMA TailerRows ==
  \A s \in SlotNames : TypeInv /\ RowInv /\ TailerReads(s) => RowInv'
<1> SUFFICES ASSUME NEW s \in SlotNames, TypeInv, RowInv, TailerReads(s)
             PROVE  RowInv'
  OBVIOUS
<1>1. UNCHANGED <<disk, daemon, sup, others>>
  BY DEF TailerReads
<1>2. /\ \A q \in SlotNames : slot'[q].id = slot[q].id /\ child'[q].id = child[q].id
      /\ child[s].log # <<>> /\ \A q \in SlotNames \ {s} : child'[q] = child[q]
      /\ child'[s].life = child[s].life
  BY ChildKeepsId, ProcsTyped DEF TailerReads, ChildRec
<1>3. ExecutorsStay
  BY <1>1, <1>2 DEF ExecutorsStay, daemon, Exited
<1>4. QED
  BY <1>1, <1>3, FilesUntouched, TailerMoves, ProcessQuiet DEF others, host

\* The host only ends the processes that it was left with.
LEMMA HostRows == TypeInv /\ RowInv /\ Host => RowInv'
<1> SUFFICES ASSUME TypeInv, RowInv, NEW w \in Work, OrphanEnds(w) \/ OrphanEpochEnds(w)
             PROVE  RowInv'
  BY DEF Host
<1>1. UNCHANGED <<row, procs, daemon, sup, api>>
  BY DEF OrphanEnds, OrphanEpochEnds, ledger, others
<1>2. ExecutorsStay
  BY <1>1 DEF ExecutorsStay, procs, daemon, Exited
<1>3. FilesKnown
  <2>1. orphans' \subseteq orphans /\ (disk' = disk \/ (disk' = disk \cup {w} /\ w \in orphans /\ KindOf[w] = "train"))
    BY DEF OrphanEnds, OrphanEpochEnds, ledger, others, host
  <2>2. QED
    BY <2>1 DEF FilesKnown, RowInv, RowsOfTrainings, HeldRowsExist, TypeInv, TypeOK,
       SupTypeOK
<1>4. QED
  BY <1>1, <1>2, <1>3, UntouchedMove, ProcessQuiet

\* Events that leave the task of the daemon as it is.
LEMMA DaemonQuietRows ==
  TypeInv /\ RowInv /\ (DaemonReady \/ ModelLoaded \/ ModelUnloaded \/ IdleTimeout) => RowInv'
<1> SUFFICES ASSUME TypeInv, RowInv, DaemonReady \/ ModelLoaded \/ ModelUnloaded \/ IdleTimeout
             PROVE  RowInv'
  OBVIOUS
<1>0. dmn \in DaemonRec
  BY DEF TypeInv, TypeOK, SupTypeOK
<1>1. UNCHANGED <<ledger, procs, dmnTask, fin, sup, others>>
  BY DEF DaemonReady, ModelLoaded, ModelUnloaded, IdleTimeout
<1>2. dmn'.active = dmn.active
  BY <1>0 DEF DaemonReady, ModelLoaded, ModelUnloaded, IdleTimeout, RequestUnloads,
     UnloadsSent, DaemonRec
<1>3. ExecutorsStay
  BY <1>1, <1>2 DEF ExecutorsStay, procs, Exited
<1>4. QED
  BY <1>1, <1>3, FilesUntouched, UntouchedMove, ProcessQuiet DEF ledger, others, host

\* The parts of the invariants that the steps of the daemon work on.
LEMMA RowParts ==
  TypeInv /\ RowInv =>
    /\ HeldRowsExist /\ ThreadsKnowTheirRow /\ RowsOfTrainings /\ KindsOfExecutors
    /\ SlotsAgree /\ GeneratesOnce /\ SettledIsLetGo /\ RunningIsCarried
    /\ row \in [Work -> Row] /\ slot \in [SlotNames -> SlotRec] /\ child \in [SlotNames -> ChildRec]
    /\ fin \in [Readers -> FinRec] /\ dmn \in DaemonRec /\ sup \in SupRec
    /\ (dmnTask # NoWork => dmnTask \in Work) /\ (dmn.active # NoWork => dmn.active \in Work)
    /\ \A r \in Readers : fin[r].pc \in {"clear", "write"} => fin[r].w \in Work
    /\ sup.pc \in WorkSteps => sup.w \in Work
    /\ \A s \in SlotNames : Busy(s) => slot[s].id \in Work
    /\ disk \subseteq Work /\ orphans \subseteq Work
BY DEF RowInv, TypeInv, TypeOK, SupTypeOK, SlotRec, DaemonRec, ReadersNameWork,
   SupNamesWork, Busy

\* A step of the reader threads: the slots, the supervisor and the files stay.
ReaderStep ==
  UNCHANGED <<disk, orphans, procs, sup, api>> /\ dmnTask' \in {dmnTask, NoWork}

\* What such a step keeps of itself.
LEMMA ReaderKeeps ==
  ASSUME TypeInv, RowInv, ReaderStep, \A w \in Work : RowMoves(w)
  PROVE  /\ ThreadsKnowTheirRow' /\ RowsOfTrainings' /\ SlotsAgree'
         /\ sup'.pc \in WorkSteps => row'[sup'.w].status # "absent"
         /\ \A s \in SlotNames : Busy(s)' => row'[slot'[s].id].status # "absent"
         /\ DaemonActive' => row'[dmnTask'].status # "absent"
         /\ \A w \in disk' \cup orphans' : row'[w].status # "absent"
<1>1. ThreadsKnowTheirRow'
  BY OthersKnow DEF ReaderStep, RowMoves
<1>2. RowsOfTrainings'
  BY DEF RowInv, RowsOfTrainings, RowMoves, RowLives, ReaderStep
<1>3. SlotsAgree'
  BY RowParts, WorkIsNamed DEF SlotsAgree, ReaderStep, procs, Exited, Busy, WorkSteps,
     SupSteps
<1>4. QED
  BY <1>1, <1>2, <1>3, RowParts DEF HeldRowsExist, RowMoves, RowLives, ReaderStep, procs,
     Busy, DaemonActive

\* The task of the daemon becomes its reader's, or is left to the `stopped` listener.
LEMMA TaskLeavesRows ==
  ASSUME TypeInv, DaemonOwnsItsTask, RowInv, UNCHANGED <<ledger, procs, dmnTask, sup, orphans, api>>,
         dmn'.active = NoWork, fin[dmn.reader].pc = "idle",
         NEW f, fin' = [fin EXCEPT ![dmn.reader] = f],
         \/ dmn.active # NoWork /\ f.pc = "clear" /\ f.w = dmn.active
         \/ f.pc = "stopped"
  PROVE  RowInv'
<1>0. dmn.reader \in Readers /\ WorkSteps \subseteq SupSteps
  BY RowParts DEF DaemonRec, WorkSteps
<1>1. fin'[dmn.reader] = f /\ \A r \in Readers \ {dmn.reader} : fin'[r] = fin[r]
  BY <1>0, RowParts
<1>2. \A w \in Work : RowMoves(w)
  BY UntouchedMove DEF ledger
<1>3. ReaderStep /\ row' = row
  BY DEF ReaderStep, ledger
<1>4. dmn.active # NoWork => dmnTask = dmn.active /\ sup.pc \notin GenerateSteps
  BY DEF DaemonOwnsItsTask
<1>5. HeldRowsExist'
  BY <1>0, <1>1, <1>2, <1>3, <1>4, ReaderKeeps, RowParts DEF HeldRowsExist, DaemonActive
<1>6. KindsOfExecutors'
  BY <1>1, <1>3, <1>4, RowParts DEF KindsOfExecutors, DaemonActive, ReaderStep, procs, Busy
<1>7. \A w, r : r \in Readers /\ Finalizes(r, w)' =>
         Finalizes(r, w) \/ (dmn.active # NoWork /\ w = dmn.active /\ w = dmnTask)
  BY <1>1, <1>4 DEF Finalizes
<1>8. GeneratesOnce'
  <2>1. sup'.pc \in MarkSteps \cup {"fail"} => \A r \in Readers : ~Finalizes(r, sup.w)'
    BY <1>3, <1>4, <1>7, RowParts DEF GeneratesOnce, ReaderStep, MarkSteps, GenerateSteps
  <2>2. ASSUME NEW r \in Readers
        PROVE  /\ fin'[r].pc = "write" => dmnTask' # fin'[r].w
               /\ sup'.pc \in SubmitSteps /\ Finalizes(r, sup.w)' => fin'[r].st # "done"
    BY <1>0, <1>1, <1>3, <1>4, RowParts DEF GeneratesOnce, SlotsAgree, ReaderStep,
       SubmitSteps, GenerateSteps,
       Finalizes
  <2>3. QED
    BY <2>1, <2>2, <1>3, <1>7, RowParts DEF GeneratesOnce, ReaderStep, ledger
<1>9. SettledIsLetGo'
  BY <1>3, <1>7, RowParts DEF SettledIsLetGo, ReaderStep, procs, ledger
<1>10. RunningIsCarried'
  <2>1. ASSUME NEW w \in Work, Carried(w)
        PROVE  Carried(w)'
    BY <2>1, <1>0, <1>1, <1>3, <1>4, WorkIsNamed DEF Carried, ReaderStep, procs
  <2>2. QED
    BY <2>1, <1>3, RowParts DEF RunningIsCarried, ReaderStep, ledger
<1>11. QED
  BY <1>2, <1>3, <1>5, <1>6, <1>8, <1>9, <1>10, ReaderKeeps DEF RowInv

LEMMA EventRows ==
  TypeInv /\ DaemonOwnsItsTask /\ RowInv /\ (DaemonExits \/ \E st \in TerminalStatuses : TaskEnds(st))
    => RowInv'
<1> SUFFICES ASSUME TypeInv, DaemonOwnsItsTask, RowInv,
                    DaemonExits \/ \E st \in TerminalStatuses : TaskEnds(st)
             PROVE  RowInv'
  OBVIOUS
<1>1. UNCHANGED <<ledger, procs, dmnTask, sup, orphans, api>> /\ fin[dmn.reader].pc = "idle"
  BY DEF DaemonExits, TaskEnds, ReaderFree, others, host
<1>2. dmn'.active = NoWork
  BY RowParts DEF DaemonExits, TaskEnds, StoppedDaemon, DaemonRec
<1>3. PICK f : /\ fin' = [fin EXCEPT ![dmn.reader] = f]
               /\ \/ dmn.active # NoWork /\ f.pc = "clear" /\ f.w = dmn.active
                  \/ f.pc = "stopped"
  <2>1. CASE DaemonExits
    <3> DEFINE g == IF dmn.active # NoWork /\ dmn.state # "unloading"
                      THEN [pc |-> "clear", w |-> dmn.active, st |-> "failed", exit |-> TRUE]
                      ELSE [IdleReader EXCEPT !.pc = "stopped"]
    <3>1. fin' = [fin EXCEPT ![dmn.reader] = g]
      BY <2>1 DEF DaemonExits
    <3>2. (dmn.active # NoWork /\ g.pc = "clear" /\ g.w = dmn.active) \/ g.pc = "stopped"
      BY DEF IdleReader
    <3> HIDE DEF g
    <3>3. QED
      BY <3>1, <3>2
  <2>2. ASSUME NEW st, TaskEnds(st)
        PROVE  \E f : /\ fin' = [fin EXCEPT ![dmn.reader] = f]
                     /\ dmn.active # NoWork /\ f.pc = "clear" /\ f.w = dmn.active
    <3> DEFINE g == [pc |-> "clear", w |-> dmn.active, st |-> st, exit |-> FALSE]
    <3>1. fin' = [fin EXCEPT ![dmn.reader] = g] /\ dmn.active # NoWork
      BY <2>2 DEF TaskEnds
    <3>2. g.pc = "clear" /\ g.w = dmn.active
      OBVIOUS
    <3> HIDE DEF g
    <3>3. QED
      BY <3>1, <3>2
  <2>3. QED
    BY <2>1, <2>2
<1>4. QED
  BY <1>1, <1>2, <1>3, TaskLeavesRows

\* The callbacks of a reader: the marker, the row, and what was marked meanwhile.
LEMMA FinClearRows ==
  \A r \in Readers : TypeInv /\ DaemonOwnsItsTask /\ RowInv /\ FinClear(r) => RowInv'
<1> SUFFICES ASSUME NEW r \in Readers, TypeInv, DaemonOwnsItsTask, RowInv, FinClear(r)
             PROVE  RowInv'
  OBVIOUS
<1>1. /\ fin[r].pc = "clear" /\ fin'[r].pc = "write" /\ fin'[r].w = fin[r].w /\ fin'[r].st = fin[r].st
      /\ \A q \in Readers \ {r} : fin'[q] = fin[q]
      /\ dmnTask' = IF dmnTask = fin[r].w THEN NoWork ELSE dmnTask
      /\ dmn' = dmn /\ row' = row /\ dmn.active = NoWork /\ fin[r].w \in Work
  BY RowParts DEF FinClear, Released, FinRec, ledger, DaemonOwnsItsTask
<1>2. (\A w \in Work : RowMoves(w)) /\ ReaderStep
  BY UntouchedMove, <1>1 DEF ReaderStep, FinClear, others, host, ledger
<1>3. \A w, q : q \in Readers => (Finalizes(q, w)' <=> Finalizes(q, w))
  BY <1>1 DEF Finalizes
<1>4. HeldRowsExist'
  BY <1>1, <1>2, ReaderKeeps, RowParts DEF HeldRowsExist
<1>5. KindsOfExecutors'
  BY <1>1, <1>2, RowParts DEF KindsOfExecutors, DaemonActive, ReaderStep, procs, Busy
<1>6. GeneratesOnce'
  BY <1>1, <1>2, <1>3, RowParts, WorkIsNamed DEF GeneratesOnce, ReaderStep
<1>7. SettledIsLetGo'
  BY <1>1, <1>2, <1>3, RowParts, WorkIsNamed DEF SettledIsLetGo, ReaderStep, procs
<1>8. RunningIsCarried'
  <2>1. ASSUME NEW w \in Work, Carried(w)
        PROVE  Carried(w)'
    <3>1. CASE w = fin[r].w
      BY <3>1, <1>1 DEF Carried
    <3>2. CASE w # fin[r].w
      BY <2>1, <3>2, <1>1, <1>2, WorkIsNamed DEF Carried, ReaderStep, procs
    <3>3. QED
      BY <3>1, <3>2
  <2>2. QED
    BY <2>1, <1>1, <1>2, RowParts DEF RunningIsCarried, ReaderStep
<1>9. QED
  BY <1>2, <1>4, <1>5, <1>6, <1>7, <1>8, ReaderKeeps DEF RowInv

LEMMA FinStoppedRows ==
  \A r \in Readers : TypeInv /\ RowInv /\ FinStopped(r) => RowInv'
<1> SUFFICES ASSUME NEW r \in Readers, TypeInv, RowInv, FinStopped(r)
             PROVE  RowInv'
  OBVIOUS
<1>1. /\ fin[r].pc = "stopped" /\ \A q \in Readers \ {r} : fin'[q] = fin[q]
      /\ UNCHANGED <<dmn, dmnTask, row>>
      /\ \/ dmnTask = NoWork /\ fin'[r].pc = "idle"
         \/ dmnTask # NoWork /\ fin'[r].pc = "clear" /\ fin'[r].w = dmnTask /\ fin'[r].st # "done"
  BY RowParts DEF FinStopped, TaskLeftBehind, IdleReader, ledger
<1>2. (\A w \in Work : RowMoves(w)) /\ ReaderStep
  BY UntouchedMove, <1>1 DEF ReaderStep, FinStopped, others, host, ledger
<1>3. \A w, q : q \in Readers => (Finalizes(q, w)' <=> Finalizes(q, w) \/ (q = r /\ w = dmnTask /\ w # NoWork))
  BY <1>1 DEF Finalizes
<1>4. HeldRowsExist'
  BY <1>1, <1>2, ReaderKeeps, RowParts DEF HeldRowsExist, DaemonActive
<1>5. KindsOfExecutors'
  BY <1>1, <1>2, RowParts DEF KindsOfExecutors, DaemonActive, ReaderStep, procs, Busy
<1>6. GeneratesOnce'
  <2>1. sup'.pc \in MarkSteps \cup {"fail"} => \A q \in Readers : ~Finalizes(q, sup.w)'
    BY <1>2, <1>3, RowParts DEF GeneratesOnce, SlotsAgree, ReaderStep
  <2>2. ASSUME NEW q \in Readers
        PROVE  /\ fin'[q].pc = "write" => dmnTask' # fin'[q].w
               /\ sup'.pc \in SubmitSteps /\ Finalizes(q, sup.w)' => fin'[q].st # "done"
    <3>1. CASE q = r
      BY <3>1, <1>1 DEF Finalizes
    <3>2. CASE q # r
      BY <3>2, <1>1, <1>2, <1>3, RowParts DEF GeneratesOnce, ReaderStep
    <3>3. QED
      BY <3>1, <3>2
  <2>3. QED
    BY <2>1, <2>2, <1>1, <1>2, <1>3, RowParts DEF GeneratesOnce, ReaderStep
<1>7. SettledIsLetGo'
  BY <1>1, <1>2, <1>3, RowParts DEF SettledIsLetGo, ReaderStep, procs
<1>8. RunningIsCarried'
  <2>1. ASSUME NEW w \in Work, Carried(w)
        PROVE  Carried(w)'
    BY <2>1, <1>1, <1>2, WorkIsNamed DEF Carried, ReaderStep, procs
  <2>2. QED
    BY <2>1, <1>1, <1>2, RowParts DEF RunningIsCarried, ReaderStep
<1>9. QED
  BY <1>2, <1>4, <1>5, <1>6, <1>7, <1>8, ReaderKeeps DEF RowInv

\* The row that a reader writes is nobody else's: the generate has left the daemon and
\* is not dispatched again.
LEMMA FinWriteRows ==
  \A r \in Readers : OneReader /\ TypeInv /\ RowInv /\ FinWrite(r) => RowInv'
<1> SUFFICES ASSUME NEW r \in Readers, OneReader, TypeInv, RowInv, FinWrite(r)
             PROVE  RowInv'
  OBVIOUS
<1> DEFINE w == fin[r].w
           st == fin[r].st
<1>1. /\ fin[r].pc = "write" /\ w \in Work /\ st \in TerminalStatuses /\ row' = WithStatus(row, w, st)
      /\ fin'[r].pc \in {"stopped", "idle"} /\ \A q \in Readers : q = r
      /\ UNCHANGED <<dmn, dmnTask>>
  BY RowParts DEF FinWrite, FinRec, IdleReader, OneReader
<1>2. ReaderStep
  BY DEF ReaderStep, FinWrite, others, host
<1>3. StatusWritten(w, st) /\ KindOf[w] = "generate" /\ dmnTask # w
  BY <1>1, WrittenStatus, RowParts DEF KindsOfExecutors, GeneratesOnce
<1>4. \A u \in Work \ {w} : RowMoves(u) /\ row'[u].status = row[u].status
  BY <1>3, RowParts, StayingMoves DEF StatusWritten, RowStays
<1>5. /\ row[w].status # "absent" => row'[w].status # "absent"
      /\ row'[w].type = row[w].type /\ row'[w].cfg = row[w].cfg /\ row'[w].last = row[w].last
      /\ row[w].status = "deleted" => row'[w].status = "deleted"
      /\ row'[w].status \in TerminalStatuses \cup NoRowStatuses
  BY <1>1, <1>3 DEF StatusWritten, TerminalStatuses, NoRowStatuses
<1>6. \A u, q : q \in Readers => ~Finalizes(q, u)'
  BY <1>1 DEF Finalizes
<1>7. HeldRowsExist'
  BY <1>1, <1>2, <1>4, <1>5, RowParts DEF HeldRowsExist, RowMoves, RowLives, ReaderStep,
     procs, Busy, DaemonActive
<1>8. ThreadsKnowTheirRow'
  BY <1>2, <1>4, <1>5, RowParts DEF ThreadsKnowTheirRow, ThreadKnows, RowMoves, RowLives,
     ReaderStep, TypeInv,
     RequestsNameWork
<1>9. RowsOfTrainings'
  BY <1>2, <1>4, <1>5, RowParts DEF RowsOfTrainings, RowMoves, RowLives, ReaderStep,
     TerminalStatuses, NoRowStatuses
<1>10. KindsOfExecutors'
  BY <1>1, <1>2, RowParts DEF KindsOfExecutors, DaemonActive, ReaderStep, procs, Busy
<1>11. SlotsAgree'
  BY <1>1, <1>2, RowParts DEF SlotsAgree, ReaderStep, procs, Exited, Busy
<1>12. GeneratesOnce'
  BY <1>1, <1>2, <1>4, <1>5, <1>6, RowParts DEF GeneratesOnce, ReaderStep, TerminalStatuses,
     NoRowStatuses
<1>13. SettledIsLetGo'
  <2>1. ASSUME row'[w].status = "done"
        PROVE  /\ \A s \in SlotNames : slot'[s].id # w
               /\ sup'.pc \in WorkSteps => sup'.w # w
    <3>1. \A s \in SlotNames : slot[s].id # w
      BY <1>1, <1>3, RowParts, WorkIsNamed DEF KindsOfExecutors, Busy, SlotNames,
         TrainSlotKinds, DataSlotKinds
    <3>2. CASE st = "done"
      <4>1. sup.pc \in SpawnSteps \cup DataSteps \cup ReleaseSteps => sup.w # w
        BY <3>1, <1>3, RowParts DEF KindsOfExecutors, SlotsAgree, TrainSlotKinds,
           DataSlotKinds, SupRec
      <4>2. sup.pc \in MarkSteps \cup {"fail"} \cup SubmitSteps => sup.w # w
        BY <3>2, <1>1, RowParts DEF GeneratesOnce, Finalizes
      <4>3. QED
        BY <3>1, <4>1, <4>2, <1>2 DEF ReaderStep, procs, WorkSteps, SupSteps, SpawnSteps,
           DataSteps,
           ReleaseSteps, MarkSteps, SubmitSteps
    <3>3. CASE st # "done"
      <4>1. row[w].status = "done"
        BY <3>3, <2>1, <1>3 DEF StatusWritten
      <4>2. QED
        BY <4>1, <1>1, RowParts DEF SettledIsLetGo, Finalizes
    <3>4. QED
      BY <3>2, <3>3
  <2>2. row'[w].status # "paused"
    BY <1>5 DEF TerminalStatuses, NoRowStatuses
  <2>3. QED
    BY <2>1, <2>2, <1>1, <1>2, <1>3, <1>4, <1>6, RowParts DEF SettledIsLetGo, ReaderStep,
       procs
<1>14. RunningIsCarried'
  <2>1. ASSUME NEW u \in Work \ {w}, Carried(u)
        PROVE  Carried(u)'
    BY <2>1, <1>1, <1>2 DEF Carried, ReaderStep, procs
  <2>2. row'[w].status # "running"
    BY <1>5 DEF TerminalStatuses, NoRowStatuses
  <2>3. QED
    BY <2>1, <2>2, <1>2, <1>4, RowParts DEF RunningIsCarried, ReaderStep, WorkSteps,
       SupSteps
<1>15. QED
  BY <1>7, <1>8, <1>9, <1>10, <1>11, <1>12, <1>13, <1>14 DEF RowInv

\* The server starts again from the table alone.
LEMMA ServerRows == TypeInv /\ SlotsOwnTheirProcess /\ DaemonOwnsItsTask /\ RowInv /\ (ServerStops \/ ServerCrashes) => RowInv'
<1> SUFFICES ASSUME TypeInv, SlotsOwnTheirProcess, DaemonOwnsItsTask, RowInv, ServerStops \/ ServerCrashes
             PROVE  RowInv'
  OBVIOUS
<1>1. PICK survivors \in SUBSET RunningProcs : ServerGone(survivors)
  BY DEF ServerStops, ServerCrashes, RunningProcs
<1>2. \A w \in survivors : w \in Work /\ row[w].status # "absent"
  BY <1>1, ProcessHasRow, RowParts DEF RunningProcs, HeldRowsExist, DaemonActive,
     DaemonOwnsItsTask
<1>3. /\ \A s \in SlotNames : slot'[s] = IdleSlot /\ child'[s] = NoChild
      /\ dmnTask' = NoWork /\ sup'.pc = "down" /\ UNCHANGED <<row, disk>>
      /\ \A r \in Readers : fin'[r] = IdleReader
      /\ orphans' = orphans \cup survivors
      /\ \A t \in Threads : api'[t] = IdleThread
  BY <1>1, AfterGoto DEF ServerGone, ledger
<1>4. HeldRowsExist' /\ ThreadsKnowTheirRow' /\ RowsOfTrainings'
  BY <1>2, <1>3, RowParts DEF HeldRowsExist, ThreadsKnowTheirRow, ThreadKnows,
     RowsOfTrainings, IdleSlot,
     IdleReader, IdleThread, Busy, DaemonActive, WorkSteps
<1>5. KindsOfExecutors' /\ SlotsAgree'
  BY <1>3 DEF KindsOfExecutors, SlotsAgree, IdleSlot, NoChild, IdleReader, Busy,
     DaemonActive, SlotNames,
     SpawnSteps, DataSteps, MarkSteps, SubmitSteps, ReleaseSteps
<1>6. GeneratesOnce' /\ SettledIsLetGo' /\ RunningIsCarried'
  BY <1>3, WorkIsNamed DEF GeneratesOnce, SettledIsLetGo, RunningIsCarried, IdleSlot,
     IdleReader, Finalizes,
     SlotNames, MarkSteps, SubmitSteps, WorkSteps
<1>7. QED
  BY <1>4, <1>5, <1>6 DEF RowInv

--------------------------------------------------------------------------------
(* The supervisor *)

\* Where the supervisor is after a step.
LEMMA GoesTo ==
  ASSUME NEW pc, NEW s, NEW w, NEW st, Goto(pc, s, w, st)
  PROVE  sup'.pc = pc /\ sup'.s = s /\ sup'.w = w /\ sup'.st = st
BY DEF Goto

\* It touches no file and no request, and no step of it unmakes a row.
LEMMA SuperviseLives ==
  TypeInv /\ RowInv /\ Supervise =>
    /\ UNCHANGED <<disk, orphans, api>> /\ \A w \in Work : RowLives(w)
<1> SUFFICES ASSUME TypeInv, RowInv, Supervise
             PROVE  UNCHANGED <<disk, orphans, api>> /\ \A w \in Work : RowLives(w)
  OBVIOUS
<1>1. UNCHANGED <<disk, orphans, api>>
  BY DEF Supervise, Restart, FindDue, PromoteDue, ReapNothing, ReapExited, FinishSlot,
     RecordFinish,
     ReleaseSlot, SkipSlot, HeadWaits, SelectHead, SpawnTask, WriteTaskRunning, FailTask, DispatchData,
     PopenJob, MarkJobRunning, AttachJob, StartDaemon, AwaitDaemon, ClaimDaemon, WriteGenerateRunning,
     SubmitTask, RejectTask, WriteRejected, ledger, others, host
<1>2. CASE UNCHANGED row
  BY <1>1, <1>2, UntouchedMove DEF RowMoves
<1>3. CASE Restart \/ PromoteDue
  <2>1. ASSUME NEW ws, NEW st \in {"failed", "pending"}, row' = WithStatusIn(row, ws, st),
               \A w \in ws : row[w].status \in {"running", "scheduled"}
        PROVE  \A w \in Work : RowLives(w)
    <3>1. \A w \in Work : /\ row'[w].status \in {row[w].status, st} /\ row'[w].type = row[w].type
                          /\ row'[w].cfg = row[w].cfg /\ row'[w].last = row[w].last
                          /\ (w \in ws \/ row'[w] = row[w])
      BY <2>1, RowParts DEF WithStatusIn, Row
    <3>2. QED
      BY <2>1, <3>1, RowParts DEF RowLives, RowsOfTrainings
  <2>2. CASE Restart
    <3>1. row' = WithStatusIn(row, OrphanRows, "failed") /\ \A w \in OrphanRows : row[w].status \in {"running", "scheduled"}
      BY <2>2 DEF Restart, OrphanRows
    <3>2. QED
      BY <1>1, <2>1, <3>1
  <2>3. CASE PromoteDue
    <3>1. /\ row' = WithStatusIn(row, StillScheduled(sup.due), "pending")
          /\ \A w \in StillScheduled(sup.due) : row[w].status \in {"running", "scheduled"}
      BY <2>3 DEF PromoteDue, StillScheduled
    <3>2. QED
      BY <1>1, <2>1, <3>1
  <2>4. QED
    BY <1>3, <2>2, <2>3
<1>4. ASSUME NEW w \in Work, NEW st \in {"failed", "running"}, row' = WithStatus(row, w, st)
      PROVE  \A u \in Work : RowLives(u)
  BY <1>4, WrittenStatus, RowParts DEF StatusWritten, RowStays, RowLives, RowsOfTrainings,
     NoRowStatuses
<1>5. CASE WriteTaskRunning \/ FailTask \/ MarkJobRunning \/ WriteGenerateRunning \/ WriteRejected
  <2>1. sup.w \in Work
    BY <1>5, RowParts DEF WriteTaskRunning, FailTask, MarkJobRunning, WriteGenerateRunning,
                      WriteRejected, WorkSteps, SupSteps
  <2>2. \E st \in {"failed", "running"} : row' = WithStatus(row, sup.w, st)
    BY <1>5 DEF WriteTaskRunning, FailTask, MarkJobRunning, WriteGenerateRunning,
       WriteRejected
  <2>3. QED
    BY <1>1, <2>1, <2>2, <1>4
<1>6. CASE RecordFinish
  <2>1. sup.w \in Work /\ row[sup.w] \in Row /\ sup.st \in TerminalStatuses \cup {"paused"}
    BY <1>6, RowParts DEF RecordFinish, WorkSteps, SupSteps, TypeInv, SupNamesWork
  <2>2. PICK b : row' = Update(row, sup.w, [row[sup.w] EXCEPT !.status = sup.st, !.paused = b])
    BY <1>6 DEF RecordFinish
  <2>3. LET new == [row[sup.w] EXCEPT !.status = sup.st, !.paused = b]
        IN  new.status = sup.st /\ new.type = row[sup.w].type /\ new.cfg = row[sup.w].cfg
            /\ new.last = row[sup.w].last
    BY <2>1 DEF Row
  <2>4. QED
    <3>1. \A u \in Work : row'[u] = row[u] \/ u = sup.w
      BY <2>2, RowParts DEF Update
    <3>2. RowLives(sup.w)
      BY <2>1, <2>2, <2>3, RowParts DEF Update, Exists, NoRowStatuses, TerminalStatuses,
         RowLives, RowsOfTrainings
    <3>3. QED
      BY <1>1, <3>1, <3>2, RowParts DEF RowLives, RowsOfTrainings
<1>7. CASE ReleaseSlot
  <2>1. ASSUME NEW w \in Work, QueuesAutoEval(w), row' = [row EXCEPT ![w] = NewRow("eval_samples", "pending", FALSE)]
        PROVE  \A u \in Work : RowLives(u)
    <3>1. NewRow("eval_samples", "pending", FALSE).status = "pending" /\ ~NewRow("eval_samples", "pending", FALSE).cfg
          /\ ~NewRow("eval_samples", "pending", FALSE).last
      BY DEF NewRow
    <3>2. QED
      BY <2>1, <3>1, RowParts, BirthMoves DEF QueuesAutoEval, RowMoves
  <2>2. QED
    BY <1>1, <1>7, <2>1, <1>2 DEF ReleaseSlot
<1>8. QED
  BY <1>2, <1>3, <1>5, <1>6, <1>7 DEF Supervise, FindDue, ReapNothing, ReapExited,
     FinishSlot,
     SkipSlot, HeadWaits, SelectHead, SpawnTask, DispatchData, PopenJob, AttachJob, StartDaemon,
     AwaitDaemon, ClaimDaemon, SubmitTask, RejectTask, ledger

\* So these parts of the agreement need no more.
LEMMA SuperviseStatics ==
  TypeInv /\ RowInv /\ Supervise =>
    /\ ThreadsKnowTheirRow' /\ RowsOfTrainings'
    /\ \A w \in disk' \cup orphans' : row'[w].status # "absent"
BY SuperviseLives, OthersKnow, RowParts DEF RowsOfTrainings, HeldRowsExist, RowLives

\* The steps of a tick that are no work.
RestSteps == \/ Restart \/ FindDue \/ PromoteDue \/ ReapNothing \/ SkipSlot \/ HeadWaits
             \/ (DispatchData /\ sup'.pc # "job_popen") \/ FailTask \/ WriteRejected

LEMMA RestRows == TypeInv /\ RowInv /\ RestSteps => RowInv'
<1> SUFFICES ASSUME TypeInv, RowInv, RestSteps
             PROVE  RowInv'
  OBVIOUS
<1>0. Supervise
  BY DEF RestSteps, Supervise
<1>1. sup.pc \in {"down", "promote", "promote_write", "reap", "dispatch", "fail", "gen_reject_write"}
  BY DEF RestSteps, Restart, FindDue, PromoteDue, ReapNothing, SkipSlot, HeadWaits,
     DispatchData, FailTask,
     WriteRejected
<1>2. sup'.pc \in {"promote", "promote_write", "reap", "dispatch"}
  <2>1. CASE FindDue
    BY <2>1, GoesTo, RowParts DEF FindDue, SupRec
  <2>2. CASE DispatchData /\ sup'.pc # "job_popen"
    BY <2>2, GoesTo, AfterEnd DEF DispatchData
  <2>3. CASE Restart \/ PromoteDue \/ ReapNothing \/ SkipSlot \/ HeadWaits \/ FailTask \/ WriteRejected
    BY <2>3, GoesTo, AfterEnd DEF Restart, PromoteDue, ReapNothing, SkipSlot, HeadWaits,
       FailTask,
       WriteRejected
  <2>4. QED
    BY <2>1, <2>2, <2>3 DEF RestSteps
<1>3. ExecutorsStay
  <2>1. UNCHANGED <<procs, fin>>
    BY DEF RestSteps, Restart, FindDue, PromoteDue, ReapNothing, SkipSlot, HeadWaits,
       DispatchData, FailTask,
       WriteRejected, daemon
  <2>2. dmnTask' = dmnTask
    <3>1. CASE FailTask
      <4>1. dmnTask = NoWork
        BY <3>1, RowParts DEF FailTask, SlotsAgree
      <4>2. QED
        BY <3>1, <4>1 DEF FailTask
    <3>2. CASE ~FailTask
      BY <3>2 DEF RestSteps, Restart, FindDue, PromoteDue, ReapNothing, SkipSlot, HeadWaits,
         DispatchData,
         WriteRejected, daemon
    <3>3. QED
      BY <3>1, <3>2
  <2>3. dmn' = dmn \/ dmn'.active = dmn.active
    <3>1. \A n : RequestUnloads(n) => dmn' = dmn \/ dmn'.active = dmn.active
      BY RowParts DEF RequestUnloads, UnloadsSent, DaemonRec
    <3>2. CASE HeadWaits \/ DispatchData
      BY <3>1, <3>2 DEF HeadWaits, DispatchData
    <3>3. CASE ~HeadWaits /\ ~DispatchData
      BY <3>3 DEF RestSteps, Restart, FindDue, PromoteDue, ReapNothing, SkipSlot, FailTask,
         WriteRejected, daemon
    <3>4. QED
      BY <3>2, <3>3
  <2>4. QED
    BY <2>1, <2>2, <2>3 DEF ExecutorsStay, procs, Exited
<1>4. (\A w \in Work : RowMoves(w)) /\ (\A w \in Work : row'[w].status = "running" => Carried(w))
  <2>1. CASE Restart
    BY <2>1, RowParts DEF Restart, WithStatusIn, OrphanRows, RowMoves, RowLives,
       RowsOfTrainings, Row
  <2>2. CASE PromoteDue
    BY <2>2, RowParts DEF PromoteDue, WithStatusIn, StillScheduled, RowMoves, RowLives,
       RowsOfTrainings, Row,
       RunningIsCarried, PassSteps
  <2>3. CASE FailTask \/ WriteRejected
    <3>1. sup.w \in Work /\ row' = WithStatus(row, sup.w, "failed")
      BY <2>3, RowParts DEF FailTask, WriteRejected, WorkSteps, SupSteps
    <3>2. StatusWritten(sup.w, "failed")
      BY <3>1, WrittenStatus
    <3>3. QED
      BY <1>1, <2>3, <3>1, <3>2, RowParts, EndingMoves DEF StatusWritten, RowStays,
         RunningIsCarried, NoRowStatuses,
         FailTask, WriteRejected
  <2>4. CASE row' = row /\ sup.pc \in {"promote", "reap", "dispatch"}
    BY <2>4, UntouchedMove, RowParts DEF RunningIsCarried, PassSteps
  <2>5. QED
    BY <2>1, <2>2, <2>3, <2>4 DEF RestSteps, FindDue, ReapNothing, SkipSlot, HeadWaits,
       DispatchData, ledger
<1>5. FilesKnown
  BY <1>0, SuperviseLives, RowParts DEF FilesKnown, RowsOfTrainings, HeldRowsExist
<1>6. SupervisorRests
  BY <1>1, <1>2, <1>4 DEF SupervisorRests, WorkSteps
<1>7. QED
  BY <1>0, <1>3, <1>4, <1>5, <1>6, QuietRows, SuperviseStatics DEF RowInv


--------------------------------------------------------------------------------
(* The supervisor at work: the step, the table, the executors *)

\* A step of the supervisor from one step of a work to the next, or to the first of a
\* new one, that leaves the rows and the executors alone.
LEMMA WorkGoesOn ==
  ASSUME TypeInv, RowInv, Supervise, UNCHANGED <<row, procs, dmnTask, fin>>, dmn'.active = dmn.active,
         sup.pc \notin {"down", "release", "gen_run"},
         sup'.pc \in WorkSteps \ {"release"}, row[sup'.w].status \notin {"absent", "done", "paused"},
         sup.pc \in PassSteps => sup'.pc \in PassSteps /\ sup'.w = sup.w,
         sup'.pc \in SpawnSteps => KindOf[sup'.w] \in TrainSlotKinds,
         sup'.pc \in DataSteps => KindOf[sup'.w] \in DataSlotKinds,
         sup'.pc \in MarkSteps \cup SubmitSteps => KindOf[sup'.w] = "generate",
         sup.pc \notin {"job_mark", "job_attach"},
         sup'.pc \in ReleaseSteps => slot[sup'.s].id = sup'.w /\ Exited(sup'.s),
         sup'.pc = "record" => child[sup'.s].log = <<>>,
         sup'.pc \notin {"spawn_write", "gen_reject_write"},
         sup'.pc = "spawn" => ~Busy("train"),
         sup'.pc \in DataSteps => ~Busy("data"),
         sup'.pc \in MarkSteps \cup {"fail"} => dmnTask = NoWork,
         sup'.pc \in MarkSteps \cup {"fail"} => \A r \in Readers : ~Finalizes(r, sup'.w),
         sup'.pc \in SubmitSteps => sup.pc \in SubmitSteps /\ sup'.w = sup.w
  PROVE  RowInv'
<1>0. \A w \in Work : row'[w] = row[w]
  OBVIOUS
<1>1. HeldRowsExist'
  BY SuperviseStatics, RowParts DEF HeldRowsExist, procs, Busy, DaemonActive
<1>2. KindsOfExecutors'
  BY RowParts DEF KindsOfExecutors, procs, Busy, DaemonActive
<1>3. SlotsAgree'
  BY RowParts DEF SlotsAgree, procs, Busy, Exited, ReleaseSteps
<1>4. \A r, w : Finalizes(r, w)' <=> Finalizes(r, w)
  BY DEF Finalizes
<1>5. GeneratesOnce'
  <2>1. sup'.pc \in MarkSteps \cup {"fail"} => \A r \in Readers : ~Finalizes(r, sup.w)'
    BY DEF Finalizes
  <2>2. \A r \in Readers : /\ fin'[r].pc = "write" => dmnTask' # fin'[r].w
                          /\ sup'.pc \in SubmitSteps /\ Finalizes(r, sup.w)' => fin'[r].st # "done"
    BY RowParts DEF GeneratesOnce, Finalizes
  <2>3. QED
    BY <1>4, <2>1, <2>2, RowParts DEF GeneratesOnce
<1>6. SettledIsLetGo'
  BY <1>4, RowParts DEF SettledIsLetGo, procs
<1>7. RunningIsCarried'
  BY RowParts DEF RunningIsCarried, Carried, procs, PassSteps
<1>8. QED
  BY <1>1, <1>2, <1>3, <1>5, <1>6, <1>7, SuperviseStatics DEF RowInv

\* A process has ended and is finished: its status is found.
LEMMA ReapRows == TypeInv /\ RowInv /\ (ReapExited \/ FinishSlot) => RowInv'
<1> SUFFICES ASSUME TypeInv, RowInv, ReapExited \/ FinishSlot
             PROVE  RowInv'
  OBVIOUS
<1>1. Supervise /\ UNCHANGED <<row, procs, dmn, dmnTask, fin>>
  BY DEF ReapExited, FinishSlot, Supervise, ledger, daemon
<1>2. /\ sup.pc \in {"reap", "finish"} /\ sup'.pc \in {"finish", "record"} /\ sup'.s = sup.s /\ sup'.w = slot[sup.s].id
      /\ sup'.pc = "record" => child[sup.s].log = <<>>
      /\ Exited(sup.s) /\ sup.s \in SlotNames /\ slot[sup.s].id # NoWork
  BY GoesTo, RowParts, WorkIsNamed DEF ReapExited, FinishSlot, Busy, SlotsAgree,
     ReleaseSteps, WorkSteps, SupSteps,
     TailerDrained, SupRec
<1>3. row[slot[sup.s].id].status \notin {"absent", "done", "paused"}
  BY <1>2, RowParts DEF HeldRowsExist, SettledIsLetGo, Busy
<1>4. QED
  BY <1>1, <1>2, <1>3, WorkGoesOn DEF WorkSteps, SupSteps, PassSteps, SpawnSteps, DataSteps,
     MarkSteps, SubmitSteps

\* A work that is chosen is what its row says, and nobody has it.
LEMMA ChosenRows ==
  TypeInv /\ RowsKeepTheirKind /\ RowInv /\ (SelectHead \/ (DispatchData /\ sup'.pc = "job_popen")) => RowInv'
<1> SUFFICES ASSUME TypeInv, RowsKeepTheirKind, RowInv, SelectHead \/ (DispatchData /\ sup'.pc = "job_popen")
             PROVE  RowInv'
  OBVIOUS
<1>1. /\ Supervise /\ UNCHANGED <<row, procs, dmnTask, fin>>
      /\ (sup.pc = "dispatch" /\ ~Busy("data")) \/ SelectHead
  BY DEF SelectHead, DispatchData, Supervise, ledger, daemon
<1>2. dmn'.active = dmn.active
  BY RowParts DEF SelectHead, DispatchData, daemon, RequestUnloads, UnloadsSent, DaemonRec
<1>3. PICK w \in Work :
        /\ row[w].status = "pending" /\ sup'.w = w
        /\ \/ row[w].type = "generate" /\ sup'.pc = "gen_start"
           \/ row[w].type \in {"eval_samples", "light", "io"} /\ sup'.pc = "job_popen"
           \/ row[w].type \in {"train", "reg_ai"} /\ row[w].cfg /\ sup'.pc = "spawn"
           \/ sup'.pc = "fail"
  <2>1. CASE SelectHead
    <3>1. PICK w \in Work :
            /\ IsExclusiveHead(w)
            /\ CASE row[w].type = "generate"     -> Goto("gen_start", "train", w, "none")
                 [] row[w].type = "eval_samples" -> Goto("job_popen", "data", w, "none")
                 [] OTHER -> IF row[w].cfg
                               THEN Goto("spawn", "train", w, IF row[w].paused THEN "resume" ELSE "fresh")
                               ELSE Goto("fail", "train", w, "none")
      BY <2>1 DEF SelectHead
    <3>2. row[w].status = "pending" /\ row[w].type \in ExclusiveTypes
      BY <3>1 DEF IsExclusiveHead, IsHead, Pending
    <3>3. QED
      BY <3>1, <3>2, GoesTo DEF ExclusiveTypes, TaskKinds
  <2>2. CASE DispatchData /\ sup'.pc = "job_popen"
    <3>1. PICK w : w \in Pending(row, {"light", "io"}) /\ Goto("job_popen", "data", w, "none")
      BY <2>2, AfterEnd DEF DispatchData, IsHead
    <3>2. w \in Work /\ row[w].status = "pending" /\ row[w].type \in {"light", "io"}
      BY <3>1, RowParts DEF Pending
    <3>3. QED
      BY <3>1, <3>2, GoesTo, <2>2
  <2>3. QED
    BY <2>1, <2>2
<1>4. /\ sup'.pc = "gen_start" => KindOf[w] = "generate"
      /\ sup'.pc = "job_popen" => KindOf[w] \in DataSlotKinds
      /\ sup'.pc = "spawn" => KindOf[w] \in TrainSlotKinds
  BY <1>3, RowParts DEF RowsKeepTheirKind, RowsOfTrainings, DataSlotKinds, TrainSlotKinds
<1>5. sup.pc = "dispatch" /\ (sup'.pc = "job_popen" => ~Busy("data")) /\ (sup'.pc # "job_popen" => ~Busy("train") /\ dmnTask = NoWork)
  <2>1. CASE SelectHead
    <3>1. sup.pc = "dispatch" /\ ~ExclusiveBusy /\ (sup'.pc = "job_popen" => ~Busy("data"))
      <4>1. PICK u \in Work :
              /\ ~HeadMustWait(u)
              /\ CASE row[u].type = "generate"     -> Goto("gen_start", "train", u, "none")
                   [] row[u].type = "eval_samples" -> Goto("job_popen", "data", u, "none")
                   [] OTHER -> IF row[u].cfg
                                 THEN Goto("spawn", "train", u, IF row[u].paused THEN "resume" ELSE "fresh")
                                 ELSE Goto("fail", "train", u, "none")
        BY <2>1 DEF SelectHead
      <4>2. QED
        BY <2>1, <4>1, GoesTo DEF SelectHead, CanDispatchExclusive, HeadMustWait
    <3>2. QED
      BY <3>1 DEF ExclusiveBusy, DaemonActive
  <2>2. CASE ~SelectHead
    BY <2>2 DEF DispatchData
  <2>3. QED
    BY <2>1, <2>2
<1>6. \A r \in Readers : ~Finalizes(r, w)
  BY <1>3, <1>5, RowParts DEF GeneratesOnce
<1>7. sup'.pc \in {"gen_start", "job_popen", "spawn", "fail"}
  BY <1>3
<1>8. QED
  BY <1>1, <1>2, <1>3, <1>4, <1>5, <1>6, <1>7, WorkGoesOn
  DEF WorkSteps, SupSteps, PassSteps, SpawnSteps, DataSteps, MarkSteps, SubmitSteps, ReleaseSteps

\* The daemon is started, awaited, or does not take the task.
LEMMA GenerateRows ==
  TypeInv /\ DaemonOwnsItsTask /\ RowInv /\ (StartDaemon \/ AwaitDaemon \/ (SubmitTask /\ dmn.state # "idle"))
    => RowInv'
<1> SUFFICES ASSUME TypeInv, DaemonOwnsItsTask, RowInv,
                    StartDaemon \/ AwaitDaemon \/ (SubmitTask /\ dmn.state # "idle")
             PROVE  RowInv'
  OBVIOUS
<1>1. Supervise /\ UNCHANGED <<row, procs, dmnTask, fin>>
  BY DEF StartDaemon, AwaitDaemon, SubmitTask, Supervise, ledger, daemon
<1>2. dmn'.active = dmn.active
  <2>1. dmn' = dmn \/ (dmn.state = "stopped" /\ \E r \in Readers : dmn' = [StoppedDaemon EXCEPT !.state = "starting", !.reader = r])
    BY DEF StartDaemon, AwaitDaemon, SubmitTask, daemon
  <2>2. \A r \in Readers : [StoppedDaemon EXCEPT !.state = "starting", !.reader = r].active = NoWork
    BY DEF StoppedDaemon
  <2>3. dmn.state = "stopped" => dmn.active = NoWork
    BY DEF DaemonOwnsItsTask
  <2>4. QED
    BY <2>1, <2>2, <2>3
<1>3. /\ sup.pc \in {"gen_start", "gen_wait", "gen_submit"} /\ sup'.w = sup.w /\ sup.w \in Work
      /\ \/ sup.pc \in {"gen_start", "gen_wait"} /\ sup'.pc \in {"gen_wait", "gen_claim", "fail"}
         \/ sup.pc = "gen_submit" /\ sup'.pc = "gen_reject"
  BY GoesTo, RowParts DEF StartDaemon, AwaitDaemon, SubmitTask, WorkSteps, SupSteps
<1>4. row[sup.w].status \notin {"absent", "done", "paused"}
  BY <1>3, RowParts DEF HeldRowsExist, SettledIsLetGo, WorkSteps, SupSteps
<1>5. /\ sup.pc # "gen_submit" => dmnTask = NoWork /\ \A r \in Readers : ~Finalizes(r, sup.w)
      /\ KindOf[sup.w] = "generate"
  BY <1>3, RowParts DEF SlotsAgree, GeneratesOnce, KindsOfExecutors, MarkSteps, SubmitSteps
<1>6. QED
  BY <1>1, <1>2, <1>3, <1>4, <1>5, WorkGoesOn
  DEF WorkSteps, SupSteps, PassSteps, SpawnSteps, DataSteps, MarkSteps, SubmitSteps, ReleaseSteps

\* The row that a step of the supervisor writes is the one it works on.
LEMMA WorkWritten ==
  ASSUME TypeInv, NEW st, sup.pc \in WorkSteps, row' = WithStatus(row, sup.w, st)
  PROVE  StatusWritten(sup.w, st)
BY WrittenStatus DEF TypeInv, SupNamesWork

\* The status of a finished work is written: no executor but its slot has it.
LEMMA RecordRows == TypeInv /\ RowInv /\ RecordFinish => RowInv'
<1> SUFFICES ASSUME TypeInv, RowInv, RecordFinish
             PROVE  RowInv'
  OBVIOUS
<1> DEFINE w == sup.w
<1>1. /\ sup.pc = "record" /\ sup'.pc = "release" /\ sup'.w = w /\ sup'.s = sup.s /\ w \in Work
      /\ sup.s \in SlotNames /\ slot[sup.s].id = w /\ Exited(sup.s) /\ child[sup.s].log = <<>>
      /\ UNCHANGED <<procs, dmn, dmnTask, fin>> /\ Supervise
  BY GoesTo, RowParts DEF RecordFinish, WorkSteps, SupSteps, SlotsAgree, ReleaseSteps,
     SupRec, daemon, Supervise
<1>2. /\ \A u \in Work \ {w} : row'[u] = row[u]
      /\ row'[w].status # "running" /\ row'[w].status # "pending"
  <2>1. row[w] \in Row /\ sup.st \in TerminalStatuses \cup {"paused"}
    BY <1>1, RowParts DEF TypeInv, SupNamesWork
  <2>2. PICK b : row' = Update(row, w, [row[w] EXCEPT !.status = sup.st, !.paused = b])
    BY DEF RecordFinish
  <2>3. [row[w] EXCEPT !.status = sup.st, !.paused = b].status = sup.st
    BY <2>1 DEF Row
  <2>4. QED
    BY <1>1, <2>1, <2>2, <2>3, RowParts DEF Update, Exists, NoRowStatuses, TerminalStatuses
<1>3. /\ dmnTask # w /\ \A r \in Readers : ~Finalizes(r, w)
      /\ \A s \in SlotNames : slot[s].id = w => s = sup.s
  BY <1>1, RowParts, WorkIsNamed DEF KindsOfExecutors, SlotNames, Busy, TrainSlotKinds,
     DataSlotKinds, DaemonActive,
     Finalizes
<1>4. HeldRowsExist'
  <2>1. w \in Work /\ row'[w].status # "absent"
    BY <1>1, SuperviseLives, RowParts DEF HeldRowsExist, RowLives, WorkSteps, SupSteps
  <2>2. QED
    BY <1>1, <1>2, <2>1, SuperviseStatics, RowParts DEF HeldRowsExist, procs, Busy,
       DaemonActive
<1>5. KindsOfExecutors'
  BY <1>1, RowParts DEF KindsOfExecutors, procs, Busy, DaemonActive, SpawnSteps, DataSteps,
     MarkSteps, SubmitSteps
<1>6. SlotsAgree'
  BY <1>1, RowParts DEF SlotsAgree, procs, Exited, DataSteps, MarkSteps, ReleaseSteps
<1>7. \A q, u : Finalizes(q, u)' <=> Finalizes(q, u)
  BY <1>1 DEF Finalizes
<1>8. GeneratesOnce'
  BY <1>1, <1>2, <1>7, RowParts DEF GeneratesOnce, MarkSteps, SubmitSteps
<1>9. SettledIsLetGo'
  BY <1>1, <1>2, <1>3, <1>7, RowParts DEF SettledIsLetGo, procs
<1>10. RunningIsCarried'
  BY <1>1, <1>2, RowParts DEF RunningIsCarried, Carried, procs, PassSteps
<1>11. QED
  BY <1>1, <1>4, <1>5, <1>6, <1>8, <1>9, <1>10, SuperviseStatics DEF RowInv

\* The row of a work that starts says running.
LEMMA StartRows == TypeInv /\ RowInv /\ (WriteTaskRunning \/ MarkJobRunning \/ WriteGenerateRunning) => RowInv'
<1> SUFFICES ASSUME TypeInv, RowInv, WriteTaskRunning \/ MarkJobRunning \/ WriteGenerateRunning
             PROVE  RowInv'
  OBVIOUS
<1> DEFINE w == sup.w
<1>1. /\ row' = WithStatus(row, w, "running") /\ UNCHANGED <<procs, dmn, dmnTask, fin>> /\ Supervise
      /\ sup.pc \in {"spawn_write", "job_mark", "gen_run"}
  BY DEF WriteTaskRunning, MarkJobRunning, WriteGenerateRunning, daemon, Supervise
<1>2. /\ sup.pc = "spawn_write" /\ sup'.pc \in {"promote", "reap", "dispatch"}
      \/ /\ sup.pc = "job_mark" /\ sup'.pc = "job_attach" /\ sup'.w = w
      \/ /\ sup.pc = "gen_run" /\ sup'.pc = "gen_submit" /\ sup'.w = w
  BY GoesTo, AfterEnd DEF WriteTaskRunning, MarkJobRunning, WriteGenerateRunning
<1>3. w \in Work /\ StatusWritten(w, "running") /\ row[w].status # "absent"
  BY <1>1, WorkWritten, RowParts DEF WorkSteps, SupSteps, HeldRowsExist
<1>4. /\ \A u \in Work \ {w} : row'[u].status = row[u].status
      /\ row'[w].status \in {"running", "deleted"}
  BY <1>3 DEF StatusWritten, RowStays, NoRowStatuses
<1>5. HeldRowsExist'
  BY <1>1, <1>2, <1>3, <1>4, SuperviseStatics, RowParts DEF HeldRowsExist, procs, Busy,
     DaemonActive, WorkSteps, SupSteps
<1>6. KindsOfExecutors'
  BY <1>1, <1>2, RowParts DEF KindsOfExecutors, procs, Busy, DaemonActive, SpawnSteps,
     DataSteps, MarkSteps, SubmitSteps
<1>7. SlotsAgree'
  BY <1>1, <1>2, RowParts DEF SlotsAgree, procs, Busy, Exited, DataSteps, MarkSteps,
     ReleaseSteps
<1>8. \A q, u : Finalizes(q, u)' <=> Finalizes(q, u)
  BY <1>1 DEF Finalizes
<1>9. GeneratesOnce'
  BY <1>1, <1>2, <1>4, <1>8, RowParts DEF GeneratesOnce, MarkSteps, SubmitSteps
<1>10. SettledIsLetGo'
  BY <1>1, <1>2, <1>4, <1>8, RowParts DEF SettledIsLetGo, procs, WorkSteps, SupSteps
<1>11. RunningIsCarried'
  <2>1. \A u \in Work : Carried(u) => Carried(u)'
    BY <1>1 DEF Carried, procs
  <2>2. sup.pc = "spawn_write" => Carried(w)
    BY RowParts DEF SlotsAgree, Carried, SlotNames
  <2>3. QED
    BY <1>2, <1>4, <2>1, <2>2, RowParts DEF RunningIsCarried, PassSteps
<1>12. QED
  BY <1>1, <1>5, <1>6, <1>7, <1>9, <1>10, <1>11, SuperviseStatics DEF RowInv

\* The slot of a finished work is free, and an evaluation may be queued.
LEMMA ReleaseRows == TypeInv /\ RowInv /\ ReleaseSlot => RowInv'
<1> SUFFICES ASSUME TypeInv, RowInv, ReleaseSlot
             PROVE  RowInv'
  OBVIOUS
<1> DEFINE s == sup.s
<1>1. /\ sup.pc = "release" /\ sup'.pc \in {"promote", "reap", "dispatch"} /\ s \in SlotNames
      /\ slot'[s].id = NoWork /\ child'[s].id = NoWork /\ slot[s].id = sup.w
      /\ \A q \in SlotNames \ {s} : slot'[q] = slot[q] /\ child'[q] = child[q]
      /\ UNCHANGED <<dmn, dmnTask, fin>> /\ Supervise
  BY AfterEnd, RowParts DEF ReleaseSlot, SlotsAgree, ReleaseSteps, SupRec, daemon,
     Supervise, IdleSlot, NoChild
<1>2. \A u \in Work : row'[u].status = row[u].status \/ (row[u].status = "absent" /\ row'[u].status = "pending")
  <2>1. ASSUME NEW u \in Work, QueuesAutoEval(u), row' = [row EXCEPT ![u] = NewRow("eval_samples", "pending", FALSE)]
        PROVE  \A v \in Work : row'[v].status = row[v].status \/ (row[v].status = "absent" /\ row'[v].status = "pending")
    <3>1. NewRow("eval_samples", "pending", FALSE).status = "pending" /\ ~NewRow("eval_samples", "pending", FALSE).cfg
          /\ ~NewRow("eval_samples", "pending", FALSE).last
      BY DEF NewRow
    <3>2. row[u].status = "absent" /\ row'[u].status = "pending"
      BY <2>1, <3>1, RowParts, BirthMoves DEF QueuesAutoEval
    <3>3. QED
      BY <2>1, <3>2, RowParts
  <2>2. QED
    BY <2>1 DEF ReleaseSlot
<1>3. HeldRowsExist'
  BY <1>1, <1>2, SuperviseStatics, RowParts DEF HeldRowsExist, Busy, DaemonActive, WorkSteps
<1>4. KindsOfExecutors'
  BY <1>1, RowParts DEF KindsOfExecutors, Busy, DaemonActive, SlotNames, SpawnSteps,
     DataSteps, MarkSteps, SubmitSteps
<1>5. SlotsAgree'
  BY <1>1, RowParts DEF SlotsAgree, Busy, SlotNames, DataSteps, MarkSteps, ReleaseSteps
<1>6. \A q, u : Finalizes(q, u)' <=> Finalizes(q, u)
  BY <1>1 DEF Finalizes
<1>7. GeneratesOnce'
  <2>1. ASSUME NEW u \in Work, dmnTask = u \/ \E r \in Readers : Finalizes(r, u)
        PROVE  row'[u].status # "pending"
    <3>1. row[u].status # "absent"
      BY <2>1, RowParts, WorkIsNamed DEF HeldRowsExist, DaemonActive, Finalizes
    <3>2. QED
      BY <1>1, <1>2, <2>1, <3>1, RowParts DEF GeneratesOnce
  <2>2. QED
    BY <1>1, <1>6, <2>1, RowParts DEF GeneratesOnce, MarkSteps, SubmitSteps
<1>8. SettledIsLetGo'
  BY <1>1, <1>2, <1>6, RowParts, WorkIsNamed DEF SettledIsLetGo, WorkSteps
<1>9. RunningIsCarried'
  <2>1. ASSUME NEW u \in Work, row'[u].status = "running"
        PROVE  Carried(u)'
    <3>1. row[u].status = "running" /\ u # sup.w /\ Carried(u)
      BY <1>1, <1>2, <2>1, RowParts DEF RunningIsCarried, PassSteps
    <3>2. QED
      BY <1>1, <3>1 DEF Carried
  <2>2. QED
    BY <1>1, <2>1 DEF RunningIsCarried
<1>10. QED
  BY <1>1, <1>3, <1>4, <1>5, <1>7, <1>8, <1>9, SuperviseStatics DEF RowInv

\* A process is started, and attached to its slot.
LEMMA SpawnRows == TypeInv /\ SlotsOwnTheirProcess /\ RowInv /\ (SpawnTask \/ PopenJob \/ AttachJob) => RowInv'
<1> SUFFICES ASSUME TypeInv, SlotsOwnTheirProcess, RowInv, SpawnTask \/ PopenJob \/ AttachJob
             PROVE  RowInv'
  OBVIOUS
<1> DEFINE w == sup.w
<1>0. UNCHANGED <<row, dmn, dmnTask, fin>> /\ Supervise
  BY DEF SpawnTask, PopenJob, AttachJob, Supervise, ledger, daemon
<1>1. /\ sup.pc = "spawn" /\ sup'.pc = "spawn_write" /\ sup'.w = w
         /\ slot'["train"].id = w /\ child'["train"].id = w
         /\ slot'["data"] = slot["data"] /\ child'["data"] = child["data"]
      \/ /\ sup.pc = "job_popen" /\ sup'.pc = "job_mark" /\ sup'.w = w
         /\ slot' = slot /\ child'["data"].id = w /\ child'["train"] = child["train"]
      \/ /\ sup.pc = "job_attach" /\ sup'.pc \in {"promote", "reap", "dispatch"}
         /\ slot'["data"].id = w /\ child["data"].id = w /\ slot'["train"] = slot["train"] /\ child' = child
  <2>1. \A b : Popened(w, b).id = w
    BY DEF Popened, NoChild
  <2>2. CASE SpawnTask
    <3>1. /\ child' = [child EXCEPT !["train"] = Popened(sup.w, sup.st = "resume")]
          /\ slot' = [slot EXCEPT !["train"].id = sup.w, !["train"].cancel = FALSE]
          /\ sup.pc = "spawn" /\ Goto("spawn_write", "train", sup.w, "none")
      BY <2>2 DEF SpawnTask
    <3>2. child'["train"].id = w /\ child'["data"] = child["data"]
      BY <2>1, <3>1, RowParts DEF SlotNames
    <3>3. slot'["train"].id = w /\ slot'["data"] = slot["data"]
      BY <3>1, RowParts DEF SlotRec, SlotNames
    <3>4. QED
      BY <3>1, <3>2, <3>3, GoesTo
  <2>3. CASE PopenJob
    BY <2>1, <2>3, GoesTo, RowParts DEF PopenJob, SlotNames
  <2>4. CASE AttachJob
    BY <2>4, AfterEnd, RowParts DEF AttachJob, SlotRec, SlotNames, SlotsOwnTheirProcess
  <2>5. QED
    BY <2>2, <2>3, <2>4
<1>2. w \in Work /\ row[w].status \notin {"absent", "done", "paused"}
  BY <1>1, RowParts DEF HeldRowsExist, SettledIsLetGo, WorkSteps, SupSteps
<1>3. /\ sup.pc = "spawn" => ~Busy("train") /\ KindOf[w] \in TrainSlotKinds
      /\ sup.pc \in {"job_popen", "job_attach"} => ~Busy("data") /\ KindOf[w] \in DataSlotKinds
  BY RowParts DEF SlotsAgree, KindsOfExecutors, SpawnSteps, DataSteps
<1>4. HeldRowsExist'
  BY <1>0, <1>1, <1>2, SuperviseStatics, RowParts DEF HeldRowsExist, Busy, DaemonActive,
     SlotNames, WorkSteps, SupSteps
<1>5. KindsOfExecutors'
  BY <1>0, <1>1, <1>3, RowParts DEF KindsOfExecutors, Busy, DaemonActive, SpawnSteps,
     DataSteps, MarkSteps, SubmitSteps
<1>6. SlotsAgree'
  BY <1>0, <1>1, <1>3, RowParts DEF SlotsAgree, Busy, DataSteps, MarkSteps, ReleaseSteps
<1>7. \A q, u : Finalizes(q, u)' <=> Finalizes(q, u)
  BY <1>0 DEF Finalizes
<1>8. GeneratesOnce'
  BY <1>0, <1>1, <1>7, RowParts DEF GeneratesOnce, MarkSteps, SubmitSteps
<1>9. SettledIsLetGo'
  BY <1>0, <1>1, <1>2, <1>7, RowParts DEF SettledIsLetGo, SlotNames, WorkSteps, SupSteps
<1>10. RunningIsCarried'
  <2>1. ASSUME NEW u \in Work, Carried(u)
        PROVE  Carried(u)'
    BY <2>1, <1>0, <1>1, <1>3, WorkIsNamed, RowParts DEF Carried, SlotNames, Busy,
       SlotsAgree
  <2>2. \A u \in Work : sup.pc = "job_attach" /\ u = w => Carried(u)'
    BY <1>1 DEF Carried, SlotNames
  <2>3. QED
    BY <2>1, <2>2, <1>0, <1>1, RowParts DEF RunningIsCarried, PassSteps
<1>11. QED
  BY <1>0, <1>4, <1>5, <1>6, <1>8, <1>9, <1>10, SuperviseStatics DEF RowInv

\* A generate is marked, handed to the daemon, or taken back.
LEMMA HandOverRows ==
  TypeInv /\ DaemonOwnsItsTask /\ RowInv /\ (ClaimDaemon \/ (SubmitTask /\ dmn.state = "idle") \/ RejectTask)
    => RowInv'
<1> SUFFICES ASSUME TypeInv, DaemonOwnsItsTask, RowInv,
                    ClaimDaemon \/ (SubmitTask /\ dmn.state = "idle") \/ RejectTask
             PROVE  RowInv'
  OBVIOUS
<1> DEFINE w == sup.w
<1>0. UNCHANGED <<row, procs, fin>> /\ Supervise
  BY DEF ClaimDaemon, SubmitTask, RejectTask, Supervise, ledger
<1>1. /\ sup.pc = "gen_claim" /\ sup'.pc = "gen_run" /\ sup'.w = w /\ dmnTask' = w /\ dmn' = dmn
      \/ /\ sup.pc = "gen_submit" /\ sup'.pc \in {"promote", "reap", "dispatch"} /\ dmnTask = w /\ dmnTask' = w
         /\ dmn'.active = w
      \/ /\ sup.pc = "gen_reject" /\ sup'.pc = "gen_reject_write" /\ sup'.w = w /\ dmn' = dmn
         /\ dmnTask' = IF dmnTask = w THEN NoWork ELSE dmnTask
  <2>1. CASE ClaimDaemon
    BY <2>1, GoesTo DEF ClaimDaemon
  <2>2. CASE SubmitTask /\ dmn.state = "idle"
    BY <2>2, AfterEnd, RowParts DEF SubmitTask, DaemonOwnsItsTask, DaemonRec
  <2>3. CASE RejectTask
    BY <2>3, GoesTo DEF RejectTask, Released
  <2>4. QED
    BY <2>1, <2>2, <2>3
<1>2. w \in Work /\ w # NoWork /\ row[w].status \notin {"absent", "done", "paused"} /\ KindOf[w] = "generate"
  BY <1>1, WorkIsNamed, RowParts DEF HeldRowsExist, SettledIsLetGo, KindsOfExecutors,
     WorkSteps, SupSteps, MarkSteps, SubmitSteps
<1>3. sup.pc = "gen_claim" => dmnTask = NoWork /\ \A r \in Readers : ~Finalizes(r, w)
  BY RowParts DEF SlotsAgree, GeneratesOnce, MarkSteps
<1>4. dmn.active = NoWork
  BY <1>1 DEF DaemonOwnsItsTask, GenerateSteps
<1>5. HeldRowsExist'
  BY <1>0, <1>1, <1>2, SuperviseStatics, RowParts DEF HeldRowsExist, procs, Busy,
     DaemonActive, WorkSteps, SupSteps
<1>6. KindsOfExecutors'
  BY <1>0, <1>1, <1>2, RowParts DEF KindsOfExecutors, procs, Busy, DaemonActive, SpawnSteps,
     DataSteps, MarkSteps, SubmitSteps
<1>7. SlotsAgree'
  BY <1>0, <1>1, <1>2, RowParts DEF SlotsAgree, procs, Busy, DataSteps, MarkSteps,
     ReleaseSteps
<1>8. \A q, u : Finalizes(q, u)' <=> Finalizes(q, u)
  BY <1>0 DEF Finalizes
<1>9. GeneratesOnce'
  <2>1. \A r \in Readers : fin'[r].pc = "write" => dmnTask' # fin'[r].w
    BY <1>0, <1>1, <1>3, RowParts, WorkIsNamed DEF GeneratesOnce, Finalizes
  <2>2. \A r \in Readers : sup'.pc \in SubmitSteps /\ Finalizes(r, w)' => fin'[r].st # "done"
    BY <1>0, <1>1, <1>3, <1>8, RowParts DEF GeneratesOnce, SubmitSteps
  <2>3. QED
    BY <1>0, <1>1, <1>3, <1>8, <2>1, <2>2, RowParts, WorkIsNamed DEF GeneratesOnce,
       MarkSteps, SubmitSteps
<1>10. SettledIsLetGo'
  BY <1>0, <1>1, <1>2, <1>8, RowParts, WorkIsNamed DEF SettledIsLetGo, procs, WorkSteps,
     SupSteps
<1>11. RunningIsCarried'
  <2>1. ASSUME NEW u \in Work \ {w}, Carried(u)
        PROVE  Carried(u)'
    BY <2>1, <1>0, <1>1, <1>3, <1>4, WorkIsNamed DEF Carried, procs
  <2>2. \A u \in Work : u = w => sup'.pc = "gen_run" \/ Carried(u)' \/ (sup'.w = u /\ sup'.pc \in PassSteps)
    BY <1>1 DEF Carried, PassSteps
  <2>3. sup.pc = "gen_claim" => row[w].status # "running"
    <3>1. SUFFICES ASSUME sup.pc = "gen_claim", row[w].status = "running"
                   PROVE  FALSE
      OBVIOUS
    <3>2. Carried(w)
      BY <3>1, <1>2, RowParts DEF RunningIsCarried, PassSteps
    <3>3. \A s \in SlotNames : slot[s].id # w
      BY <1>2, RowParts DEF KindsOfExecutors, SlotNames, Busy, TrainSlotKinds, DataSlotKinds
    <3>4. QED
      BY <3>1, <3>2, <3>3, <1>2, <1>3 DEF Carried, Finalizes
  <2>4. QED
    BY <2>1, <2>2, <2>3, <1>0, <1>1, RowParts DEF RunningIsCarried, PassSteps
<1>12. QED
  BY <1>0, <1>5, <1>6, <1>7, <1>9, <1>10, <1>11, SuperviseStatics DEF RowInv

\* Every step of the supervisor keeps the agreement.
LEMMA SuperviseRows ==
  TypeInv /\ RowsKeepTheirKind /\ SlotsOwnTheirProcess /\ DaemonOwnsItsTask /\ RowInv /\ Supervise => RowInv'
<1> SUFFICES ASSUME TypeInv, RowsKeepTheirKind, SlotsOwnTheirProcess, DaemonOwnsItsTask, RowInv, Supervise
             PROVE  RowInv'
  OBVIOUS
<1>1. CASE RestSteps
  BY <1>1, RestRows
<1>2. CASE ReapExited \/ FinishSlot
  BY <1>2, ReapRows
<1>3. CASE SelectHead \/ (DispatchData /\ sup'.pc = "job_popen")
  BY <1>3, ChosenRows
<1>4. CASE StartDaemon \/ AwaitDaemon \/ (SubmitTask /\ dmn.state # "idle")
  BY <1>4, GenerateRows
<1>5. CASE RecordFinish
  BY <1>5, RecordRows
<1>6. CASE WriteTaskRunning \/ MarkJobRunning \/ WriteGenerateRunning
  BY <1>6, StartRows
<1>7. CASE ReleaseSlot
  BY <1>7, ReleaseRows
<1>8. CASE SpawnTask \/ PopenJob \/ AttachJob
  BY <1>8, SpawnRows
<1>9. CASE ClaimDaemon \/ (SubmitTask /\ dmn.state = "idle") \/ RejectTask
  BY <1>9, HandOverRows
<1>10. QED
  BY <1>1, <1>2, <1>3, <1>4, <1>5, <1>6, <1>7, <1>8, <1>9 DEF Supervise, RestSteps

--------------------------------------------------------------------------------
(* The agreement of the rows *)

\* At the start no executor has anything.
LEMMA InitRows == Init => RowInv
<1> SUFFICES ASSUME Init
             PROVE  RowInv
  OBVIOUS
<1>1. \A w \in Work : /\ row[w].type = KindOf[w] /\ row[w].status = InitStatus[w]
                      /\ row[w].cfg <=> KindOf[w] \in TaskKinds
  BY DEF Init, SupInit, InitRow, NewRow
<1>2. /\ sup.pc = "down" /\ disk = {} /\ orphans = {} /\ dmnTask = NoWork
      /\ \A s \in SlotNames : slot[s].id = NoWork /\ child[s].id = NoWork
      /\ \A r \in Readers : fin[r].pc = "idle"
      /\ \A t \in Threads : api[t].op = "none"
  BY DEF Init, SupInit, IdleSlot, NoChild, IdleReader, IdleThread
<1>3. HeldRowsExist /\ ThreadsKnowTheirRow /\ RowsOfTrainings
  BY <1>1, <1>2, InitAssumption DEF HeldRowsExist, ThreadsKnowTheirRow, ThreadKnows,
     RowsOfTrainings, Busy,
     DaemonActive, WorkSteps
<1>4. KindsOfExecutors /\ SlotsAgree
  BY <1>2 DEF KindsOfExecutors, SlotsAgree, Busy, DaemonActive, SlotNames, SpawnSteps,
     DataSteps, MarkSteps,
     SubmitSteps, ReleaseSteps
<1>5. GeneratesOnce /\ SettledIsLetGo /\ RunningIsCarried
  BY <1>2, WorkIsNamed DEF GeneratesOnce, SettledIsLetGo, RunningIsCarried, Finalizes,
     MarkSteps, SubmitSteps, WorkSteps
<1>6. QED
  BY <1>3, <1>4, <1>5 DEF RowInv

LEMMA NextRows == OneReader /\ BooksAgree /\ RowInv /\ [Next]_vars => RowInv'
<1> SUFFICES ASSUME OneReader, BooksAgree, RowInv, [Next]_vars
             PROVE  RowInv'
  OBVIOUS
<1>0. /\ TypeInv /\ RowsKeepTheirKind /\ SlotsOwnTheirProcess /\ DaemonOwnsItsTask
  BY DEF BooksAgree, ClaimInv, ProcessInv
<1>1. CASE UNCHANGED vars
  <2>1. UNCHANGED <<row, sup, api, disk, orphans, procs, dmn, dmnTask, fin>>
    BY <1>1 DEF vars, supVars, ledger, daemon, host
  <2>2. ExecutorsStay
    BY <2>1 DEF ExecutorsStay, procs, Exited
  <2>3. QED
    BY <1>0, <2>1, <2>2, FilesUntouched, UntouchedMove, ProcessQuiet
<1>2. CASE \E t \in Threads : Request(t) \/ Proceed(t)
  BY <1>0, <1>2, RequestRows
<1>3. CASE Supervise
  BY <1>0, <1>3, SuperviseRows
<1>4. CASE \E s \in SlotNames : ChildStep(s) \/ TailerReads(s)
  BY <1>0, <1>4, ChildRows, TailerRows
<1>5. CASE DaemonStep \/ DaemonExits \/ IdleTimeout
  BY <1>0, <1>5, DaemonQuietRows, EventRows DEF DaemonStep
<1>6. CASE \E r \in Readers : Finalize(r)
  BY <1>0, <1>6, FinClearRows, FinStoppedRows, FinWriteRows DEF Finalize
<1>7. CASE Host \/ ServerStops \/ ServerCrashes
  BY <1>0, <1>7, HostRows, ServerRows
<1>8. QED
  BY <1>1, <1>2, <1>3, <1>4, <1>5, <1>6, <1>7 DEF Next

\* The executors and the table agree on every row (RowInv), for any number of rows,
\* requests and crashes: whoever holds a row holds one that exists, of its kind and not
\* settled, and a running row is held.
THEOREM RowsAgree ==
  ASSUME OneReader
  PROVE  Spec => [](BooksAgree /\ RowInv)
<1>1. Init => BooksAgree /\ RowInv
  BY InitType, InitExclusion, InitProcesses, InitRows DEF BooksAgree
<1>2. BooksAgree /\ RowInv /\ [Next]_vars => BooksAgree' /\ RowInv'
  BY NextBooks, NextRows
<1>3. QED
  BY <1>1, <1>2, PTL DEF Spec

\* Between ticks every running row is carried by somebody who will write its end
\* (NoLostRunning): no row says running for ever because its slot or the daemon forgot it.
THEOREM NoneLost ==
  ASSUME OneReader
  PROVE  Spec => []NoLostRunning
<1>1. RowInv => NoLostRunning
  BY DEF RowInv, RunningIsCarried, NoLostRunning, PassSteps
<1>2. QED
  BY <1>1, RowsAgree, PTL

--------------------------------------------------------------------------------
(* Who writes a status *)

\* A request writes the status of the row that its thread is at, or of a new row.
LEMMA RequestWriter ==
  \A t \in Threads : TypeInv /\ (Request(t) \/ Proceed(t)) =>
    \A w \in Work : row'[w].status = row[w].status \/ row[w].status = "absent" \/ (api[t].w = w /\ api' # api)
<1> SUFFICES ASSUME NEW t \in Threads, TypeInv, Request(t) \/ Proceed(t)
             PROVE  \A w \in Work : row'[w].status = row[w].status \/ row[w].status = "absent"
                                     \/ (api[t].w = w /\ api' # api)
  OBVIOUS
<1>0. row \in [Work -> Row] /\ api \in [Threads -> ThreadRec] /\ (api[t].op # "none" => api[t].w \in Work)
  BY RowsTyped DEF TypeInv, RequestsNameWork, TypeOK
<1>1. CASE UNCHANGED row
  BY <1>1
<1>6. CASE RetryCopy(t) /\ ~UNCHANGED row
  <2>1. \E w \in Work : IsNextId(row, w) /\ \E new : row' = [row EXCEPT ![w] = new]
    BY <1>6 DEF RetryCopy, IdForCopy
  <2>2. QED
    BY <2>1, <1>0, WorkAssumption DEF IsNextId
<1>2. ASSUME NEW w \in Work, Enqueue(t, w) \/ CreateDefault(t, w)
      PROVE  \A v \in Work : row'[v].status = row[v].status \/ row[v].status = "absent"
  <2>1. IsNextId(row, w) /\ \E new : row' = [row EXCEPT ![w] = new]
    BY <1>2 DEF Enqueue, CreateDefault
  <2>2. row[w].status = "absent"
    BY <2>1, <1>0, WorkAssumption DEF IsNextId
  <2>3. QED
    BY <2>1, <2>2, <1>0
<1>3. ASSUME NEW ids, Reorder(t, ids)
      PROVE  \A v \in Work : row'[v].status = row[v].status
  BY <1>3, ReorderStays DEF Reorder, RowStays
<1>4. CASE SetType(t) \/ SetConfig(t) \/ CancelClear(t) \/ ResumeWrite(t) \/ EnqueueFails(t) \/ CancelWrite(t)
           \/ StartWrite(t) \/ DeleteWrite(t) \/ DeleteFiles(t) \/ ClearEvalWrite(t)
  <2>1. \/ \E new : row' = Update(row, api[t].w, new)
        \/ row' = [row EXCEPT ![api[t].w].cfg = FALSE]
    BY <1>4 DEF SetType, SetConfig, CancelClear, ResumeWrite, EnqueueFails, CancelWrite,
       StartWrite, DeleteWrite, DeleteFiles,
       ClearEvalWrite, WriteStatus, WithStatus
  <2>2. \A v \in Work : row'[v] = row[v] \/ v = api[t].w
    BY <2>1, <1>0 DEF Update
  <2>3. api'[t].op # api[t].op
    <3>1. ASSUME Reply(t), api[t].op # "none"
          PROVE  api'[t].op # api[t].op
      BY <3>1, <1>0 DEF Reply, IdleThread
    <3>2. ASSUME NEW op, NEW v, Continue(t, op, v), api[t].op # op
          PROVE  api'[t].op # api[t].op
      <4>1. [IdleThread EXCEPT !.op = op, !.w = v].op = op
        BY DEF IdleThread
      <4>2. QED
        BY <3>2, <4>1, <1>0 DEF Continue
    <3>3. QED
      BY <1>4, <3>1, <3>2 DEF SetType, SetConfig, CancelClear, ResumeWrite, EnqueueFails,
         CancelWrite, StartWrite,
         DeleteWrite, DeleteFiles, ClearEvalWrite, AtOp
  <2>4. QED
    BY <2>2, <2>3
<1>5. QED
  BY <1>1, <1>2, <1>3, <1>4, <1>6 DEF Request, Proceed, RetryBegin, CancelBegin, PauseBegin,
     ResumeBegin, StartBegin, DeleteBegin, ClearEvalBegin, SetHeld, UnloadDaemon, CancelFind,
     CancelSlot, CancelDaemon, PauseSlot, ResumeDerive, ResumeVersion, supVars, ledger

\* What the supervisor writes: the row it works on, orphans when it starts, and the
\* scheduled rows that are due.
LEMMA SuperviseWriter ==
  TypeInv /\ Supervise =>
    \A w \in Work : \/ row'[w].status = row[w].status
                    \/ row[w].status = "absent"
                    \/ row[w].status = "scheduled" /\ row'[w].status = "pending"
                    \/ row[w].status = "running" /\ row'[w].status = "failed"
                    \/ /\ sup.w = w /\ row'[w].status # "pending" /\ sup.pc \in WorkSteps \ {"release"}
                       /\ row'[w].status = "running" \/ sup.pc \in {"record", "fail", "gen_reject_write"}
<1> SUFFICES ASSUME TypeInv, Supervise, NEW w \in Work, row'[w].status # row[w].status, row[w].status # "absent"
             PROVE  \/ row[w].status = "scheduled" /\ row'[w].status = "pending"
                    \/ row[w].status = "running" /\ row'[w].status = "failed"
                    \/ /\ sup.w = w /\ row'[w].status # "pending" /\ sup.pc \in WorkSteps \ {"release"}
                       /\ row'[w].status = "running" \/ sup.pc \in {"record", "fail", "gen_reject_write"}
  OBVIOUS
<1>0. row \in [Work -> Row] /\ (sup.pc \in WorkSteps => sup.w \in Work)
      /\ (sup.pc = "record" => sup.st \in TerminalStatuses \cup {"paused"})
  BY RowsTyped DEF TypeInv, SupNamesWork
<1>1. CASE UNCHANGED row
  BY <1>1
<1>2. CASE Restart
  BY <1>2, <1>0 DEF Restart, WithStatusIn, OrphanRows, Row
<1>3. CASE PromoteDue
  BY <1>3, <1>0 DEF PromoteDue, WithStatusIn, StillScheduled, Row
<1>4. CASE WriteTaskRunning \/ FailTask \/ MarkJobRunning \/ WriteGenerateRunning \/ WriteRejected
  <2>1. /\ sup.pc \in WorkSteps \ {"release"}
        /\ \/ row' = WithStatus(row, sup.w, "running")
           \/ row' = WithStatus(row, sup.w, "failed") /\ sup.pc \in {"fail", "gen_reject_write"}
    BY <1>4 DEF WriteTaskRunning, FailTask, MarkJobRunning, WriteGenerateRunning,
       WriteRejected, WorkSteps, SupSteps
  <2>2. ASSUME NEW st \in {"failed", "running"}, row' = WithStatus(row, sup.w, st)
        PROVE  sup.w = w /\ row'[w].status = st
    <3>1. StatusWritten(sup.w, st)
      BY <2>1, <2>2, WorkWritten
    <3>2. QED
      BY <2>1, <3>1, <1>0 DEF StatusWritten, RowStays
  <2>3. QED
    BY <2>1, <2>2
<1>5. CASE RecordFinish
  <2>1. sup.pc = "record" /\ sup.w \in Work /\ row[sup.w] \in Row /\ sup.st # "pending"
    BY <1>5, <1>0 DEF RecordFinish, WorkSteps, SupSteps, TerminalStatuses
  <2>2. PICK b : row' = Update(row, sup.w, [row[sup.w] EXCEPT !.status = sup.st, !.paused = b])
    BY <1>5 DEF RecordFinish
  <2>3. [row[sup.w] EXCEPT !.status = sup.st, !.paused = b].status = sup.st
    BY <2>1 DEF Row
  <2>4. QED
    BY <2>1, <2>2, <2>3, <1>0 DEF Update, WorkSteps, SupSteps
<1>6. CASE ReleaseSlot
  <2>1. ASSUME NEW u \in Work, QueuesAutoEval(u), NEW new, row' = [row EXCEPT ![u] = new]
        PROVE  FALSE
    <3>1. row[u].status = "absent"
      BY <2>1, <1>0, WorkAssumption DEF QueuesAutoEval, IsNextId
    <3>2. QED
      BY <2>1, <3>1, <1>0
  <2>2. QED
    BY <1>1, <1>6, <2>1 DEF ReleaseSlot
<1>7. QED
  BY <1>1, <1>2, <1>3, <1>4, <1>5, <1>6 DEF Supervise, FindDue, ReapNothing, ReapExited,
     FinishSlot,
     SkipSlot, HeadWaits, SelectHead, SpawnTask, DispatchData, PopenJob, AttachJob, StartDaemon,
     AwaitDaemon, ClaimDaemon, SubmitTask, RejectTask, ledger

\* What the others write: a reader thread ends its row.
LEMMA OtherWriter ==
  TypeInv /\ [Next]_vars /\ ~Supervise /\ ~(\E t \in Threads : Request(t) \/ Proceed(t)) =>
    \A w \in Work : \/ row'[w].status = row[w].status
                    \/ row'[w].status \in TerminalStatuses /\ \E r \in Readers : Finalizes(r, w)
<1> SUFFICES ASSUME TypeInv, [Next]_vars, ~Supervise, ~(\E t \in Threads : Request(t) \/ Proceed(t)),
                    NEW w \in Work, row'[w].status # row[w].status
             PROVE  row'[w].status \in TerminalStatuses /\ \E r \in Readers : Finalizes(r, w)
  OBVIOUS
<1>0. row \in [Work -> Row] /\ fin \in [Readers -> FinRec]
      /\ \A r \in Readers : fin[r].pc = "write" => fin[r].w \in Work
  BY RowsTyped DEF TypeInv, TypeOK, SupTypeOK, ReadersNameWork
<1>1. row' # row
  OBVIOUS
<1>2. CASE \E r \in Readers : FinWrite(r)
  <2>1. PICK r \in Readers : fin[r].pc = "write" /\ row' = WithStatus(row, fin[r].w, fin[r].st)
    BY <1>2 DEF FinWrite
  <2>2. StatusWritten(fin[r].w, fin[r].st) /\ fin[r].st \in TerminalStatuses
    BY <2>1, <1>0, WrittenStatus DEF FinRec
  <2>3. fin[r].w = w
    BY <2>2 DEF StatusWritten, RowStays
  <2>4. QED
    BY <2>1, <2>2, <2>3 DEF StatusWritten, Finalizes
<1>3. CASE \E s \in SlotNames : TailerReads(s)
  <2>1. PICK s \in SlotNames : TailerReads(s)
    BY <1>3
  <2>2. slot[s].id \in Work /\ row[slot[s].id] \in Row
    BY <2>1, <1>0 DEF TailerReads, Busy, TypeInv, TypeOK, SupTypeOK, SlotRec
  <2>3. \/ row' = row
        \/ row' = Update(row, slot[s].id, [row[slot[s].id] EXCEPT !.last = TRUE])
        \/ row' = Update(row, slot[s].id, [row[slot[s].id] EXCEPT !.paused = FALSE])
    BY <2>1 DEF TailerReads
  <2>4. \A new \in {[row[slot[s].id] EXCEPT !.last = TRUE], [row[slot[s].id] EXCEPT !.paused = FALSE]} :
           new.status = row[slot[s].id].status
    BY <2>2 DEF Row
  <2>5. row'[w].status = row[w].status
    BY <2>2, <2>3, <2>4, <1>0 DEF Update
  <2>6. QED
    BY <2>5
<1>4. QED
  BY <1>1, <1>2, <1>3 DEF Next, ChildStep, LoopStarts, InLoop, BackupReplaced, BackupRemembered, BackupTold, Dead, ChildCompletes,
     ChildPauses, ChildCrashes, ChildKilled,
     DaemonStep, DaemonReady, ModelLoaded, ModelUnloaded, TaskEnds, DaemonExits, IdleTimeout, Finalize, FinClear,
     FinStopped, Host, OrphanEnds, OrphanEpochEnds, ServerStops, ServerCrashes, ServerGone, vars, supVars, ledger

\* A row that is done stays done until it is deleted, unless a request that read it
\* before it ended is still to write it (DoneStays): no executor has it any more.
THEOREM ResultsStay ==
  ASSUME OneReader
  PROVE  Spec => DoneStays
<1>1. ASSUME BooksAgree, RowInv, [Next]_vars
      PROVE  [\A w \in Work : row[w].status = "done" =>
                \/ row'[w].status \in {"done", "deleted"}
                \/ \E t \in Threads : api[t].w = w]_vars
  <2> SUFFICES ASSUME NEW w \in Work, row[w].status = "done", row'[w].status # "done"
               PROVE  \E t \in Threads : api[t].w = w
    OBVIOUS
  <2>0. TypeInv /\ SettledIsLetGo
    BY <1>1 DEF BooksAgree, RowInv
  <2>1. CASE \E t \in Threads : Request(t) \/ Proceed(t)
    BY <2>0, <2>1, RequestWriter
  <2>2. CASE Supervise
    BY <2>0, <2>2, SuperviseWriter DEF SettledIsLetGo
  <2>3. CASE ~Supervise /\ ~(\E t \in Threads : Request(t) \/ Proceed(t))
    BY <1>1, <2>0, <2>3, OtherWriter DEF SettledIsLetGo
  <2>4. QED
    BY <2>1, <2>2, <2>3
<1>2. QED
  BY <1>1, RowsAgree, PTL DEF Spec, DoneStays

\* A canceled row is not queued again by any step but a request's own (Supervisor.cancel
\* against promote_due_scheduled): the promotion looks at the status again when it writes
\* (CanceledIsNotRequeued).
THEOREM CanceledStays == Spec => CanceledIsNotRequeued
<1>1. ASSUME TypeInv, [Next]_vars
      PROVE  [\A w \in Work : row[w].status = "canceled" /\ api' = api => row'[w].status # "pending"]_vars
  <2> SUFFICES ASSUME NEW w \in Work, row[w].status = "canceled", api' = api, row'[w].status = "pending"
               PROVE  FALSE
    OBVIOUS
  <2>1. CASE \E t \in Threads : Request(t) \/ Proceed(t)
    BY <1>1, <2>1, RequestWriter
  <2>2. CASE Supervise
    BY <1>1, <2>2, SuperviseWriter
  <2>3. CASE ~Supervise /\ ~(\E t \in Threads : Request(t) \/ Proceed(t))
    BY <1>1, <2>3, OtherWriter DEF TerminalStatuses
  <2>4. QED
    BY <2>1, <2>2, <2>3
<1>2. Spec => []TypeInv
  BY InitType, NextType, PTL DEF Spec
<1>3. QED
  BY <1>1, <1>2, PTL DEF Spec, CanceledIsNotRequeued

--------------------------------------------------------------------------------
(* Light jobs *)

\* A light job is chosen when there is room, and nothing takes the room away.
LEMMA NextRoom ==
  LightSettings = {FALSE} /\ BooksAgree /\ LightFoundRoom /\ [Next]_vars => LightFoundRoom'
<1> SUFFICES ASSUME LightSettings = {FALSE}, BooksAgree, LightFoundRoom, [Next]_vars,
                    sup'.pc = "job_popen", KindOf[sup'.w] = "light"
             PROVE  ~Busy("train")' /\ ~DaemonActive' /\ ~dmn'.loaded
  BY DEF LightFoundRoom
<1>0. TypeInv /\ RowsKeepTheirKind /\ DaemonOwnsItsTask /\ row \in [Work -> Row]
  BY RowsTyped DEF BooksAgree, ClaimInv, ProcessInv
<1>1. CASE ~Supervise
  <2>1. /\ sup' = sup /\ slot'["train"].id \in {slot["train"].id, NoWork} /\ dmnTask' \in {dmnTask, NoWork}
    BY <1>0, <1>1, OthersMakeNoClaim DEF SlotNames
  <2>2. ~Busy("train") /\ ~DaemonActive /\ ~dmn.loaded
    BY <2>1 DEF LightFoundRoom
  <2>3. ~ModelLoaded
    BY <1>0, <2>2 DEF ModelLoaded, DaemonOwnsItsTask, DaemonActive
  <2>4. QED
    BY <1>0, <2>1, <2>2, <2>3, LoadIsOfTheTask DEF Busy, DaemonActive
<1>2. CASE Supervise
  <2>1. CASE SelectHead
    <3>1. PICK w \in Work :
            /\ IsExclusiveHead(w)
            /\ CASE row[w].type = "generate"     -> Goto("gen_start", "train", w, "none")
                 [] row[w].type = "eval_samples" -> Goto("job_popen", "data", w, "none")
                 [] OTHER -> IF row[w].cfg
                               THEN Goto("spawn", "train", w, IF row[w].paused THEN "resume" ELSE "fresh")
                               ELSE Goto("fail", "train", w, "none")
      BY <2>1 DEF SelectHead
    <3>2. row[w].type = "eval_samples" /\ sup'.w = w
      BY <3>1, GoesTo
    <3>3. QED
      BY <1>0, <3>2 DEF RowsKeepTheirKind
  <2>2. CASE DispatchData
    <3>1. PICK w : /\ w \in Pending(row, {"light", "io"}) /\ MayRunNow(w, FALSE)
                   /\ Goto("job_popen", "data", w, "none")
      BY <2>2, AfterEnd DEF DispatchData, IsHead
    <3>2. w \in Work /\ row[w].type = "light" /\ sup'.w = w
      BY <1>0, <3>1, GoesTo DEF Pending, RowsKeepTheirKind
    <3>3. ~ExclusiveBusy /\ ~dmn.loaded
      BY <3>1, <3>2 DEF MayRunNow, LeaseHeld
    <3>4. UNCHANGED <<slot, dmnTask>>
      BY <2>2 DEF DispatchData, procs
    <3>5. ~ModelLoaded
      BY <1>0, <3>3 DEF ModelLoaded, DaemonOwnsItsTask, DaemonActive, ExclusiveBusy
    <3>6. QED
      BY <1>0, <3>3, <3>4, <3>5, LoadIsOfTheTask DEF ExclusiveBusy, Busy, DaemonActive
  <2>3. CASE ~SelectHead /\ ~DispatchData
    BY <1>0, <1>2, <2>3, GoesTo, AfterEnd, ProcsTyped DEF SupRec, Supervise, Restart,
       FindDue, PromoteDue, ReapNothing, ReapExited, FinishSlot,
       RecordFinish, ReleaseSlot, SkipSlot, HeadWaits, SpawnTask, WriteTaskRunning, FailTask, PopenJob, MarkJobRunning,
       AttachJob, StartDaemon, AwaitDaemon, ClaimDaemon, WriteGenerateRunning, SubmitTask, RejectTask, WriteRejected
  <2>4. QED
    BY <2>1, <2>2, <2>3
<1>3. QED
  BY <1>1, <1>2

\* A process that lives has lived before, in its slot, unless this step popen'ed it.
LEMMA ProcessesEnd ==
  BooksAgree /\ [Next]_vars /\ ~SpawnTask /\ ~PopenJob
    => \A s \in SlotNames : Alive(s)' => Alive(s) /\ child'[s].id = child[s].id
<1> SUFFICES ASSUME BooksAgree, [Next]_vars, ~SpawnTask, ~PopenJob, NEW s \in SlotNames
             PROVE  Alive(s)' => Alive(s) /\ child'[s].id = child[s].id
  OBVIOUS
<1>0. TypeInv /\ child \in [SlotNames -> ChildRec] /\ child[s] \in ChildRec
  BY ProcsTyped DEF BooksAgree
<1>1. CASE child' = child
  BY <1>1 DEF Alive
<1>2. CASE \E q \in SlotNames : ChildStep(q) \/ TailerReads(q)
  BY <1>0, <1>2, ChildKeepsId
<1>3. CASE \E t \in Threads : CancelSlot(t) \/ PauseSlot(t)
  <2>1. PICK t \in Threads : CancelSlot(t) \/ PauseSlot(t)
    BY <1>3
  <2>2. ASSUME NEW b, child' = [child EXCEPT ![api[t].s].term = b]
        PROVE  child'[s].life = child[s].life /\ child'[s].id = child[s].id
    <3>1. child'[s] = child[s] \/ child'[s] = [child[s] EXCEPT !.term = b]
      BY <1>0, <2>2
    <3>2. QED
      BY <1>0, <3>1 DEF ChildRec
  <2>3. CASE CancelSlot(t)
    <3>1. child' = child \/ \E b : child' = [child EXCEPT ![api[t].s].term = b]
      BY <2>3 DEF CancelSlot, procs
    <3>2. QED
      BY <2>2, <3>1 DEF Alive
  <2>4. CASE PauseSlot(t)
    <3>1. child'[s].life = child[s].life /\ child'[s].id = child[s].id
      BY <1>0, <2>4 DEF PauseSlot, ChildRec
    <3>2. QED
      BY <3>1 DEF Alive
  <2>5. QED
    BY <2>1, <2>3, <2>4
<1>4. CASE ReleaseSlot
  <2>1. child' = [child EXCEPT ![sup.s] = NoChild] /\ NoChild.life = "none"
    BY <1>4 DEF ReleaseSlot, NoChild
  <2>2. child'[s] = child[s] \/ child'[s] = NoChild
    BY <1>0, <2>1
  <2>3. QED
    BY <2>1, <2>2 DEF Alive
<1>5. CASE ServerStops \/ ServerCrashes
  BY <1>5 DEF ServerStops, ServerCrashes, ServerGone, Alive, NoChild
<1>6. CASE \E t \in Threads : (Request(t) \/ Proceed(t)) /\ ~CancelSlot(t) /\ ~PauseSlot(t)
  <2>1. PICK t \in Threads : (Request(t) \/ Proceed(t)) /\ ~CancelSlot(t) /\ ~PauseSlot(t)
    BY <1>6
  <2>2. child' = child
    BY <2>1 DEF Request, Proceed, Enqueue, CreateDefault, RetryBegin, RetryCopy, CancelBegin, PauseBegin,
       ResumeBegin, StartBegin, DeleteBegin, ClearEvalBegin, SetHeld, UnloadDaemon, Reorder,
       SetType, SetConfig, EnqueueFails, CancelWrite, CancelClear, CancelFind, CancelDaemon,
       ResumeWrite, ResumeDerive, ResumeVersion, StartWrite, DeleteWrite, DeleteFiles, ClearEvalWrite, supVars,
       procs
  <2>3. QED
    BY <1>1, <2>2
<1>7. CASE Supervise /\ ~ReleaseSlot
  BY <1>1, <1>7 DEF Supervise, Restart, FindDue, PromoteDue, ReapNothing, ReapExited, FinishSlot,
     RecordFinish, SkipSlot, HeadWaits, SelectHead, WriteTaskRunning, FailTask, DispatchData,
     MarkJobRunning, AttachJob, StartDaemon, AwaitDaemon, ClaimDaemon, WriteGenerateRunning,
     SubmitTask, RejectTask, WriteRejected, procs
<1>8. CASE \/ DaemonStep \/ DaemonExits \/ IdleTimeout \/ \E r \in Readers : Finalize(r)
           \/ Host \/ UNCHANGED vars
  BY <1>1, <1>8 DEF DaemonStep, DaemonReady, ModelLoaded, ModelUnloaded, TaskEnds, DaemonExits,
     IdleTimeout, Finalize, FinClear, FinWrite, FinStopped, Host, OrphanEnds, OrphanEpochEnds,
     vars, supVars, procs
<1>9. QED
  BY <1>2, <1>3, <1>4, <1>5, <1>6, <1>7, <1>8 DEF Next

\* Only the popen of a data job brings its process to life.
LEMMA OnlyPopenStarts ==
  BooksAgree /\ [Next]_vars /\ ~Alive("data") /\ Alive("data")' => PopenJob
<1>1. BooksAgree /\ SpawnTask => (Alive("data")' => Alive("data"))
  <2> SUFFICES ASSUME BooksAgree, SpawnTask
               PROVE  Alive("data")' => Alive("data")
    OBVIOUS
  <2>1. child'["data"] = child["data"]
    BY ProcsTyped DEF SpawnTask, SlotNames, BooksAgree
  <2>2. QED
    BY <2>1 DEF Alive
<1>2. QED
  BY <1>1, ProcessesEnd DEF SlotNames

\* With light_tasks_during_train off, a light job is started only while no base-model
\* process runs and the daemon holds no model (LightStartsAlone): what _dispatch_data saw
\* still holds when the process is popen'ed.
THEOREM LightRunsAlone ==
  ASSUME OneReader, LightSettings = {FALSE}
  PROVE  Spec => LightStartsAlone
<1>1. Init => LightFoundRoom
  BY DEF Init, SupInit, LightFoundRoom
<1>2. BooksAgree /\ LightFoundRoom /\ [Next]_vars => LightFoundRoom'
  BY NextRoom
<1>3. ASSUME BooksAgree, LightFoundRoom, [Next]_vars
      PROVE  [(~Alive("data") /\ Alive("data")' /\ KindOf[child'["data"].id] = "light") => OnGpu = {} /\ ~dmn.loaded]_vars
  <2> SUFFICES ASSUME ~Alive("data"), Alive("data")', KindOf[child'["data"].id] = "light"
               PROVE  OnGpu = {} /\ ~dmn.loaded
    OBVIOUS
  <2>1. PopenJob
    BY <1>3, OnlyPopenStarts
  <2>2. sup.pc = "job_popen" /\ child'["data"].id = sup.w
    <3>1. Popened(sup.w, FALSE).id = sup.w
      BY DEF Popened, NoChild
    <3>2. QED
      BY <1>3, <2>1, <3>1, ProcsTyped DEF PopenJob, SlotNames, BooksAgree
  <2>3. ~Busy("train") /\ ~DaemonActive /\ ~dmn.loaded
    BY <1>3, <2>2 DEF LightFoundRoom
  <2>4. ~Alive("train") /\ dmn.active = NoWork
    BY <1>3, <2>3 DEF BooksAgree, ProcessInv, SlotsOwnTheirProcess, DaemonOwnsItsTask,
       DaemonActive
  <2>5. QED
    BY <2>3, <2>4 DEF OnGpu, RunningProcs, SlotNames
<1>4. QED
  BY <1>1, <1>2, <1>3, Books, PTL DEF Spec, LightStartsAlone

--------------------------------------------------------------------------------
(* Queued trainings *)

\* No step but the table's own unmakes a row or loses a config.
LEMMA NextLives ==
  OneReader /\ BooksAgree /\ RowInv /\ [Next]_vars => \A w \in Work : RowLives(w)
<1> SUFFICES ASSUME OneReader, BooksAgree, RowInv, [Next]_vars
             PROVE  \A w \in Work : RowLives(w)
  OBVIOUS
<1>0. TypeInv /\ RowsOfTrainings
  BY DEF BooksAgree, RowInv
<1>1. CASE UNCHANGED row
  BY <1>1, UntouchedMove DEF RowMoves
<1>2. CASE \E t \in Threads : Request(t) \/ Proceed(t)
  BY <1>0, <1>2, RequestMovesRows DEF RowMoves
<1>3. CASE Supervise
  BY <1>0, <1>3, SuperviseLives
<1>4. CASE \E s \in SlotNames : TailerReads(s)
  BY <1>0, <1>4, TailerMoves DEF RowMoves
<1>5. CASE \E r \in Readers : FinWrite(r)
  <2>1. PICK r \in Readers : fin[r].pc = "write" /\ row' = WithStatus(row, fin[r].w, fin[r].st)
    BY <1>5 DEF FinWrite
  <2>2. fin[r].w \in Work /\ StatusWritten(fin[r].w, fin[r].st) /\ fin[r].st \in TerminalStatuses
    BY <1>0, <2>1, WrittenStatus, RowParts DEF FinRec
  <2>3. QED
    BY <1>0, <2>2 DEF StatusWritten, RowStays, RowLives, RowsOfTrainings, NoRowStatuses,
       TerminalStatuses
<1>6. QED
  BY <1>1, <1>2, <1>3, <1>4, <1>5 DEF Next, ChildStep, LoopStarts, InLoop, BackupReplaced, BackupRemembered, BackupTold,
     Dead, ChildCompletes, ChildPauses, ChildCrashes,
     ChildKilled, DaemonStep, DaemonReady, ModelLoaded, ModelUnloaded, TaskEnds, DaemonExits, IdleTimeout, Finalize,
     FinClear, FinStopped, Host, OrphanEnds, OrphanEpochEnds, ServerStops, ServerCrashes, ServerGone, vars, supVars, ledger

\* Only a request or the end of a training makes a row.
LEMMA BirthIsAsked ==
  ASSUME TypeInv, [Next]_vars, NEW w \in Work, row[w].status = "absent", row'[w].status # "absent"
  PROVE  \/ \E t \in Threads : Enqueue(t, w) \/ CreateDefault(t, w) \/ RetryCopy(t)
         \/ ReleaseSlot /\ KindOf[w] = "eval_samples"
<1>0. row \in [Work -> Row]
  BY RowsTyped
<1>1. \A u \in Work : \A st : row' = WithStatus(row, u, st) => u # w
  BY <1>0 DEF WithStatus, Update, Exists, NoRowStatuses
<1>2. \A u \in Work : \A new : row' = Update(row, u, new) => u # w
  BY <1>0 DEF Update, Exists, NoRowStatuses
<1>3. \A u \in Work : \A new : row' = Update(row, u, new) => FALSE
  BY <1>0 DEF Update, Exists, NoRowStatuses
<1>4. CASE Supervise
  <2>1. CASE UNCHANGED row
    BY <2>1
  <2>2. CASE Restart \/ PromoteDue
    BY <1>0, <2>2 DEF Restart, PromoteDue, WithStatusIn, OrphanRows, StillScheduled
  <2>3. CASE WriteTaskRunning \/ FailTask \/ MarkJobRunning \/ WriteGenerateRunning \/ WriteRejected \/ RecordFinish
    <3>1. sup.w \in Work /\ \E new : row' = Update(row, sup.w, new)
      BY <2>3, ProcsTyped DEF WriteTaskRunning, FailTask, MarkJobRunning,
         WriteGenerateRunning, WriteRejected,
         RecordFinish, WithStatus, WorkSteps, SupSteps
    <3>2. QED
      BY <1>3, <3>1
  <2>4. CASE ReleaseSlot
    <3>1. PICK u \in Work : QueuesAutoEval(u) /\ \E new : row' = [row EXCEPT ![u] = new]
      BY <2>4 DEF ReleaseSlot
    <3>2. QED
      BY <1>0, <2>4, <3>1 DEF QueuesAutoEval
  <2>5. QED
    BY <1>4, <2>1, <2>2, <2>3, <2>4 DEF Supervise, FindDue, ReapNothing, ReapExited,
       FinishSlot, SkipSlot, HeadWaits,
       SelectHead, SpawnTask, DispatchData, PopenJob, AttachJob, StartDaemon, AwaitDaemon, ClaimDaemon, SubmitTask,
       RejectTask, ledger
<1>5. CASE \E t \in Threads : Request(t) \/ Proceed(t)
  <2>1. PICK t \in Threads : Request(t) \/ Proceed(t)
    BY <1>5
  <2>2. ASSUME NEW u \in Work, Enqueue(t, u) \/ CreateDefault(t, u)
        PROVE  u = w
    <3>1. \E new : row' = [row EXCEPT ![u] = new]
      BY <2>2 DEF Enqueue, CreateDefault
    <3>2. QED
      BY <1>0, <3>1
  <2>3. ASSUME NEW ids, Reorder(t, ids)
        PROVE  FALSE
    BY <2>3, ReorderStays DEF Reorder, RowStays
  <2>4. ASSUME SetType(t) \/ SetConfig(t) \/ CancelClear(t) \/ ResumeWrite(t) \/ EnqueueFails(t) \/ CancelWrite(t)
               \/ StartWrite(t) \/ DeleteWrite(t) \/ ClearEvalWrite(t)
        PROVE  FALSE
    <3>1. api[t].w \in Work /\ \E new : row' = Update(row, api[t].w, new)
      BY <2>4 DEF SetType, SetConfig, CancelClear, ResumeWrite, EnqueueFails, CancelWrite,
         StartWrite, DeleteWrite, DeleteFiles,
         ClearEvalWrite, WriteStatus, WithStatus, AtOp, TypeInv, RequestsNameWork
    <3>2. QED
      BY <1>3, <3>1
  <2>5. CASE UNCHANGED row
    BY <2>5
  <2>7. ASSUME DeleteFiles(t)
        PROVE  FALSE
    <3>1. api[t].w \in Work /\ row' = [row EXCEPT ![api[t].w].cfg = FALSE]
      BY <2>7 DEF DeleteFiles, AtOp, TypeInv, RequestsNameWork
    <3>2. row'[w].status = row[w].status
      BY <3>1, <1>0 DEF Row
    <3>3. QED
      BY <3>2
  <2>6. QED
    BY <2>1, <2>2, <2>3, <2>4, <2>5, <2>7 DEF Request, Proceed, RetryBegin, CancelBegin, PauseBegin,
       ResumeBegin, StartBegin, DeleteBegin, ClearEvalBegin, SetHeld, UnloadDaemon, CancelFind,
       CancelSlot, CancelDaemon, PauseSlot, ResumeDerive, ResumeVersion, supVars, ledger
<1>6. CASE ~Supervise /\ ~\E t \in Threads : Request(t) \/ Proceed(t)
  <2>1. row'[w].status \in TerminalStatuses /\ \E r \in Readers : FinWrite(r)
    <3>1. row'[w].status \in TerminalStatuses /\ row' # row
      BY <1>6, OtherWriter
    <3>2. ASSUME NEW s \in SlotNames, TailerReads(s)
          PROVE  FALSE
      <4>1. slot[s].id \in Work /\ (row' = row \/ \E new : row' = Update(row, slot[s].id, new))
        BY <3>2 DEF TailerReads, Busy, TypeInv, TypeOK, SupTypeOK, SlotRec
      <4>2. QED
        BY <1>3, <3>1, <4>1
    <3>3. QED
      BY <1>6, <3>1, <3>2 DEF Next, ChildStep, LoopStarts, InLoop, BackupReplaced, BackupRemembered, BackupTold, Dead, ChildCompletes,
         ChildPauses, ChildCrashes, ChildKilled,
         DaemonStep, DaemonReady, ModelLoaded, ModelUnloaded, TaskEnds, DaemonExits, IdleTimeout, Finalize, FinClear,
         FinStopped, Host, OrphanEnds, OrphanEpochEnds, ServerStops, ServerCrashes, ServerGone, vars, supVars, ledger
  <2>2. QED
    <3>1. PICK r \in Readers : fin[r].w \in Work /\ row' = WithStatus(row, fin[r].w, fin[r].st)
      BY <2>1 DEF FinWrite, TypeInv, ReadersNameWork
    <3>2. QED
      BY <1>3, <3>1 DEF WithStatus
<1>7. QED
  BY <1>4, <1>5, <1>6

\* Only a thread itself takes it further, as long as the server runs.
LEMMA OwnThread ==
  TypeInv /\ RowInv /\ [Next]_vars /\ ~ServerStops /\ ~ServerCrashes =>
    /\ UNCHANGED crashes
    /\ \A t \in Threads : api'[t] = api[t] \/ Request(t) \/ Proceed(t)
<1> SUFFICES ASSUME TypeInv, RowInv, [Next]_vars, ~ServerStops, ~ServerCrashes
             PROVE  /\ UNCHANGED crashes
                    /\ \A t \in Threads : api'[t] = api[t] \/ Request(t) \/ Proceed(t)
  OBVIOUS
<1>0. api \in [Threads -> ThreadRec]
  BY DEF TypeInv, TypeOK
<1>1. CASE UNCHANGED <<api, crashes>>
  BY <1>1
<1>2. ASSUME NEW q \in Threads, Request(q) \/ Proceed(q)
      PROVE  UNCHANGED crashes /\ \A t \in Threads \ {q} : api'[t] = api[t]
  <2>1. UNCHANGED crashes
    BY <1>2 DEF Request, Proceed, CancelBegin, PauseBegin, Enqueue, CreateDefault, RetryBegin, RetryCopy,
       Reorder,
       SetType, SetConfig, EnqueueFails, CancelWrite, CancelClear, ResumeWrite, StartWrite,
       ClearEvalWrite, CancelFind, CancelSlot, CancelDaemon, PauseSlot, ResumeBegin, StartBegin,
       DeleteBegin, DeleteWrite, DeleteFiles, ClearEvalBegin, SetHeld, ResumeDerive, ResumeVersion, UnloadDaemon,
       supVars, host
  <2>2. \E new : api' = api \/ api' = [api EXCEPT ![q] = new]
    BY <1>2, <1>0 DEF Request, Proceed, CancelBegin, PauseBegin, Enqueue, CreateDefault,
       RetryBegin, RetryCopy, Reorder,
       SetType, SetConfig, EnqueueFails, CancelWrite, CancelClear, ResumeWrite, StartWrite,
       ClearEvalWrite, CancelFind, CancelSlot, CancelDaemon, PauseSlot, ResumeBegin, StartBegin,
       DeleteBegin, DeleteWrite, DeleteFiles, ClearEvalBegin, SetHeld, ResumeDerive, ResumeVersion, UnloadDaemon,
       Continue, Reply
  <2>3. QED
    BY <2>1, <2>2, <1>0
<1>3. CASE Supervise
  <2>1. UNCHANGED <<api, crashes>>
    BY <1>3 DEF Supervise, Restart, FindDue, PromoteDue, ReapNothing, ReapExited,
       FinishSlot, RecordFinish,
       ReleaseSlot, SkipSlot, HeadWaits, SelectHead, SpawnTask, WriteTaskRunning, FailTask, DispatchData,
       PopenJob, MarkJobRunning, AttachJob, StartDaemon, AwaitDaemon, ClaimDaemon, WriteGenerateRunning,
       SubmitTask, RejectTask, WriteRejected, others, host
  <2>2. QED
    BY <2>1
<1>4. ASSUME NEW s \in SlotNames, ChildStep(s) \/ TailerReads(s)
      PROVE  UNCHANGED <<api, crashes>>
  BY <1>4 DEF ChildStep, LoopStarts, InLoop, BackupReplaced, BackupRemembered, BackupTold,
     ChildCompletes, ChildPauses, ChildCrashes, ChildKilled, TailerReads, others, host
<1>5. CASE DaemonStep \/ DaemonExits \/ IdleTimeout \/ Host \/ \E r \in Readers : Finalize(r)
  <2>1. UNCHANGED <<api, crashes>>
    BY <1>5 DEF DaemonStep, DaemonReady, ModelLoaded, ModelUnloaded, TaskEnds, DaemonExits,
       IdleTimeout, Finalize, FinClear, FinWrite, FinStopped, Host, OrphanEnds, OrphanEpochEnds,
       others, host
  <2>2. QED
    BY <2>1
<1>6. CASE UNCHANGED vars
  BY <1>6, <1>1 DEF vars, supVars, host
<1>7. QED
  BY <1>2, <1>3, <1>4, <1>5, <1>6 DEF Next

\* Before the first crash there was none.
LEMMA NoCrashYet ==
  TypeInv /\ RowInv /\ [Next]_vars /\ crashes' = 0 => crashes = 0 /\ ~ServerStops /\ ~ServerCrashes
<1> SUFFICES ASSUME TypeInv, RowInv, [Next]_vars, crashes' = 0
             PROVE  crashes = 0 /\ ~ServerStops /\ ~ServerCrashes
  OBVIOUS
<1>1. crashes \in Nat
  BY BoundAssumption DEF TypeInv, TypeOK, SupTypeOK
<1>2. ServerStops \/ ServerCrashes => crashes' = crashes + 1
  BY DEF ServerStops, ServerCrashes, ServerGone
<1>3. QED
  BY <1>1, <1>2, OwnThread

\* A thread comes to copy or to delete a row only by its own step.
LEMMA RequestOps ==
  ASSUME TypeInv, NEW t \in Threads, Request(t) \/ Proceed(t), NEW u \in Threads,
         api'[u].op \in {"retry_copy", "delete_write", "delete_files"}
  PROVE  \/ api'[u] = api[u]
         \/ u = t /\ DeleteWrite(t)
         \/ u = t /\ \E w \in Work : RetryBegin(t, w) \/ DeleteBegin(t, w)
<1>0. api \in [Threads -> ThreadRec] /\ api[t] \in ThreadRec
  BY DEF TypeInv, TypeOK
<1>1. ASSUME NEW new, api' = [api EXCEPT ![t] = new],
             new.op \notin {"retry_copy", "delete_write", "delete_files"}
      PROVE  api'[u] = api[u]
  BY <1>0, <1>1
<1>2. CASE UNCHANGED api
  BY <1>2
<1>3. \A op, w : [IdleThread EXCEPT !.op = op, !.w = w].op = op
  BY DEF IdleThread
<1>4. ASSUME NEW op, NEW w, Continue(t, op, w),
             op \notin {"retry_copy", "delete_write", "delete_files"}
      PROVE  api'[u] = api[u]
  BY <1>1, <1>3, <1>4 DEF Continue
<1>5. CASE Reply(t)
  BY <1>1, <1>5 DEF Reply, IdleThread
<1>6. CASE CancelFind(t)
  <2>1. CASE \E s \in SlotNames : api' = [api EXCEPT ![t].op = "cancel_slot", ![t].s = s]
    <3>1. PICK s \in SlotNames : api' = [api EXCEPT ![t] = [api[t] EXCEPT !.op = "cancel_slot", !.s = s]]
      BY <2>1
    <3>2. [api[t] EXCEPT !.op = "cancel_slot", !.s = s].op = "cancel_slot"
      BY <1>0 DEF ThreadRec
    <3>3. QED
      BY <1>1, <3>1, <3>2
  <2>2. QED
    BY <1>4, <1>5, <1>6, <2>1 DEF CancelFind
<1>7. CASE ResumeDerive(t)
  <2>1. PICK v : api' = [api EXCEPT ![t] = [api[t] EXCEPT !.op = "resume_version", !.seen = v]]
    BY <1>7 DEF ResumeDerive
  <2>2. [api[t] EXCEPT !.op = "resume_version", !.seen = v].op = "resume_version"
    BY <1>0 DEF ThreadRec
  <2>3. QED
    BY <1>1, <2>1, <2>2
<1>8. ASSUME NEW w \in Work, ResumeBegin(t, w)
      PROVE  api'[u] = api[u]
  <2>1. PICK v : api' = [api EXCEPT ![t] = [IdleThread EXCEPT !.op = "resume_write", !.w = w, !.seen = v]]
    BY <1>8 DEF ResumeBegin
  <2>2. [IdleThread EXCEPT !.op = "resume_write", !.w = w, !.seen = v].op = "resume_write"
    BY DEF IdleThread
  <2>3. QED
    BY <1>1, <2>1, <2>2
<1>9. ASSUME NEW w \in Work, CreateDefault(t, w) \/ CancelBegin(t, w) \/ PauseBegin(t, w)
                             \/ StartBegin(t, w) \/ ClearEvalBegin(t, w)
      PROVE  api'[u] = api[u]
  BY <1>4, <1>9 DEF CreateDefault, CancelBegin, PauseBegin, StartBegin, ClearEvalBegin
<1>10. CASE SetType(t) \/ CancelClear(t) \/ ResumeWrite(t)
  BY <1>4, <1>5, <1>10 DEF SetType, CancelClear, ResumeWrite
<1>11. QED
  <2>1. DeleteWrite(t) \/ (\E w \in Work : RetryBegin(t, w) \/ DeleteBegin(t, w)) => u = t \/ api'[u] = api[u]
    <3>1. \E new : DeleteWrite(t) \/ (\E w \in Work : RetryBegin(t, w) \/ DeleteBegin(t, w))
                     => api' = [api EXCEPT ![t] = new]
      BY DEF DeleteWrite, RetryBegin, DeleteBegin, Continue
    <3>2. QED
      BY <1>0, <3>1
  <2>2. QED
    BY <1>2, <1>5, <1>6, <1>7, <1>8, <1>9, <1>10, <2>1 DEF Request, Proceed, Enqueue, Reorder, SetHeld,
       UnloadDaemon, SetConfig, EnqueueFails, RetryCopy, CancelWrite, CancelSlot, CancelDaemon,
       PauseSlot, ResumeVersion, StartWrite, DeleteFiles, ClearEvalWrite

\* A training is queued with its config, and its config is found.
LEMMA NextConfigured ==
  NoHalfCopies /\ NoDeleteBesideRetry /\ OneReader /\ BooksAgree /\ RowInv /\ TrainsConfigured /\ [Next]_vars
    => TrainsConfigured'
<1> SUFFICES ASSUME NoHalfCopies, NoDeleteBesideRetry, OneReader, BooksAgree, RowInv,
                    TrainsConfigured, [Next]_vars
             PROVE  TrainsConfigured'
  OBVIOUS
<1>0. /\ TypeInv /\ RowsKeepTheirKind /\ KindsOfExecutors /\ row \in [Work -> Row]
      /\ api \in [Threads -> ThreadRec]
      /\ \A w \in Work : KindOf[w] = "train" /\ Exists(row, w) => row[w].cfg
      /\ sup.pc = "fail" => KindOf[sup.w] # "train"
      /\ \A w \in Work : RowLives(w)
  BY RowsTyped, NextLives DEF BooksAgree, ClaimInv, RowInv, TrainsConfigured, TypeInv, TypeOK
<1>10. \A t \in Threads : AtOp(t, "retry_copy") =>
         "retry" \in ApiOps /\ (api[t].read.type = "train" => api[t].read.cfg /\ row[api[t].w].cfg)
  BY DEF TrainsConfigured
<1>11. \A t \in Threads : AtOp(t, "delete_write") \/ AtOp(t, "delete_files") => "delete" \in ApiOps
  BY DEF TrainsConfigured
<1>1. ASSUME NEW w \in Work, KindOf[w] = "train", Exists(row, w)'
      PROVE  row'[w].cfg
  <2>1. CASE Exists(row, w)
    BY <1>0, <1>1, <2>1 DEF RowLives, Exists, NoRowStatuses
  <2>2. CASE row[w].status = "absent"
    <3>1. PICK t \in Threads : Enqueue(t, w) \/ RetryCopy(t)
      BY <1>0, <1>1, <2>2, BirthIsAsked DEF CreateDefault, Exists, NoRowStatuses
    <3>2. CASE Enqueue(t, w)
      <4>1. PICK st : row' = [row EXCEPT ![w] = NewRow(KindOf[w], st, KindOf[w] = "train")]
        BY <3>2 DEF Enqueue
      <4>2. NewRow(KindOf[w], st, KindOf[w] = "train").cfg
        BY <1>1 DEF NewRow
      <4>3. QED
        BY <1>0, <4>1, <4>2
    <3>3. CASE RetryCopy(t)
      <4>1. AtOp(t, "retry_copy")
        BY <3>3 DEF RetryCopy
      <4>2. PICK new \in Work : /\ KindOf[new] = api[t].read.type
                                /\ row' = [row EXCEPT ![new] = CopyOf(api[t].read, row[api[t].w].cfg)]
        BY <1>1, <2>2, <3>3 DEF RetryCopy, IdForCopy, Exists, NoRowStatuses
      <4>3. new = w
        BY <1>0, <1>1, <2>2, <4>2 DEF Exists, NoRowStatuses
      <4>4. api[t].read.cfg /\ row[api[t].w].cfg
        BY <1>1, <1>10, <4>1, <4>2, <4>3
      <4>5. CopyOf(api[t].read, row[api[t].w].cfg).cfg
        BY <4>4 DEF CopyOf, NewRow
      <4>6. QED
        BY <1>0, <4>2, <4>3, <4>5
    <3>4. QED
      BY <3>1, <3>2, <3>3
  <2>3. CASE row[w].status = "deleted"
    BY <1>0, <1>1, <2>3 DEF RowLives, Exists, NoRowStatuses
  <2>4. QED
    BY <2>1, <2>2, <2>3 DEF Exists, NoRowStatuses
<1>2. ASSUME sup'.pc = "fail"
      PROVE  KindOf[sup'.w] # "train"
  <2>1. CASE sup' = sup
    BY <1>0, <1>2, <2>1
  <2>2. CASE SelectHead
    <3>1. PICK w \in Work :
            /\ IsExclusiveHead(w)
            /\ CASE row[w].type = "generate"     -> Goto("gen_start", "train", w, "none")
                 [] row[w].type = "eval_samples" -> Goto("job_popen", "data", w, "none")
                 [] OTHER -> IF row[w].cfg
                               THEN Goto("spawn", "train", w, IF row[w].paused THEN "resume" ELSE "fresh")
                               ELSE Goto("fail", "train", w, "none")
      BY <2>2 DEF SelectHead
    <3>2. sup'.w = w /\ ~row[w].cfg /\ row[w].status = "pending"
      BY <1>2, <3>1, GoesTo DEF IsExclusiveHead, IsHead, Pending
    <3>3. QED
      BY <1>0, <3>1, <3>2 DEF IsExclusiveHead, IsHead, Pending, Exists, NoRowStatuses
  <2>3. CASE AwaitDaemon
    <3>1. sup'.w = sup.w /\ sup.pc = "gen_wait"
      BY <2>3, GoesTo DEF AwaitDaemon
    <3>2. QED
      BY <1>0, <3>1 DEF KindsOfExecutors, MarkSteps
  <2>4. CASE Supervise /\ ~SelectHead /\ ~AwaitDaemon
    BY <1>0, <1>2, <2>4, GoesTo, AfterEnd, ProcsTyped DEF SupRec, Supervise, Restart,
       FindDue, PromoteDue, ReapNothing,
       ReapExited, FinishSlot, RecordFinish, ReleaseSlot, SkipSlot, HeadWaits, SpawnTask, WriteTaskRunning, FailTask,
       DispatchData, PopenJob, MarkJobRunning, AttachJob, StartDaemon, ClaimDaemon, WriteGenerateRunning, SubmitTask,
       RejectTask, WriteRejected
  <2>5. CASE ~Supervise
    BY <1>0, <1>2, <2>5, <2>1, OthersMakeNoClaim
  <2>6. QED
    BY <2>2, <2>3, <2>4, <2>5
<1>3. \A t \in Threads : \/ api'[t] = api[t]
                        \/ api'[t].op \notin {"retry_copy", "delete_write", "delete_files"}
                        \/ DeleteWrite(t)
                        \/ \E w \in Work : RetryBegin(t, w) \/ DeleteBegin(t, w)
  <2>1. CASE ServerStops \/ ServerCrashes
    <3>1. api' = [t \in Threads |-> IdleThread]
      BY <2>1 DEF ServerStops, ServerCrashes, ServerGone
    <3>2. \A t \in Threads : api'[t].op = "none"
      BY <3>1 DEF IdleThread
    <3>3. QED
      BY <3>2
  <2>2. CASE ~ServerStops /\ ~ServerCrashes
    BY <1>0, <2>2, OwnThread, RequestOps DEF BooksAgree
  <2>3. QED
    BY <2>1, <2>2
<1>4. ASSUME NEW t \in Threads, AtOp(t, "retry_copy")'
      PROVE  "retry" \in ApiOps /\ (api'[t].read.type = "train" => api'[t].read.cfg /\ row'[api'[t].w].cfg)
  <2>1. CASE api'[t] = api[t]
    <3>1. AtOp(t, "retry_copy") /\ api[t].w \in Work /\ row[api[t].w].status # "absent"
      BY <1>0, <1>4, <2>1 DEF AtOp, TypeInv, RequestsNameWork, RowInv, ThreadsKnowTheirRow, ThreadKnows
    <3>2. "retry" \in ApiOps /\ ~RowDeleted
      <4>1. "retry" \in ApiOps
        BY <1>10, <3>1
      <4>2. ASSUME NEW q \in Threads, DeleteWrite(q) \/ DeleteFiles(q)
            PROVE  FALSE
        <5>1. AtOp(q, "delete_write") \/ AtOp(q, "delete_files")
          BY <4>2 DEF DeleteWrite, DeleteFiles
        <5>2. q = t
          BY <1>11, <4>1, <5>1 DEF NoDeleteBesideRetry
        <5>3. QED
          BY <3>1, <5>1, <5>2 DEF AtOp
      <4>3. QED
        BY <4>1, <4>2 DEF RowDeleted
    <3>3. row[api[t].w].cfg => row'[api[t].w].cfg
      BY <1>0, <3>1, <3>2 DEF RowLives
    <3>4. QED
      BY <1>10, <2>1, <3>1, <3>3
  <2>2. ASSUME NEW w \in Work, RetryBegin(t, w)
        PROVE  "retry" \in ApiOps /\ (api'[t].read.type = "train" => api'[t].read.cfg /\ row'[api'[t].w].cfg)
    <3>1. /\ "retry" \in ApiOps /\ Exists(row, w) /\ row' = row
          /\ api' = [api EXCEPT ![t] = [IdleThread EXCEPT !.op = "retry_copy", !.w = w, !.read = row[w]]]
      BY <2>2 DEF RetryBegin, Called, supVars, ledger
    <3>2. api'[t].w = w /\ api'[t].read = row[w]
      BY <1>0, <3>1 DEF IdleThread
    <3>3. row[w].type = "train" => KindOf[w] = "train"
      BY <1>0, <3>1 DEF NoHalfCopies, RowsKeepTheirKind
    <3>4. QED
      BY <1>0, <3>1, <3>2, <3>3
  <2>3. CASE DeleteWrite(t) \/ \E w \in Work : DeleteBegin(t, w)
    BY <1>0, <1>4, <2>3 DEF AtOp, DeleteWrite, DeleteBegin, Continue, IdleThread
  <2>4. QED
    BY <1>3, <1>4, <2>1, <2>2, <2>3 DEF AtOp
<1>5. ASSUME NEW t \in Threads, AtOp(t, "delete_write")' \/ AtOp(t, "delete_files")'
      PROVE  "delete" \in ApiOps
  <2>1. CASE api'[t] = api[t]
    BY <1>5, <1>11, <2>1 DEF AtOp
  <2>2. CASE DeleteWrite(t) \/ \E w \in Work : DeleteBegin(t, w)
    BY <1>11, <2>2 DEF DeleteWrite, DeleteBegin, Called
  <2>3. CASE \E w \in Work : RetryBegin(t, w)
    BY <1>0, <1>5, <2>3 DEF AtOp, RetryBegin, IdleThread
  <2>4. QED
    BY <1>3, <1>5, <2>1, <2>2, <2>3 DEF AtOp
<1>6. QED
  BY <1>1, <1>2, <1>4, <1>5 DEF TrainsConfigured

\* A request writes `failed` only into the row of a generate whose config it could not
\* prepare.
LEMMA RequestFails ==
  \A t \in Threads : TypeInv /\ RowInv /\ (Request(t) \/ Proceed(t)) =>
    \A w \in Work : row[w].status # "failed" /\ row'[w].status = "failed" => KindOf[w] = "generate"
<1> SUFFICES ASSUME NEW t \in Threads, TypeInv, RowInv, Request(t) \/ Proceed(t), NEW w \in Work,
                    row[w].status # "failed", row'[w].status = "failed"
             PROVE  KindOf[w] = "generate"
  OBVIOUS
<1>0. row \in [Work -> Row] /\ (api[t].op # "none" => api[t].w \in Work)
  BY RowsTyped DEF TypeInv, RequestsNameWork
<1>1. CASE EnqueueFails(t)
  <2>1. StatusWritten(api[t].w, "failed")
    BY <1>0, <1>1, WrittenStatus DEF EnqueueFails, AtOp, WriteStatus
  <2>2. QED
    BY <1>1, <2>1 DEF StatusWritten, RowStays, EnqueueFails
<1>2. CASE SetType(t) \/ SetConfig(t) \/ CancelClear(t) \/ ResumeWrite(t)
  <2>1. api[t].w \in Work /\ row[api[t].w] \in Row
    BY <1>0, <1>2 DEF SetType, SetConfig, CancelClear, ResumeWrite, AtOp
  <2>2. ASSUME NEW new, row' = Update(row, api[t].w, new),
               new.status # "failed" \/ new.status = row[api[t].w].status
        PROVE  FALSE
    BY <1>0, <2>1, <2>2 DEF Update
  <2>3. CASE SetType(t)
    BY <2>1, <2>2, <2>3 DEF SetType, Row
  <2>4. CASE SetConfig(t)
    BY <2>1, <2>2, <2>4 DEF SetConfig, Row
  <2>5. CASE CancelClear(t)
    BY <2>1, <2>2, <2>5 DEF CancelClear, Row
  <2>6. CASE ResumeWrite(t)
    <3>1. PICK b : row' = Update(row, api[t].w, [row[api[t].w] EXCEPT !.status = "pending", !.paused = b])
      BY <2>6 DEF ResumeWrite
    <3>2. [row[api[t].w] EXCEPT !.status = "pending", !.paused = b].status = "pending"
      BY <2>1 DEF Row
    <3>3. QED
      BY <2>2, <3>1, <3>2
  <2>7. QED
    BY <1>2, <2>3, <2>4, <2>5, <2>6
<1>3. CASE CancelWrite(t) \/ StartWrite(t) \/ ClearEvalWrite(t)
  <2>1. api[t].w \in Work /\ \E st \in {"canceled", "pending"} : row' = WithStatus(row, api[t].w, st)
    BY <1>0, <1>3 DEF CancelWrite, StartWrite, ClearEvalWrite, WriteStatus, AtOp
  <2>2. \A st : row' = WithStatus(row, api[t].w, st) => StatusWritten(api[t].w, st)
    BY <2>1, WrittenStatus
  <2>3. QED
    BY <2>1, <2>2 DEF StatusWritten, RowStays
<1>4. ASSUME NEW ids, Reorder(t, ids)
      PROVE  FALSE
  BY <1>4, ReorderStays DEF Reorder, RowStays
<1>7. ASSUME NEW u \in Work, NEW new, row' = [row EXCEPT ![u] = new],
             new.status \in {"pending", "scheduled"}
      PROVE  FALSE
  BY <1>0, <1>7
<1>8. CASE RetryCopy(t)
  <2>1. CASE UNCHANGED row
    BY <2>1
  <2>2. CASE ~UNCHANGED row
    <3>1. \E new \in Work : row' = [row EXCEPT ![new] = CopyOf(api[t].read, row[api[t].w].cfg)]
      BY <1>8, <2>2 DEF RetryCopy
    <3>2. CopyOf(api[t].read, row[api[t].w].cfg).status = "pending"
      BY DEF CopyOf, NewRow
    <3>3. QED
      BY <1>7, <3>1, <3>2
  <2>3. QED
    BY <2>1, <2>2
<1>9. CASE DeleteWrite(t) \/ DeleteFiles(t)
  <2>1. api[t].w \in Work /\ row'[api[t].w].status = "deleted"
    BY <1>9, DeleteMoves
  <2>2. \A v \in Work : row'[v] = row[v] \/ v = api[t].w
    BY <1>9, <1>0 DEF DeleteWrite, DeleteFiles, Update
  <2>3. QED
    BY <2>1, <2>2
<1>5. ASSUME NEW u \in Work, Enqueue(t, u) \/ CreateDefault(t, u)
      PROVE  FALSE
  <2>2. CASE Enqueue(t, u)
    <3>1. PICK st \in {"pending", "scheduled"} : row' = [row EXCEPT ![u] = NewRow(KindOf[u], st, KindOf[u] = "train")]
      BY <2>2 DEF Enqueue
    <3>2. NewRow(KindOf[u], st, KindOf[u] = "train").status = st
      BY DEF NewRow
    <3>3. QED
      BY <1>7, <3>1, <3>2
  <2>3. CASE CreateDefault(t, u)
    BY <1>7, <2>3 DEF CreateDefault, NewRow
  <2>5. QED
    BY <1>5, <2>2, <2>3
<1>6. QED
  BY <1>1, <1>2, <1>3, <1>4, <1>5, <1>8, <1>9 DEF Request, Proceed, RetryBegin, CancelBegin, PauseBegin,
     ResumeBegin, StartBegin, DeleteBegin, ClearEvalBegin, SetHeld, UnloadDaemon, CancelFind,
     CancelSlot, CancelDaemon, PauseSlot, ResumeDerive, ResumeVersion, supVars, ledger

\* A queued training that no process works on is never failed (QueuedTrainIsRunnable), if
\* no row is retried whose enqueue was not complete, and none while another client may
\* delete it: it is queued with its config.
THEOREM QueuedTrainsRun ==
  ASSUME OneReader, NoHalfCopies, NoDeleteBesideRetry
  PROVE  Spec => QueuedTrainIsRunnable
<1>1. Init => TrainsConfigured
  <2> SUFFICES ASSUME Init
               PROVE  TrainsConfigured
    OBVIOUS
  <2>1. (\A w \in Work : row[w].cfg <=> KindOf[w] \in TaskKinds) /\ sup.pc = "down"
    BY DEF Init, SupInit, InitRow, NewRow
  <2>2. \A t \in Threads : api[t].op = "none"
    BY DEF Init, IdleThread
  <2>3. QED
    BY <2>1, <2>2 DEF TrainsConfigured, TaskKinds, AtOp
<1>2. BooksAgree /\ RowInv /\ TrainsConfigured /\ [Next]_vars => TrainsConfigured'
  BY NextConfigured
<1>3. ASSUME BooksAgree, RowInv, TrainsConfigured, [Next]_vars
      PROVE  [\A w \in Work : row[w].status = "pending" /\ KindOf[w] = "train" /\ ~Carried(w)
                       => row'[w].status # "failed"]_vars
  <2> SUFFICES ASSUME NEW w \in Work, row[w].status = "pending", KindOf[w] = "train", ~Carried(w),
                      row'[w].status = "failed"
               PROVE  FALSE
    OBVIOUS
  <2>0. TypeInv /\ KindsOfExecutors /\ SlotsAgree /\ sup \in SupRec
    BY <1>3, ProcsTyped DEF BooksAgree, RowInv
  <2>1. CASE \E t \in Threads : Request(t) \/ Proceed(t)
    BY <1>3, <2>0, <2>1, RequestFails
  <2>2. CASE Supervise
    <3>1. sup.w = w /\ sup.pc \in {"record", "fail", "gen_reject_write"}
      BY <2>0, <2>2, SuperviseWriter
    <3>2. sup.pc # "gen_reject_write" /\ sup.pc # "fail"
      BY <1>3, <2>0, <3>1 DEF KindsOfExecutors, SubmitSteps, TrainsConfigured
    <3>3. slot[sup.s].id = w /\ child[sup.s].id = w /\ sup.s \in SlotNames
      BY <2>0, <3>1, <3>2 DEF SlotsAgree, ReleaseSteps, SupRec, SlotNames
    <3>4. QED
      BY <3>3 DEF Carried
  <2>3. CASE ~Supervise /\ ~(\E t \in Threads : Request(t) \/ Proceed(t))
    BY <1>3, <2>0, <2>3, OtherWriter DEF Carried, Finalizes
  <2>4. QED
    BY <2>1, <2>2, <2>3
<1>4. QED
  BY <1>1, <1>2, <1>3, RowsAgree, PTL DEF Spec, QueuedTrainIsRunnable

--------------------------------------------------------------------------------
(* What the processes write, and what is made of it *)

\* A line is in a log that grows if it was there or is among the new ones.
LEMMA LogGrows ==
  ASSUME NEW log \in Seq(Events), NEW lines \in Seq(Events), NEW e
  PROVE  Says(log \o lines, e) <=> Says(log, e) \/ Says(lines, e)
<1>1. Says(log, e) => Says(log \o lines, e)
  <2>1. \A i \in DOMAIN log : i \in DOMAIN (log \o lines) /\ (log \o lines)[i] = log[i]
    OBVIOUS
  <2>2. QED
    BY <2>1 DEF Says
<1>2. Says(lines, e) => Says(log \o lines, e)
  <2>1. \A i \in DOMAIN lines :
          Len(log) + i \in DOMAIN (log \o lines) /\ (log \o lines)[Len(log) + i] = lines[i]
    OBVIOUS
  <2>2. QED
    BY <2>1 DEF Says
<1>3. ASSUME Says(log \o lines, e), ~Says(log, e)
      PROVE  Says(lines, e)
  <2>1. PICK i \in DOMAIN (log \o lines) : (log \o lines)[i] = e
    BY <1>3 DEF Says
  <2>2. i > Len(log)
    BY <2>1, <1>3 DEF Says
  <2>3. i - Len(log) \in DOMAIN lines /\ lines[i - Len(log)] = e
    BY <2>1, <2>2
  <2>4. QED
    BY <2>3 DEF Says
<1>4. QED
  BY <1>1, <1>2, <1>3

\* When a line is read, the others are still there.
LEMMA LogRead ==
  ASSUME NEW log \in Seq(Events), log # <<>>, NEW e
  PROVE  /\ Says(Tail(log), e) => Says(log, e)
         /\ Says(log, e) => e = Head(log) \/ Says(Tail(log), e)
         /\ Says(log, Head(log))
<1>1. \A i \in DOMAIN Tail(log) : i + 1 \in DOMAIN log /\ log[i + 1] = Tail(log)[i]
  OBVIOUS
<1>2. \A i \in DOMAIN log : i = 1 \/ (i - 1 \in DOMAIN Tail(log) /\ Tail(log)[i - 1] = log[i])
  OBVIOUS
<1>3. 1 \in DOMAIN log /\ Head(log) = log[1]
  OBVIOUS
<1>4. QED
  BY <1>1, <1>2, <1>3 DEF Says

LEMMA NothingSaid == \A e : ~Says(<<>>, e)
BY DEF Says

\* A backup goes only with its row.
LEMMA DiskKept ==
  TypeInv /\ RowInv /\ [Next]_vars =>
    \A w \in disk : w \in disk' \/ row'[w].status = "deleted"
<1> SUFFICES ASSUME TypeInv, RowInv, [Next]_vars
             PROVE  \A w \in disk : w \in disk' \/ row'[w].status = "deleted"
  OBVIOUS
<1>1. ASSUME NEW t \in Threads, DeleteFiles(t)
      PROVE  \A w \in disk : w \in disk' \/ row'[w].status = "deleted"
  <2>1. row'[api[t].w].status = "deleted" /\ disk' = disk \ {api[t].w}
    BY <1>1, DeleteMoves DEF DeleteFiles
  <2>2. QED
    BY <2>1
<1>2. ASSUME NEW t \in Threads, Request(t) \/ Proceed(t), ~DeleteFiles(t)
      PROVE  disk' = disk
  BY <1>2 DEF Request, Proceed, CancelBegin, PauseBegin, Enqueue,
     CreateDefault, RetryBegin, RetryCopy, Reorder, SetType, SetConfig, EnqueueFails, CancelWrite, CancelClear,
     ResumeWrite, StartWrite, ClearEvalWrite, CancelFind, CancelSlot, CancelDaemon, PauseSlot,
     ResumeBegin, StartBegin, DeleteBegin, ClearEvalBegin, SetHeld, ResumeDerive, ResumeVersion,
     DeleteWrite, UnloadDaemon, supVars, ledger
<1>3. ASSUME NEW s \in SlotNames, ChildStep(s) \/ TailerReads(s)
      PROVE  disk \subseteq disk'
  BY <1>3 DEF ChildStep, LoopStarts, InLoop, BackupReplaced, BackupRemembered, BackupTold, Dead, ChildCompletes, ChildPauses, ChildCrashes,
     ChildKilled, TailerReads, ledger
<1>4. CASE Supervise
  BY <1>4, SuperviseLives
<1>5. CASE DaemonStep \/ DaemonExits \/ IdleTimeout \/ \E r \in Readers : Finalize(r)
  BY <1>5 DEF DaemonStep, DaemonReady, ModelLoaded, ModelUnloaded, TaskEnds, DaemonExits,
     IdleTimeout,
     Finalize, FinClear, FinWrite, FinStopped, ledger
<1>6. CASE Host \/ ServerStops \/ ServerCrashes \/ UNCHANGED vars
  BY <1>6 DEF Host, OrphanEnds, OrphanEpochEnds, ServerStops, ServerCrashes, ServerGone,
     vars, supVars,
     ledger
<1>7. QED
  BY <1>1, <1>2, <1>3, <1>4, <1>5, <1>6 DEF Next

\* So what is kept stays kept.
LEMMA KeptStays ==
  OneReader /\ BooksAgree /\ RowInv /\ [Next]_vars => \A w : Kept(w) => Kept(w)'
<1> SUFFICES ASSUME OneReader, BooksAgree, RowInv, [Next]_vars, NEW w, Kept(w)
             PROVE  Kept(w)'
  OBVIOUS
<1>1. w \in Work
  BY DEF Kept, BooksAgree, TypeInv, TypeOK, SupTypeOK
<1>2. RowLives(w)
  BY <1>1, NextLives
<1>3. QED
  BY <1>1, <1>2, DiskKept DEF Kept, RowLives, BooksAgree

\* How a row comes to be paused, or stays so: its resume point is cleared by a cancel,
\* or by the process of its slot.
PauseStays(w) ==
  /\ row[w].status = "paused"
  /\ \/ row[w].paused => row'[w].paused
     \/ \E t \in Threads : CancelClear(t) /\ api[t].w = w
     \/ \E s \in SlotNames : TailerReads(s) /\ slot[s].id = w

PauseRecorded(w) ==
  RecordFinish /\ sup.w = w /\ sup.st = "paused" /\ row'[w].paused /\ row[w].status \notin NoRowStatuses

LEMMA RequestPauses ==
  \A t \in Threads : TypeInv /\ RowInv /\ (Request(t) \/ Proceed(t)) =>
    \A w \in Work : row'[w].status = "paused" => PauseStays(w)
<1> SUFFICES ASSUME NEW t \in Threads, TypeInv, RowInv, Request(t) \/ Proceed(t),
                    NEW w \in Work, row'[w].status = "paused",
                    ~(CancelClear(t) /\ api[t].w = w)
             PROVE  row[w].status = "paused" /\ (row[w].paused => row'[w].paused)
  BY RequestMovesRows DEF PauseStays, RowMoves
<1>0. /\ row \in [Work -> Row] /\ (api[t].op # "none" => api[t].w \in Work)
      /\ row[w].status = "paused"
  BY RowsTyped, RequestMovesRows DEF TypeInv, RequestsNameWork, RowMoves
<1>1. CASE UNCHANGED row
  BY <1>0, <1>1
<1>2. ASSUME NEW u \in Work, NEW new, IsNextId(row, u), row' = [row EXCEPT ![u] = new]
      PROVE  row[w].paused => row'[w].paused
  BY <1>2, <1>0, WorkAssumption DEF IsNextId
<1>3. ASSUME NEW ids, Reorder(t, ids)
      PROVE  row[w].paused => row'[w].paused
  BY <1>3, ReorderStays DEF Reorder, RowStays
<1>4. CASE SetType(t) \/ SetConfig(t)
  <2>1. /\ api[t].w \in Work /\ row[api[t].w] \in Row
        /\ \/ row' = Update(row, api[t].w, [row[api[t].w] EXCEPT !.type = KindOf[api[t].w]])
           \/ row' = Update(row, api[t].w, [row[api[t].w] EXCEPT !.cfg = TRUE])
    BY <1>4, <1>0 DEF SetType, SetConfig, AtOp
  <2>2. /\ [row[api[t].w] EXCEPT !.type = KindOf[api[t].w]].paused = row[api[t].w].paused
        /\ [row[api[t].w] EXCEPT !.cfg = TRUE].paused = row[api[t].w].paused
    BY <2>1 DEF Row
  <2>3. QED
    BY <2>1, <2>2, <1>0 DEF Update
<1>5. CASE CancelClear(t)
  <2>1. api[t].w \in Work /\ api[t].w # w
        /\ \E new : row' = Update(row, api[t].w, new)
    BY <1>5, <1>0 DEF CancelClear, AtOp
  <2>2. QED
    BY <2>1, <1>0 DEF Update
<1>6. CASE ResumeWrite(t)
  <2>1. api[t].w \in Work /\ row[api[t].w] \in Row
        /\ \E b : row' = Update(row, api[t].w, [row[api[t].w] EXCEPT !.status = "pending", !.paused = b])
    BY <1>6, <1>0 DEF ResumeWrite, AtOp
  <2>2. \A b : [row[api[t].w] EXCEPT !.status = "pending", !.paused = b].status = "pending"
    BY <2>1 DEF Row
  <2>3. QED
    BY <2>1, <2>2, <1>0 DEF Update
<1>7. CASE EnqueueFails(t) \/ CancelWrite(t) \/ ClearEvalWrite(t) \/ StartWrite(t)
  <2>1. api[t].w \in Work /\ \E st : row' = WithStatus(row, api[t].w, st)
    BY <1>7, <1>0 DEF EnqueueFails, CancelWrite, ClearEvalWrite, StartWrite,
       WriteStatus, AtOp
  <2>2. QED
    BY <2>1, <1>0, WrittenStatus DEF StatusWritten, RowStays
<1>10. CASE RetryCopy(t) /\ ~UNCHANGED row
  <2>1. \E u \in Work : /\ IsNextId(row, u)
                       /\ row' = [row EXCEPT ![u] = CopyOf(api[t].read, row[api[t].w].cfg)]
    BY <1>10 DEF RetryCopy, IdForCopy
  <2>2. QED
    BY <1>0, <1>2, <2>1
<1>11. CASE DeleteWrite(t) \/ DeleteFiles(t)
  <2>1. row'[api[t].w].status = "deleted"
    BY <1>11, DeleteMoves
  <2>2. row'[w] = row[w] \/ w = api[t].w
    BY <1>11, <1>0 DEF DeleteWrite, DeleteFiles, Update
  <2>3. QED
    BY <1>0, <2>1, <2>2
<1>8. ASSUME NEW u \in Work, Enqueue(t, u) \/ CreateDefault(t, u)
      PROVE  row[w].paused => row'[w].paused
  BY <1>8, <1>2 DEF Enqueue, CreateDefault
<1>9. QED
  BY <1>0, <1>1, <1>3, <1>4, <1>5, <1>6, <1>7, <1>8, <1>10, <1>11 DEF Request, Proceed, RetryBegin,
     CancelBegin,
     PauseBegin,
     ResumeBegin, StartBegin, DeleteBegin, ClearEvalBegin, SetHeld, UnloadDaemon, CancelFind,
     CancelSlot, CancelDaemon, PauseSlot, ResumeDerive, ResumeVersion, supVars, ledger

LEMMA SupervisePauses ==
  TypeInv /\ RowInv /\ Supervise =>
    \A w \in Work : row'[w].status = "paused" => PauseStays(w) \/ PauseRecorded(w)
<1> SUFFICES ASSUME TypeInv, RowInv, Supervise, NEW w \in Work, row'[w].status = "paused"
             PROVE  \/ row[w].status = "paused" /\ (row[w].paused => row'[w].paused)
                    \/ PauseRecorded(w)
  BY DEF PauseStays
<1>0. row \in [Work -> Row] /\ (sup.pc \in WorkSteps => sup.w \in Work)
  BY RowParts
<1>1. CASE UNCHANGED row
  BY <1>0, <1>1
<1>2. CASE Restart \/ PromoteDue
  <2>1. \E ws : \E st \in {"failed", "pending"} : row' = WithStatusIn(row, ws, st)
    BY <1>2 DEF Restart, PromoteDue
  <2>2. QED
    BY <2>1, <1>0 DEF WithStatusIn, Row
<1>3. CASE WriteTaskRunning \/ FailTask \/ MarkJobRunning \/ WriteGenerateRunning \/ WriteRejected
  <2>1. sup.w \in Work /\ \E st \in {"failed", "running"} : row' = WithStatus(row, sup.w, st)
    BY <1>3, <1>0 DEF WriteTaskRunning, FailTask, MarkJobRunning, WriteGenerateRunning,
       WriteRejected,
       WorkSteps, SupSteps
  <2>2. QED
    BY <2>1, <1>0, WrittenStatus DEF StatusWritten, RowStays
<1>4. CASE RecordFinish
  <2>1. sup.w \in Work /\ row[sup.w] \in Row
    BY <1>4, <1>0 DEF RecordFinish, WorkSteps, SupSteps
  <2>2. PICK b : /\ row' = Update(row, sup.w, [row[sup.w] EXCEPT !.status = sup.st, !.paused = b])
                 /\ sup.st = "paused" => b
    BY <1>4 DEF RecordFinish
  <2>3. /\ [row[sup.w] EXCEPT !.status = sup.st, !.paused = b].status = sup.st
        /\ [row[sup.w] EXCEPT !.status = sup.st, !.paused = b].paused = b
    BY <2>1 DEF Row
  <2>4. CASE sup.w # w
    BY <2>2, <2>4, <1>0 DEF Update
  <2>5. CASE sup.w = w /\ ~Exists(row, w)
    BY <2>2, <2>5, <1>0 DEF Update, Exists
  <2>6. CASE sup.w = w /\ Exists(row, w)
    <3>1. row'[w].status = sup.st /\ row'[w].paused = b
      BY <2>1, <2>2, <2>3, <2>6, <1>0 DEF Update
    <3>2. QED
      BY <3>1, <2>2, <2>6, <1>4 DEF PauseRecorded, Exists
  <2>7. QED
    BY <2>4, <2>5, <2>6
<1>5. CASE ReleaseSlot
  <2>1. ASSUME NEW u \in Work, QueuesAutoEval(u),
               row' = [row EXCEPT ![u] = NewRow("eval_samples", "pending", FALSE)]
        PROVE  row'[w] = row[w] \/ row'[w].status = "pending"
    BY <2>1, <1>0 DEF NewRow
  <2>2. QED
    BY <1>5, <2>1, <1>1 DEF ReleaseSlot
<1>6. QED
  BY <1>1, <1>2, <1>3, <1>4, <1>5 DEF Supervise, FindDue, ReapNothing, ReapExited,
     FinishSlot,
     SkipSlot, HeadWaits, SelectHead, SpawnTask, DispatchData, PopenJob, AttachJob, StartDaemon,
     AwaitDaemon, ClaimDaemon, SubmitTask, RejectTask, ledger

LEMMA NextPauses ==
  OneReader /\ BooksAgree /\ RowInv /\ [Next]_vars =>
    \A w \in Work : row'[w].status = "paused" => PauseStays(w) \/ PauseRecorded(w)
<1> SUFFICES ASSUME BooksAgree, RowInv, [Next]_vars, NEW w \in Work, row'[w].status = "paused"
             PROVE  PauseStays(w) \/ PauseRecorded(w)
  OBVIOUS
<1>0. TypeInv /\ row \in [Work -> Row]
  BY RowParts DEF BooksAgree
<1>1. CASE UNCHANGED row
  BY <1>0, <1>1 DEF PauseStays
<1>2. CASE \E t \in Threads : Request(t) \/ Proceed(t)
  BY <1>0, <1>2, RequestPauses
<1>3. CASE Supervise
  BY <1>0, <1>3, SupervisePauses
<1>4. CASE \E s \in SlotNames : TailerReads(s)
  <2>1. PICK s \in SlotNames : TailerReads(s)
    BY <1>4
  <2>2. row[w].status = "paused"
    BY <1>0, <2>1, TailerMoves DEF RowMoves
  <2>3. CASE slot[s].id = w
    BY <2>1, <2>2, <2>3 DEF PauseStays
  <2>4. CASE slot[s].id # w
    <3>1. slot[s].id \in Work /\ (row' = row \/ \E new : row' = Update(row, slot[s].id, new))
      BY <1>0, <2>1, RowParts DEF TailerReads
    <3>2. row'[w] = row[w]
      BY <3>1, <2>4, <1>0 DEF Update
    <3>3. QED
      BY <2>2, <3>2 DEF PauseStays
  <2>5. QED
    BY <2>3, <2>4
<1>5. CASE \E r \in Readers : FinWrite(r)
  <2>1. PICK r \in Readers : fin[r].pc = "write" /\ row' = WithStatus(row, fin[r].w, fin[r].st)
    BY <1>5 DEF FinWrite
  <2>2. fin[r].w \in Work /\ StatusWritten(fin[r].w, fin[r].st) /\ fin[r].st \in TerminalStatuses
    BY <1>0, <2>1, WrittenStatus, RowParts DEF FinRec
  <2>3. row[w].status = "paused" /\ row'[w].paused = row[w].paused
    BY <1>0, <2>2 DEF StatusWritten, RowStays, TerminalStatuses
  <2>4. QED
    BY <2>3 DEF PauseStays
<1>6. QED
  BY <1>1, <1>2, <1>3, <1>4, <1>5 DEF Next, ChildStep, LoopStarts, InLoop, BackupReplaced, BackupRemembered, BackupTold,
     Dead, ChildCompletes,
     ChildPauses, ChildCrashes, ChildKilled, DaemonStep, DaemonReady, ModelLoaded, ModelUnloaded,
     TaskEnds, DaemonExits, IdleTimeout, Finalize, FinClear, FinStopped, Host, OrphanEnds,
     OrphanEpochEnds, ServerStops, ServerCrashes, ServerGone, vars, supVars, ledger

--------------------------------------------------------------------------------
(* Backups *)

\* The slots and processes keep what the backups are told by.
ToldStays(s) ==
  /\ child'[s].id = child[s].id /\ child'[s].log = child[s].log
  /\ child'[s].backed = child[s].backed /\ child'[s].untold = child[s].untold
  /\ slot'[s].id = slot[s].id /\ slot'[s].path = slot[s].path

\* The steps that start or let go of a process, those of the processes and of the
\* tailers, and the end of the server: all the others keep it.
SlotSteps ==
  \/ ReleaseSlot \/ SpawnTask \/ PopenJob \/ AttachJob
  \/ \E s \in SlotNames : ChildStep(s) \/ TailerReads(s)
  \/ ServerStops \/ ServerCrashes

LEMMA OthersKeepTold ==
  TypeInv /\ [Next]_vars /\ ~SlotSteps => \A s \in SlotNames : ToldStays(s)
<1> SUFFICES ASSUME TypeInv, [Next]_vars, ~SlotSteps
             PROVE  \A s \in SlotNames : ToldStays(s)
  OBVIOUS
<1>0. slot \in [SlotNames -> SlotRec] /\ child \in [SlotNames -> ChildRec]
  BY ProcsTyped
<1>1. CASE UNCHANGED procs
  BY <1>1 DEF ToldStays, procs
<1>2. ASSUME NEW t \in Threads, CancelSlot(t)
      PROVE  \A s \in SlotNames : ToldStays(s)
  <2> DEFINE q == api[t].s
  <2>1. \/ UNCHANGED procs
        \/ /\ slot' = [slot EXCEPT ![q].cancel = TRUE]
           /\ \E b : child' = [child EXCEPT ![q].term = b]
    BY <1>2 DEF CancelSlot
  <2>2. ASSUME NEW s \in SlotNames, slot' = [slot EXCEPT ![q].cancel = TRUE],
               NEW b, child' = [child EXCEPT ![q].term = b]
        PROVE  ToldStays(s)
    <3>1. slot[s] \in SlotRec /\ child[s] \in ChildRec
      BY <1>0
    <3>2. /\ slot'[s] = slot[s] \/ slot'[s] = [slot[s] EXCEPT !.cancel = TRUE]
          /\ child'[s] = child[s] \/ child'[s] = [child[s] EXCEPT !.term = b]
      BY <2>2, <1>0
    <3>3. QED
      BY <3>1, <3>2 DEF SlotRec, ChildRec, ToldStays
  <2>3. QED
    BY <2>1, <2>2, <1>1
<1>3. ASSUME NEW t \in Threads, PauseSlot(t)
      PROVE  \A s \in SlotNames : ToldStays(s)
  <2>1. /\ slot' = [slot EXCEPT !["train"].pause = TRUE]
        /\ child' = child \/ \E n : child' = [child EXCEPT !["train"].ints = n]
    BY <1>3 DEF PauseSlot
  <2>2. ASSUME NEW s \in SlotNames, NEW n,
               child' = child \/ child' = [child EXCEPT !["train"].ints = n]
        PROVE  ToldStays(s)
    <3>1. slot[s] \in SlotRec /\ child[s] \in ChildRec
      BY <1>0
    <3>2. /\ slot'[s] = slot[s] \/ slot'[s] = [slot[s] EXCEPT !.pause = TRUE]
          /\ child'[s] = child[s] \/ child'[s] = [child[s] EXCEPT !.ints = n]
      BY <2>1, <2>2, <1>0
    <3>3. QED
      BY <3>1, <3>2 DEF SlotRec, ChildRec, ToldStays
  <2>3. QED
    BY <2>1, <2>2
<1>4. CASE Supervise
  <2>1. UNCHANGED procs
    BY <1>4 DEF SlotSteps, Supervise, Restart, FindDue, PromoteDue, ReapNothing, ReapExited,
       FinishSlot, RecordFinish, SkipSlot, HeadWaits, SelectHead, WriteTaskRunning, FailTask,
       DispatchData, MarkJobRunning, StartDaemon, AwaitDaemon, ClaimDaemon, WriteGenerateRunning,
       SubmitTask, RejectTask, WriteRejected
  <2>2. QED
    BY <2>1, <1>1
<1>5. ASSUME NEW t \in Threads, Request(t) \/ Proceed(t), ~CancelSlot(t), ~PauseSlot(t)
      PROVE  UNCHANGED procs
  BY <1>5 DEF Request, Proceed, CancelBegin, PauseBegin, Enqueue, CreateDefault, RetryBegin, RetryCopy,
     Reorder,
     SetType, SetConfig, EnqueueFails, CancelWrite, CancelClear, ResumeWrite, StartWrite,
     ClearEvalWrite, CancelFind, CancelDaemon, ResumeBegin, StartBegin, DeleteBegin, DeleteWrite, DeleteFiles,
     ClearEvalBegin, SetHeld, ResumeDerive, ResumeVersion, UnloadDaemon, supVars
<1>6. CASE DaemonStep \/ DaemonExits \/ IdleTimeout \/ Host \/ \E r \in Readers : Finalize(r)
  <2>1. UNCHANGED procs
    BY <1>6 DEF DaemonStep, DaemonReady, ModelLoaded, ModelUnloaded, TaskEnds, DaemonExits,
       IdleTimeout, Finalize, FinClear, FinWrite, FinStopped, Host, OrphanEnds, OrphanEpochEnds
  <2>2. QED
    BY <2>1, <1>1
<1>7. CASE UNCHANGED vars
  BY <1>7, <1>1 DEF vars, supVars
<1>8. QED
  BY <1>1, <1>2, <1>3, <1>4, <1>5, <1>6, <1>7 DEF Next, SlotSteps

\* The process of the DATA slot is no training.
LEMMA DataIsNoTraining ==
  TypeInv /\ SlotsOwnTheirProcess /\ RowInv => ~Training("data")
<1> SUFFICES ASSUME TypeInv, SlotsOwnTheirProcess, RowInv, Training("data")
             PROVE  FALSE
  OBVIOUS
<1>1. child["data"].id \in Work /\ child["data"].id # NoWork
  BY ProcsTyped, WorkIsNamed DEF Training, SlotNames
<1>2. \/ child["data"].id = slot["data"].id
      \/ child["data"].id = sup.w /\ sup.pc \in DataSteps
  BY DEF SlotsOwnTheirProcess, Training, DataSteps
<1>3. KindOf[child["data"].id] \in DataSlotKinds
  BY <1>1, <1>2, RowParts DEF KindsOfExecutors, Busy
<1>4. QED
  BY <1>3 DEF Training, DataSlotKinds

\* What a process does to itself: it writes its backup, or a few lines more, or ends.
LEMMA ChildTells ==
  ASSUME TypeInv, NEW s \in SlotNames, ChildStep(s)
  PROVE  /\ UNCHANGED <<row, slot, sup, crashes, orphans, api>> /\ Alive(s)
         /\ \A q \in SlotNames \ {s} : child'[q] = child[q]
         /\ child'[s].id = child[s].id
         /\ child'[s].backed \/ child'[s].untold
              => child[s].backed \/ child[s].untold \/ child[s].id \in disk'
         /\ \E lines \in Seq(Events) :
              /\ child'[s].log = child[s].log \o lines
              /\ ~Training(s) => lines = <<>>
              /\ Says(lines, "pause_at") => child[s].backed
              /\ Says(lines, "backup") => child[s].backed \/ child[s].id \in disk'
<1>0. child \in [SlotNames -> ChildRec] /\ child[s] \in ChildRec /\ child[s].log \in Seq(Events)
  BY ProcsTyped DEF ChildRec
<1>1. /\ UNCHANGED <<row, slot, sup, crashes, orphans, api>> /\ Alive(s)
      /\ \A q \in SlotNames \ {s} : child'[q] = child[q]
  BY <1>0 DEF ChildStep, LoopStarts, InLoop, BackupReplaced, BackupRemembered, BackupTold, Dead,
     ChildCompletes, ChildPauses, ChildCrashes, ChildKilled, ledger, Training, others, host
<1>2. child'[s].id = child[s].id
  BY ChildKeepsId
<1> DEFINE Knows == child'[s].backed \/ child'[s].untold
                      => child[s].backed \/ child[s].untold \/ child[s].id \in disk'
           Tells(lines) ==
             /\ child'[s].log = child[s].log \o lines
             /\ ~Training(s) => lines = <<>>
             /\ Says(lines, "pause_at") => child[s].backed
             /\ Says(lines, "backup") => child[s].backed \/ child[s].id \in disk'
<1>3. \A lines \in Seq(Events) : /\ Writes(s, lines).log = child[s].log \o lines
                                 /\ Writes(s, lines).backed = child[s].backed
                                 /\ Writes(s, lines).untold = child[s].untold
                                 /\ Writes(s, lines) \in ChildRec
  BY <1>0, WritesType DEF Writes, ChildRec
<1>4. <<>> \in Seq(Events) /\ child[s].log \o <<>> = child[s].log
  BY <1>0
<1> SUFFICES Knows /\ \E lines \in Seq(Events) : Tells(lines)
  BY <1>1, <1>2
<1>5. CASE LoopStarts(s)
  <2>0. disk' = disk /\ Training(s)
    BY <1>5 DEF LoopStarts, ledger
  <2>1. CASE child[s].resume /\ child[s].id \in disk
    <3> DEFINE lines == <<"resumed", "backup", "loop">>
    <3>1. lines \in Seq(Events) /\ ~Says(lines, "pause_at")
      BY DEF Says, Events
    <3>2. child'[s] = [Writes(s, lines) EXCEPT !.looping = TRUE, !.backed = TRUE]
      BY <1>0, <1>5, <2>1 DEF LoopStarts
    <3>3. child'[s].log = child[s].log \o lines
      BY <3>1, <3>2, <1>3 DEF ChildRec
    <3>4. QED
      BY <2>0, <2>1, <3>1, <3>3
  <2>2. CASE ~(child[s].resume /\ child[s].id \in disk)
    <3> DEFINE lines == <<"loop">>
    <3>1. lines \in Seq(Events) /\ ~Says(lines, "pause_at") /\ ~Says(lines, "backup")
      BY DEF Says, Events
    <3>2. child'[s] = [Writes(s, lines) EXCEPT !.looping = TRUE, !.backed = FALSE]
      BY <1>0, <1>5, <2>2 DEF LoopStarts
    <3>3. /\ child'[s].log = child[s].log \o lines /\ child'[s].backed = FALSE
          /\ child'[s].untold = child[s].untold
      BY <3>1, <3>2, <1>3 DEF ChildRec
    <3>4. QED
      BY <2>0, <3>1, <3>3
  <2>3. QED
    BY <2>1, <2>2
<1>6. CASE BackupReplaced(s)
  <2>1. child'[s] = [child[s] EXCEPT !.untold = TRUE] /\ child[s].id \in disk'
    BY <1>0, <1>6 DEF BackupReplaced
  <2>2. child'[s].log = child[s].log
    BY <1>0, <2>1 DEF ChildRec
  <2>3. Tells(<<>>)
    BY <1>4, <2>2, NothingSaid
  <2>4. QED
    BY <1>4, <2>1, <2>3
<1>7. CASE BackupRemembered(s)
  <2>1. child'[s] = [child[s] EXCEPT !.backed = TRUE] /\ child[s].untold
    BY <1>0, <1>7 DEF BackupRemembered
  <2>2. child'[s].log = child[s].log
    BY <1>0, <2>1 DEF ChildRec
  <2>3. Tells(<<>>)
    BY <1>4, <2>2, NothingSaid
  <2>4. QED
    BY <1>4, <2>1, <2>3
<1>8. CASE BackupTold(s)
  <2> DEFINE lines == <<"backup">>
  <2>1. lines \in Seq(Events) /\ ~Says(lines, "pause_at")
    BY DEF Says, Events
  <2>2. child'[s] = [Writes(s, lines) EXCEPT !.untold = FALSE] /\ Training(s) /\ child[s].backed
    BY <1>0, <1>8 DEF BackupTold, InLoop
  <2>3. child'[s].log = child[s].log \o lines
    BY <2>1, <2>2, <1>3 DEF ChildRec
  <2>4. QED
    BY <2>1, <2>2, <2>3
<1>9. ASSUME NEW life, NEW lines \in Seq(Events), child'[s] = Dead(s, life, lines),
             ~Training(s) => lines = <<>>, Says(lines, "pause_at") => child[s].backed,
             ~Says(lines, "backup")
      PROVE  Knows /\ \E l \in Seq(Events) : Tells(l)
  <2>1. /\ child'[s].log = child[s].log \o lines
        /\ child'[s].backed = FALSE /\ child'[s].untold = FALSE
    BY <1>9 DEF Dead, NoChild
  <2>2. QED
    BY <1>9, <2>1
<1>10. CASE ChildCompletes(s)
  <2>1. /\ <<"eval_finished">> \in Seq(Events)
        /\ ~Says(<<"eval_finished">>, "pause_at") /\ ~Says(<<"eval_finished">>, "backup")
    BY DEF Says, Events
  <2>2. child'[s] = Dead(s, "completed", IF Training(s) THEN <<"eval_finished">> ELSE <<>>)
    BY <1>0, <1>10 DEF ChildCompletes
  <2>3. QED
    BY <1>4, <1>9, <2>1, <2>2, NothingSaid
<1>11. CASE ChildPauses(s)
  <2>1. /\ <<"pause_at">> \in Seq(Events) /\ <<"pause_none">> \in Seq(Events)
        /\ ~Says(<<"pause_none">>, "pause_at")
        /\ ~Says(<<"pause_at">>, "backup") /\ ~Says(<<"pause_none">>, "backup")
    BY DEF Says, Events
  <2>2. /\ child'[s] = Dead(s, "paused", IF child[s].backed THEN <<"pause_at">> ELSE <<"pause_none">>)
        /\ Training(s)
    BY <1>0, <1>11 DEF ChildPauses
  <2>3. QED
    BY <1>9, <2>1, <2>2
<1>12. CASE ChildCrashes(s) \/ ChildKilled(s)
  <2>1. \E life : child'[s] = Dead(s, life, <<>>)
    BY <1>0, <1>12 DEF ChildCrashes, ChildKilled
  <2>2. QED
    BY <1>4, <1>9, <2>1, NothingSaid
<1>13. QED
  BY <1>5, <1>6, <1>7, <1>8, <1>10, <1>11, <1>12 DEF ChildStep

\* A tailer passes one line on.
LEMMA TailerTells ==
  ASSUME TypeInv, RowInv, NEW s \in SlotNames, TailerReads(s)
  PROVE  /\ UNCHANGED <<disk, sup, crashes, orphans, api>> /\ Busy(s)
         /\ \A q \in SlotNames \ {s} : child'[q] = child[q] /\ slot'[q] = slot[q]
         /\ child'[s].id = child[s].id
         /\ child'[s].backed = child[s].backed /\ child'[s].untold = child[s].untold
         /\ slot'[s].id = slot[s].id
         /\ child[s].log # <<>> /\ child'[s].log = Tail(child[s].log)
         /\ slot'[s].path => slot[s].path \/ Head(child[s].log) = "pause_at"
         /\ Head(child[s].log) = "backup" /\ row[slot[s].id].status \notin NoRowStatuses
              => row'[slot[s].id].last
<1>0. /\ slot \in [SlotNames -> SlotRec] /\ child \in [SlotNames -> ChildRec]
      /\ row \in [Work -> Row] /\ Busy(s) /\ slot[s].id \in Work
  BY RowParts DEF TailerReads
<1>1. UNCHANGED <<disk, sup, crashes, orphans, api>>
  BY DEF TailerReads, others, host
<1>2. /\ child' = [child EXCEPT ![s].log = Tail(@)] /\ child[s].log # <<>>
      /\ \/ slot' = slot
         \/ slot' = [slot EXCEPT ![s].loop = TRUE]
         \/ slot' = [slot EXCEPT ![s].path = TRUE] /\ Head(child[s].log) = "pause_at"
         \/ slot' = [slot EXCEPT ![s].evalFin = TRUE]
  BY DEF TailerReads
<1>3. child[s] \in ChildRec /\ slot[s] \in SlotRec /\ row[slot[s].id] \in Row
  BY <1>0
<1>4. child'[s] = [child[s] EXCEPT !.log = Tail(child[s].log)]
  BY <1>0, <1>2
<1>5. /\ child'[s].id = child[s].id
      /\ child'[s].backed = child[s].backed /\ child'[s].untold = child[s].untold
      /\ child'[s].log = Tail(child[s].log)
  BY <1>3, <1>4 DEF ChildRec
<1>6. \A q \in SlotNames \ {s} : child'[q] = child[q] /\ slot'[q] = slot[q]
  BY <1>0, <1>2
<1>7. \/ slot'[s] = slot[s]
      \/ slot'[s] = [slot[s] EXCEPT !.loop = TRUE]
      \/ slot'[s] = [slot[s] EXCEPT !.path = TRUE] /\ Head(child[s].log) = "pause_at"
      \/ slot'[s] = [slot[s] EXCEPT !.evalFin = TRUE]
  BY <1>0, <1>2
<1>8. /\ slot'[s].id = slot[s].id
      /\ slot'[s].path => slot[s].path \/ Head(child[s].log) = "pause_at"
  BY <1>3, <1>7 DEF SlotRec
<1>9. ASSUME Head(child[s].log) = "backup", row[slot[s].id].status \notin NoRowStatuses
      PROVE  row'[slot[s].id].last
  <2>1. row' = Update(row, slot[s].id, [row[slot[s].id] EXCEPT !.last = TRUE])
    BY <1>9 DEF TailerReads
  <2>2. [row[slot[s].id] EXCEPT !.last = TRUE].last
    BY <1>3 DEF Row
  <2>3. QED
    BY <2>1, <2>2, <1>0, <1>9 DEF Update, Exists
<1>10. QED
  BY <1>0, <1>1, <1>2, <1>5, <1>6, <1>8, <1>9

\* What a slot and its process say of a backup stays true.
LEMMA NextTruth ==
  OneReader /\ BooksAgree /\ RowInv /\ SlotTruth /\ [Next]_vars => SlotTruth'
<1> SUFFICES ASSUME OneReader, BooksAgree, RowInv, SlotTruth, [Next]_vars
             PROVE  SlotTruth'
  OBVIOUS
<1>0. /\ TypeInv /\ SlotsOwnTheirProcess /\ SlotsAgree
      /\ slot \in [SlotNames -> SlotRec] /\ child \in [SlotNames -> ChildRec]
      /\ \A s \in SlotNames : child[s].log \in Seq(Events)
      /\ \A w : Kept(w) => Kept(w)'
  BY RowParts, KeptStays DEF BooksAgree, ProcessInv, ChildRec
<1>1. CASE \A s \in SlotNames : ToldStays(s)
  BY <1>0, <1>1 DEF SlotTruth, ToldStays, Logged, Busy, SlotNames
<1>2. ASSUME NEW s \in SlotNames, ChildStep(s)
      PROVE  SlotTruth'
  <2>1. PICK lines \in Seq(Events) :
          /\ child'[s].log = child[s].log \o lines
          /\ ~Training(s) => lines = <<>>
          /\ Says(lines, "pause_at") => child[s].backed
          /\ Says(lines, "backup") => child[s].backed \/ child[s].id \in disk'
    BY <1>0, <1>2, ChildTells
  <2>2. /\ slot' = slot /\ child'[s].id = child[s].id /\ \A q \in SlotNames \ {s} : child'[q] = child[q]
        /\ child'[s].backed \/ child'[s].untold
             => child[s].backed \/ child[s].untold \/ child[s].id \in disk'
    BY <1>0, <1>2, ChildTells
  <2>3. child'["data"].log = <<>>
    <3>1. CASE s = "data"
      <4>1. lines = <<>> /\ <<>> \o <<>> = <<>>
        BY <1>0, <2>1, <3>1, DataIsNoTraining
      <4>2. QED
        BY <2>1, <3>1, <4>1 DEF SlotTruth
    <3>2. CASE s = "train"
      BY <2>2, <3>2 DEF SlotTruth, SlotNames
    <3>3. QED
      BY <3>1, <3>2 DEF SlotNames
  <2>4. /\ child'["train"].backed \/ child'["train"].untold => Kept(child["train"].id)'
        /\ Logged("train", "pause_at")' \/ Logged("train", "backup")' => Kept(child["train"].id)'
    <3>1. CASE s = "train"
      <4>1. child["train"].id \in disk' => Kept(child["train"].id)'
        BY <2>2, <3>1 DEF Kept
      <4>2. /\ child["train"].log \in Seq(Events)
            /\ child'["train"].log = child["train"].log \o lines
            /\ Says(lines, "pause_at") => child["train"].backed
            /\ Says(lines, "backup") => child["train"].backed \/ child["train"].id \in disk'
        BY <1>0, <2>1, <3>1
      <4>3. /\ Logged("train", "pause_at")' => Logged("train", "pause_at") \/ child["train"].backed
            /\ Logged("train", "backup")' =>
                 Logged("train", "backup") \/ child["train"].backed \/ child["train"].id \in disk'
        BY <4>2, LogGrows DEF Logged
      <4>4. Kept(child["train"].id) => Kept(child["train"].id)'
        BY <1>0, <2>2, <3>1
      <4>5. QED
        BY <2>2, <3>1, <4>1, <4>3, <4>4 DEF SlotTruth
    <3>2. CASE s = "data"
      BY <1>0, <2>2, <3>2 DEF SlotTruth, Logged, SlotNames
    <3>3. QED
      BY <3>1, <3>2 DEF SlotNames
  <2>5. QED
    BY <1>0, <2>2, <2>3, <2>4 DEF SlotTruth, Busy
<1>3. ASSUME NEW s \in SlotNames, TailerReads(s)
      PROVE  SlotTruth'
  <2>1. s = "train" /\ child["train"].id = slot["train"].id
    BY <1>0, <1>3, TailerTells DEF SlotTruth, SlotNames, SlotsAgree
  <2>2. /\ child'["data"] = child["data"] /\ slot'["data"] = slot["data"]
        /\ child'["train"].id = child["train"].id /\ child'["train"].backed = child["train"].backed
        /\ child'["train"].untold = child["train"].untold
        /\ slot'["train"].id = slot["train"].id /\ Busy("train")
        /\ child["train"].log # <<>> /\ child'["train"].log = Tail(child["train"].log)
        /\ slot'["train"].path => slot["train"].path \/ Head(child["train"].log) = "pause_at"
    BY <1>0, <1>3, <2>1, TailerTells DEF SlotNames
  <2>3. /\ Logged("train", "pause_at")' => Logged("train", "pause_at")
        /\ Logged("train", "backup")' => Logged("train", "backup")
        /\ Head(child["train"].log) = "pause_at" => Logged("train", "pause_at")
    BY <1>0, <2>2, LogRead DEF Logged, SlotNames
  <2>4. QED
    BY <1>0, <2>1, <2>2, <2>3 DEF SlotTruth, Busy, SlotNames
<1>4. CASE ReleaseSlot
  <2>1. /\ sup.s \in SlotNames
        /\ slot' = [slot EXCEPT ![sup.s] = IdleSlot] /\ child' = [child EXCEPT ![sup.s] = NoChild]
    BY <1>0, <1>4, RowParts DEF ReleaseSlot, SupRec
  <2>2. /\ NoChild.log = <<>> /\ ~NoChild.backed /\ ~NoChild.untold /\ ~IdleSlot.path
    BY DEF NoChild, IdleSlot
  <2>3. \A q \in SlotNames : \/ slot'[q] = slot[q] /\ child'[q] = child[q]
                             \/ slot'[q] = IdleSlot /\ child'[q] = NoChild
    BY <1>0, <2>1
  <2>4. QED
    BY <1>0, <2>2, <2>3, NothingSaid DEF SlotTruth, Logged, Busy, SlotNames
<1>5. CASE SpawnTask
  <2>1. /\ sup.pc = "spawn" /\ ~Busy("train")
        /\ child' = [child EXCEPT !["train"] = Popened(sup.w, sup.st = "resume")]
        /\ slot' = [slot EXCEPT !["train"].id = sup.w, !["train"].cancel = FALSE]
    BY <1>0, <1>5 DEF SpawnTask, SlotsAgree
  <2>2. /\ child'["data"] = child["data"] /\ slot'["data"] = slot["data"]
        /\ child'["train"].log = <<>> /\ ~child'["train"].backed /\ ~child'["train"].untold
    BY <1>0, <2>1 DEF Popened, NoChild, SlotNames
  <2>3. slot'["train"].path = slot["train"].path
    BY <1>0, <2>1 DEF SlotRec, SlotNames
  <2>4. QED
    BY <1>0, <2>1, <2>2, <2>3, NothingSaid DEF SlotTruth, Logged, Busy, SlotNames
<1>6. CASE PopenJob
  <2>1. /\ slot' = slot /\ child' = [child EXCEPT !["data"] = Popened(sup.w, FALSE)]
    BY <1>6 DEF PopenJob
  <2>2. child'["train"] = child["train"] /\ child'["data"].log = <<>>
    BY <1>0, <2>1 DEF Popened, NoChild, SlotNames
  <2>3. QED
    BY <1>0, <2>1, <2>2 DEF SlotTruth, Logged, Busy, SlotNames
<1>7. CASE AttachJob
  <2>1. child' = child /\ slot' = [slot EXCEPT !["data"].id = sup.w, !["data"].cancel = FALSE]
    BY <1>7 DEF AttachJob
  <2>2. slot'["train"] = slot["train"] /\ slot'["data"].path = slot["data"].path
    BY <1>0, <2>1 DEF SlotRec, SlotNames
  <2>3. QED
    BY <1>0, <2>1, <2>2 DEF SlotTruth, Logged, Busy, SlotNames
<1>8. CASE ServerStops \/ ServerCrashes
  <2>1. \A q \in SlotNames : slot'[q] = IdleSlot /\ child'[q] = NoChild
    BY <1>8 DEF ServerStops, ServerCrashes, ServerGone
  <2>2. NoChild.log = <<>> /\ ~NoChild.backed /\ ~NoChild.untold /\ ~IdleSlot.path
    BY DEF NoChild, IdleSlot
  <2>3. QED
    BY <2>1, <2>2, NothingSaid DEF SlotTruth, Logged, SlotNames
<1>9. QED
  BY <1>0, <1>1, <1>2, <1>3, <1>4, <1>5, <1>6, <1>7, <1>8, OthersKeepTold DEF SlotSteps

\* A row is paused only with its backup on disk.
LEMMA NextOnDisk ==
  OneReader /\ BooksAgree /\ RowInv /\ SlotTruth /\ PausesAreOnDisk /\ [Next]_vars => PausesAreOnDisk'
<1> SUFFICES ASSUME OneReader, BooksAgree, RowInv, SlotTruth, PausesAreOnDisk, [Next]_vars
             PROVE  PausesAreOnDisk'
  OBVIOUS
<1>0. TypeInv /\ SlotsAgree /\ \A w : Kept(w) => Kept(w)'
  BY RowParts, KeptStays DEF BooksAgree
<1>1. ASSUME sup'.pc = "record", sup'.st = "paused"
      PROVE  Kept(sup.w)'
  <2>1. CASE UNCHANGED sup
    <3>1. sup'.w = sup.w /\ Kept(sup.w)
      BY <1>1, <2>1 DEF PausesAreOnDisk
    <3>2. \A u : u = sup.w => Kept(u)'
      BY <1>0, <3>1
    <3>3. QED
      BY <3>1, <3>2
  <2>2. CASE FinishSlot
    <3>1. /\ sup'.w = sup.w /\ slot[sup.s].id = sup.w
          /\ FinishedStatus(slot[sup.s], child[sup.s].life \in {"completed", "paused"}) = "paused"
          /\ sup.s \in SlotNames
      BY <1>0, <1>1, <2>2, GoesTo, RowParts DEF FinishSlot, SlotsAgree, ReleaseSteps, SupRec
    <3>2. Kept(sup.w)
      BY <3>1 DEF FinishedStatus, SlotTruth
    <3>3. \A u : u = sup.w => Kept(u)'
      BY <1>0, <3>2
    <3>4. QED
      BY <3>1, <3>3
  <2>3. CASE Supervise /\ ~FinishSlot
    <3>1. CASE FindDue
      BY <1>0, <1>1, <3>1, GoesTo, RowParts DEF FindDue, SupRec
    <3>2. CASE SkipSlot \/ HeadWaits \/ SelectHead \/ DispatchData
      BY <1>1, <3>2, GoesTo, AfterEnd DEF SkipSlot, HeadWaits, SelectHead, DispatchData
    <3>3. CASE ~(FindDue \/ SkipSlot \/ HeadWaits \/ SelectHead \/ DispatchData)
      BY <1>1, <2>3, <3>3, GoesTo, AfterEnd DEF Supervise, Restart, PromoteDue, ReapNothing,
         ReapExited,
         RecordFinish, ReleaseSlot, SpawnTask, WriteTaskRunning, FailTask, PopenJob, MarkJobRunning,
         AttachJob, StartDaemon, AwaitDaemon, ClaimDaemon, WriteGenerateRunning, SubmitTask,
         RejectTask, WriteRejected
    <3>4. QED
      BY <3>1, <3>2, <3>3
  <2>4. CASE ~Supervise
    BY <1>0, <1>1, <2>1, <2>4, OthersMakeNoClaim
  <2>5. QED
    BY <2>1, <2>2, <2>3, <2>4
<1>2. ASSUME NEW w \in Work, row'[w].status = "paused"
      PROVE  w \in disk'
  <2>1. Kept(w)
    <3>1. CASE PauseStays(w)
      BY <3>1 DEF PauseStays, PausesAreOnDisk, Kept
    <3>2. CASE PauseRecorded(w)
      BY <3>2 DEF PauseRecorded, RecordFinish, PausesAreOnDisk
    <3>3. QED
      BY <1>2, <3>1, <3>2, NextPauses
  <2>2. QED
    BY <1>0, <1>2, <2>1 DEF Kept
<1>3. QED
  BY <1>1, <1>2 DEF PausesAreOnDisk

\* A paused row keeps its resume point until a cancel takes both.
LEMMA NextPath ==
  OneReader /\ BooksAgree /\ RowInv /\ PausedHasPath /\ [Next]_vars => PausedHasPath'
<1> SUFFICES ASSUME OneReader, BooksAgree, RowInv, PausedHasPath, [Next]_vars, crashes' = 0,
                    NEW w \in Work, row'[w].status = "paused", ~row'[w].paused
             PROVE  \E t \in Threads : AtOp(t, "cancel_write")' /\ api'[t].w = w
  BY DEF PausedHasPath
<1>0. /\ TypeInv /\ SlotsAgree /\ SettledIsLetGo /\ row \in [Work -> Row]
      /\ api \in [Threads -> ThreadRec]
  BY RowParts DEF BooksAgree, TypeInv, TypeOK
<1>1. crashes = 0 /\ ~ServerStops /\ ~ServerCrashes
  BY <1>0, NoCrashYet
<1>2. PauseStays(w)
  BY NextPauses DEF PauseRecorded
<1>3. CASE \E t \in Threads : CancelClear(t) /\ api[t].w = w
  <2>1. PICK t \in Threads : CancelClear(t) /\ api[t].w = w
    BY <1>3
  <2>2. api'[t].op = "cancel_write" /\ api'[t].w = w
    BY <2>1, <1>0 DEF CancelClear, Continue, IdleThread
  <2>3. QED
    BY <2>2 DEF AtOp
<1>4. CASE \E s \in SlotNames : TailerReads(s) /\ slot[s].id = w
  <2>1. PICK s \in SlotNames : TailerReads(s) /\ slot[s].id = w
    BY <1>4
  <2>2. sup.pc = "release" /\ sup.s = s
    BY <2>1, <1>0, <1>2 DEF SettledIsLetGo, PauseStays
  <2>3. QED
    BY <2>1, <2>2, <1>0 DEF SlotsAgree, TailerReads
<1>5. CASE ~row[w].paused
  <2>1. PICK t \in Threads : AtOp(t, "cancel_write") /\ api[t].w = w
    BY <1>1, <1>2, <1>5 DEF PausedHasPath, PauseStays
  <2>2. CASE api'[t] = api[t]
    BY <2>1, <2>2 DEF AtOp
  <2>3. CASE Request(t) \/ Proceed(t)
    <3>1. CancelWrite(t)
      BY <2>1, <2>3 DEF AtOp, Idle, Called, Request, Proceed, CancelBegin, PauseBegin,
         Enqueue,
         CreateDefault, RetryBegin, RetryCopy, Reorder, SetType, SetConfig, EnqueueFails, CancelClear, ResumeWrite,
         StartWrite, ClearEvalWrite, CancelFind, CancelSlot, CancelDaemon, PauseSlot, ResumeBegin,
         StartBegin, DeleteBegin, DeleteWrite, DeleteFiles, ClearEvalBegin, SetHeld, ResumeDerive, ResumeVersion,
         UnloadDaemon
    <3>2. row'[w].status = "canceled"
      BY <3>1, <2>1, <1>0, <1>2, WrittenStatus DEF CancelWrite, WriteStatus, StatusWritten,
         PauseStays,
         NoRowStatuses
    <3>3. QED
      BY <3>2
  <2>4. QED
    BY <2>2, <2>3, <1>0, <1>1, OwnThread
<1>6. QED
  BY <1>2, <1>3, <1>4, <1>5 DEF PauseStays

\* A row calls a backup its own when the line is read that a process wrote beside it.
LEMMA NextRowTruth ==
  OneReader /\ BooksAgree /\ RowInv /\ SlotTruth /\ RowTruth /\ [Next]_vars => RowTruth'
<1> SUFFICES ASSUME OneReader, BooksAgree, RowInv, SlotTruth, RowTruth, [Next]_vars,
                    NEW w \in Work, row'[w].last
             PROVE  Kept(w)'
  BY DEF RowTruth
<1>0. /\ TypeInv /\ SlotsAgree /\ (Kept(w) => Kept(w)') /\ RowLives(w)
      /\ child["train"].log \in Seq(Events)
  BY RowParts, KeptStays, NextLives DEF BooksAgree, ChildRec, SlotNames
<1>1. CASE row[w].last
  BY <1>0, <1>1 DEF RowTruth
<1>2. ASSUME NEW s \in SlotNames, TailerReads(s), slot[s].id = w, Head(child[s].log) = "backup"
      PROVE  Kept(w)
  <2>1. s = "train" /\ child["train"].id = w /\ child["train"].log # <<>>
    BY <1>0, <1>2 DEF TailerReads, SlotTruth, SlotNames, SlotsAgree
  <2>2. Logged("train", "backup")
    BY <1>0, <1>2, <2>1, LogRead DEF Logged
  <2>3. QED
    BY <2>1, <2>2 DEF SlotTruth
<1>3. QED
  BY <1>0, <1>1, <1>2 DEF RowLives, LineRead

\* A reported backup is told to its row before its slot lets go, and is not forgotten.
LEMMA ReportStays ==
  OneReader /\ BooksAgree /\ RowInv /\ [Next]_vars =>
    \A w \in Work : Reported(w) /\ crashes' = crashes => Reported(w)' \/ row'[w].status = "deleted"
<1> SUFFICES ASSUME OneReader, BooksAgree, RowInv, [Next]_vars, NEW w \in Work,
                    Reported(w), crashes' = crashes, row'[w].status # "deleted"
             PROVE  Reported(w)'
  OBVIOUS
<1>0. /\ TypeInv /\ SlotsOwnTheirProcess /\ SlotsAgree /\ HeldRowsExist
      /\ row \in [Work -> Row] /\ child \in [SlotNames -> ChildRec] /\ disk \subseteq Work
      /\ child["train"].log \in Seq(Events)
      /\ RowLives(w) /\ w \in disk /\ w \in disk'
      /\ row[w].status \notin NoRowStatuses
  <2>1. RowLives(w) /\ TypeInv /\ HeldRowsExist
    BY NextLives, RowParts DEF BooksAgree
  <2>2. w \in disk /\ w \in disk'
    BY <2>1, DiskKept DEF Reported
  <2>3. row[w].status \notin NoRowStatuses
    BY <2>1, <2>2 DEF HeldRowsExist, RowLives, NoRowStatuses
  <2>4. QED
    BY <2>1, <2>2, <2>3, RowParts DEF BooksAgree, ProcessInv, ChildRec, SlotNames, TypeInv, TypeOK,
       SupTypeOK
<1>1. ~ServerStops /\ ~ServerCrashes
  <2>1. ServerStops \/ ServerCrashes => crashes' = crashes + 1
    BY DEF ServerStops, ServerCrashes, ServerGone
  <2>2. crashes \in Nat
    BY <1>0, BoundAssumption DEF TypeInv, TypeOK, SupTypeOK
  <2>3. QED
    BY <2>1, <2>2
<1>2. CASE row[w].last
  BY <1>0, <1>2 DEF RowLives, NoRowStatuses, Reported
<1>3. ASSUME ~row'[w].last, child["train"].id = w, Logged("train", "backup")
      PROVE  child'["train"].id = w /\ Logged("train", "backup")'
  <2>1. child["train"].id = w /\ Logged("train", "backup") /\ slot["train"].id = w /\ Busy("train")
    BY <1>0, <1>3, WorkIsNamed DEF SlotsAgree, Busy
  <2>2. CASE \A s \in SlotNames : ToldStays(s)
    BY <2>1, <2>2 DEF ToldStays, Logged, SlotNames
  <2>3. ASSUME NEW s \in SlotNames, ChildStep(s)
        PROVE  child'["train"].id = w /\ Logged("train", "backup")'
    <3>1. CASE s = "train"
      <4>1. PICK lines \in Seq(Events) : child'["train"].log = child["train"].log \o lines
        BY <1>0, <2>3, <3>1, ChildTells
      <4>2. child'["train"].id = w
        BY <1>0, <2>1, <2>3, <3>1, ChildTells
      <4>3. QED
        BY <1>0, <2>1, <4>1, <4>2, LogGrows DEF Logged
    <3>2. CASE s = "data"
      <4>1. child'["train"] = child["train"]
        BY <1>0, <2>3, <3>2, ChildTells DEF SlotNames
      <4>2. QED
        BY <2>1, <4>1 DEF Logged
    <3>3. QED
      BY <3>1, <3>2 DEF SlotNames
  <2>4. ASSUME NEW s \in SlotNames, TailerReads(s)
        PROVE  child'["train"].id = w /\ Logged("train", "backup")'
    <3>1. CASE s = "train"
      <4>1. /\ child'["train"].id = w /\ child["train"].log # <<>>
            /\ child'["train"].log = Tail(child["train"].log)
            /\ Head(child["train"].log) # "backup"
        BY <1>0, <1>3, <2>1, <2>4, <3>1, TailerTells
      <4>2. QED
        BY <1>0, <2>1, <4>1, LogRead DEF Logged
    <3>2. CASE s = "data"
      <4>1. child'["train"] = child["train"]
        BY <1>0, <2>4, <3>2, TailerTells DEF SlotNames
      <4>2. QED
        BY <2>1, <4>1 DEF Logged
    <3>3. QED
      BY <3>1, <3>2 DEF SlotNames
  <2>5. CASE ReleaseSlot
    <3>1. sup.pc = "release" /\ child' = [child EXCEPT ![sup.s] = NoChild] /\ sup.s \in SlotNames
      BY <2>5, <1>0, RowParts DEF ReleaseSlot, SupRec
    <3>2. sup.s # "train"
      BY <3>1, <1>0, <2>1, NothingSaid DEF SlotsAgree, Logged
    <3>3. child'["train"] = child["train"]
      BY <3>1, <3>2, <1>0 DEF SlotNames
    <3>4. QED
      BY <2>1, <3>3 DEF Logged
  <2>6. CASE SpawnTask
    BY <2>6, <1>0, <2>1 DEF SpawnTask, SlotsAgree
  <2>7. CASE PopenJob \/ AttachJob
    <3>1. child'["train"] = child["train"]
      BY <2>7, <1>0 DEF PopenJob, AttachJob, SlotNames
    <3>2. QED
      BY <2>1, <3>1 DEF Logged
  <2>8. QED
    BY <1>0, <1>1, <2>2, <2>3, <2>4, <2>5, <2>6, <2>7, OthersKeepTold DEF SlotSteps
<1>4. QED
  BY <1>0, <1>2, <1>3 DEF Reported

\* The backups are in order at the start: there is none.
LEMMA InitBackups == Init => BackupInv
<1> SUFFICES ASSUME Init
             PROVE  BackupInv
  OBVIOUS
<1>1. /\ \A s \in SlotNames : slot[s] = IdleSlot /\ child[s] = NoChild
      /\ disk = {} /\ orphans = {} /\ sup.pc = "down"
      /\ \A w \in Work : row[w].status \in {"absent", "pending", "scheduled"} /\ ~row[w].last
  BY InitAssumption DEF Init, SupInit, InitRow, NewRow
<1>2. NoChild.log = <<>> /\ ~NoChild.backed /\ ~NoChild.untold /\ ~IdleSlot.path
  BY DEF NoChild, IdleSlot
<1>3. QED
  BY <1>1, <1>2, NothingSaid DEF BackupInv, SlotTruth, PausesAreOnDisk, PausedHasPath, RowTruth,
     Logged, SlotNames

\* Whatever crashes, a backup is on disk that a row, a slot, a process or a line still to
\* be read speaks of, unless its row was deleted; a paused row has its backup, and before
\* the first crash its resume point (BackupInv).
THEOREM BackupsAgree ==
  ASSUME OneReader
  PROVE  Spec => []BackupInv
<1>1. BooksAgree /\ RowInv /\ BackupInv /\ [Next]_vars => BackupInv'
  BY NextTruth, NextOnDisk, NextPath, NextRowTruth DEF BackupInv
<1>2. QED
  BY <1>1, InitBackups, RowsAgree, PTL DEF Spec

\* A paused row can be resumed (PausedHasResumePoint) as long as the server has not
\* crashed: a crash in the middle of a cancel leaves a paused row without its path.
THEOREM PausedResumes ==
  ASSUME OneReader
  PROVE  Spec => [](crashes = 0 => PausedHasResumePoint)
<1>1. BackupInv => (crashes = 0 => PausedHasResumePoint)
  BY DEF BackupInv, PausesAreOnDisk, PausedHasPath, PausedHasResumePoint
<1>2. QED
  BY <1>1, BackupsAgree, PTL

\* A backup that its training has reported stays on disk and stays known, in its row or in
\* the log of its slot (BackupStaysKnown), however many requests and restarts: only a
\* delete takes it, and only the death of the server the unread line.
THEOREM BackupsResume ==
  ASSUME OneReader
  PROVE  Spec => BackupStaysKnown
<1>1. BooksAgree /\ RowInv /\ [Next]_vars =>
        [\A w \in Work : Reported(w) /\ crashes' = crashes
                           => Reported(w)' \/ row'[w].status = "deleted"]_vars
  BY ReportStays
<1>2. QED
  BY <1>1, RowsAgree, PTL DEF Spec, BackupStaysKnown

--------------------------------------------------------------------------------
(* The queue keeps the promise of the exclusive tier *)

\* The works with a process on the exclusive tier: at most one, as its claim is alone.
LEMMA OneExclusiveSlot ==
  ASSUME BooksAgree
  PROVE  \A s, q \in SlotNames :
           Alive(s) /\ IsExclusive(child[s].id) /\ Alive(q) /\ IsExclusive(child[q].id) => s = q
BY ProcessesHaveClaims DEF BooksAgree, ClaimInv, ExclusiveMutex, SlotNames

\* Without a popen, the process on the tier stays or ends.
LEMMA JobsStayOrEnd ==
  ASSUME BooksAgree, [Next]_vars, ~SpawnTask, ~PopenJob
  PROVE  ExclusiveJobs' = ExclusiveJobs \/ ExclusiveJobs' = {}
<1>1. \A s \in SlotNames : Alive(s)' => Alive(s) /\ child'[s].id = child[s].id
  BY ProcessesEnd
<1>2. CASE \E s \in SlotNames : Alive(s)' /\ IsExclusive(child'[s].id)
  <2>1. PICK s \in SlotNames : Alive(s)' /\ IsExclusive(child'[s].id)
    BY <1>2
  <2>2. ExclusiveJobs = {child[s].id}
    BY <1>1, <2>1, OneExclusiveSlot DEF ExclusiveJobs
  <2>3. ExclusiveJobs' = {child[s].id}
    BY <1>1, <2>1, OneExclusiveSlot DEF ExclusiveJobs
  <2>4. QED
    BY <2>2, <2>3
<1>3. CASE ~\E s \in SlotNames : Alive(s)' /\ IsExclusive(child'[s].id)
  BY <1>3 DEF ExclusiveJobs
<1>4. QED
  BY <1>2, <1>3

\* With a claim of one executor, the others are off the tier.
LEMMA ClaimIsAlone ==
  BooksAgree => /\ TrainClaim => dmn.active = NoWork /\ ~(Alive("data") /\ IsExclusive(child["data"].id))
                /\ DataClaim => dmn.active = NoWork /\ ~Alive("train")
                /\ DaemonClaim => ExclusiveJobs = {}
                /\ TrainClaim \/ DataClaim => ~dmn.loaded
<1> SUFFICES ASSUME BooksAgree
             PROVE  /\ TrainClaim => dmn.active = NoWork /\ ~(Alive("data") /\ IsExclusive(child["data"].id))
                    /\ DataClaim => dmn.active = NoWork /\ ~Alive("train")
                    /\ DaemonClaim => ExclusiveJobs = {}
                    /\ TrainClaim \/ DataClaim => ~dmn.loaded
  OBVIOUS
<1>1. ExclusiveMutex /\ (TrainClaim \/ DataClaim => ~dmn.loaded)
  BY DEF BooksAgree, ClaimInv, ProcessInv, DispatchAfterLease
<1>2. DaemonClaim => \A s \in SlotNames : ~(Alive(s) /\ IsExclusive(child[s].id))
  BY <1>1, ProcessesHaveClaims DEF ExclusiveMutex, SlotNames
<1>3. DaemonClaim => ExclusiveJobs = {}
  BY <1>2 DEF ExclusiveJobs
<1>4. QED
  BY <1>1, <1>3, ProcessesHaveClaims DEF ExclusiveMutex

\* A process is spawned on a tier without a holder and without a lease.
LEMMA SpawnAdmits ==
  ASSUME BooksAgree, RowInv, SpawnTask \/ PopenJob
  PROVE  [Tier!Next]_(Tier!vars)
<1>0. /\ TypeInv /\ SlotsOwnTheirProcess /\ SlotsAgree /\ KindsOfExecutors
      /\ child \in [SlotNames -> ChildRec] /\ sup.w \in Work
      /\ UNCHANGED dmn
  BY ProcsTyped DEF BooksAgree, ProcessInv, RowInv, SpawnTask, PopenJob, WorkSteps, SupSteps, daemon
<1>1. CASE SpawnTask
  <2>1. /\ sup.pc = "spawn" /\ child'["train"] = Popened(sup.w, sup.st = "resume")
        /\ child'["data"] = child["data"]
    BY <1>0, <1>1 DEF SpawnTask, SlotNames
  <2>2. Alive("train")' /\ child'["train"].id = sup.w
    BY <2>1 DEF Alive, Popened, NoChild
  <2>3. IsExclusive(sup.w)
    BY <1>0, <2>1 DEF KindsOfExecutors, SpawnSteps, TrainSlotKinds, IsExclusive, ResourceClass
  <2>4. ~Alive("train") /\ TrainClaim
    BY <1>0, <2>1 DEF SlotsAgree, SlotsOwnTheirProcess, TrainClaim
  <2>5. ~(Alive("data") /\ IsExclusive(child["data"].id)) /\ dmn.active = NoWork /\ ~dmn.loaded
    BY <2>4, ClaimIsAlone
  <2>6. ExclusiveJobs = {}
    BY <2>4, <2>5 DEF ExclusiveJobs, SlotNames
  <2>7. ExclusiveJobs' = {sup.w}
    BY <2>1, <2>2, <2>3, <2>5 DEF ExclusiveJobs, SlotNames, Alive
  <2>8. QED
    BY <1>0, <2>5, <2>6, <2>7 DEF Tier!Next, Tier!Spawn, Tier!Free
<1>2. CASE PopenJob
  <2>1. /\ sup.pc = "job_popen" /\ child'["data"] = Popened(sup.w, FALSE)
        /\ child'["train"] = child["train"]
    BY <1>0, <1>2 DEF PopenJob, SlotNames
  <2>2. Alive("data")' /\ child'["data"].id = sup.w
    BY <2>1 DEF Alive, Popened, NoChild
  <2>3. ~Alive("data")
    <3>1. slot["data"].id = NoWork
      BY <1>0, <2>1 DEF SlotsAgree, DataSteps, Busy
    <3>2. Alive("data") => child["data"].id # NoWork
      BY <1>0, ProcsTyped, WorkIsNamed DEF SlotNames
    <3>3. QED
      BY <1>0, <2>1, <3>1, <3>2 DEF SlotsOwnTheirProcess
  <2>4. CASE IsExclusive(sup.w)
    <3>1. DataClaim
      BY <2>1, <2>4 DEF DataClaim
    <3>2. ~Alive("train") /\ dmn.active = NoWork /\ ~dmn.loaded
      BY <3>1, ClaimIsAlone
    <3>3. ExclusiveJobs = {} /\ ExclusiveJobs' = {sup.w}
      BY <2>1, <2>2, <2>3, <2>4, <3>2 DEF ExclusiveJobs, SlotNames, Alive
    <3>4. QED
      BY <1>0, <3>2, <3>3 DEF Tier!Next, Tier!Spawn, Tier!Free
  <2>5. CASE ~IsExclusive(sup.w)
    <3> DEFINE On == {t \in SlotNames : Alive(t) /\ IsExclusive(child[t].id)}
    <3>1. "data" \notin On /\ "data" \notin On'
      BY <2>2, <2>3, <2>5
    <3>2. "train" \in On' <=> "train" \in On
      BY <2>1 DEF SlotNames, Alive
    <3>3. On' = On /\ \A s \in On : child'[s].id = child[s].id
      BY <2>1, <3>1, <3>2 DEF SlotNames
    <3>4. ExclusiveJobs = {child[s].id : s \in On} /\ ExclusiveJobs' = {child'[s].id : s \in On'}
      BY DEF ExclusiveJobs
    <3> HIDE DEF On
    <3>5. ExclusiveJobs' = ExclusiveJobs
      BY <3>3, <3>4
    <3>6. QED
      BY <1>0, <3>5 DEF Tier!vars
  <2>6. QED
    BY <2>4, <2>5
<1>3. QED
  BY <1>1, <1>2

\* Asking for unloads leaves the task and the lease.
LEMMA UnloadsLeaveHolder ==
  ASSUME TypeInv, NEW n \in Nat, RequestUnloads(n)
  PROVE  dmn'.active = dmn.active /\ dmn'.loaded = dmn.loaded
BY DaemonTyped DEF RequestUnloads, UnloadsSent, DaemonRec

\* The steps of the daemon, its process and its clients.
DaemonMoves ==
  \/ HeadWaits \/ DispatchData \/ StartDaemon \/ SubmitTask
  \/ DaemonStep \/ DaemonExits \/ IdleTimeout
  \/ \E t \in Threads : UnloadDaemon(t) \/ CancelDaemon(t)

\* They admit a generate on a free tier, and load a model for it only.
LEMMA DaemonAdmits ==
  ASSUME BooksAgree, DaemonMoves
  PROVE  [Tier!Next]_(Tier!vars)
<1>0. /\ TypeInv /\ DaemonOwnsItsTask /\ dmn \in DaemonRec
      /\ sup.pc \in WorkSteps => sup.w \in Work
  BY DaemonTyped DEF BooksAgree, ProcessInv
<1>1. ExclusiveJobs' = ExclusiveJobs
  <2>1. UNCHANGED child
    BY DEF DaemonMoves, HeadWaits, DispatchData, StartDaemon, SubmitTask, DaemonStep, DaemonReady,
       ModelLoaded, ModelUnloaded, TaskEnds, DaemonExits, IdleTimeout, UnloadDaemon, CancelDaemon,
       procs
  <2>2. QED
    BY <2>1 DEF ExclusiveJobs, Alive
<1>2. CASE dmn'.active = dmn.active /\ dmn'.loaded = dmn.loaded
  BY <1>1, <1>2 DEF Tier!vars
<1>3. CASE HeadWaits
  <2>1. \E n \in {0, 1} : RequestUnloads(n)
    BY <1>3 DEF HeadWaits
  <2>2. QED
    BY <1>0, <1>2, <2>1, UnloadsLeaveHolder
<1>4. CASE DispatchData
  <2>1. PICK n : RequestUnloads(n)
    BY <1>4 DEF DispatchData
  <2>2. dmn'.active = dmn.active /\ dmn'.loaded = dmn.loaded
    BY <1>0, <2>1 DEF RequestUnloads, UnloadsSent, DaemonRec
  <2>3. QED
    BY <1>2, <2>2
<1>5. CASE StartDaemon
  <2>1. dmn.state = "stopped" => dmn'.active = NoWork /\ ~dmn'.loaded /\ dmn'.loaded \in BOOLEAN
    BY <1>5 DEF StartDaemon, StoppedDaemon
  <2>2. dmn.state = "stopped" => dmn.active = NoWork /\ ~dmn.loaded
    BY <1>0 DEF DaemonOwnsItsTask
  <2>3. dmn.state # "stopped" => UNCHANGED dmn
    BY <1>5 DEF StartDaemon
  <2>4. dmn.loaded \in BOOLEAN
    BY <1>0 DEF DaemonRec
  <2>5. QED
    BY <1>2, <2>1, <2>2, <2>3, <2>4
<1>6. CASE SubmitTask
  <2>1. CASE dmn.state = "idle"
    <3>1. sup.pc = "gen_submit" /\ dmn'.active = sup.w /\ dmn'.loaded = dmn.loaded
      BY <1>0, <1>6, <2>1 DEF SubmitTask, DaemonRec
    <3>2. dmnTask = sup.w /\ dmn.active = NoWork /\ sup.w \in Work
      BY <1>0, <2>1, <3>1 DEF DaemonOwnsItsTask, GenerateSteps, WorkSteps, SupSteps
    <3>3. DaemonClaim
      BY <3>2, WorkIsNamed DEF DaemonClaim, DaemonActive
    <3>4. ExclusiveJobs = {}
      BY <3>3, ClaimIsAlone
    <3>5. QED
      BY <1>1, <3>1, <3>2, <3>4 DEF Tier!Next, Tier!Submit, Tier!Free
  <2>2. CASE dmn.state # "idle"
    BY <1>2, <1>6, <2>2 DEF SubmitTask
  <2>3. QED
    BY <2>1, <2>2
<1>7. CASE DaemonReady
  BY <1>0, <1>2, <1>7 DEF DaemonReady, DaemonRec
<1>8. CASE ModelLoaded
  <2>1. dmn.active # NoWork /\ dmn'.active = dmn.active /\ dmn'.loaded = TRUE
    BY <1>0, <1>8 DEF ModelLoaded, DaemonRec
  <2>2. QED
    BY <1>1, <2>1 DEF Tier!Next, Tier!Load
<1>9. CASE ModelUnloaded
  <2>1. dmn'.active = dmn.active /\ dmn'.loaded = FALSE
    BY <1>0, <1>9 DEF ModelUnloaded, DaemonRec
  <2>2. QED
    BY <1>1, <2>1 DEF Tier!Next, Tier!Revoke
<1>10. ASSUME NEW st \in TerminalStatuses, TaskEnds(st)
       PROVE  [Tier!Next]_(Tier!vars)
  <2>1. dmn.active # NoWork /\ dmn'.active = NoWork /\ dmn'.loaded = dmn.loaded
    BY <1>0, <1>10 DEF TaskEnds, DaemonRec
  <2>2. QED
    BY <1>1, <2>1 DEF Tier!Next, Tier!GenerateEnds
<1>11. CASE DaemonExits
  <2>1. dmn'.active = NoWork /\ dmn'.loaded = FALSE
    BY <1>11 DEF DaemonExits, StoppedDaemon
  <2>2. QED
    BY <1>1, <2>1 DEF Tier!Next, Tier!DaemonGone
<1>12. CASE IdleTimeout \/ \E t \in Threads : UnloadDaemon(t)
  BY <1>0, <1>2, <1>12, UnloadsLeaveHolder DEF IdleTimeout, UnloadDaemon
<1>13. ASSUME NEW t \in Threads, CancelDaemon(t)
       PROVE  [Tier!Next]_(Tier!vars)
  <2>1. \/ dmn' = dmn
        \/ dmn' = [dmn EXCEPT !.cancel = TRUE]
    BY <1>13 DEF CancelDaemon
  <2>2. dmn'.active = dmn.active /\ dmn'.loaded = dmn.loaded
    BY <1>0, <2>1 DEF DaemonRec
  <2>3. QED
    BY <1>2, <2>2
<1>14. QED
  BY <1>3, <1>4, <1>5, <1>6, <1>7, <1>8, <1>9, <1>10, <1>11, <1>12, <1>13
  DEF DaemonMoves, DaemonStep

\* No other step of a running server touches the daemon.
LEMMA OthersLeaveHolder ==
  [Next]_vars /\ ~DaemonMoves => UNCHANGED dmn \/ ServerStops \/ ServerCrashes
<1> SUFFICES ASSUME [Next]_vars, ~DaemonMoves, ~ServerStops, ~ServerCrashes
             PROVE  UNCHANGED dmn
  OBVIOUS
<1>1. CASE Supervise
  BY <1>1 DEF DaemonMoves, Supervise, Restart, FindDue, PromoteDue, ReapNothing, ReapExited,
     FinishSlot, RecordFinish, ReleaseSlot, SkipSlot, SelectHead, SpawnTask, WriteTaskRunning,
     FailTask, PopenJob, MarkJobRunning, AttachJob, AwaitDaemon, ClaimDaemon,
     WriteGenerateRunning, RejectTask, WriteRejected, daemon
<1>2. ASSUME NEW t \in Threads, Request(t) \/ Proceed(t)
      PROVE  UNCHANGED dmn
  <2>1. ~UnloadDaemon(t) /\ ~CancelDaemon(t)
    BY DEF DaemonMoves
  <2>2. QED
    BY <1>2, <2>1 DEF Request, Enqueue, CreateDefault, RetryBegin, RetryCopy, CancelBegin, PauseBegin,
       ResumeBegin, StartBegin, DeleteBegin, ClearEvalBegin, SetHeld, Reorder, Proceed, SetType,
       SetConfig, EnqueueFails, CancelWrite, CancelClear, CancelFind, CancelSlot, PauseSlot,
       ResumeWrite, ResumeDerive, ResumeVersion, StartWrite, DeleteWrite, DeleteFiles, ClearEvalWrite, supVars,
       daemon
<1>3. CASE \/ \E s \in SlotNames : ChildStep(s) \/ TailerReads(s)
           \/ \E r \in Readers : Finalize(r)
           \/ Host \/ UNCHANGED vars
  BY <1>3 DEF ChildStep, LoopStarts, InLoop, BackupReplaced, BackupRemembered, BackupTold, Dead, ChildCompletes, ChildPauses, ChildCrashes,
     ChildKilled, TailerReads, Finalize, FinClear, FinWrite, FinStopped, Host, OrphanEnds,
     OrphanEpochEnds, vars, supVars, daemon
<1>4. QED
  BY <1>1, <1>2, <1>3 DEF DaemonMoves, Next

\* Every step of the queue is a step of the tier, or none.
LEMMA AdmissionStep == BooksAgree /\ RowInv /\ [Next]_vars => [Tier!Next]_(Tier!vars)
<1> SUFFICES ASSUME BooksAgree, RowInv, [Next]_vars
             PROVE  [Tier!Next]_(Tier!vars)
  OBVIOUS
<1>1. CASE DaemonMoves
  BY <1>1, DaemonAdmits
<1>2. CASE ServerStops \/ ServerCrashes
  <2>1. dmn' = StoppedDaemon /\ \A s \in SlotNames : child'[s].life = "none"
    BY <1>2 DEF ServerStops, ServerCrashes, ServerGone, NoChild
  <2>2. ExclusiveJobs' = {} /\ dmn'.active = NoWork /\ dmn'.loaded = FALSE
    BY <2>1 DEF ExclusiveJobs, Alive, StoppedDaemon
  <2>3. QED
    BY <2>2 DEF Tier!Next, Tier!ServerGone
<1>3. CASE SpawnTask \/ PopenJob
  BY <1>3, SpawnAdmits
<1>4. CASE UNCHANGED dmn /\ ~SpawnTask /\ ~PopenJob
  <2>1. ExclusiveJobs' = ExclusiveJobs \/ (ExclusiveJobs # {} /\ ExclusiveJobs' = {})
    BY <1>4, JobsStayOrEnd
  <2>2. QED
    BY <1>4, <2>1 DEF Tier!Next, Tier!JobEnds, Tier!vars
<1>5. QED
  BY <1>1, <1>2, <1>3, <1>4, OthersLeaveHolder

\* The queue implements ExclusiveAdmission (_exclusive_busy, _maybe_yield_daemon,
\* submit_task), for any number of rows, requests and crashes: a process or a generate
\* is admitted to a tier without a holder, and a process only after the model is gone.
THEOREM AdmissionKept ==
  ASSUME OneReader
  PROVE  Spec => Admission
<1>1. Init => Tier!Init
  BY DEF Init, SupInit, Tier!Init, ExclusiveJobs, Alive, NoChild, StoppedDaemon
<1>2. BooksAgree /\ RowInv /\ [Next]_vars => [Tier!Next]_(Tier!vars)
  BY AdmissionStep
<1>3. QED
  BY RowsAgree, <1>1, <1>2, PTL DEF Spec, Admission, Tier!Spec
================================================================================
