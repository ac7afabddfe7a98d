------------------------------ MODULE QueueLedger ------------------------------
(***************************************************************************)
(* The unified work ledger: the `tasks` table of studio/infrastructure/db.py *)
(* as the queue sees it, the resource tiers of studio/supervisor/resources.py *)
(* and the version status derived from the rows.  Everything here is a pure  *)
(* function of the table; the modules that own the table extend this one.    *)
(*                                                                           *)
(* A row id is a positive integer.  Ids are AUTOINCREMENT and rows are       *)
(* created with created_at = now, so the smaller id is the older row.        *)
(***************************************************************************)
EXTENDS Integers, FiniteSets, Sequences

CONSTANTS
  Work,        \* the row ids a run may use
  KindOf,      \* what each row is meant to be, once its enqueue is complete
  VersionOf,   \* the version a row belongs to, or NoVersion
  NoVersion,
  MaxPrio      \* bound on the priorities `reorder` writes

NoWork == 0

TaskKinds == {"train", "reg_ai", "generate"}
Kinds     == TaskKinds \cup {"eval_samples", "light", "io"}

ASSUME WorkAssumption      == Work \subseteq Nat \ {NoWork} /\ IsFiniteSet(Work)
ASSUME KindAssumption      == KindOf \in [Work -> Kinds]
ASSUME PrioAssumption      == MaxPrio \in Nat

\* Kinds of data jobs that hold a small model ("light": tag, preprocess,
\* reg_build, the eval metrics) or no GPU at all ("io": download, upload).
ResourceClass(kind) == IF kind \in {"light", "io"} THEN kind ELSE "exclusive"

IsExclusive(w) == ResourceClass(KindOf[w]) = "exclusive"

Versions == {VersionOf[w] : w \in Work} \ {NoVersion}

--------------------------------------------------------------------------------
(* Rows *)

\* "absent": the id has not been used yet; "deleted": the row is gone.
ValidStatuses    == {"pending", "running", "done", "failed", "canceled",
                     "paused", "scheduled"}
TerminalStatuses == {"done", "failed", "canceled"}
NoRowStatuses    == {"absent", "deleted"}
Statuses         == ValidStatuses \cup NoRowStatuses

VersionStatuses  == {"preparing", "training", "completed", "failed", "canceled"}

\* paused: paused_state_path is set; last: last_state_path is set.
Row == [status : Statuses,
        type   : Kinds,
        cfg    : BOOLEAN,
        paused : BOOLEAN,
        last   : BOOLEAN,
        prio   : 0..MaxPrio]

Exists(rows, w) == rows[w].status \notin NoRowStatuses

\* The UPDATE of update_task: no effect when the row is gone.
Update(rows, w, new) == IF Exists(rows, w) THEN [rows EXCEPT ![w] = new] ELSE rows

WithStatus(rows, w, st) == Update(rows, w, [rows[w] EXCEPT !.status = st])

WithStatusIn(rows, ws, st) ==
  [w \in DOMAIN rows |-> IF w \in ws THEN [rows[w] EXCEPT !.status = st] ELSE rows[w]]

\* The next id create_task can return: no id is reused or handed out of order.
IsNextId(rows, w) == \A u \in DOMAIN rows : u >= w => rows[u].status = "absent"

NewRow(type, st, cfg) ==
  [status |-> st, type |-> type, cfg |-> cfg, paused |-> FALSE, last |-> FALSE,
   prio |-> 0]

--------------------------------------------------------------------------------
(* Queue order: ORDER BY priority DESC, created_at ASC *)

Pending(rows, types) == {w \in DOMAIN rows : rows[w].status = "pending" /\ rows[w].type \in types}

Ahead(rows, u, w) == \/ rows[u].prio > rows[w].prio
                     \/ rows[u].prio = rows[w].prio /\ u < w

\* The first row of a set in queue order.
IsHead(rows, ws, w) == w \in ws /\ \A u \in ws \ {w} : Ahead(rows, w, u)

\* Rewrite the priorities of the pending rows in ids, first id highest.
Reordered(rows, ids) ==
  [w \in DOMAIN rows |->
     IF rows[w].status = "pending" /\ \E i \in DOMAIN ids : ids[i] = w
       THEN LET i == CHOOSE j \in DOMAIN ids : ids[j] = w
            IN  [rows[w] EXCEPT !.prio = Len(ids) + 1 - i]
       ELSE rows[w]]

--------------------------------------------------------------------------------
(* Version status *)

FinalVersionStatus(st) == CASE st = "done"     -> "completed"
                            [] st = "failed"   -> "failed"
                            [] st = "canceled" -> "canceled"
                            [] OTHER           -> "preparing"

TasksOf(rows, v) == {w \in DOMAIN rows : /\ Exists(rows, w)
                                         /\ VersionOf[w] = v
                                         /\ rows[w].type \in TaskKinds}

DerivedVersionStatus(rows, v) ==
  LET tasks == TasksOf(rows, v) IN
  IF \E w \in tasks : rows[w].status \notin TerminalStatuses
    THEN "training"
  ELSE IF tasks = {}
    THEN "preparing"
  ELSE FinalVersionStatus(rows[CHOOSE w \in tasks : \A u \in tasks : u <= w].status)
================================================================================
