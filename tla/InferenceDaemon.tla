---------------------------- MODULE InferenceDaemon ----------------------------
(***************************************************************************)
(* The inference daemon in detail: the proxy InferenceDaemon of              *)
(* studio/services/inference/daemon.py with its lock, its reader thread and  *)
(* its timers; the two pipes; and the process runtime/anima_daemon.py with   *)
(* its main loop and its worker thread.  The supervisor is here as far as it *)
(* drives the proxy.  QueueSupervisor has the same daemon in the small.      *)
(*                                                                           *)
(* The proxy changes its state under a lock and writes to the pipe after it  *)
(* has let go of it; so a call is two steps, and `late` holds the writes and *)
(* kills that are still to come.                                             *)
(***************************************************************************)
EXTENDS Integers, Sequences, FiniteSets

CONSTANTS
  Tasks,       \* generate tasks, numbered as they are dispatched; each is submitted
               \* once, so it is its request id
  NoTask,
  Faults,      \* "death": the process may die at rest, or under a submission;
               \* "stall": a thread may be held up, half way, over a dispatch
  MaxProcs,    \* bound on the processes started
  MaxUnloads   \* bound on unload commands not yet answered

ASSUME TaskAssumption  == Tasks \subseteq Nat /\ NoTask \notin Tasks
ASSUME BoundAssumption == Faults \subseteq {"death", "stall"} /\ MaxProcs \in Nat \ {0} /\ MaxUnloads \in Nat

VARIABLES
  proxy,    \* the fields of InferenceDaemon guarded by its lock
  timer,    \* armed timers: idle (fired: its thread is on the way), the task timer's task
  late,     \* what callers that left the lock are about to write or kill
  sup,      \* the supervisor thread in _submit_to_daemon / _maybe_yield_daemon
  marker,   \* _daemon_active_task_id
  status,   \* what the tasks table says of each task
  asked,    \* tasks the user has asked to cancel (_daemon_cancel_pending)
  stdin,    \* commands written and not yet read by the process
  stdout,   \* events emitted and not yet read by the reader thread
  child,    \* the process: main loop, worker thread, ModelCache
  reader    \* the reader thread: what it is in the middle of

pipes == <<stdin, stdout>>
queue == <<sup, marker, status, asked>>
vars  == <<proxy, timer, late, queue, pipes, child, reader>>

TaskOrNone == Tasks \cup {NoTask}

Commands == [kind : {"generate", "cancel"}, task : Tasks] \cup [kind : {"unload"}, task : {NoTask}]
TaskEvents == {"done", "error", "canceled"}
Emitted  == [kind : TaskEvents, task : Tasks]
              \cup [kind : {"ready", "loaded", "unloaded"}, task : {NoTask}]

\* Variant: the kind of the event is written as the status.
VerdictAsIs(kind) == kind

Verdict(kind) == IF kind = "error" THEN "failed" ELSE kind

\* proc: self._proc is set; exposed: no field of the code, but whether an unload may
\* reach the worker of the active task: one was on its way to the pipe when the task was
\* accepted, or the answer to one has made the busy proxy idle, which takes more.
Stopped == [state |-> "stopped", loaded |-> FALSE, active |-> NoTask, proc |-> FALSE,
            exposed |-> FALSE]

Callers == {"button", "idle", "cancel", "kill"}
NoCall  == [run |-> 0, task |-> NoTask]

DeadChild == [alive |-> FALSE, run |-> 0, main |-> "read", resident |-> FALSE,
              worker |-> NoTask, step |-> "none", cancel |-> FALSE]

Waiting == [pc |-> "read", task |-> NoTask, st |-> "failed", exit |-> FALSE]

DaemonTypeOK ==
  /\ proxy \in [state : {"stopped", "starting", "idle", "busy", "unloading"},
                loaded : BOOLEAN, active : TaskOrNone, proc : BOOLEAN, exposed : BOOLEAN]
  /\ timer \in [idle : BOOLEAN, fired : BOOLEAN, task : TaskOrNone]
  /\ late \in [Callers -> [run : 0..MaxProcs, task : TaskOrNone]]
  /\ sup \in [pc : {"free", "start", "wait", "claim", "running", "submit", "write",
                  "reject", "reject_write", "unload"}, task : TaskOrNone]
  /\ marker \in TaskOrNone
  /\ status \in [Tasks -> {"new", "taken", "done", "failed", "canceled"}]
  /\ asked \in SUBSET Tasks
  /\ stdin \in Seq(Commands) /\ stdout \in Seq(Emitted)
  /\ child \in [alive : BOOLEAN, run : 0..MaxProcs, main : {"read", "unloaded"},
                resident : BOOLEAN, worker : TaskOrNone,
                step : {"none", "load", "reload", "loaded", "run", "emitted"}, cancel : BOOLEAN]
  /\ reader \in [pc : {"read", "callback", "stopped", "left", "record"}, task : TaskOrNone,
                 st : {"done", "failed", "canceled"}, exit : BOOLEAN]

DaemonInit ==
  /\ proxy = Stopped
  /\ timer = [idle |-> FALSE, fired |-> FALSE, task |-> NoTask]
  /\ late = [c \in Callers |-> NoCall]
  /\ sup = [pc |-> "free", task |-> NoTask]
  /\ marker = NoTask
  /\ status = [t \in Tasks |-> "new"]
  /\ asked = {}
  /\ stdin = <<>> /\ stdout = <<>>
  /\ child = DeadChild
  /\ reader = Waiting

--------------------------------------------------------------------------------
(* Helpers *)

\* _reschedule_idle_timer_locked, called with every change of state.
Rearmed(p) == p.state = "idle" /\ p.loaded /\ p.proc

\* A write to the pipe of process `run`: it arrives, or raises when that process
\* is gone.
Reaches(run) == child.alive /\ child.run = run

Computing == child.step \in {"load", "reload", "loaded", "run"}

Emit(kind, t) == Append(stdout, [kind |-> kind, task |-> t])

UnloadsOpen ==
  Cardinality({i \in DOMAIN stdin : stdin[i].kind = "unload"})
  + Cardinality({i \in DOMAIN stdout : stdout[i].kind = "unloaded"})
  + Cardinality({c \in {"button", "idle"} : late[c].run > 0})
  + (IF child.main = "unloaded" THEN 1 ELSE 0) + (IF sup.pc = "unload" THEN 1 ELSE 0)

\* First half of _finalize_daemon_task: the marker, if it is still this task's.  The row
\* is written when the poller has been joined and the log closed.
Released(t) == IF marker = t THEN NoTask ELSE marker

Goto(pc, t) == sup' = [pc |-> pc, task |-> t]

--------------------------------------------------------------------------------
(* The supervisor thread: _submit_to_daemon, start, submit_task *)

\* The other threads have done what they were about to do, and the reader has seen
\* the end of a dead process: the supervisor looks at the queue once in a second.
CaughtUp == /\ ~timer.fired
            /\ \A c \in Callers \ {"cancel"} : late[c] = NoCall
            /\ proxy.proc => child.alive

\* The dispatch gate: one generate at a time.
Dispatch(t) ==
  /\ "stall" \in Faults \/ CaughtUp
  /\ sup.pc = "free" /\ marker = NoTask
  /\ status[t] = "new" /\ \A u \in Tasks : status[u] = "new" => t <= u
  /\ Goto(IF proxy.state = "stopped" THEN "start" ELSE "claim", t)
  /\ UNCHANGED <<proxy, timer, late, marker, status, asked, pipes, child, reader>>

\* start() as the other threads see it: Popen, the reader thread, the wait.
\* Assumed of time: the reader of the last process has left its two callbacks by
\* then (a new process needs seconds to be ready).
StartProcess ==
  /\ sup.pc = "start" /\ reader.pc = "read"
  /\ child.run < MaxProcs
  /\ proxy' = [proxy EXCEPT !.state = "starting", !.proc = TRUE]
  /\ child' = [DeadChild EXCEPT !.alive = TRUE, !.run = child.run + 1]
  /\ stdin' = <<>> /\ stdout' = Emit("ready", NoTask)
  /\ Goto("wait", sup.task)
  /\ UNCHANGED <<timer, late, marker, status, asked, reader>>

\* Popen raises.
StartFails ==
  /\ sup.pc = "start"
  /\ status' = [status EXCEPT ![sup.task] = "failed"]
  /\ Goto("free", NoTask)
  /\ UNCHANGED <<proxy, timer, late, marker, asked, pipes, child, reader>>

\* start() returns, raises because the process is gone, or times out.
AwaitReady ==
  /\ sup.pc = "wait"
  /\ \/ /\ proxy.state = "idle"
        /\ Goto("claim", sup.task)
        /\ UNCHANGED status
     \/ /\ proxy.state \in {"stopped", "starting"}
        /\ status' = [status EXCEPT ![sup.task] = "failed"]
        /\ Goto("free", NoTask)
  /\ UNCHANGED <<proxy, timer, late, marker, asked, pipes, child, reader>>

ClaimDaemon ==
  /\ sup.pc = "claim"
  /\ marker' = sup.task
  /\ Goto("running", sup.task)
  /\ UNCHANGED <<proxy, timer, late, status, asked, pipes, child, reader>>

WriteRunning ==
  /\ sup.pc = "running"
  /\ status' = [status EXCEPT ![sup.task] = "taken"]
  /\ Goto("submit", sup.task)
  /\ UNCHANGED <<proxy, timer, late, marker, asked, pipes, child, reader>>

AcceptsTask == proxy.state = "idle"

\* A call that has left the lock and is to write `unload`.
UnloadOnItsWay == late["button"] # NoCall \/ late["idle"] # NoCall

\* submit_task under the lock: it raises unless the proxy is idle and has a process.
SubmitLocked ==
  /\ sup.pc = "submit"
  /\ LET t == sup.task IN
     /\ IF AcceptsTask
          THEN /\ proxy' = [proxy EXCEPT !.state = "busy", !.active = t,
                                         !.exposed = UnloadOnItsWay]
               /\ timer' = [timer EXCEPT !.idle = FALSE, !.task = t]
          ELSE UNCHANGED <<proxy, timer>>
     /\ Goto(IF AcceptsTask /\ proxy.proc THEN "write" ELSE "reject", t)
  /\ UNCHANGED <<late, marker, status, asked, pipes, child, reader>>

\* The write outside the lock.  If it raises, submit_task makes the proxy idle,
\* whatever the reader has made of it since.
SubmitWrite ==
  /\ sup.pc = "write"
  /\ IF child.alive
       THEN /\ stdin' = Append(stdin, [kind |-> "generate", task |-> sup.task])
            /\ Goto("free", NoTask)
            /\ UNCHANGED <<proxy, timer>>
       ELSE /\ proxy' = [proxy EXCEPT !.state = "idle", !.active = NoTask, !.exposed = FALSE]
            /\ timer' = [timer EXCEPT !.idle = Rearmed(proxy')]
            /\ Goto("reject", sup.task)
            /\ UNCHANGED stdin
  /\ UNCHANGED <<late, marker, status, asked, stdout, child, reader>>

\* What was not submitted is finalized as a failure by this thread.
RejectTask ==
  /\ sup.pc = "reject"
  /\ marker' = Released(sup.task)
  /\ Goto("reject_write", sup.task)
  /\ UNCHANGED <<proxy, timer, late, status, asked, pipes, child, reader>>

WriteRejected ==
  /\ sup.pc = "reject_write"
  /\ status' = [status EXCEPT ![sup.task] = "failed"]
  /\ Goto("free", NoTask)
  /\ UNCHANGED <<proxy, timer, late, marker, asked, pipes, child, reader>>

--------------------------------------------------------------------------------
(* request_unload: from a tick (_maybe_yield_daemon), the button, the idle timer *)

\* Variant: the unload of a busy daemon is not ignored.
MayUnloadBusy == proxy.state # "stopped" /\ proxy.proc /\ UnloadsOpen < MaxUnloads

\* (`starting`: the assert on the process; the bound on unloads is the model's.)
MayUnload == /\ proxy.state \notin {"stopped", "busy"}
             /\ proxy.proc
             /\ UnloadsOpen < MaxUnloads

Unloading == /\ proxy' = [proxy EXCEPT !.state = "unloading"]
             /\ timer' = [timer EXCEPT !.idle = FALSE]

\* The supervisor writes before it does anything else.
YieldDaemon ==
  /\ sup.pc = "free" /\ marker = NoTask
  /\ proxy.loaded /\ MayUnload
  /\ Unloading
  /\ Goto("unload", NoTask)
  /\ UNCHANGED <<late, marker, status, asked, pipes, child, reader>>

YieldWrite ==
  /\ sup.pc = "unload"
  /\ stdin' = IF child.alive THEN Append(stdin, [kind |-> "unload", task |-> NoTask]) ELSE stdin
  /\ Goto("free", NoTask)
  /\ UNCHANGED <<proxy, timer, late, marker, status, asked, stdout, child, reader>>

UnloadButton ==
  /\ late["button"] = NoCall /\ proxy.loaded /\ MayUnload
  /\ Unloading
  /\ late' = [late EXCEPT !["button"] = [NoCall EXCEPT !.run = child.run]]
  /\ UNCHANGED <<queue, pipes, child, reader>>

\* The timer's thread looks, lets go of the lock, and calls request_unload.
IdleTimeout ==
  /\ timer.idle /\ ~timer.fired
  /\ timer' = [timer EXCEPT !.idle = FALSE, !.fired = TRUE]
  /\ UNCHANGED <<proxy, late, queue, pipes, child, reader>>

IdleUnload ==
  /\ timer.fired /\ late["idle"] = NoCall
  /\ IF MayUnload
       THEN /\ proxy' = [proxy EXCEPT !.state = "unloading"]
            /\ late' = [late EXCEPT !["idle"] = [NoCall EXCEPT !.run = child.run]]
       ELSE UNCHANGED <<proxy, late>>
  /\ timer' = [timer EXCEPT !.idle = @ /\ ~MayUnload, !.fired = FALSE]
  /\ UNCHANGED <<queue, pipes, child, reader>>

UnloadWrite(c) ==
  /\ late[c] # NoCall
  /\ stdin' = IF Reaches(late[c].run)
                THEN Append(stdin, [kind |-> "unload", task |-> NoTask]) ELSE stdin
  /\ late' = [late EXCEPT ![c] = NoCall]
  /\ UNCHANGED <<proxy, timer, queue, stdout, child, reader>>

--------------------------------------------------------------------------------
(* cancel_active_task and the task timer *)

\* Variant: a canceled task is taken off the daemon at once.
CancelAtOnce(t) ==
  /\ status[t] = "taken" /\ marker = t /\ t \notin asked /\ late["cancel"] = NoCall
  /\ asked' = asked \cup {t}
  /\ late' = IF proxy.state = "busy" /\ proxy.active = t
               THEN [late EXCEPT !["cancel"] = [run |-> child.run, task |-> t]] ELSE late
  /\ marker' = NoTask
  /\ UNCHANGED <<proxy, timer, sup, status, pipes, child, reader>>

\* Supervisor.cancel marks the cancel, then asks the proxy, which knows the task
\* only while it is busy with it.
Cancel(t) ==
  /\ status[t] = "taken" /\ marker = t /\ t \notin asked /\ late["cancel"] = NoCall
  /\ asked' = asked \cup {t}
  /\ late' = IF proxy.state = "busy" /\ proxy.active = t
               THEN [late EXCEPT !["cancel"] = [run |-> child.run, task |-> t]] ELSE late
  /\ UNCHANGED <<proxy, timer, sup, marker, status, pipes, child, reader>>

CancelWrite ==
  /\ late["cancel"] # NoCall
  /\ stdin' = IF Reaches(late["cancel"].run)
                THEN Append(stdin, [kind |-> "cancel", task |-> late["cancel"].task]) ELSE stdin
  /\ late' = [late EXCEPT !["cancel"] = NoCall]
  /\ UNCHANGED <<proxy, timer, queue, stdout, child, reader>>

\* _on_task_timeout re-verifies by request id before it kills.
TimedOut(t) == proxy.active = t /\ proxy.state = "busy" /\ proxy.proc

TaskTimeout ==
  /\ timer.task # NoTask /\ late["kill"] = NoCall
  /\ "death" \in Faults \/ Computing        \* minutes after the submission
  /\ late' = IF TimedOut(timer.task)
               THEN [late EXCEPT !["kill"] = [run |-> child.run, task |-> timer.task]] ELSE late
  /\ timer' = [timer EXCEPT !.task = NoTask]
  /\ UNCHANGED <<proxy, queue, pipes, child, reader>>

\* When the process may go away: a running task is what kills it (memory, the GPU).
\* With "death" also at rest, and between submit_task's two steps.
MayDie == child.alive /\ ("death" \in Faults \/ Computing)

Dies == [child EXCEPT !.alive = FALSE, !.worker = NoTask, !.step = "none", !.main = "read",
                      !.resident = FALSE, !.cancel = FALSE]

Kill ==
  /\ late["kill"] # NoCall
  /\ child' = IF Reaches(late["kill"].run) THEN Dies ELSE child
  /\ late' = [late EXCEPT !["kill"] = NoCall]
  /\ UNCHANGED <<proxy, timer, queue, pipes, reader>>

--------------------------------------------------------------------------------
(* The process: _handle_message on the main thread *)

\* Variant: a cancel stops whatever runs.
CancelHitsAny(t) == child.worker # NoTask

\* _request_cancel: the event registered under this request id.
CancelHits(t) == child.worker = t

ReadCommand ==
  /\ child.alive /\ child.main = "read" /\ stdin # <<>>
  /\ LET c == Head(stdin) IN
     CASE c.kind = "generate" ->
            IF child.worker = NoTask
              THEN /\ child' = [child EXCEPT !.worker = c.task, !.step = "load", !.cancel = FALSE]
                   /\ UNCHANGED stdout
              ELSE /\ stdout' = Emit("error", c.task)      \* "already running a task"
                   /\ UNCHANGED child
       [] c.kind = "cancel" ->
            /\ child' = [child EXCEPT !.cancel = @ \/ CancelHits(c.task)]
            /\ UNCHANGED stdout
       [] c.kind = "unload" ->
            /\ child' = [child EXCEPT !.resident = FALSE, !.main = "unloaded"]
            /\ UNCHANGED stdout
  /\ stdin' = Tail(stdin)
  /\ UNCHANGED <<proxy, timer, late, queue, reader>>

EmitUnloaded ==
  /\ child.main = "unloaded"
  /\ stdout' = Emit("unloaded", NoTask)
  /\ child' = [child EXCEPT !.main = "read"]
  /\ UNCHANGED <<proxy, timer, late, queue, stdin, reader>>

--------------------------------------------------------------------------------
(* The process: _run_generate_worker *)

\* ensure_loaded: what the task needs is resident, or the model is unloaded and
\* loaded anew; the event is written after that.
ReuseModel ==
  /\ child.step = "load" /\ child.resident
  /\ child' = [child EXCEPT !.step = "run"]
  /\ UNCHANGED <<proxy, timer, late, queue, pipes, reader>>

UnloadForReload ==
  /\ child.step = "load"
  /\ child' = [child EXCEPT !.resident = FALSE, !.step = "reload"]
  /\ UNCHANGED <<proxy, timer, late, queue, pipes, reader>>

LoadModel ==
  /\ child.step = "reload"
  /\ child' = [child EXCEPT !.resident = TRUE, !.step = "loaded"]
  /\ UNCHANGED <<proxy, timer, late, queue, pipes, reader>>

EmitLoaded ==
  /\ child.step = "loaded"
  /\ stdout' = Emit("loaded", NoTask)
  /\ child' = [child EXCEPT !.step = "run"]
  /\ UNCHANGED <<proxy, timer, late, queue, stdin, reader>>

\* The last event of the task.  It may fail at any point; it is canceled where the
\* flag is looked at.
EmitEnd(kind) ==
  /\ child.step \in {"load", "reload", "run"}
  /\ kind = "canceled" => child.cancel /\ child.step # "reload"
  /\ kind = "done" => child.step = "run"
  /\ stdout' = Emit(kind, child.worker)
  /\ child' = [child EXCEPT !.step = "emitted"]
  /\ UNCHANGED <<proxy, timer, late, queue, stdin, reader>>

\* The `finally`: the cancel registry and _ACTIVE_WORKER.
ClearWorker ==
  /\ child.step = "emitted"
  /\ child' = [child EXCEPT !.worker = NoTask, !.step = "none", !.cancel = FALSE]
  /\ UNCHANGED <<proxy, timer, late, queue, pipes, reader>>

ProcessDies ==
  /\ MayDie
  /\ child' = Dies
  /\ UNCHANGED <<proxy, timer, late, queue, pipes, reader>>

--------------------------------------------------------------------------------
(* The reader thread: _handle_event, _handle_proc_exit, callbacks *)

Settled(kind) == CASE kind = "ready"    -> [proxy EXCEPT !.state = "idle", !.loaded = FALSE]
                   [] kind = "loaded"   -> [proxy EXCEPT !.loaded = TRUE]
                   [] kind = "unloaded" -> [proxy EXCEPT !.state = "idle", !.loaded = FALSE,
                                                         !.exposed = proxy.active # NoTask]

Matches(t) == proxy.active = t

ReadEvent ==
  /\ reader.pc = "read" /\ proxy.proc /\ stdout # <<>>
  /\ LET e == Head(stdout) IN
     IF e.task = NoTask
       THEN /\ proxy' = Settled(e.kind)
            /\ timer' = [timer EXCEPT !.idle = Rearmed(proxy')]
            /\ UNCHANGED reader
     ELSE IF Matches(e.task)
       THEN /\ reader' = [pc |-> "callback", task |-> proxy.active, st |-> Verdict(e.kind),
                          exit |-> FALSE]
            /\ proxy' = [proxy EXCEPT !.active = NoTask, !.state = "idle", !.exposed = FALSE]
            /\ timer' = [timer EXCEPT !.idle = Rearmed(proxy'), !.task = NoTask]
     ELSE UNCHANGED <<proxy, timer, reader>>
  /\ stdout' = Tail(stdout)
  /\ UNCHANGED <<late, queue, stdin, child>>

ReadEof ==
  /\ reader.pc = "read" /\ proxy.proc /\ ~child.alive /\ stdout = <<>>
  /\ proxy' = Stopped
  /\ timer' = [timer EXCEPT !.idle = FALSE, !.task = NoTask]
  /\ reader' = IF proxy.active # NoTask /\ proxy.state # "unloading"
                 THEN [pc |-> "callback", task |-> proxy.active, st |-> "failed", exit |-> TRUE]
                 ELSE [Waiting EXCEPT !.pc = "stopped"]
  /\ UNCHANGED <<late, queue, pipes, child>>

\* _finalize_daemon_task on the reader thread, in its two steps: in between a tick
\* may dispatch the next task.
TaskCallback ==
  /\ reader.pc \in {"callback", "left"}
  /\ marker' = Released(reader.task)
  /\ reader' = [reader EXCEPT !.pc = "record"]
  /\ UNCHANGED <<proxy, timer, late, sup, status, asked, pipes, child>>

RecordEnd ==
  /\ reader.pc = "record"
  /\ status' = [status EXCEPT ![reader.task] = reader.st]
  /\ reader' = IF reader.exit THEN [Waiting EXCEPT !.pc = "stopped"] ELSE Waiting
  /\ UNCHANGED <<proxy, timer, late, sup, marker, asked, pipes, child>>

\* _on_daemon_global_event("stopped"): whatever task is marked now has been left.
StoppedListener ==
  /\ reader.pc = "stopped"
  /\ reader' = IF marker = NoTask THEN Waiting
               ELSE [pc |-> "left", task |-> marker, exit |-> FALSE,
                     st |-> IF marker \in asked THEN "canceled" ELSE "failed"]
  /\ UNCHANGED <<proxy, timer, late, queue, pipes, child>>

--------------------------------------------------------------------------------
(* The whole *)

Supervise == \/ \E t \in Tasks : Dispatch(t)
             \/ StartProcess \/ StartFails \/ AwaitReady \/ ClaimDaemon \/ WriteRunning
             \/ SubmitLocked \/ SubmitWrite \/ RejectTask \/ WriteRejected \/ YieldWrite

LateCalls == IdleUnload \/ (\E c \in {"button", "idle"} : UnloadWrite(c)) \/ CancelWrite \/ Kill

MainLoop == ReadCommand \/ EmitUnloaded
Worker   == ReuseModel \/ UnloadForReload \/ LoadModel \/ EmitLoaded \/ (\E k \in TaskEvents : EmitEnd(k)) \/ ClearWorker
Reader   == ReadEvent \/ ReadEof \/ TaskCallback \/ RecordEnd \/ StoppedListener

DaemonNext ==
  \/ Supervise \/ YieldDaemon
  \/ UnloadButton \/ IdleTimeout \/ TaskTimeout \/ (\E t \in Tasks : Cancel(t)) \/ LateCalls
  \/ MainLoop \/ Worker \/ ProcessDies
  \/ Reader

DaemonSpec == DaemonInit /\ [][DaemonNext]_vars

\* Threads of the server and of the process run on; a worker comes to an end.
DaemonFairness == /\ WF_vars(Supervise) /\ WF_vars(LateCalls)
                  /\ WF_vars(MainLoop) /\ WF_vars(Worker) /\ WF_vars(Reader)

DaemonFairSpec == DaemonSpec /\ DaemonFairness

--------------------------------------------------------------------------------
(* Properties *)

\* The task that is computed.
AtWork == IF Computing THEN child.worker ELSE NoTask

\* The abstract contract: the marker says which task the daemon has.
Service == INSTANCE DaemonService WITH Tasks <- Tasks, NoTask <- NoTask, status <- status,
                                       asked <- asked, current <- marker, work <- AtWork

\* What the supervisor relies on (DaemonService): only the marked task is computed, and
\* the marker is not given up under it; a task that was taken ends, once, with a verdict,
\* which may come when the next one has been taken already, and is `canceled` only if
\* somebody asked; through the two pipes, the lock, a process that may die and a task
\* timer that may kill it.
Contract == Service!Spec

\* _daemon_active_task_id is what the admission gate goes by: when it is empty no
\* worker computes and no generate is on its way to the process, so nothing else
\* can be let onto the GPU beside one.
NoWorkBehindTheMarker ==
  marker = NoTask => /\ ~Computing
                     /\ \A i \in DOMAIN stdin : stdin[i].kind # "generate" \/ ~child.alive

\* A model is taken away from the worker that computes with it only in the two ways that
\* the proxy leaves open (daemon.py:482-507, 634): the unload was let out before the task
\* was accepted and written after it, or an earlier unload, answered while the task ran,
\* has made the busy proxy idle.  Otherwise request_unload spares a busy daemon, however
\* many ticks, clicks and timers ask, and the unloads sent before the task come first.
UnloadSparesWorker ==
  [][Computing /\ child'.main = "unloaded" => child.main = "unloaded" \/ proxy.exposed]_vars

\* STATE_IDLE is "daemon alive and waiting for commands" (daemon.py:48): an idle proxy
\* has a process; otherwise the next task is not preceded by a start.
IdleHasProcess == proxy.state = "idle" => proxy.proc
================================================================================
