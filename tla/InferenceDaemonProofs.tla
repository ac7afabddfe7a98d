------------------------ MODULE InferenceDaemonProofs ------------------------
(***************************************************************************)
(* Theorems about InferenceDaemon, for any tasks and bounds.                  *)
(***************************************************************************)
EXTENDS InferenceDaemon, SequenceTheorems, TLAPS

--------------------------------------------------------------------------------
(* The records and their updates *)

States    == {"stopped", "starting", "idle", "busy", "unloading"}
ProxyRec  == [state : States,
              loaded : BOOLEAN, active : TaskOrNone, proc : BOOLEAN, exposed : BOOLEAN]
TimerRec  == [idle : BOOLEAN, fired : BOOLEAN, task : TaskOrNone]
CallRec   == [run : 0..MaxProcs, task : TaskOrNone]
SupPcs    == {"free", "start", "wait", "claim", "running", "submit", "write", "reject",
              "reject_write", "unload"}
SupRec    == [pc : SupPcs, task : TaskOrNone]
Steps     == {"none", "load", "reload", "loaded", "run", "emitted"}
ChildRec  == [alive : BOOLEAN, run : 0..MaxProcs, main : {"read", "unloaded"},
              resident : BOOLEAN, worker : TaskOrNone,
              step : Steps, cancel : BOOLEAN]
ReaderRec == [pc : {"read", "callback", "stopped", "left", "record"}, task : TaskOrNone,
              st : {"done", "failed", "canceled"}, exit : BOOLEAN]

Typed ==
  /\ proxy \in ProxyRec /\ timer \in TimerRec /\ late \in [Callers -> CallRec]
  /\ sup \in SupRec /\ marker \in TaskOrNone
  /\ status \in [Tasks -> {"new", "taken", "done", "failed", "canceled"}] /\ asked \in SUBSET Tasks
  /\ stdin \in Seq(Commands) /\ stdout \in Seq(Emitted)
  /\ child \in ChildRec /\ reader \in ReaderRec

\* The supervisor has picked a task; it hands over the one it has marked, or is to give
\* it up.
Dispatching == {"start", "wait", "claim"}
Handing     == {"running", "submit", "write", "reject"}

\* Threads, pipes and the worker carry real tasks.
Carried ==
  /\ sup.pc \in Dispatching \cup Handing \cup {"reject_write"} => sup.task \in Tasks
  /\ late["cancel"] # NoCall => late["cancel"].task \in Tasks
  /\ child.worker \in Tasks <=> child.step # "none"
  /\ reader.pc \in {"callback", "left", "record"} => reader.task \in Tasks
  /\ reader.exit => reader.pc \in {"callback", "record"}
  /\ ~child.alive => child.step = "none" /\ child.main = "read"

\* The fields of a record have their types, and the updates keep them.
LEMMA ProxyFields ==
  ASSUME NEW p \in ProxyRec
  PROVE  p.active \in TaskOrNone /\ p.proc \in BOOLEAN /\ p.loaded \in BOOLEAN /\ p.exposed \in BOOLEAN
BY DEF ProxyRec

LEMMA ProxyUpdates ==
  ASSUME NEW p \in ProxyRec
  PROVE  /\ Stopped \in ProxyRec
         /\ \A st \in States : [p EXCEPT !.state = st] \in ProxyRec
         /\ \A b \in BOOLEAN : [p EXCEPT !.loaded = b] \in ProxyRec
         /\ \A st \in States, b \in BOOLEAN :
              [p EXCEPT !.state = st, !.proc = b] \in ProxyRec /\ [p EXCEPT !.state = st, !.loaded = b] \in ProxyRec
         /\ \A st \in States, a \in TaskOrNone :
              /\ \A b \in BOOLEAN : [p EXCEPT !.state = st, !.active = a, !.exposed = b] \in ProxyRec
              /\ \A b \in BOOLEAN : [p EXCEPT !.active = a, !.state = st, !.exposed = b] \in ProxyRec
BY DEF ProxyRec, TaskOrNone, Stopped, States

LEMMA TimerUpdates ==
  ASSUME NEW r \in TimerRec
  PROVE  /\ r.task \in TaskOrNone /\ r.idle \in BOOLEAN
         /\ \A b \in BOOLEAN : [r EXCEPT !.idle = b] \in TimerRec
         /\ \A a \in TaskOrNone : [r EXCEPT !.task = a] \in TimerRec
         /\ \A b \in BOOLEAN, a \in TaskOrNone : [r EXCEPT !.idle = b, !.task = a] \in TimerRec
         /\ \A b \in BOOLEAN, f \in BOOLEAN : [r EXCEPT !.idle = b, !.fired = f] \in TimerRec
BY DEF TimerRec

LEMMA LateUpdates ==
  ASSUME late \in [Callers -> CallRec], NEW c \in Callers
  PROVE  /\ late[c].task \in TaskOrNone
         /\ [late EXCEPT ![c] = NoCall] \in [Callers -> CallRec]
         /\ \A n \in 0..MaxProcs, a \in TaskOrNone :
              [late EXCEPT ![c] = [run |-> n, task |-> a]] \in [Callers -> CallRec]
         /\ \A n \in 0..MaxProcs : [late EXCEPT ![c] = [NoCall EXCEPT !.run = n]] \in [Callers -> CallRec]
<1>1. /\ NoCall \in CallRec
      /\ \A n \in 0..MaxProcs, a \in TaskOrNone : [run |-> n, task |-> a] \in CallRec
      /\ \A n \in 0..MaxProcs : [NoCall EXCEPT !.run = n] \in CallRec
  BY BoundAssumption DEF CallRec, NoCall, TaskOrNone
<1>2. late[c] \in CallRec
  OBVIOUS
<1>3. late[c].task \in TaskOrNone
  BY <1>2 DEF CallRec
<1>4. QED
  BY <1>1, <1>3

LEMMA SupUpdates ==
  ASSUME NEW a \in TaskOrNone,
         NEW pc \in SupPcs
  PROVE  [pc |-> pc, task |-> a] \in SupRec
BY DEF SupRec

LEMMA ChildFields ==
  ASSUME NEW c \in ChildRec
  PROVE  /\ c.alive \in BOOLEAN /\ c.run \in 0..MaxProcs /\ c.worker \in TaskOrNone
         /\ c.cancel \in BOOLEAN /\ c.resident \in BOOLEAN
         /\ c.step \in Steps
         /\ c.main \in {"read", "unloaded"}
BY DEF ChildRec

LEMMA ChildUpdates ==
  ASSUME NEW c \in ChildRec
  PROVE  /\ \A n \in 0..MaxProcs : [DeadChild EXCEPT !.alive = TRUE, !.run = n] \in ChildRec
         /\ [c EXCEPT !.alive = FALSE, !.worker = NoTask, !.step = "none", !.main = "read",
                      !.resident = FALSE, !.cancel = FALSE] \in ChildRec
         /\ \A a \in TaskOrNone, st \in Steps, b \in BOOLEAN :
              [c EXCEPT !.worker = a, !.step = st, !.cancel = b] \in ChildRec
         /\ \A b \in BOOLEAN : [c EXCEPT !.cancel = b] \in ChildRec
         /\ \A b \in BOOLEAN, m \in {"read", "unloaded"} : [c EXCEPT !.resident = b, !.main = m] \in ChildRec
         /\ \A m \in {"read", "unloaded"} : [c EXCEPT !.main = m] \in ChildRec
         /\ \A st \in Steps : [c EXCEPT !.step = st] \in ChildRec
         /\ \A b \in BOOLEAN, st \in Steps : [c EXCEPT !.resident = b, !.step = st] \in ChildRec
<1>1. NoTask \in TaskOrNone /\ 0 \in 0..MaxProcs /\ "none" \in Steps
  BY BoundAssumption DEF TaskOrNone, Steps
<1>2. \A n \in 0..MaxProcs : [DeadChild EXCEPT !.alive = TRUE, !.run = n] \in ChildRec
  BY <1>1 DEF DeadChild, ChildRec
<1>3. [c EXCEPT !.alive = FALSE, !.worker = NoTask, !.step = "none", !.main = "read",
               !.resident = FALSE, !.cancel = FALSE] \in ChildRec
  BY <1>1 DEF ChildRec
<1>4. \A a \in TaskOrNone, st \in Steps, b \in BOOLEAN :
         [c EXCEPT !.worker = a, !.step = st, !.cancel = b] \in ChildRec
  BY DEF ChildRec
<1>5. \A b \in BOOLEAN : [c EXCEPT !.cancel = b] \in ChildRec
  BY DEF ChildRec
<1>6. \A b \in BOOLEAN, m \in {"read", "unloaded"} : [c EXCEPT !.resident = b, !.main = m] \in ChildRec
  BY DEF ChildRec
<1>7. \A m \in {"read", "unloaded"} : [c EXCEPT !.main = m] \in ChildRec
  BY DEF ChildRec
<1>8. \A st \in Steps : [c EXCEPT !.step = st] \in ChildRec
  BY DEF ChildRec
<1>9. \A b \in BOOLEAN, st \in Steps : [c EXCEPT !.resident = b, !.step = st] \in ChildRec
  BY DEF ChildRec
<1>10. QED
  BY <1>2, <1>3, <1>4, <1>5, <1>6, <1>7, <1>8, <1>9

LEMMA ReaderStatus ==
  ASSUME NEW r \in ReaderRec
  PROVE  r.st \in {"done", "failed", "canceled"} /\ r.task \in TaskOrNone
BY DEF ReaderRec

LEMMA ReaderUpdates ==
  ASSUME NEW a \in TaskOrNone, NEW st \in {"done", "failed", "canceled"}, NEW b \in BOOLEAN
  PROVE  /\ [pc |-> "callback", task |-> a, st |-> st, exit |-> b] \in ReaderRec
         /\ [pc |-> "left", task |-> a, exit |-> b, st |-> st] \in ReaderRec
         /\ Waiting \in ReaderRec /\ [Waiting EXCEPT !.pc = "stopped"] \in ReaderRec
         /\ \A r \in ReaderRec : [r EXCEPT !.pc = "record"] \in ReaderRec
BY DEF ReaderRec, Waiting, TaskOrNone

\* What is written to the pipes.
LEMMA PipeTypes ==
  /\ \A t \in Tasks : /\ [kind |-> "generate", task |-> t] \in Commands
                      /\ [kind |-> "cancel", task |-> t] \in Commands
                      /\ \A k \in TaskEvents : [kind |-> k, task |-> t] \in Emitted
  /\ [kind |-> "unload", task |-> NoTask] \in Commands
  /\ \A k \in {"ready", "loaded", "unloaded"} : [kind |-> k, task |-> NoTask] \in Emitted
  /\ \A c \in Commands : /\ c.kind \in {"generate", "cancel", "unload"}
                         /\ c.kind \in {"generate", "cancel"} => c.task \in Tasks
  /\ \A e \in Emitted : /\ e.kind \in TaskEvents \cup {"ready", "loaded", "unloaded"}
                        /\ e.task \in TaskOrNone
                        /\ e.kind \in TaskEvents <=> e.task \in Tasks
                        /\ e.task = NoTask <=> e.kind \in {"ready", "loaded", "unloaded"}
BY TaskAssumption DEF Commands, Emitted, TaskEvents, TaskOrNone

LEMMA PipeMoves ==
  ASSUME NEW S, NEW q \in Seq(S)
  PROVE  /\ <<>> \in Seq(S)
         /\ \A e \in S : Append(q, e) \in Seq(S)
         /\ q # <<>> => Tail(q) \in Seq(S) /\ Head(q) \in S
BY HeadTailProperties, AppendProperties, EmptySeq

\* The supervisor thread works on a task.
LEMMA SupTask ==
  ASSUME Carried
  PROVE  sup.pc \in SupPcs \ {"free", "unload"} => sup.task \in Tasks
BY DEF Carried, Dispatching, Handing, SupPcs

\* The actions with several steps in one keep the types.
LEMMA StartTypes ==
  ASSUME Typed, Carried, StartProcess
  PROVE  Typed'
<1>1. NoTask \in TaskOrNone /\ Tasks \subseteq TaskOrNone
  BY DEF TaskOrNone
<1>2. child.run + 1 \in 0..MaxProcs
  BY ChildFields, BoundAssumption DEF StartProcess, Typed
<1>3. child' \in ChildRec
  BY <1>2, ChildUpdates DEF StartProcess, Typed
<1>4. proxy' \in ProxyRec
  BY ProxyUpdates DEF StartProcess, Typed, States
<1>5. sup' \in SupRec
  BY <1>1, SupTask, SupUpdates DEF StartProcess, Goto, SupPcs
<1>6. stdin' \in Seq(Commands) /\ stdout' \in Seq(Emitted)
  BY PipeTypes, PipeMoves DEF StartProcess, Typed, Emit
<1>7. QED
  BY <1>3, <1>4, <1>5, <1>6 DEF StartProcess, Typed

LEMMA SubmitTypes ==
  ASSUME Typed, Carried, SubmitLocked \/ SubmitWrite
  PROVE  Typed'
<1>1. NoTask \in TaskOrNone /\ Tasks \subseteq TaskOrNone /\ sup.task \in Tasks
  BY SupTask DEF TaskOrNone, SubmitLocked, SubmitWrite, SupPcs
<1>2. sup' \in SupRec
  BY <1>1, SupUpdates DEF SubmitLocked, SubmitWrite, Goto, SupPcs
<1>3. proxy' \in ProxyRec
  <2>1. \/ proxy' = proxy
        \/ proxy' = [proxy EXCEPT !.state = "busy", !.active = sup.task, !.exposed = UnloadOnItsWay]
        \/ proxy' = [proxy EXCEPT !.state = "idle", !.active = NoTask, !.exposed = FALSE]
    BY DEF SubmitLocked, SubmitWrite
  <2>2. proxy \in ProxyRec /\ UnloadOnItsWay \in BOOLEAN
    BY DEF Typed, UnloadOnItsWay
  <2>3. [proxy EXCEPT !.state = "busy", !.active = sup.task, !.exposed = UnloadOnItsWay] \in ProxyRec
    BY <1>1, <2>2 DEF ProxyRec, States
  <2>4. [proxy EXCEPT !.state = "idle", !.active = NoTask, !.exposed = FALSE] \in ProxyRec
    BY <1>1, <2>2 DEF ProxyRec, States
  <2>5. QED
    BY <2>1, <2>2, <2>3, <2>4
<1>4. timer' \in TimerRec
  <2>1. Rearmed(proxy') \in BOOLEAN
    BY DEF Rearmed
  <2>2. \/ timer' = timer
        \/ timer' = [timer EXCEPT !.idle = FALSE, !.task = sup.task]
        \/ timer' = [timer EXCEPT !.idle = Rearmed(proxy')]
    BY DEF SubmitLocked, SubmitWrite
  <2>3. timer \in TimerRec
    BY DEF Typed
  <2>4. [timer EXCEPT !.idle = FALSE, !.task = sup.task] \in TimerRec
    BY <1>1, <2>3 DEF TimerRec
  <2>5. [timer EXCEPT !.idle = Rearmed(proxy')] \in TimerRec
    BY <2>1, <2>3 DEF TimerRec
  <2>6. QED
    BY <2>2, <2>3, <2>4, <2>5
<1>5. stdin' \in Seq(Commands)
  <2>1. stdin' = stdin \/ stdin' = Append(stdin, [kind |-> "generate", task |-> sup.task])
    BY DEF SubmitLocked, SubmitWrite, pipes
  <2>2. stdin \in Seq(Commands)
    BY DEF Typed
  <2>3. [kind |-> "generate", task |-> sup.task] \in Commands
    BY <1>1, PipeTypes
  <2>4. QED
    BY <2>1, <2>2, <2>3, PipeMoves
<1>6. QED
  BY <1>2, <1>3, <1>4, <1>5 DEF SubmitLocked, SubmitWrite, Typed, pipes

LEMMA IdleTypes ==
  ASSUME Typed, IdleUnload
  PROVE  Typed'
<1>1. proxy' \in ProxyRec
  BY ProxyUpdates DEF IdleUnload, Typed, States
<1>2. (timer.idle /\ ~MayUnload) \in BOOLEAN
  OBVIOUS
<1>3. timer' \in TimerRec
  BY <1>2, TimerUpdates DEF IdleUnload, Typed
<1>4. late' \in [Callers -> CallRec]
  BY LateUpdates, ChildFields DEF IdleUnload, Typed, Callers
<1>5. QED
  BY <1>1, <1>3, <1>4 DEF IdleUnload, Typed, queue, pipes

\* What the process makes of a command.
LEMMA CommandForms ==
  ASSUME Typed, ReadCommand
  PROVE  LET c == Head(stdin) IN
         /\ c \in Commands /\ Tail(stdin) \in Seq(Commands)
         /\ \/ /\ c.kind = "generate" /\ c.task \in Tasks /\ child.worker = NoTask /\ stdout' = stdout
               /\ child' = [child EXCEPT !.worker = c.task, !.step = "load", !.cancel = FALSE]
            \/ /\ c.kind = "generate" /\ c.task \in Tasks /\ child.worker # NoTask /\ child' = child
               /\ stdout' = Append(stdout, [kind |-> "error", task |-> c.task])
            \/ /\ c.kind = "cancel" /\ c.task \in Tasks /\ stdout' = stdout
               /\ child' = [child EXCEPT !.cancel = child.cancel \/ (child.worker = c.task)]
            \/ /\ c.kind = "unload" /\ stdout' = stdout
               /\ child' = [child EXCEPT !.resident = FALSE, !.main = "unloaded"]
<1> DEFINE c == Head(stdin)
<1>1. c \in Commands /\ Tail(stdin) \in Seq(Commands)
  BY PipeMoves DEF ReadCommand, Typed
<1>2. /\ c.kind \in {"generate", "cancel", "unload"}
      /\ c.kind \in {"generate", "cancel"} => c.task \in Tasks
  BY <1>1, PipeTypes
<1>3. CASE c.kind = "generate"
  BY <1>1, <1>2, <1>3 DEF ReadCommand, Emit
<1>4. CASE c.kind = "cancel"
  BY <1>1, <1>2, <1>4 DEF ReadCommand, CancelHits
<1>5. CASE c.kind = "unload"
  BY <1>1, <1>2, <1>5 DEF ReadCommand
<1>6. QED
  BY <1>2, <1>3, <1>4, <1>5

LEMMA CommandTypes ==
  ASSUME Typed, ReadCommand
  PROVE  Typed'
<1> DEFINE c == Head(stdin)
<1>1. child \in ChildRec /\ stdout \in Seq(Emitted) /\ child.cancel \in BOOLEAN
  BY ChildFields DEF Typed
<1>2. child' \in ChildRec
  <2>1. CASE c.task \in Tasks /\ child' = [child EXCEPT !.worker = c.task, !.step = "load", !.cancel = FALSE]
    BY <1>1, <2>1 DEF ChildRec, Steps, TaskOrNone
  <2>2. CASE child' = [child EXCEPT !.cancel = child.cancel \/ (child.worker = c.task)]
    BY <1>1, <2>2 DEF ChildRec
  <2>3. CASE child' = [child EXCEPT !.resident = FALSE, !.main = "unloaded"]
    BY <1>1, <2>3 DEF ChildRec
  <2>4. QED
    BY <1>1, <2>1, <2>2, <2>3, CommandForms
<1>3. stdout' \in Seq(Emitted)
  <2>1. ASSUME c.task \in Tasks
        PROVE  Append(stdout, [kind |-> "error", task |-> c.task]) \in Seq(Emitted)
    <3>1. [kind |-> "error", task |-> c.task] \in Emitted
      BY <2>1, PipeTypes DEF TaskEvents
    <3>2. QED
      BY <1>1, <3>1, PipeMoves
  <2>2. QED
    BY <1>1, <2>1, CommandForms
<1>4. stdin' \in Seq(Commands)
  BY CommandForms DEF ReadCommand
<1>5. QED
  BY <1>2, <1>3, <1>4 DEF ReadCommand, Typed, queue

\* What the reader makes of an event.
LEMMA EventForms ==
  ASSUME Typed, ReadEvent
  PROVE  LET e == Head(stdout) IN
         /\ e \in Emitted /\ Tail(stdout) \in Seq(Emitted)
         /\ \/ /\ e.task = NoTask /\ reader' = reader
               /\ \/ e.kind = "ready" /\ proxy' = [proxy EXCEPT !.state = "idle", !.loaded = FALSE]
                  \/ e.kind = "loaded" /\ proxy' = [proxy EXCEPT !.loaded = TRUE]
                  \/ e.kind = "unloaded" /\ proxy' = [proxy EXCEPT !.state = "idle", !.loaded = FALSE,
                                                                   !.exposed = proxy.active # NoTask]
               /\ timer' = [timer EXCEPT !.idle = Rearmed(proxy')]
            \/ /\ e.kind \in TaskEvents /\ e.task \in Tasks /\ proxy.active = e.task
               /\ reader' = [pc |-> "callback", task |-> e.task, st |-> Verdict(e.kind), exit |-> FALSE]
               /\ proxy' = [proxy EXCEPT !.active = NoTask, !.state = "idle", !.exposed = FALSE]
               /\ timer' = [timer EXCEPT !.idle = Rearmed(proxy'), !.task = NoTask]
            \/ /\ e.kind \in TaskEvents /\ e.task \in Tasks
               /\ reader' = reader /\ proxy' = proxy /\ timer' = timer
<1> DEFINE e == Head(stdout)
<1>1. e \in Emitted /\ Tail(stdout) \in Seq(Emitted)
  BY PipeMoves DEF ReadEvent, Typed
<1>2. /\ e.task = NoTask => e.kind \in {"ready", "loaded", "unloaded"}
      /\ e.task # NoTask => e.kind \in TaskEvents /\ e.task \in Tasks
  BY <1>1, PipeTypes
<1>3. CASE e.task = NoTask
  <2>1. /\ proxy' = Settled(e.kind) /\ reader' = reader
        /\ timer' = [timer EXCEPT !.idle = Rearmed(proxy')]
    BY <1>3 DEF ReadEvent
  <2>2. QED
    BY <1>1, <1>2, <1>3, <2>1 DEF Settled
<1>4. CASE e.task # NoTask /\ Matches(e.task)
  BY <1>1, <1>2, <1>4 DEF ReadEvent, Matches
<1>5. CASE e.task # NoTask /\ ~Matches(e.task)
  BY <1>1, <1>2, <1>5 DEF ReadEvent
<1>6. QED
  BY <1>3, <1>4, <1>5

LEMMA EventTypes ==
  ASSUME Typed, ReadEvent
  PROVE  Typed'
<1> DEFINE e == Head(stdout)
<1>1. /\ proxy \in ProxyRec /\ timer \in TimerRec /\ reader \in ReaderRec
      /\ NoTask \in TaskOrNone /\ Tasks \subseteq TaskOrNone /\ "idle" \in States
  BY DEF Typed, TaskOrNone, States
<1>2. proxy' \in ProxyRec
  <2>1. \/ proxy' = proxy \/ proxy' = [proxy EXCEPT !.state = "idle", !.loaded = FALSE]
        \/ proxy' = [proxy EXCEPT !.loaded = TRUE]
        \/ proxy' = [proxy EXCEPT !.state = "idle", !.loaded = FALSE, !.exposed = proxy.active # NoTask]
        \/ proxy' = [proxy EXCEPT !.active = NoTask, !.state = "idle", !.exposed = FALSE]
    BY EventForms
  <2>2. [proxy EXCEPT !.state = "idle", !.loaded = FALSE] \in ProxyRec
    BY <1>1 DEF ProxyRec, States
  <2>3. [proxy EXCEPT !.loaded = TRUE] \in ProxyRec
    BY <1>1 DEF ProxyRec
  <2>4. [proxy EXCEPT !.active = NoTask, !.state = "idle", !.exposed = FALSE] \in ProxyRec
    BY <1>1 DEF ProxyRec, States
  <2>5. (proxy.active # NoTask) \in BOOLEAN
    OBVIOUS
  <2>6. [proxy EXCEPT !.state = "idle", !.loaded = FALSE, !.exposed = proxy.active # NoTask] \in ProxyRec
    BY <1>1, <2>5 DEF ProxyRec, States
  <2>7. QED
    BY <1>1, <2>1, <2>2, <2>3, <2>4, <2>6
<1>3. timer' \in TimerRec
  <2>1. \/ timer' = timer \/ timer' = [timer EXCEPT !.idle = Rearmed(proxy')]
        \/ timer' = [timer EXCEPT !.idle = Rearmed(proxy'), !.task = NoTask]
    BY EventForms
  <2>2. Rearmed(proxy') \in BOOLEAN
    BY DEF Rearmed
  <2>3. [timer EXCEPT !.idle = Rearmed(proxy')] \in TimerRec
    BY <1>1, <2>2 DEF TimerRec
  <2>4. [timer EXCEPT !.idle = Rearmed(proxy'), !.task = NoTask] \in TimerRec
    BY <1>1, <2>2 DEF TimerRec
  <2>5. QED
    BY <1>1, <2>1, <2>3, <2>4
<1>4. reader' \in ReaderRec
  <2>1. e.kind \in TaskEvents => Verdict(e.kind) \in {"done", "failed", "canceled"}
    BY DEF Verdict, TaskEvents
  <2>2. \/ reader' = reader
        \/ /\ e.kind \in TaskEvents /\ e.task \in Tasks
           /\ reader' = [pc |-> "callback", task |-> e.task, st |-> Verdict(e.kind), exit |-> FALSE]
    BY EventForms
  <2>3. QED
    BY <1>1, <2>1, <2>2, ReaderUpdates
<1>5. stdout' \in Seq(Emitted)
  BY EventForms DEF ReadEvent
<1>6. QED
  BY <1>2, <1>3, <1>4, <1>5 DEF ReadEvent, Typed, queue

\* Every action keeps the types.
LEMMA TypesStep ==
  ASSUME Typed, Carried, [DaemonNext]_vars
  PROVE  Typed'
<1>0. NoTask \in TaskOrNone /\ Tasks \subseteq TaskOrNone
  BY DEF TaskOrNone
<1> USE <1>0 DEF Typed, Goto, queue, pipes, States, Steps, SupPcs
<1>1. ASSUME NEW t \in Tasks, Dispatch(t)
       PROVE  Typed'
  BY <1>1, SupUpdates DEF Dispatch
<1>2. CASE StartProcess
  BY <1>2, StartTypes
<1>3. CASE StartFails
  BY <1>3, SupUpdates DEF StartFails
<1>4. CASE AwaitReady
  BY <1>4, SupUpdates, SupTask DEF AwaitReady
<1>5. CASE ClaimDaemon
  BY <1>5, SupUpdates, SupTask DEF ClaimDaemon
<1>6. CASE WriteRunning
  BY <1>6, SupUpdates, SupTask DEF WriteRunning
<1>7. CASE SubmitLocked
  BY <1>7, SubmitTypes
<1>8. CASE SubmitWrite
  BY <1>8, SubmitTypes
<1>9. CASE YieldWrite
  BY <1>9, SupUpdates, PipeTypes, PipeMoves DEF YieldWrite
<1>10. CASE YieldDaemon
  BY <1>10, SupUpdates, ProxyUpdates, TimerUpdates DEF YieldDaemon, Unloading
<1>11. CASE UnloadButton
  BY <1>11, ProxyUpdates, TimerUpdates, LateUpdates, ChildFields DEF UnloadButton, Unloading, Callers
<1>12. CASE IdleTimeout
  BY <1>12, TimerUpdates DEF IdleTimeout
<1>13. CASE TaskTimeout
  BY <1>13, LateUpdates, ChildFields, TimerUpdates DEF TaskTimeout, Callers
<1>14. ASSUME NEW t \in Tasks, Cancel(t)
       PROVE  Typed'
  BY <1>14, LateUpdates, ChildFields DEF Cancel, Callers
<1>15. CASE IdleUnload
  BY <1>15, IdleTypes
<1>16. ASSUME NEW c \in {"button", "idle"}, UnloadWrite(c)
       PROVE  Typed'
  BY <1>16, LateUpdates, BoundAssumption, PipeTypes, PipeMoves DEF UnloadWrite, Callers
<1>17. CASE CancelWrite
  BY <1>17, LateUpdates, BoundAssumption, PipeTypes, PipeMoves DEF CancelWrite, Carried, Callers
<1>18. CASE Kill
  BY <1>18, LateUpdates, ChildUpdates, BoundAssumption DEF Kill, Dies, Callers
<1>19. CASE ReadCommand
  BY <1>19, CommandTypes
<1>20. CASE EmitUnloaded
  BY <1>20, ChildUpdates, PipeTypes, PipeMoves DEF EmitUnloaded, Emit
<1>21. CASE ReuseModel
  BY <1>21, ChildUpdates DEF ReuseModel
<1>22. CASE UnloadForReload
  BY <1>22, ChildUpdates DEF UnloadForReload
<1>23. CASE LoadModel
  BY <1>23, ChildUpdates DEF LoadModel
<1>24. CASE EmitLoaded
  BY <1>24, ChildUpdates, PipeTypes, PipeMoves DEF EmitLoaded, Emit
<1>25. ASSUME NEW k \in TaskEvents, EmitEnd(k)
       PROVE  Typed'
  BY <1>25, ChildUpdates, PipeTypes, PipeMoves DEF EmitEnd, Emit, Carried
<1>26. CASE ClearWorker
  BY <1>26, ChildUpdates DEF ClearWorker
<1>27. CASE ProcessDies
  BY <1>27, ChildUpdates DEF ProcessDies, Dies
<1>28. CASE ReadEvent
  BY <1>28, EventTypes
<1>29. CASE ReadEof
  BY <1>29, ProxyUpdates, ProxyFields, TimerUpdates, ReaderUpdates DEF ReadEof
<1>30. CASE TaskCallback
  BY <1>30, ReaderUpdates DEF TaskCallback, Released
<1>31. CASE StoppedListener
  BY <1>31, ReaderUpdates DEF StoppedListener
<1>32. CASE RejectTask
  BY <1>32, SupUpdates, SupTask DEF RejectTask, Released
<1>33. CASE WriteRejected
  BY <1>33, SupUpdates DEF WriteRejected
<1>34. CASE RecordEnd
  BY <1>34, ReaderUpdates, ReaderStatus DEF RecordEnd
<1>35. CASE UNCHANGED vars
  BY <1>35 DEF vars
<1>36. QED
  BY <1>1, <1>2, <1>3, <1>4, <1>5, <1>6, <1>7, <1>8, <1>9, <1>10, <1>11, <1>12, <1>13, <1>14,
     <1>15, <1>16, <1>17, <1>18, <1>19, <1>20, <1>21, <1>22, <1>23, <1>24, <1>25, <1>26, <1>27,
     <1>28, <1>29, <1>30, <1>31, <1>32, <1>33, <1>34, <1>35
     DEF DaemonNext, Supervise, LateCalls, MainLoop, Worker, Reader

--------------------------------------------------------------------------------
(* What is in a pipe *)

\* No message of these kinds; at most one, and for this task; all for these tasks.
None(q, kinds)    == \A i \in DOMAIN q : q[i].kind \notin kinds
Only(q, kinds, t) == \A i, j \in DOMAIN q : q[i].kind \in kinds /\ q[j].kind \in kinds => i = j /\ q[i].task = t
AllFor(q, kind, ts) == \A i \in DOMAIN q : q[i].kind = kind => q[i].task \in ts

\* An empty pipe holds nothing, and how writing and reading change what is in one.
LEMMA EmptyPipe ==
  \A kinds, t, kind, ts : None(<<>>, kinds) /\ Only(<<>>, kinds, t) /\ AllFor(<<>>, kind, ts)
<1>1. DOMAIN <<>> = {}
  OBVIOUS
<1>2. QED
  BY <1>1 DEF None, Only, AllFor

LEMMA Written ==
  ASSUME NEW S, NEW q \in Seq(S), NEW e \in S, NEW kinds
  PROVE  /\ None(Append(q, e), kinds) <=> None(q, kinds) /\ e.kind \notin kinds
         /\ None(q, kinds) => Only(Append(q, e), kinds, e.task)
         /\ \A t : None(q, kinds) => Only(q, kinds, t)
         /\ \A t : Only(q, kinds, t) /\ e.kind \notin kinds => Only(Append(q, e), kinds, t)
         /\ \A kind, ts : AllFor(Append(q, e), kind, ts) <=>
                            AllFor(q, kind, ts) /\ (e.kind = kind => e.task \in ts)
<1> DEFINE r == Append(q, e)
<1>1. /\ Len(q) \in Nat /\ DOMAIN q = 1..Len(q) /\ DOMAIN r = 1..(Len(q) + 1)
      /\ r[Len(q) + 1] = e /\ \A i \in 1..Len(q) : r[i] = q[i]
  BY AppendProperties, LenProperties
<1>2. \A i \in DOMAIN r : (i \in DOMAIN q /\ r[i] = q[i]) \/ (i = Len(q) + 1 /\ r[i] = e)
  BY <1>1
<1>3. \A i \in DOMAIN q : i \in DOMAIN r /\ r[i] = q[i]
  BY <1>1
<1>4. Len(q) + 1 \in DOMAIN r /\ r[Len(q) + 1] = e
  BY <1>1
<1> HIDE DEF r
<1>5. None(r, kinds) <=> None(q, kinds) /\ e.kind \notin kinds
  BY <1>2, <1>3, <1>4 DEF None
<1>6. None(q, kinds) => Only(r, kinds, e.task)
  BY <1>2 DEF None, Only
<1>7. \A t : None(q, kinds) => Only(q, kinds, t)
  BY DEF None, Only
<1>8. \A t : Only(q, kinds, t) /\ e.kind \notin kinds => Only(r, kinds, t)
  BY <1>2 DEF Only
<1>9. \A kind, ts : AllFor(r, kind, ts) <=> AllFor(q, kind, ts) /\ (e.kind = kind => e.task \in ts)
  BY <1>2, <1>3, <1>4 DEF AllFor
<1>10. QED
  BY <1>5, <1>6, <1>7, <1>8, <1>9 DEF r

LEMMA Taken ==
  ASSUME NEW S, NEW q \in Seq(S), q # <<>>, NEW kinds
  PROVE  /\ None(q, kinds) => None(Tail(q), kinds) /\ Head(q).kind \notin kinds
         /\ \A t : Only(q, kinds, t) => Only(Tail(q), kinds, t)
         /\ \A t : Only(q, kinds, t) /\ Head(q).kind \in kinds => None(Tail(q), kinds) /\ Head(q).task = t
         /\ \A kind, ts : AllFor(q, kind, ts) =>
              AllFor(Tail(q), kind, ts) /\ (Head(q).kind = kind => Head(q).task \in ts)
<1> DEFINE r == Tail(q)
<1>1. /\ Len(q) \in Nat /\ Len(q) > 0 /\ DOMAIN q = 1..Len(q) /\ DOMAIN r = 1..(Len(q) - 1)
      /\ Head(q) = q[1] /\ \A i \in 1..(Len(q) - 1) : r[i] = q[i + 1]
  BY HeadTailProperties, LenProperties, EmptySeq
<1>2. 1 \in DOMAIN q /\ Head(q) = q[1]
  BY <1>1
<1>3. \A i \in DOMAIN r : i + 1 \in DOMAIN q /\ i + 1 # 1 /\ r[i] = q[i + 1]
  BY <1>1
<1>4. \A i, j \in DOMAIN r : i + 1 = j + 1 => i = j
  BY <1>1
<1> HIDE DEF r
<1>5. None(q, kinds) => None(r, kinds) /\ Head(q).kind \notin kinds
  BY <1>2, <1>3 DEF None
<1>6. \A t : Only(q, kinds, t) => Only(r, kinds, t)
  BY <1>3, <1>4 DEF Only
<1>7. \A t : Only(q, kinds, t) /\ Head(q).kind \in kinds => None(r, kinds) /\ Head(q).task = t
  BY <1>2, <1>3 DEF Only, None
<1>8. \A kind, ts : AllFor(q, kind, ts) => AllFor(r, kind, ts) /\ (Head(q).kind = kind => Head(q).task \in ts)
  BY <1>2, <1>3 DEF AllFor
<1>9. QED
  BY <1>5, <1>6, <1>7, <1>8 DEF r

--------------------------------------------------------------------------------
(* Where a task is on its way through the daemon *)

\* A generate the process will read; the worker (Computing); an end the reader will
\* read; an end the reader has read.
Sent   == child.alive /\ ~None(stdin, {"generate"})
Told   == ~None(stdout, TaskEvents)
Called == reader.pc = "callback" /\ ~reader.exit

\* The reader has seen the process end, and is in the callbacks of that.
Over == reader.pc \in {"stopped", "left"} \/ reader.exit

\* One task at most is on its way, in one place.
OnePlace ==
  /\ Sent => ~Computing
  /\ Sent \/ Computing => ~Told
  /\ Sent \/ Computing \/ Told => ~Called

\* It is the one that is marked.
Marked ==
  /\ child.alive => Only(stdin, {"generate"}, marker)
  /\ Only(stdout, TaskEvents, marker)
  /\ Computing => child.worker = marker
  /\ Called => reader.task = marker

Ended == Over => ~child.alive /\ stdout = <<>>

\* What the supervisor is about to hand over is marked, unless the process has died,
\* and nothing else is on its way.
Supervised ==
  /\ sup.pc \in Dispatching \cup {"unload", "reject_write"} => marker = NoTask
  /\ sup.pc \in Handing =>
       /\ marker \in {NoTask, sup.task}
       /\ child.alive => marker = sup.task
       /\ ~Sent /\ ~Computing /\ ~Told /\ ~Called

MarkerInv == Carried /\ OnePlace /\ Marked /\ Ended /\ Supervised

\* None is at most one.
LEMMA NoneIsOnly ==
  ASSUME NEW q, NEW kinds, None(q, kinds)
  PROVE  \A t : Only(q, kinds, t)
BY DEF None, Only

\* Behind an empty marker nothing is on its way.
LEMMA Unmarked ==
  ASSUME Typed, Carried, Marked, marker = NoTask
  PROVE  ~Sent /\ ~Computing /\ ~Told /\ ~Called
<1>1. ~Sent
  <2>1. SUFFICES ASSUME child.alive, NEW i \in DOMAIN stdin, stdin[i].kind = "generate"
                 PROVE  FALSE
    BY DEF Sent, None
  <2>2. stdin[i] \in Commands
    BY ElementOfSeq, LenProperties DEF Typed
  <2>3. stdin[i].task \in Tasks
    BY <2>1, <2>2, PipeTypes
  <2>4. QED
    BY <2>1, <2>3, TaskAssumption DEF Marked, Only
<1>2. ~Told
  <2>1. SUFFICES ASSUME NEW i \in DOMAIN stdout, stdout[i].kind \in TaskEvents
                 PROVE  FALSE
    BY DEF Told, None
  <2>2. stdout[i] \in Emitted
    BY ElementOfSeq, LenProperties DEF Typed
  <2>3. stdout[i].task \in Tasks
    BY <2>1, <2>2, PipeTypes
  <2>4. QED
    BY <2>1, <2>3, TaskAssumption DEF Marked, Only
<1>3. ~Computing /\ ~Called
  BY TaskAssumption DEF Carried, Marked, Computing, Called
<1>4. QED
  BY <1>1, <1>2, <1>3

\* A command that is not a generate changes nothing of this.
LEMMA OtherCommand ==
  ASSUME Typed, NEW e \in Commands, e.kind # "generate"
  PROVE  LET q == Append(stdin, e) IN
         /\ None(q, {"generate"}) <=> None(stdin, {"generate"})
         /\ \A t : Only(stdin, {"generate"}, t) => Only(q, {"generate"}, t)
BY Written DEF Typed

\* Nor does an event that is not the end of a task.
LEMMA OtherEvent ==
  ASSUME Typed, NEW e \in Emitted, e.kind \notin TaskEvents
  PROVE  LET q == Append(stdout, e) IN
         /\ None(q, TaskEvents) <=> None(stdout, TaskEvents)
         /\ \A t : Only(stdout, TaskEvents, t) => Only(q, TaskEvents, t)
BY Written DEF Typed

\* A generate is written to, or an end emitted into, a pipe that has none.
LEMMA FirstCommand ==
  ASSUME Typed, NEW t \in Tasks, None(stdin, {"generate"})
  PROVE  Only(Append(stdin, [kind |-> "generate", task |-> t]), {"generate"}, t)
<1>1. [kind |-> "generate", task |-> t] \in Commands
  BY PipeTypes
<1>2. QED
  BY <1>1, Written DEF Typed

LEMMA FirstEvent ==
  ASSUME Typed, NEW t \in Tasks, NEW k \in TaskEvents, None(stdout, TaskEvents)
  PROVE  /\ Only(Append(stdout, [kind |-> k, task |-> t]), TaskEvents, t)
         /\ ~None(Append(stdout, [kind |-> k, task |-> t]), TaskEvents)
<1>1. [kind |-> k, task |-> t] \in Emitted
  BY PipeTypes
<1>2. QED
  BY <1>1, Written DEF Typed

\* Every action keeps one task on its way, in one place, and marked.
LEMMA MarkerStep ==
  ASSUME Typed, MarkerInv, [DaemonNext]_vars
  PROVE  MarkerInv'
<1>0. /\ NoTask \notin Tasks
      /\ sup \in SupRec /\ child \in ChildRec /\ reader \in ReaderRec
      /\ late \in [Callers -> CallRec]
  BY TaskAssumption DEF Typed
<1> USE <1>0 DEF MarkerInv, Carried, OnePlace, Marked, Ended, Supervised, Sent, Told, Called, Over,
        Computing, Dispatching, Handing, Goto, queue, pipes, SupRec, ChildRec, ReaderRec
<1>1. ASSUME NEW t \in Tasks, Dispatch(t)
       PROVE  MarkerInv'
  BY <1>1 DEF Dispatch
<1>2. CASE StartProcess
  <2>1. [kind |-> "ready", task |-> NoTask] \in Emitted /\ "ready" \notin TaskEvents
    BY PipeTypes DEF TaskEvents
  <2>2. ~Told' /\ Only(stdout', TaskEvents, marker')
    BY <1>2, <1>0, <2>1, Unmarked, OtherEvent DEF StartProcess, Emit, MarkerInv, Supervised, Marked, Told, Dispatching
  <2>3. child'.alive /\ child'.step = "none" /\ child'.worker = NoTask
    BY <1>2 DEF StartProcess, DeadChild
  <2>4. None(stdin', {"generate"}) /\ Only(stdin', {"generate"}, marker')
    BY <1>2, EmptyPipe DEF StartProcess
  <2>5. QED
    BY <1>2, <2>2, <2>3, <2>4, Unmarked DEF StartProcess
<1>3. CASE StartFails
  BY <1>3 DEF StartFails
<1>4. CASE AwaitReady
  BY <1>4 DEF AwaitReady
<1>5. CASE ClaimDaemon
  <2>1. ~Sent /\ ~Computing /\ ~Told /\ ~Called
    BY <1>5, Unmarked DEF ClaimDaemon
  <2>2. QED
    BY <1>5, <2>1, NoneIsOnly DEF ClaimDaemon
<1>6. CASE WriteRunning
  BY <1>6 DEF WriteRunning
<1>7. CASE SubmitLocked
  <2>1. /\ ~Sent /\ ~Computing /\ ~Told /\ ~Called /\ sup.pc = "submit"
        /\ UNCHANGED <<marker, stdin, stdout, child, reader, late>>
        /\ sup'.task = sup.task /\ sup'.pc \in {"write", "reject"}
    BY <1>7 DEF SubmitLocked
  <2>2. QED
    BY <2>1
<1>8. CASE SubmitWrite
  <2>1. ~Sent /\ ~Computing /\ ~Told /\ ~Called /\ sup.task \in Tasks /\ sup.pc = "write"
    BY <1>8 DEF SubmitWrite
  <2>2. UNCHANGED <<marker, stdout, child, reader, late>>
    BY <1>8 DEF SubmitWrite
  <2>3. CASE child.alive
    <3>1. /\ stdin' = Append(stdin, [kind |-> "generate", task |-> sup.task])
          /\ marker = sup.task /\ sup'.pc = "free"
      BY <1>8, <2>3 DEF SubmitWrite
    <3>2. None(stdin, {"generate"})
      BY <2>1, <2>3
    <3>3. Only(stdin', {"generate"}, marker')
      BY <2>1, <2>2, <3>1, <3>2, FirstCommand
    <3>4. QED
      BY <2>1, <2>2, <3>1, <3>3
  <2>4. CASE ~child.alive
    <3>1. stdin' = stdin /\ sup'.pc = "reject" /\ sup'.task = sup.task
      BY <1>8, <2>4 DEF SubmitWrite
    <3>2. QED
      BY <2>1, <2>2, <2>4, <3>1
  <2>5. QED
    BY <2>3, <2>4
<1>9. CASE YieldWrite
  <2>1. [kind |-> "unload", task |-> NoTask] \in Commands
    BY PipeTypes
  <2>2. Only(stdin, {"generate"}, marker) => Only(stdin', {"generate"}, marker)
    BY <1>9, <2>1, OtherCommand DEF YieldWrite
  <2>3. None(stdin', {"generate"}) <=> None(stdin, {"generate"})
    BY <1>9, <2>1, OtherCommand DEF YieldWrite
  <2>4. QED
    BY <1>9, <2>2, <2>3 DEF YieldWrite
<1>10. CASE YieldDaemon
  BY <1>10 DEF YieldDaemon, Unloading
<1>11. CASE UnloadButton
  BY <1>11 DEF UnloadButton, Unloading
<1>12. CASE IdleTimeout
  BY <1>12 DEF IdleTimeout
<1>13. CASE TaskTimeout
  BY <1>13 DEF TaskTimeout
<1>14. ASSUME NEW t \in Tasks, Cancel(t)
       PROVE  MarkerInv'
  BY <1>14 DEF Cancel
<1>15. CASE IdleUnload
  <2>1. late'["cancel"] = late["cancel"]
    BY <1>15, <1>0 DEF IdleUnload, Callers
  <2>2. QED
    BY <1>15, <2>1 DEF IdleUnload
<1>16. ASSUME NEW c \in {"button", "idle"}, UnloadWrite(c)
       PROVE  MarkerInv'
  <2>1. [kind |-> "unload", task |-> NoTask] \in Commands
    BY PipeTypes
  <2>2. Only(stdin, {"generate"}, marker) => Only(stdin', {"generate"}, marker)
    BY <1>16, <2>1, OtherCommand DEF UnloadWrite
  <2>3. None(stdin', {"generate"}) <=> None(stdin, {"generate"})
    BY <1>16, <2>1, OtherCommand DEF UnloadWrite
  <2>4. late'["cancel"] = late["cancel"]
    BY <1>16, <1>0 DEF UnloadWrite, Callers
  <2>5. QED
    BY <1>16, <2>2, <2>3, <2>4 DEF UnloadWrite
<1>17. CASE CancelWrite
  <2> DEFINE e == [kind |-> "cancel", task |-> late["cancel"].task]
  <2>1. e \in Commands /\ e.kind # "generate"
    BY <1>17, PipeTypes DEF CancelWrite
  <2>2. Only(stdin, {"generate"}, marker) => Only(stdin', {"generate"}, marker)
    BY <1>17, <2>1, OtherCommand DEF CancelWrite
  <2>3. None(stdin', {"generate"}) <=> None(stdin, {"generate"})
    BY <1>17, <2>1, OtherCommand DEF CancelWrite
  <2>4. late'["cancel"] = NoCall
    BY <1>17, <1>0 DEF CancelWrite, Callers
  <2>5. QED
    BY <1>17, <2>2, <2>3, <2>4 DEF CancelWrite
<1>18. CASE Kill
  BY <1>18 DEF Kill, Dies
<1>19. CASE ReadCommand
  <2> DEFINE c == Head(stdin)
  <2>1. UNCHANGED <<sup, marker, late, reader>> /\ child.alive /\ child.main = "read" /\ stdin' = Tail(stdin)
    BY <1>19 DEF ReadCommand
  <2>2. /\ None(stdin, {"generate"}) => None(stdin', {"generate"}) /\ c.kind # "generate"
        /\ \A t : Only(stdin, {"generate"}, t) => Only(stdin', {"generate"}, t)
        /\ \A t : Only(stdin, {"generate"}, t) /\ c.kind = "generate" => None(stdin', {"generate"}) /\ c.task = t
    <3>1. stdin \in Seq(Commands) /\ stdin # <<>>
      BY <1>19 DEF ReadCommand, Typed
    <3>2. QED
      BY <2>1, <3>1, Taken
  <2>3. CASE /\ c.kind = "generate" /\ c.task \in Tasks /\ child.worker = NoTask /\ stdout' = stdout
             /\ child' = [child EXCEPT !.worker = c.task, !.step = "load", !.cancel = FALSE]
    BY <1>0, <2>1, <2>2, <2>3
  <2>4. CASE /\ c.kind = "generate" /\ c.task \in Tasks /\ child.worker # NoTask /\ child' = child
             /\ stdout' = Append(stdout, [kind |-> "error", task |-> c.task])
    <3>1. Sent /\ ~Computing /\ ~Told /\ ~Called /\ c.task = marker /\ None(stdin', {"generate"})
      BY <2>1, <2>2, <2>4
    <3>2. Only(stdout', TaskEvents, marker)
      BY <2>4, <3>1, FirstEvent DEF Told, TaskEvents
    <3>3. QED
      BY <1>0, <2>1, <2>4, <3>1, <3>2, NoneIsOnly
  <2>5. CASE /\ stdout' = stdout
             /\ \/ child' = [child EXCEPT !.cancel = child.cancel \/ (child.worker = c.task)]
                \/ child' = [child EXCEPT !.resident = FALSE, !.main = "unloaded"]
    <3>1. /\ child'.alive = child.alive /\ child'.step = child.step /\ child'.worker = child.worker
      BY <1>0, <2>5
    <3>2. QED
      BY <2>1, <2>2, <2>5, <3>1
  <2>6. QED
    BY <1>19, <2>3, <2>4, <2>5, CommandForms
<1>20. CASE EmitUnloaded
  <2>1. [kind |-> "unloaded", task |-> NoTask] \in Emitted /\ "unloaded" \notin TaskEvents
    BY PipeTypes DEF TaskEvents
  <2>2. /\ Only(stdout, TaskEvents, marker) => Only(stdout', TaskEvents, marker)
        /\ None(stdout', TaskEvents) <=> None(stdout, TaskEvents)
    BY <1>20, <2>1, OtherEvent DEF EmitUnloaded, Emit
  <2>3. QED
    BY <1>20, <2>2 DEF EmitUnloaded
<1>21. CASE ReuseModel
  BY <1>21 DEF ReuseModel
<1>22. CASE UnloadForReload
  BY <1>22 DEF UnloadForReload
<1>23. CASE LoadModel
  BY <1>23 DEF LoadModel
<1>24. CASE EmitLoaded
  <2>1. [kind |-> "loaded", task |-> NoTask] \in Emitted /\ "loaded" \notin TaskEvents
    BY PipeTypes DEF TaskEvents
  <2>2. /\ Only(stdout, TaskEvents, marker) => Only(stdout', TaskEvents, marker)
        /\ None(stdout', TaskEvents) <=> None(stdout, TaskEvents)
    BY <1>24, <2>1, OtherEvent DEF EmitLoaded, Emit
  <2>3. QED
    BY <1>24, <2>2 DEF EmitLoaded
<1>25. ASSUME NEW k \in TaskEvents, EmitEnd(k)
       PROVE  MarkerInv'
  <2>1. Computing /\ child.worker = marker /\ marker \in Tasks /\ ~Told /\ ~Sent /\ ~Called
    BY <1>25 DEF EmitEnd
  <2>2. Only(stdout', TaskEvents, marker) /\ ~None(stdout', TaskEvents)
    BY <1>25, <2>1, FirstEvent DEF EmitEnd, Emit, Told
  <2>3. QED
    BY <1>25, <2>1, <2>2 DEF EmitEnd
<1>26. CASE ClearWorker
  BY <1>26 DEF ClearWorker
<1>27. CASE ProcessDies
  BY <1>27 DEF ProcessDies, Dies
<1>28. CASE ReadEvent
  <2> DEFINE e == Head(stdout)
  <2>1. /\ UNCHANGED <<sup, marker, late, stdin, child>> /\ reader.pc = "read" /\ stdout' = Tail(stdout)
        /\ stdout # <<>>
    BY <1>28 DEF ReadEvent
  <2>2. /\ None(stdout, TaskEvents) => None(stdout', TaskEvents) /\ e.kind \notin TaskEvents
        /\ \A t : Only(stdout, TaskEvents, t) => Only(stdout', TaskEvents, t)
        /\ \A t : Only(stdout, TaskEvents, t) /\ e.kind \in TaskEvents => None(stdout', TaskEvents) /\ e.task = t
    BY <2>1, Taken DEF Typed
  <2>3. CASE reader' = reader
    BY <2>1, <2>2, <2>3
  <2>4. CASE /\ e.kind \in TaskEvents /\ e.task \in Tasks
             /\ reader' = [pc |-> "callback", task |-> e.task, st |-> Verdict(e.kind), exit |-> FALSE]
    BY <2>1, <2>2, <2>4
  <2>5. QED
    BY <1>28, <2>3, <2>4, EventForms
<1>29. CASE ReadEof
  <2>1. /\ UNCHANGED <<sup, marker, late, stdin, stdout, child>> /\ ~child.alive /\ stdout = <<>>
    BY <1>29 DEF ReadEof, queue, pipes
  <2>2. \/ reader' = [Waiting EXCEPT !.pc = "stopped"]
        \/ /\ reader' = [pc |-> "callback", task |-> proxy.active, st |-> "failed", exit |-> TRUE]
           /\ proxy.active \in Tasks
    BY <1>29, ProxyFields DEF ReadEof, Typed, TaskOrNone
  <2>3. None(stdout, TaskEvents) /\ ~Computing /\ ~Sent
    BY <2>1, EmptyPipe
  <2>4. QED
    BY <2>1, <2>2, <2>3 DEF Waiting
<1>30. CASE TaskCallback
  <2>1. /\ UNCHANGED <<sup, late, stdin, stdout, child>> /\ reader.pc \in {"callback", "left"}
        /\ reader'.pc = "record" /\ reader'.task = reader.task /\ reader'.exit = reader.exit
        /\ marker' \in {marker, NoTask} /\ (marker' # marker => marker = reader.task)
    BY <1>30 DEF TaskCallback, Released
  <2>2. ~Sent /\ ~Computing /\ ~Told
    <3>1. CASE Over
      BY <3>1, EmptyPipe
    <3>2. CASE ~Over
      BY <2>1, <3>2
    <3>3. QED
      BY <3>1, <3>2
  <2>3. sup.pc \in Handing => ~child.alive
    <3>1. CASE Over
      BY <3>1
    <3>2. CASE ~Over
      BY <2>1, <3>2
    <3>3. QED
      BY <3>1, <3>2
  <2>4. ~Called' /\ (Over' => Over)
    BY <2>1
  <2>5. Only(stdout', TaskEvents, marker') /\ None(stdout', TaskEvents)
    BY <2>1, <2>2, NoneIsOnly
  <2>6. child.alive => None(stdin', {"generate"}) /\ Only(stdin', {"generate"}, marker')
    BY <2>1, <2>2, NoneIsOnly
  <2>7. QED
    BY <2>1, <2>2, <2>3, <2>4, <2>5, <2>6
<1>31. CASE StoppedListener
  <2>1. /\ UNCHANGED <<sup, late, marker, stdin, stdout, child>> /\ reader.pc = "stopped"
        /\ ~child.alive /\ stdout = <<>>
    BY <1>31 DEF StoppedListener
  <2>2. /\ reader'.pc \in {"read", "left"} /\ ~reader'.exit
        /\ reader'.pc = "left" => reader'.task \in Tasks
    BY <1>31 DEF StoppedListener, Waiting, Typed, TaskOrNone
  <2>3. QED
    BY <2>1, <2>2
<1>32. CASE RejectTask
  <2>1. /\ UNCHANGED <<late, stdin, stdout, child, reader>> /\ sup.pc = "reject" /\ marker' = NoTask
        /\ sup'.pc = "reject_write" /\ sup'.task = sup.task
    BY <1>32 DEF RejectTask, Released
  <2>2. ~Sent /\ ~Computing /\ ~Told /\ ~Called
    BY <2>1
  <2>3. QED
    BY <2>1, <2>2, NoneIsOnly
<1>33. CASE WriteRejected
  BY <1>33 DEF WriteRejected
<1>34. CASE RecordEnd
  <2>1. /\ UNCHANGED <<sup, late, marker, stdin, stdout, child>>
        /\ reader'.pc \in {"read", "stopped"} /\ ~reader'.exit
        /\ reader'.pc = "stopped" => reader.exit
    BY <1>34 DEF RecordEnd, Waiting
  <2>2. QED
    BY <2>1
<1>35. CASE UNCHANGED vars
  BY <1>35 DEF vars
<1>36. QED
  BY <1>1, <1>2, <1>3, <1>4, <1>5, <1>6, <1>7, <1>8, <1>9, <1>10, <1>11, <1>12, <1>13, <1>14,
     <1>15, <1>16, <1>17, <1>18, <1>19, <1>20, <1>21, <1>22, <1>23, <1>24, <1>25, <1>26, <1>27,
     <1>28, <1>29, <1>30, <1>31, <1>32, <1>33, <1>34, <1>35
     DEF DaemonNext, Supervise, LateCalls, MainLoop, Worker, Reader

--------------------------------------------------------------------------------
(* The rows, when the process dies only at work *)

\* A process that has been handed nothing lives; the proxy knows at most the marked
\* task.
Current ==
  /\ proxy.proc <=> proxy.state # "stopped"
  /\ Over => ~proxy.proc
  /\ reader.pc \in {"callback", "stopped", "left"} => proxy.active = NoTask
  /\ proxy.active # NoTask => proxy.active = marker /\ proxy.proc
  /\ reader.exit /\ reader.pc = "callback" => reader.task = marker
  /\ reader.pc = "left" => reader.task = marker
  /\ sup.pc \in Dispatching \cup {"running", "submit", "reject"} => proxy.active = NoTask
  /\ sup.pc = "start" => ~proxy.proc
  /\ sup.pc \in {"wait", "claim"} \cup Handing => proxy.proc /\ child.alive
  /\ sup.pc \in Dispatching \cup Handing => late["kill"] = NoCall

\* A process that has not been handed the task lives until it has been.
LEMMA CurrentStep ==
  ASSUME Faults = {}, Typed, MarkerInv, Current, [DaemonNext]_vars
  PROVE  Current'
<1>0. /\ NoTask \notin Tasks
      /\ sup \in SupRec /\ child \in ChildRec /\ reader \in ReaderRec /\ proxy \in ProxyRec
      /\ late \in [Callers -> CallRec]
      /\ child.step # "none" => child.alive
      /\ reader.exit => reader.pc \in {"callback", "record"}
      /\ sup.pc \in Dispatching \cup Handing => ~Computing
  <2>1. sup.pc \in Dispatching => ~Computing
    BY Unmarked DEF MarkerInv, Supervised
  <2>2. QED
    BY <2>1, TaskAssumption DEF Typed, MarkerInv, Carried, Supervised
<1> USE <1>0 DEF Current, Over, Dispatching, Handing, Goto, queue, pipes, SupRec, ChildRec, ReaderRec, ProxyRec
<1>1. ASSUME NEW t \in Tasks, Dispatch(t)
       PROVE  Current'
  BY <1>1 DEF Dispatch, CaughtUp, Callers
<1>2. CASE StartProcess
  BY <1>2 DEF StartProcess, DeadChild
<1>3. CASE StartFails
  BY <1>3 DEF StartFails
<1>4. CASE AwaitReady
  BY <1>4 DEF AwaitReady
<1>5. CASE ClaimDaemon
  BY <1>5 DEF ClaimDaemon
<1>6. CASE WriteRunning
  BY <1>6 DEF WriteRunning
<1>7. CASE SubmitLocked
  <2>1. /\ UNCHANGED <<late, reader, child, marker>> /\ sup.pc = "submit" /\ sup.task \in Tasks
        /\ marker = sup.task /\ ~Called /\ proxy.active = NoTask
        /\ sup'.pc \in {"write", "reject"}
    BY <1>7 DEF SubmitLocked, MarkerInv, Supervised, Carried
  <2>2. reader.pc \in {"read", "record"} /\ ~reader.exit
    BY <2>1 DEF Called
  <2>3. CASE proxy' = proxy
    BY <2>1, <2>2, <2>3
  <2>4. CASE /\ proxy' = [proxy EXCEPT !.state = "busy", !.active = sup.task, !.exposed = UnloadOnItsWay]
             /\ sup'.pc = "write"
    BY <2>1, <2>2, <2>4
  <2>5. proxy.proc
    BY <2>1
  <2>6. QED
    BY <1>7, <2>1, <2>3, <2>4, <2>5 DEF SubmitLocked
<1>8. CASE SubmitWrite
  BY <1>8 DEF SubmitWrite
<1>9. CASE YieldWrite
  BY <1>9 DEF YieldWrite
<1>10. CASE YieldDaemon
  BY <1>10 DEF YieldDaemon, Unloading, MayUnload
<1>11. CASE UnloadButton
  BY <1>11 DEF UnloadButton, Unloading, MayUnload
<1>12. CASE IdleTimeout
  BY <1>12 DEF IdleTimeout
<1>13. CASE TaskTimeout
  BY <1>13 DEF TaskTimeout
<1>14. ASSUME NEW t \in Tasks, Cancel(t)
       PROVE  Current'
  BY <1>14 DEF Cancel
<1>15. CASE IdleUnload
  <2>1. late'["kill"] = late["kill"]
    BY <1>15 DEF IdleUnload, Callers
  <2>2. /\ UNCHANGED <<sup, marker, reader, child>>
        /\ \/ proxy' = proxy
           \/ proxy' = [proxy EXCEPT !.state = "unloading"] /\ proxy.proc
    BY <1>15 DEF IdleUnload, MayUnload
  <2>3. QED
    BY <2>1, <2>2
<1>16. ASSUME NEW c \in {"button", "idle"}, UnloadWrite(c)
       PROVE  Current'
  BY <1>16 DEF UnloadWrite
<1>17. CASE CancelWrite
  BY <1>17 DEF CancelWrite
<1>18. CASE Kill
  BY <1>18 DEF Kill, Dies
<1>19. CASE ReadCommand
  BY <1>19, CommandForms DEF ReadCommand
<1>20. CASE EmitUnloaded
  BY <1>20 DEF EmitUnloaded
<1>21. CASE ReuseModel
  BY <1>21 DEF ReuseModel
<1>22. CASE UnloadForReload
  BY <1>22 DEF UnloadForReload
<1>23. CASE LoadModel
  BY <1>23 DEF LoadModel
<1>24. CASE EmitLoaded
  BY <1>24 DEF EmitLoaded
<1>25. ASSUME NEW k \in TaskEvents, EmitEnd(k)
       PROVE  Current'
  BY <1>25 DEF EmitEnd
<1>26. CASE ClearWorker
  BY <1>26 DEF ClearWorker
<1>27. CASE ProcessDies
  BY <1>27 DEF ProcessDies, Dies, MayDie
<1>28. CASE ReadEvent
  <2>1. UNCHANGED <<sup, marker, late, child>> /\ reader.pc = "read" /\ proxy.proc
    BY <1>28 DEF ReadEvent
  <2>2. CASE /\ reader' = reader
             /\ \/ proxy' = [proxy EXCEPT !.state = "idle", !.loaded = FALSE]
                \/ proxy' = [proxy EXCEPT !.state = "idle", !.loaded = FALSE, !.exposed = proxy.active # NoTask]
                \/ proxy' = [proxy EXCEPT !.loaded = TRUE]
                \/ proxy' = proxy
    BY <2>1, <2>2
  <2>3. CASE /\ reader' = [pc |-> "callback", task |-> Head(stdout).task,
                            st |-> Verdict(Head(stdout).kind), exit |-> FALSE]
             /\ proxy' = [proxy EXCEPT !.active = NoTask, !.state = "idle", !.exposed = FALSE]
    BY <2>1, <2>3
  <2>4. QED
    BY <1>28, <2>2, <2>3, EventForms
<1>29. CASE ReadEof
  BY <1>29 DEF ReadEof, Waiting, Stopped
<1>30. CASE TaskCallback
  <2>1. /\ UNCHANGED <<proxy, late, sup, child>> /\ reader.pc \in {"callback", "left"}
        /\ reader'.pc = "record" /\ reader'.exit = reader.exit /\ proxy.active = NoTask
    BY <1>30 DEF TaskCallback
  <2>2. QED
    BY <2>1
<1>31. CASE StoppedListener
  <2>1. /\ UNCHANGED <<proxy, late, sup, child, marker>> /\ reader.pc = "stopped" /\ ~reader'.exit
        /\ reader'.pc \in {"read", "left"} /\ (reader'.pc = "left" => reader'.task = marker)
    BY <1>31 DEF StoppedListener, Waiting
  <2>2. QED
    BY <2>1
<1>32. CASE RejectTask
  <2>1. UNCHANGED <<proxy, late, child, reader>> /\ sup.pc = "reject" /\ sup'.pc = "reject_write"
    BY <1>32 DEF RejectTask
  <2>2. proxy.active = NoTask /\ reader.pc \in {"read", "record"} /\ ~reader.exit
    BY <2>1 DEF MarkerInv, Supervised, Called
  <2>3. QED
    BY <2>1, <2>2
<1>33. CASE WriteRejected
  BY <1>33 DEF WriteRejected
<1>34. CASE RecordEnd
  <2>1. /\ UNCHANGED <<proxy, late, sup, child, marker>> /\ ~reader'.exit
        /\ \/ reader'.pc = "read"
           \/ reader'.pc = "stopped" /\ reader.exit
    BY <1>34 DEF RecordEnd, Waiting
  <2>2. QED
    BY <2>1
<1>35. CASE UNCHANGED vars
  BY <1>35 DEF vars
<1>36. QED
  BY <1>1, <1>2, <1>3, <1>4, <1>5, <1>6, <1>7, <1>8, <1>9, <1>10, <1>11, <1>12, <1>13, <1>14,
     <1>15, <1>16, <1>17, <1>18, <1>19, <1>20, <1>21, <1>22, <1>23, <1>24, <1>25, <1>26, <1>27,
     <1>28, <1>29, <1>30, <1>31, <1>32, <1>33, <1>34, <1>35
     DEF DaemonNext, Supervise, LateCalls, MainLoop, Worker, Reader

\* The marker and the rows: a task that is marked has been taken, or is about to be; one
\* that was taken and is no longer marked has a thread that is to write its verdict.
Rows ==
  /\ \A t \in Tasks : status[t] = "taken" =>
       \/ marker = t
       \/ reader.pc = "record" /\ reader.task = t
       \/ sup.pc = "reject_write" /\ sup.task = t
  /\ marker # NoTask => status[marker] = "taken" \/ sup.pc = "running"
  /\ reader.pc = "record" => status[reader.task] = "taken" /\ reader.task # marker
  /\ sup.pc = "reject_write" => status[sup.task] = "taken"
  /\ reader.pc = "record" /\ sup.pc = "reject_write" => reader.task # sup.task
  /\ sup.pc \in Dispatching \cup {"running"} => status[sup.task] = "new"

\* A cancellation on its way, wherever it is, was asked for.
AskedFor ==
  /\ child.cancel => child.worker \in asked
  /\ late["cancel"] # NoCall => late["cancel"].task \in asked
  /\ AllFor(stdin, "cancel", asked) /\ AllFor(stdout, "canceled", asked)
  /\ reader.pc \in {"callback", "left", "record"} /\ reader.st = "canceled" => reader.task \in asked

\* More cancellations asked for, and what the pipes carry of them.
LEMMA MoreAsked ==
  ASSUME NEW q, NEW kind, NEW ts, NEW us, ts \subseteq us, AllFor(q, kind, ts)
  PROVE  AllFor(q, kind, us)
BY DEF AllFor

LEMMA AskedPipes ==
  ASSUME Typed, AskedFor
  PROVE  /\ \A e \in Commands : (e.kind = "cancel" => e.task \in asked) => AllFor(Append(stdin, e), "cancel", asked)
         /\ \A e \in Emitted : (e.kind = "canceled" => e.task \in asked) => AllFor(Append(stdout, e), "canceled", asked)
         /\ stdin # <<>> => /\ AllFor(Tail(stdin), "cancel", asked)
                            /\ Head(stdin).kind = "cancel" => Head(stdin).task \in asked
         /\ stdout # <<>> => /\ AllFor(Tail(stdout), "canceled", asked)
                             /\ Head(stdout).kind = "canceled" => Head(stdout).task \in asked
<1>1. stdin \in Seq(Commands) /\ stdout \in Seq(Emitted)
  BY DEF Typed
<1>2. AllFor(stdin, "cancel", asked) /\ AllFor(stdout, "canceled", asked)
  BY DEF AskedFor
<1>3. ASSUME NEW S, NEW q \in Seq(S), NEW e \in S
      PROVE  \A kind, ts : AllFor(Append(q, e), kind, ts) <=>
                             AllFor(q, kind, ts) /\ (e.kind = kind => e.task \in ts)
  BY Written
<1>4. ASSUME NEW S, NEW q \in Seq(S), q # <<>>
      PROVE  \A kind, ts : AllFor(q, kind, ts) =>
                             AllFor(Tail(q), kind, ts) /\ (Head(q).kind = kind => Head(q).task \in ts)
  BY <1>4, Taken
<1>5. QED
  BY <1>1, <1>2, <1>3, <1>4

\* The rows follow the marker.
LEMMA RowsStep ==
  ASSUME Faults = {}, Typed, MarkerInv, Current, Rows, [DaemonNext]_vars
  PROVE  Rows'
<1>0. /\ NoTask \notin Tasks /\ marker \in TaskOrNone
      /\ status \in [Tasks -> {"new", "taken", "done", "failed", "canceled"}] /\ sup \in SupRec
      /\ sup.pc \in Dispatching \cup {"reject_write"} => marker = NoTask
      /\ sup.pc \in Handing => marker = sup.task
      /\ sup.pc \in Dispatching \cup Handing \cup {"reject_write"} => sup.task \in Tasks
      /\ reader.pc \in {"callback", "left"} => reader.task = marker /\ sup.pc \notin Handing
      /\ reader.pc = "stopped" => sup.pc \notin Handing
      /\ reader.pc \in {"callback", "left", "record"} => reader.task \in Tasks
  BY TaskAssumption DEF Typed, MarkerInv, Carried, Marked, Supervised, Current, Called, Over, Handing, Dispatching
<1> USE <1>0 DEF Rows, Dispatching, Handing, Goto, queue, pipes, SupRec, TaskOrNone
<1>1. ASSUME NEW t \in Tasks, Dispatch(t)
       PROVE  Rows'
  BY <1>1 DEF Dispatch, CaughtUp, Callers
<1>2. CASE StartProcess
  BY <1>2 DEF StartProcess, DeadChild
<1>3. CASE StartFails
  BY <1>3 DEF StartFails
<1>4. CASE AwaitReady
  BY <1>4 DEF AwaitReady
<1>5. CASE ClaimDaemon
  BY <1>5 DEF ClaimDaemon
<1>6. CASE WriteRunning
  BY <1>6 DEF WriteRunning
<1>7. CASE SubmitLocked
  BY <1>7 DEF SubmitLocked
<1>8. CASE SubmitWrite
  BY <1>8 DEF SubmitWrite
<1>9. CASE YieldWrite
  BY <1>9 DEF YieldWrite
<1>10. CASE YieldDaemon
  BY <1>10 DEF YieldDaemon, Unloading, MayUnload
<1>11. CASE UnloadButton
  BY <1>11 DEF UnloadButton, Unloading, MayUnload
<1>12. CASE IdleTimeout
  BY <1>12 DEF IdleTimeout
<1>13. CASE TaskTimeout
  BY <1>13 DEF TaskTimeout
<1>14. ASSUME NEW t \in Tasks, Cancel(t)
       PROVE  Rows'
  BY <1>14 DEF Cancel
<1>15. CASE IdleUnload
  BY <1>15 DEF IdleUnload, MayUnload
<1>16. ASSUME NEW c \in {"button", "idle"}, UnloadWrite(c)
       PROVE  Rows'
  BY <1>16 DEF UnloadWrite
<1>17. CASE CancelWrite
  BY <1>17 DEF CancelWrite
<1>18. CASE Kill
  BY <1>18 DEF Kill, Dies
<1>19. CASE ReadCommand
  BY <1>19, CommandForms DEF ReadCommand
<1>20. CASE EmitUnloaded
  BY <1>20 DEF EmitUnloaded
<1>21. CASE ReuseModel
  BY <1>21 DEF ReuseModel
<1>22. CASE UnloadForReload
  BY <1>22 DEF UnloadForReload
<1>23. CASE LoadModel
  BY <1>23 DEF LoadModel
<1>24. CASE EmitLoaded
  BY <1>24 DEF EmitLoaded
<1>25. ASSUME NEW k \in TaskEvents, EmitEnd(k)
       PROVE  Rows'
  BY <1>25 DEF EmitEnd
<1>26. CASE ClearWorker
  BY <1>26 DEF ClearWorker
<1>27. CASE ProcessDies
  BY <1>27 DEF ProcessDies, Dies, MayDie
<1>28. CASE ReadEvent
  BY <1>28, EventForms DEF ReadEvent
<1>29. CASE ReadEof
  BY <1>29 DEF ReadEof, Waiting, Stopped
<1>30. CASE TaskCallback
  <2>1. /\ reader.task = marker /\ marker \in Tasks /\ sup.pc \notin Handing /\ sup.pc \notin Dispatching
        /\ UNCHANGED <<sup, status>> /\ sup.pc # "reject_write"
        /\ reader'.pc = "record" /\ reader'.task = reader.task /\ marker' = NoTask
    BY <1>30 DEF TaskCallback, Released, MarkerInv, Carried, Typed
  <2>2. QED
    BY <2>1
<1>31. CASE StoppedListener
  <2>1. UNCHANGED <<sup, status, marker>> /\ reader.pc = "stopped" /\ reader'.pc \in {"read", "left"}
    BY <1>31 DEF StoppedListener, Waiting
  <2>2. QED
    BY <2>1
<1>32. CASE RejectTask
  <2>1. /\ UNCHANGED <<status, reader>> /\ sup.pc = "reject" /\ marker' = NoTask /\ sup.task \in Tasks
        /\ sup'.pc = "reject_write" /\ sup'.task = sup.task /\ marker = sup.task
    BY <1>32 DEF RejectTask, Released
  <2>2. QED
    BY <2>1
<1>33. CASE WriteRejected
  <2>1. /\ UNCHANGED <<marker, reader>> /\ sup.pc = "reject_write" /\ marker = NoTask /\ sup.task \in Tasks
        /\ status' = [status EXCEPT ![sup.task] = "failed"] /\ sup'.pc = "free"
    BY <1>33 DEF WriteRejected
  <2>2. QED
    BY <2>1
<1>34. CASE RecordEnd
  <2>1. /\ UNCHANGED <<marker, sup>> /\ reader.pc = "record" /\ reader.task \in Tasks
        /\ status' = [status EXCEPT ![reader.task] = reader.st] /\ reader'.pc \in {"read", "stopped"}
        /\ reader.st # "taken"
    BY <1>34, ReaderStatus DEF RecordEnd, Waiting, Typed
  <2>2. /\ sup.pc \in Dispatching \cup {"running"} => sup.task # reader.task
        /\ sup.pc = "reject_write" => sup.task # reader.task
    BY <2>1
  <2>3. QED
    BY <2>1, <2>2
<1>35. CASE UNCHANGED vars
  BY <1>35 DEF vars
<1>36. QED
  BY <1>1, <1>2, <1>3, <1>4, <1>5, <1>6, <1>7, <1>8, <1>9, <1>10, <1>11, <1>12, <1>13, <1>14,
     <1>15, <1>16, <1>17, <1>18, <1>19, <1>20, <1>21, <1>22, <1>23, <1>24, <1>25, <1>26, <1>27,
     <1>28, <1>29, <1>30, <1>31, <1>32, <1>33, <1>34, <1>35
     DEF DaemonNext, Supervise, LateCalls, MainLoop, Worker, Reader

\* Every action carries only cancellations that were asked for.
LEMMA AskedStep ==
  ASSUME Typed, MarkerInv, AskedFor, [DaemonNext]_vars
  PROVE  AskedFor'
<1>0. /\ child \in ChildRec /\ reader \in ReaderRec /\ late \in [Callers -> CallRec]
      /\ stdin \in Seq(Commands) /\ stdout \in Seq(Emitted) /\ NoTask \notin Tasks
      /\ asked \subseteq Tasks
  BY TaskAssumption DEF Typed
<1> USE <1>0 DEF AskedFor, Goto, queue, pipes, ReaderRec, ChildRec
<1>1. ASSUME NEW t \in Tasks, Dispatch(t)
       PROVE  AskedFor'
  BY <1>1 DEF Dispatch, CaughtUp, Callers
<1>2. CASE StartProcess
  <2>1. [kind |-> "ready", task |-> NoTask] \in Emitted
    BY PipeTypes
  <2>2. AllFor(stdout', "canceled", asked)
    BY <1>2, <2>1, AskedPipes DEF StartProcess, Emit
  <2>3. AllFor(stdin', "cancel", asked) /\ ~child'.cancel
    BY <1>2, EmptyPipe DEF StartProcess, DeadChild
  <2>4. QED
    BY <1>2, <2>2, <2>3 DEF StartProcess
<1>3. CASE StartFails
  BY <1>3 DEF StartFails
<1>4. CASE AwaitReady
  BY <1>4 DEF AwaitReady
<1>5. CASE ClaimDaemon
  BY <1>5 DEF ClaimDaemon
<1>6. CASE WriteRunning
  BY <1>6 DEF WriteRunning
<1>7. CASE SubmitLocked
  BY <1>7 DEF SubmitLocked
<1>8. CASE SubmitWrite
  <2>1. /\ sup.task \in Tasks /\ UNCHANGED <<late, asked, stdout, child, reader>>
        /\ stdin' = stdin \/ stdin' = Append(stdin, [kind |-> "generate", task |-> sup.task])
    BY <1>8 DEF SubmitWrite, MarkerInv, Carried, Handing
  <2>2. [kind |-> "generate", task |-> sup.task] \in Commands
    BY <2>1, PipeTypes
  <2>3. AllFor(stdin', "cancel", asked)
    BY <2>1, <2>2, AskedPipes
  <2>4. QED
    BY <2>1, <2>3
<1>9. CASE YieldWrite
  <2>1. [kind |-> "unload", task |-> NoTask] \in Commands
    BY PipeTypes
  <2>2. AllFor(stdin', "cancel", asked)
    BY <1>9, <2>1, AskedPipes DEF YieldWrite
  <2>3. QED
    BY <1>9, <2>2 DEF YieldWrite
<1>10. CASE YieldDaemon
  BY <1>10 DEF YieldDaemon, Unloading, MayUnload
<1>11. CASE UnloadButton
  BY <1>11 DEF UnloadButton, Unloading, MayUnload
<1>12. CASE IdleTimeout
  BY <1>12 DEF IdleTimeout
<1>13. CASE TaskTimeout
  BY <1>13 DEF TaskTimeout
<1>14. ASSUME NEW t \in Tasks, Cancel(t)
       PROVE  AskedFor'
  <2>1. /\ asked' = asked \cup {t} /\ UNCHANGED <<child, reader, stdin, stdout>>
        /\ late'["cancel"] = late["cancel"] \/ late'["cancel"] = [run |-> child.run, task |-> t]
    BY <1>14 DEF Cancel, Callers
  <2>2. AllFor(stdin', "cancel", asked') /\ AllFor(stdout', "canceled", asked')
    BY <2>1, MoreAsked
  <2>3. QED
    BY <2>1, <2>2 DEF NoCall
<1>15. CASE IdleUnload
  <2>1. late'["cancel"] = late["cancel"] /\ UNCHANGED <<asked, child, reader, stdin, stdout>>
    BY <1>15 DEF IdleUnload, Callers
  <2>2. QED
    BY <2>1
<1>16. ASSUME NEW c \in {"button", "idle"}, UnloadWrite(c)
       PROVE  AskedFor'
  <2>1. [kind |-> "unload", task |-> NoTask] \in Commands
    BY PipeTypes
  <2>2. AllFor(stdin', "cancel", asked)
    BY <1>16, <2>1, AskedPipes DEF UnloadWrite
  <2>3. late'["cancel"] = late["cancel"]
    BY <1>16 DEF UnloadWrite, Callers
  <2>4. QED
    BY <1>16, <2>2, <2>3 DEF UnloadWrite
<1>17. CASE CancelWrite
  <2> DEFINE t == late["cancel"].task
  <2>1. t \in Tasks /\ t \in asked
    BY <1>17 DEF CancelWrite, MarkerInv, Carried
  <2>2. [kind |-> "cancel", task |-> t] \in Commands
    BY <2>1, PipeTypes
  <2>3. AllFor(stdin', "cancel", asked)
    BY <1>17, <2>1, <2>2, AskedPipes DEF CancelWrite
  <2>4. late'["cancel"] = NoCall
    BY <1>17 DEF CancelWrite, Callers
  <2>5. QED
    BY <1>17, <2>3, <2>4 DEF CancelWrite
<1>18. CASE Kill
  BY <1>18 DEF Kill, Dies
<1>19. CASE ReadCommand
  <2> DEFINE c == Head(stdin)
  <2>1. /\ UNCHANGED <<asked, late, reader>> /\ stdin # <<>> /\ stdin' = Tail(stdin)
    BY <1>19 DEF ReadCommand
  <2>2. AllFor(stdin', "cancel", asked) /\ (c.kind = "cancel" => c.task \in asked)
    BY <2>1, AskedPipes
  <2>3. CASE stdout' = stdout /\ child' = [child EXCEPT !.worker = c.task, !.step = "load", !.cancel = FALSE]
    BY <2>1, <2>2, <2>3
  <2>4. CASE c.task \in Tasks /\ child' = child /\ stdout' = Append(stdout, [kind |-> "error", task |-> c.task])
    <3>1. [kind |-> "error", task |-> c.task] \in Emitted
      BY <2>4, PipeTypes DEF TaskEvents
    <3>2. AllFor(stdout', "canceled", asked)
      BY <2>4, <3>1, AskedPipes
    <3>3. QED
      BY <2>1, <2>2, <2>4, <3>2
  <2>5. CASE /\ c.kind = "cancel" /\ stdout' = stdout
             /\ child' = [child EXCEPT !.cancel = child.cancel \/ (child.worker = c.task)]
    BY <2>1, <2>2, <2>5
  <2>6. CASE stdout' = stdout /\ child' = [child EXCEPT !.resident = FALSE, !.main = "unloaded"]
    BY <2>1, <2>2, <2>6
  <2>7. QED
    BY <1>19, <2>3, <2>4, <2>5, <2>6, CommandForms
<1>20. CASE EmitUnloaded
  <2>1. [kind |-> "unloaded", task |-> NoTask] \in Emitted
    BY PipeTypes
  <2>2. AllFor(stdout', "canceled", asked)
    BY <1>20, <2>1, AskedPipes DEF EmitUnloaded, Emit
  <2>3. QED
    BY <1>20, <2>2 DEF EmitUnloaded
<1>21. CASE ReuseModel
  BY <1>21 DEF ReuseModel
<1>22. CASE UnloadForReload
  BY <1>22 DEF UnloadForReload
<1>23. CASE LoadModel
  BY <1>23 DEF LoadModel
<1>24. CASE EmitLoaded
  <2>1. [kind |-> "loaded", task |-> NoTask] \in Emitted
    BY PipeTypes
  <2>2. AllFor(stdout', "canceled", asked)
    BY <1>24, <2>1, AskedPipes DEF EmitLoaded, Emit
  <2>3. QED
    BY <1>24, <2>2 DEF EmitLoaded
<1>25. ASSUME NEW k \in TaskEvents, EmitEnd(k)
       PROVE  AskedFor'
  <2>1. child.worker \in Tasks /\ (k = "canceled" => child.worker \in asked)
    BY <1>25 DEF EmitEnd, MarkerInv, Carried
  <2>2. [kind |-> k, task |-> child.worker] \in Emitted
    BY <2>1, PipeTypes
  <2>3. AllFor(stdout', "canceled", asked)
    BY <1>25, <2>1, <2>2, AskedPipes DEF EmitEnd, Emit
  <2>4. QED
    BY <1>25, <2>3 DEF EmitEnd
<1>26. CASE ClearWorker
  BY <1>26 DEF ClearWorker
<1>27. CASE ProcessDies
  BY <1>27 DEF ProcessDies, Dies, MayDie
<1>28. CASE ReadEvent
  <2> DEFINE e == Head(stdout)
  <2>1. /\ UNCHANGED <<asked, late, child, stdin>> /\ stdout # <<>> /\ stdout' = Tail(stdout)
    BY <1>28 DEF ReadEvent
  <2>2. AllFor(stdout', "canceled", asked) /\ (e.kind = "canceled" => e.task \in asked)
    BY <2>1, AskedPipes
  <2>3. CASE reader' = reader
    BY <2>1, <2>2, <2>3
  <2>4. CASE reader' = [pc |-> "callback", task |-> e.task, st |-> Verdict(e.kind), exit |-> FALSE]
    <3>1. reader'.st = "canceled" => e.kind = "canceled"
      BY <2>4 DEF Verdict
    <3>2. QED
      BY <2>1, <2>2, <2>4, <3>1
  <2>5. QED
    BY <1>28, <2>3, <2>4, EventForms
<1>29. CASE ReadEof
  BY <1>29 DEF ReadEof, Waiting, Stopped
<1>30. CASE TaskCallback
  BY <1>30 DEF TaskCallback
<1>31. CASE StoppedListener
  BY <1>31 DEF StoppedListener, Waiting
<1>32. CASE RejectTask
  BY <1>32 DEF RejectTask
<1>33. CASE WriteRejected
  BY <1>33 DEF WriteRejected
<1>34. CASE RecordEnd
  BY <1>34 DEF RecordEnd, Waiting
<1>35. CASE UNCHANGED vars
  BY <1>35 DEF vars
<1>36. QED
  BY <1>1, <1>2, <1>3, <1>4, <1>5, <1>6, <1>7, <1>8, <1>9, <1>10, <1>11, <1>12, <1>13, <1>14,
     <1>15, <1>16, <1>17, <1>18, <1>19, <1>20, <1>21, <1>22, <1>23, <1>24, <1>25, <1>26, <1>27,
     <1>28, <1>29, <1>30, <1>31, <1>32, <1>33, <1>34, <1>35
     DEF DaemonNext, Supervise, LateCalls, MainLoop, Worker, Reader

\* The invariants hold at first.
LEMMA InitMarker == DaemonInit => Typed /\ MarkerInv /\ AskedFor
<1> SUFFICES ASSUME DaemonInit
             PROVE  Typed /\ MarkerInv /\ AskedFor
  OBVIOUS
<1>0. NoTask \in TaskOrNone /\ NoTask \notin Tasks /\ 0 \in 0..MaxProcs
  BY TaskAssumption, BoundAssumption DEF TaskOrNone
<1>1. /\ None(stdin, {"generate"}) /\ None(stdout, TaskEvents)
      /\ Only(stdin, {"generate"}, marker) /\ Only(stdout, TaskEvents, marker)
      /\ AllFor(stdin, "cancel", asked) /\ AllFor(stdout, "canceled", asked)
      /\ stdin \in Seq(Commands) /\ stdout \in Seq(Emitted)
  BY EmptyPipe, EmptySeq DEF DaemonInit
<1>2. proxy \in ProxyRec /\ timer \in TimerRec
  BY <1>0 DEF DaemonInit, ProxyRec, States, TimerRec, Stopped
<1>3. late \in [Callers -> CallRec] /\ sup \in SupRec
  BY <1>0 DEF DaemonInit, CallRec, NoCall, SupRec, SupPcs
<1>4. child \in ChildRec
  BY <1>0, ChildUpdates DEF DaemonInit, ChildRec, DeadChild, Steps
<1>5. reader \in ReaderRec
  BY <1>0 DEF DaemonInit, ReaderRec, Waiting
<1>6. Typed
  BY <1>0, <1>1, <1>2, <1>3, <1>4, <1>5 DEF Typed, DaemonInit
<1>7. /\ late["cancel"] = NoCall /\ child.step = "none" /\ child.worker = NoTask /\ ~child.alive
      /\ child.main = "read" /\ ~child.cancel /\ reader.pc = "read" /\ ~reader.exit /\ sup.pc = "free"
  BY DEF DaemonInit, Callers, DeadChild, Waiting
<1>8. MarkerInv
  BY <1>0, <1>1, <1>7 DEF MarkerInv, Carried, OnePlace, Marked, Ended, Supervised, Sent, Told, Called,
     Over, Computing, Dispatching, Handing
<1>9. QED
  BY <1>1, <1>6, <1>7, <1>8 DEF AskedFor

LEMMA InitRows == DaemonInit => Current /\ Rows
<1> SUFFICES ASSUME DaemonInit
             PROVE  Current /\ Rows
  OBVIOUS
<1>1. /\ proxy.state = "stopped" /\ ~proxy.proc /\ proxy.active = NoTask /\ reader.pc = "read"
      /\ ~reader.exit /\ sup.pc = "free" /\ marker = NoTask
  BY DEF DaemonInit, Stopped, Waiting
<1>2. QED
  BY <1>1 DEF DaemonInit, Current, Rows, Over, Dispatching, Handing

\* The type invariant, said with the named records.
LEMMA TypedIsTypeOK == Typed <=> DaemonTypeOK
BY DEF Typed, DaemonTypeOK, ProxyRec, TimerRec, CallRec, SupRec, SupPcs, ChildRec, ReaderRec, States, Steps

--------------------------------------------------------------------------------
(* The contract, step by step *)

\* A step of the service, or none.
Serves == [Service!Next]_(Service!vars)

\* Every step of the daemon is a step of the service, or leaves the rows, the marker and
\* the work alone.
LEMMA RefinementStep ==
  ASSUME Faults = {}, Typed, MarkerInv, AskedFor, Current, Rows, [DaemonNext]_vars
  PROVE  Serves
<1>0. /\ NoTask \notin Tasks /\ marker \in TaskOrNone
      /\ status \in [Tasks -> {"new", "taken", "done", "failed", "canceled"}]
      /\ sup.pc \in Dispatching \cup {"reject_write"} => marker = NoTask
      /\ sup.pc \in Handing => marker = sup.task
      /\ sup.pc \in Dispatching \cup Handing \cup {"reject_write"} => sup.task \in Tasks
      /\ reader.pc \in {"callback", "left"} => reader.task = marker /\ sup.pc \notin Handing
      /\ reader.pc = "stopped" => sup.pc \notin Handing
      /\ reader.pc \in {"callback", "left", "record"} => reader.task \in Tasks
      /\ sup.pc \in Dispatching \cup Handing \cup {"reject_write"} => ~Computing
      /\ reader.pc \in {"callback", "left"} => ~Computing /\ sup.pc # "reject_write"
      /\ Computing => child.worker = marker /\ marker \in Tasks
  <2>1. marker = NoTask => ~Computing
    BY Unmarked DEF MarkerInv
  <2>2. QED
    BY <2>1, TaskAssumption DEF Typed, MarkerInv, Carried, OnePlace, Marked, Ended, Supervised, Current,
       Called, Over, Handing, Dispatching, Computing
<1>1. ASSUME UNCHANGED <<status, asked, marker, AtWork>>
      PROVE  Serves
  BY <1>1 DEF Serves, Service!vars
<1>2. ASSUME UNCHANGED <<child, status, asked, marker>>
      PROVE  Serves
  BY <1>1, <1>2 DEF AtWork, Computing
<1>3. ASSUME UNCHANGED <<status, asked, marker>>, child'.worker = child.worker, Computing' <=> Computing
      PROVE  Serves
  BY <1>1, <1>3 DEF AtWork
<1>4. ASSUME UNCHANGED <<status, asked, marker>>, ~Computing'
      PROVE  Serves
  <2>1. AtWork' = NoTask
    BY <1>4 DEF AtWork
  <2>2. CASE Computing
    <3>1. AtWork # NoTask
      BY <1>0, <2>2 DEF AtWork
    <3>2. QED
      BY <1>4, <2>1, <3>1 DEF Serves, Service!Next, Service!Stop
  <2>3. CASE ~Computing
    BY <1>1, <1>4, <2>1, <2>3 DEF AtWork
  <2>4. QED
    BY <2>2, <2>3
<1>5. ASSUME NEW t \in Tasks, Service!Admit(t) \/ Service!Take(t) \/ Service!Refuse(t) \/ Service!Ask(t)
                                \/ Service!Begin(t) \/ Service!LetGo(t)
      PROVE  Serves
  BY <1>5 DEF Serves, Service!Next
<1>6. ASSUME NEW t \in Tasks, NEW v \in {"done", "failed", "canceled"}, Service!End(t, v)
      PROVE  Serves
  BY <1>6 DEF Serves, Service!Next, Service!Verdicts
<1> USE DEF Dispatching, Handing, Goto, queue, pipes
<1>7. ASSUME NEW t \in Tasks, Dispatch(t)
      PROVE  Serves
  BY <1>2, <1>7 DEF Dispatch
<1>8. CASE StartProcess
  BY <1>4, <1>8 DEF StartProcess, DeadChild, Computing
<1>9. CASE StartFails
  <2>1. Service!Refuse(sup.task) /\ sup.task \in Tasks
    BY <1>0, <1>9 DEF StartFails, Service!Refuse, AtWork, Computing, Rows
  <2>2. QED
    BY <1>5, <2>1
<1>10. CASE AwaitReady
  <2>1. CASE UNCHANGED status
    BY <1>2, <1>10, <2>1 DEF AwaitReady
  <2>2. CASE status' = [status EXCEPT ![sup.task] = "failed"]
    <3>1. Service!Refuse(sup.task) /\ sup.task \in Tasks
      BY <1>0, <1>10, <2>2 DEF AwaitReady, Service!Refuse, AtWork, Computing, Rows
    <3>2. QED
      BY <1>5, <3>1
  <2>3. QED
    BY <1>10, <2>1, <2>2 DEF AwaitReady
<1>11. CASE ClaimDaemon
  <2>1. Service!Admit(sup.task) /\ sup.task \in Tasks
    BY <1>0, <1>11 DEF ClaimDaemon, Service!Admit, AtWork, Computing, Rows
  <2>2. QED
    BY <1>5, <2>1
<1>12. CASE WriteRunning
  <2>1. Service!Take(sup.task) /\ sup.task \in Tasks
    BY <1>0, <1>12 DEF WriteRunning, Service!Take, AtWork, Computing, Rows
  <2>2. QED
    BY <1>5, <2>1
<1>13. CASE SubmitLocked
  BY <1>2, <1>13 DEF SubmitLocked
<1>14. CASE SubmitWrite
  BY <1>2, <1>14 DEF SubmitWrite
<1>15. CASE YieldWrite
  BY <1>2, <1>15 DEF YieldWrite
<1>16. CASE YieldDaemon
  BY <1>2, <1>16 DEF YieldDaemon
<1>17. CASE UnloadButton
  BY <1>2, <1>17 DEF UnloadButton
<1>18. CASE IdleTimeout
  BY <1>2, <1>18 DEF IdleTimeout
<1>19. CASE TaskTimeout
  BY <1>2, <1>19 DEF TaskTimeout
<1>20. ASSUME NEW t \in Tasks, Cancel(t)
       PROVE  Serves
  <2>1. Service!Ask(t)
    BY <1>20 DEF Cancel, Service!Ask, AtWork, Computing
  <2>2. QED
    BY <1>5, <2>1
<1>21. CASE IdleUnload
  BY <1>2, <1>21 DEF IdleUnload
<1>22. ASSUME NEW c \in {"button", "idle"}, UnloadWrite(c)
       PROVE  Serves
  BY <1>2, <1>22 DEF UnloadWrite
<1>23. CASE CancelWrite
  BY <1>2, <1>23 DEF CancelWrite
<1>24. CASE Kill
  <2>1. CASE child' = child
    BY <1>2, <1>24, <2>1 DEF Kill
  <2>2. CASE child' = Dies
    BY <1>4, <1>24, <2>2 DEF Kill, Dies, Computing, Typed, ChildRec
  <2>3. QED
    BY <1>24, <2>1, <2>2 DEF Kill
<1>25. CASE ReadCommand
  <2> DEFINE c == Head(stdin)
  <2>1. /\ UNCHANGED <<status, asked, marker, sup>> /\ child.alive /\ child \in ChildRec
        /\ stdin \in Seq(Commands) /\ stdin # <<>>
    BY <1>25 DEF ReadCommand, Typed
  <2>2. CASE /\ c.kind = "generate" /\ c.task \in Tasks /\ child.worker = NoTask
             /\ child' = [child EXCEPT !.worker = c.task, !.step = "load", !.cancel = FALSE]
    <3>1. Sent
      BY <2>1, <2>2, Taken DEF Sent
    <3>2. c.task = marker /\ sup.pc \notin Handing /\ ~Computing
      BY <2>1, <2>2, <3>1, Taken DEF MarkerInv, Marked, OnePlace, Supervised
    <3>3. status[marker] = "taken"
      BY <1>0, <2>2, <3>2 DEF Rows
    <3>4. AtWork = NoTask /\ AtWork' = c.task
      BY <2>1, <2>2, <3>2 DEF AtWork, Computing, ChildRec
    <3>5. Service!Begin(c.task)
      BY <2>1, <3>2, <3>3, <3>4 DEF Service!Begin
    <3>6. QED
      BY <1>5, <2>2, <3>5
  <2>3. CASE \/ child' = child
             \/ child' = [child EXCEPT !.cancel = child.cancel \/ (child.worker = c.task)]
             \/ child' = [child EXCEPT !.resident = FALSE, !.main = "unloaded"]
    <3>1. child'.worker = child.worker /\ child'.step = child.step
      BY <2>1, <2>3 DEF ChildRec
    <3>2. QED
      BY <1>3, <2>1, <3>1 DEF Computing
  <2>4. QED
    BY <1>25, <2>2, <2>3, CommandForms
<1>26. CASE EmitUnloaded
  BY <1>3, <1>26 DEF EmitUnloaded, Computing, Typed, ChildRec
<1>27. CASE ReuseModel
  BY <1>3, <1>27 DEF ReuseModel, Computing, Typed, ChildRec
<1>28. CASE UnloadForReload
  BY <1>3, <1>28 DEF UnloadForReload, Computing, Typed, ChildRec
<1>29. CASE LoadModel
  BY <1>3, <1>29 DEF LoadModel, Computing, Typed, ChildRec
<1>30. CASE EmitLoaded
  BY <1>3, <1>30 DEF EmitLoaded, Computing, Typed, ChildRec
<1>31. ASSUME NEW k \in TaskEvents, EmitEnd(k)
       PROVE  Serves
  BY <1>4, <1>31 DEF EmitEnd, Computing, Typed, ChildRec
<1>32. CASE ClearWorker
  BY <1>4, <1>32 DEF ClearWorker, Computing, Typed, ChildRec
<1>33. CASE ProcessDies
  BY <1>4, <1>33 DEF ProcessDies, Dies, Computing, Typed, ChildRec
<1>34. CASE ReadEvent
  BY <1>2, <1>34 DEF ReadEvent
<1>35. CASE ReadEof
  BY <1>2, <1>35 DEF ReadEof
<1>36. CASE TaskCallback
  <2>1. /\ reader.task = marker /\ marker \in Tasks /\ status[marker] = "taken" /\ ~Computing
        /\ UNCHANGED <<status, asked, child>> /\ marker' = NoTask
    BY <1>0, <1>36 DEF TaskCallback, Released, Rows
  <2>2. Service!LetGo(marker)
    BY <2>1 DEF Service!LetGo, AtWork, Computing
  <2>3. QED
    BY <1>5, <2>1, <2>2
<1>37. CASE RecordEnd
  <2>1. /\ reader.task \in Tasks /\ status[reader.task] = "taken" /\ reader.task # marker
        /\ reader.st \in {"done", "failed", "canceled"} /\ (reader.st = "canceled" => reader.task \in asked)
        /\ UNCHANGED <<asked, marker, child>> /\ status' = [status EXCEPT ![reader.task] = reader.st]
    BY <1>0, <1>37, ReaderStatus DEF RecordEnd, Rows, AskedFor, Typed
  <2>2. Service!End(reader.task, reader.st)
    BY <2>1 DEF Service!End, AtWork, Computing
  <2>3. QED
    BY <1>6, <2>1, <2>2
<1>38. CASE StoppedListener
  BY <1>2, <1>38 DEF StoppedListener
<1>39. CASE RejectTask
  <2>1. /\ sup.task = marker /\ marker \in Tasks /\ status[marker] = "taken" /\ ~Computing
        /\ UNCHANGED <<status, asked, child>> /\ marker' = NoTask
    BY <1>0, <1>39 DEF RejectTask, Released, Rows
  <2>2. Service!LetGo(marker)
    BY <2>1 DEF Service!LetGo, AtWork, Computing
  <2>3. QED
    BY <1>5, <2>1, <2>2
<1>40. CASE WriteRejected
  <2>1. /\ sup.task \in Tasks /\ status[sup.task] = "taken" /\ sup.task # marker
        /\ UNCHANGED <<asked, marker, child>> /\ status' = [status EXCEPT ![sup.task] = "failed"]
    BY <1>0, <1>40 DEF WriteRejected, Rows
  <2>2. Service!End(sup.task, "failed")
    BY <2>1 DEF Service!End, AtWork, Computing
  <2>3. QED
    BY <1>6, <2>1, <2>2
<1>41. CASE UNCHANGED vars
  BY <1>2, <1>41 DEF vars
<1>42. QED
  BY <1>7, <1>8, <1>9, <1>10, <1>11, <1>12, <1>13, <1>14, <1>15, <1>16, <1>17, <1>18, <1>19, <1>20,
     <1>21, <1>22, <1>23, <1>24, <1>25, <1>26, <1>27, <1>28, <1>29, <1>30, <1>31, <1>32, <1>33, <1>34,
     <1>35, <1>36, <1>37, <1>38, <1>39, <1>40, <1>41
     DEF DaemonNext, Supervise, LateCalls, MainLoop, Worker, Reader

\* Whatever dies or stalls: a task is canceled only if somebody asked.
CanceledWasAsked == \A t \in Tasks : status[t] = "canceled" => t \in asked

\* No action cancels what nobody asked to cancel.
LEMMA CanceledStep ==
  ASSUME Typed, MarkerInv, AskedFor, CanceledWasAsked, [DaemonNext]_vars
  PROVE  CanceledWasAsked'
<1>0. status \in [Tasks -> {"new", "taken", "done", "failed", "canceled"}]
  BY DEF Typed
<1> USE <1>0 DEF CanceledWasAsked, Goto, queue, pipes
<1>1. ASSUME NEW t \in Tasks, Dispatch(t)
       PROVE  CanceledWasAsked'
  BY <1>1 DEF Dispatch, CaughtUp, Callers
<1>2. CASE StartProcess
  BY <1>2 DEF StartProcess, DeadChild
<1>3. CASE StartFails
  BY <1>3 DEF StartFails
<1>4. CASE AwaitReady
  BY <1>4 DEF AwaitReady
<1>5. CASE ClaimDaemon
  BY <1>5 DEF ClaimDaemon
<1>6. CASE WriteRunning
  BY <1>6 DEF WriteRunning
<1>7. CASE SubmitLocked
  BY <1>7 DEF SubmitLocked
<1>8. CASE SubmitWrite
  BY <1>8 DEF SubmitWrite
<1>9. CASE YieldWrite
  BY <1>9 DEF YieldWrite
<1>10. CASE YieldDaemon
  BY <1>10 DEF YieldDaemon, Unloading, MayUnload
<1>11. CASE UnloadButton
  BY <1>11 DEF UnloadButton, Unloading, MayUnload
<1>12. CASE IdleTimeout
  BY <1>12 DEF IdleTimeout
<1>13. CASE TaskTimeout
  BY <1>13 DEF TaskTimeout
<1>14. ASSUME NEW t \in Tasks, Cancel(t)
       PROVE  CanceledWasAsked'
  BY <1>14 DEF Cancel
<1>15. CASE IdleUnload
  BY <1>15 DEF IdleUnload, MayUnload
<1>16. ASSUME NEW c \in {"button", "idle"}, UnloadWrite(c)
       PROVE  CanceledWasAsked'
  BY <1>16 DEF UnloadWrite
<1>17. CASE CancelWrite
  BY <1>17 DEF CancelWrite
<1>18. CASE Kill
  BY <1>18 DEF Kill, Dies
<1>19. CASE ReadCommand
  BY <1>19, CommandForms DEF ReadCommand
<1>20. CASE EmitUnloaded
  BY <1>20 DEF EmitUnloaded
<1>21. CASE ReuseModel
  BY <1>21 DEF ReuseModel
<1>22. CASE UnloadForReload
  BY <1>22 DEF UnloadForReload
<1>23. CASE LoadModel
  BY <1>23 DEF LoadModel
<1>24. CASE EmitLoaded
  BY <1>24 DEF EmitLoaded
<1>25. ASSUME NEW k \in TaskEvents, EmitEnd(k)
       PROVE  CanceledWasAsked'
  BY <1>25 DEF EmitEnd
<1>26. CASE ClearWorker
  BY <1>26 DEF ClearWorker
<1>27. CASE ProcessDies
  BY <1>27 DEF ProcessDies, Dies, MayDie
<1>28. CASE ReadEvent
  BY <1>28, EventForms DEF ReadEvent
<1>29. CASE ReadEof
  BY <1>29 DEF ReadEof, Waiting, Stopped
<1>30. CASE TaskCallback
  BY <1>30 DEF TaskCallback
<1>31. CASE StoppedListener
  BY <1>31 DEF StoppedListener
<1>32. CASE RejectTask
  BY <1>32 DEF RejectTask
<1>33. CASE WriteRejected
  BY <1>33 DEF WriteRejected
<1>34. CASE RecordEnd
  <2>1. /\ reader.task \in Tasks /\ asked' = asked /\ (reader.st = "canceled" => reader.task \in asked)
        /\ status' = [status EXCEPT ![reader.task] = reader.st]
    BY <1>34 DEF RecordEnd, MarkerInv, Carried, AskedFor
  <2>2. QED
    BY <2>1
<1>35. CASE UNCHANGED vars
  BY <1>35 DEF vars
<1>36. QED
  BY <1>1, <1>2, <1>3, <1>4, <1>5, <1>6, <1>7, <1>8, <1>9, <1>10, <1>11, <1>12, <1>13, <1>14,
     <1>15, <1>16, <1>17, <1>18, <1>19, <1>20, <1>21, <1>22, <1>23, <1>24, <1>25, <1>26, <1>27,
     <1>28, <1>29, <1>30, <1>31, <1>32, <1>33, <1>34, <1>35
     DEF DaemonNext, Supervise, LateCalls, MainLoop, Worker, Reader

--------------------------------------------------------------------------------
(* Where an unload is on its way *)

\* A task that is not exposed has a busy proxy, and nobody is about to write an unload.
Spared ==
  proxy.active # NoTask /\ ~proxy.exposed =>
    proxy.state = "busy" /\ late["button"] = NoCall /\ late["idle"] = NoCall

\* The proxy knows the task that is in the pipe or computed.
Known == Sent \/ Computing \/ (sup.pc = "write" /\ child.alive) => proxy.active # NoTask

\* Every unload in the pipe is ahead of every generate.
UnloadsFirst(q) ==
  \A i, j \in DOMAIN q : q[i].kind = "generate" /\ q[j].kind = "unload" => j < i

\* The unloads that a task which is not exposed finds in the pipe were written before it.
Ordered ==
  ~proxy.exposed => /\ Computing => None(stdin, {"unload"})
                    /\ Sent => UnloadsFirst(stdin)

\* `ready` is the first event of a process; the proxy has no task until it has read it.
ReadyFirst ==
  \A i \in DOMAIN stdout : stdout[i].kind = "ready" =>
    i = 1 /\ proxy.state # "idle" /\ proxy.active = NoTask /\ sup.pc # "write"

\* Nor has it one before it has a process; without one nothing runs and nothing is left
\* to read.
Dormant ==
  /\ proxy.state \in {"stopped", "starting"} => proxy.active = NoTask
  /\ proxy.state = "stopped" => ~proxy.proc
  /\ ~proxy.proc => ~child.alive /\ stdout = <<>>
  /\ sup.pc = "start" => proxy.state = "stopped"

UnloadInv == Spared /\ Known /\ Ordered /\ ReadyFirst /\ Dormant

\* How writing and reading change the order.
LEMMA OrderWritten ==
  ASSUME NEW S, NEW q \in Seq(S), NEW e \in S
  PROVE  /\ None(q, {"generate"}) => UnloadsFirst(Append(q, e))
         /\ UnloadsFirst(q) /\ e.kind # "unload" => UnloadsFirst(Append(q, e))
<1> DEFINE r == Append(q, e)
<1>1. /\ Len(q) \in Nat /\ DOMAIN q = 1..Len(q) /\ DOMAIN r = 1..(Len(q) + 1)
      /\ r[Len(q) + 1] = e /\ \A i \in 1..Len(q) : r[i] = q[i]
  BY AppendProperties, LenProperties
<1>2. \A i \in DOMAIN r : (i \in DOMAIN q /\ r[i] = q[i]) \/ (i = Len(q) + 1 /\ r[i] = e)
  BY <1>1
<1>3. \A i \in DOMAIN q : i < Len(q) + 1
  BY <1>1
<1> HIDE DEF r
<1>4. ASSUME UnloadsFirst(q), e.kind # "unload"
      PROVE  UnloadsFirst(r)
  BY <1>2, <1>3, <1>4 DEF UnloadsFirst
<1>5. ASSUME None(q, {"generate"})
      PROVE  UnloadsFirst(r)
  <2>1. SUFFICES ASSUME NEW i \in DOMAIN r, NEW j \in DOMAIN r, r[i].kind = "generate", r[j].kind = "unload"
                 PROVE  j < i
    BY DEF UnloadsFirst
  <2>2. i = Len(q) + 1 /\ r[i] = e
    BY <1>2, <1>5, <2>1 DEF None
  <2>3. j \in DOMAIN q
    BY <1>2, <2>1, <2>2
  <2>4. QED
    BY <1>3, <2>2, <2>3
<1>6. QED
  BY <1>4, <1>5 DEF r

LEMMA OrderTaken ==
  ASSUME NEW S, NEW q \in Seq(S), q # <<>>
  PROVE  /\ UnloadsFirst(q) => UnloadsFirst(Tail(q))
         /\ UnloadsFirst(q) /\ Head(q).kind = "generate" => None(Tail(q), {"unload"})
<1> DEFINE r == Tail(q)
<1>1. /\ Len(q) \in Nat /\ Len(q) > 0 /\ DOMAIN q = 1..Len(q) /\ DOMAIN r = 1..(Len(q) - 1)
      /\ Head(q) = q[1] /\ \A i \in 1..(Len(q) - 1) : r[i] = q[i + 1]
  BY HeadTailProperties, LenProperties, EmptySeq
<1>2. 1 \in DOMAIN q /\ Head(q) = q[1]
  BY <1>1
<1>3. \A i \in DOMAIN r : i \in Int /\ i + 1 \in DOMAIN q /\ ~(i + 1 < 1) /\ r[i] = q[i + 1]
  BY <1>1
<1>4. \A i, j \in DOMAIN r : j + 1 < i + 1 => j < i
  BY <1>1
<1> HIDE DEF r
<1>5. ASSUME UnloadsFirst(q)
      PROVE  UnloadsFirst(r)
  BY <1>3, <1>4, <1>5 DEF UnloadsFirst
<1>6. ASSUME UnloadsFirst(q), Head(q).kind = "generate"
      PROVE  None(r, {"unload"})
  BY <1>2, <1>3, <1>6 DEF UnloadsFirst, None
<1>7. QED
  BY <1>5, <1>6 DEF r

\* A command that is not an unload, and any that finds no task at work, keep the order.
LEMMA OrderedKept ==
  ASSUME Typed, MarkerInv, Ordered, NEW e \in Commands, stdin' = Append(stdin, e),
         e.kind # "generate", UNCHANGED child,
         e.kind = "cancel" \/ (~Sent /\ ~Computing) \/ proxy.exposed,
         proxy'.exposed <=> proxy.exposed
  PROVE  Ordered' /\ (Sent' <=> Sent)
<1>1. stdin \in Seq(Commands) /\ e.kind \in {"cancel", "unload"}
  BY PipeTypes DEF Typed
<1>2. /\ None(stdin', {"generate"}) <=> None(stdin, {"generate"})
      /\ None(stdin, {"unload"}) /\ e.kind = "cancel" => None(stdin', {"unload"})
      /\ UnloadsFirst(stdin) /\ e.kind = "cancel" => UnloadsFirst(stdin')
  BY <1>1, Written, OrderWritten
<1>3. (Sent' <=> Sent) /\ (Computing' <=> Computing)
  BY <1>2 DEF Sent, Computing
<1>4. QED
  BY <1>1, <1>2, <1>3 DEF Ordered

\* An event that is not `ready` leaves the first one where it is.
LEMMA ReadyKept ==
  ASSUME Typed, ReadyFirst, NEW e \in Emitted, e.kind # "ready", stdout' = Append(stdout, e), UNCHANGED <<proxy, sup>>
  PROVE  ReadyFirst'
<1>1. stdout \in Seq(Emitted)
  BY DEF Typed
<1>2. /\ Len(stdout) \in Nat /\ DOMAIN stdout = 1..Len(stdout) /\ DOMAIN stdout' = 1..(Len(stdout) + 1)
      /\ stdout'[Len(stdout) + 1] = e /\ \A i \in 1..Len(stdout) : stdout'[i] = stdout[i]
  BY <1>1, AppendProperties, LenProperties
<1>3. \A i \in DOMAIN stdout' : (i \in DOMAIN stdout /\ stdout'[i] = stdout[i]) \/ stdout'[i] = e
  BY <1>2
<1>4. QED
  BY <1>3 DEF ReadyFirst

\* After a read nothing is `ready` any more, and a task that is known has not read it.
LEMMA ReadyRead ==
  ASSUME Typed, ReadyFirst, stdout # <<>>
  PROVE  /\ None(Tail(stdout), {"ready"})
         /\ Head(stdout).kind = "ready" => proxy.active = NoTask /\ proxy.state # "idle" /\ sup.pc # "write"
<1>1. stdout \in Seq(Emitted)
  BY DEF Typed
<1>2. /\ Len(stdout) \in Nat /\ Len(stdout) > 0 /\ DOMAIN stdout = 1..Len(stdout)
      /\ DOMAIN Tail(stdout) = 1..(Len(stdout) - 1)
      /\ Head(stdout) = stdout[1] /\ \A i \in 1..(Len(stdout) - 1) : Tail(stdout)[i] = stdout[i + 1]
  BY <1>1, HeadTailProperties, LenProperties, EmptySeq
<1>3. \A i \in DOMAIN Tail(stdout) : i + 1 \in DOMAIN stdout /\ i + 1 # 1 /\ Tail(stdout)[i] = stdout[i + 1]
  BY <1>2
<1>4. 1 \in DOMAIN stdout /\ Head(stdout) = stdout[1]
  BY <1>2
<1>5. QED
  BY <1>3, <1>4 DEF ReadyFirst, None

\* A step that leaves proxy, supervisor and pipes alone, asks for no unload, and goes on
\* with the work or ends it.
LEMMA WorkerKeeps ==
  ASSUME UnloadInv, UNCHANGED <<proxy, sup, stdin, stdout>>,
         late'["button"] \in {late["button"], NoCall}, late'["idle"] \in {late["idle"], NoCall},
         Computing' => Computing, child'.alive => child.alive
  PROVE  UnloadInv'
<1>1. Sent' => Sent
  BY DEF Sent
<1>2. Spared' /\ Known' /\ Ordered' /\ ReadyFirst' /\ Dormant'
  BY <1>1 DEF UnloadInv, Spared, Known, Ordered, ReadyFirst, Dormant
<1>3. QED
  BY <1>2 DEF UnloadInv

\* The same of a step of the process that emits an event.
LEMMA EmitKeeps ==
  ASSUME Typed, UnloadInv, UNCHANGED <<proxy, sup, late, stdin>>, NEW e \in Emitted, e.kind # "ready",
         stdout' = Append(stdout, e), Computing' => Computing, child.alive, child'.alive
  PROVE  UnloadInv'
<1>1. Sent' => Sent
  BY DEF Sent
<1>2. ReadyFirst'
  BY ReadyKept DEF UnloadInv
<1>3. Spared' /\ Known' /\ Ordered' /\ Dormant'
  BY <1>1 DEF UnloadInv, Spared, Known, Ordered, Dormant
<1>4. QED
  BY <1>2, <1>3 DEF UnloadInv

\* A step of the supervisor that changes neither the proxy nor the pipes.
LEMMA SupKeeps ==
  ASSUME UnloadInv, UNCHANGED <<proxy, late, stdin, stdout, child>>,
         sup'.pc # "write", sup'.pc = "start" => proxy.state = "stopped"
  PROVE  UnloadInv'
<1>1. (Sent' <=> Sent) /\ (Computing' <=> Computing)
  BY DEF Sent, Computing
<1>2. Spared' /\ Known' /\ Ordered' /\ ReadyFirst' /\ Dormant'
  BY <1>1 DEF UnloadInv, Spared, Known, Ordered, ReadyFirst, Dormant
<1>3. QED
  BY <1>2 DEF UnloadInv

\* A request to unload is accepted: the proxy is not stopped and not busy.
LEMMA UnloadAccepted ==
  ASSUME Typed, UnloadInv, proxy.state \notin {"stopped", "busy"},
         sup' = sup \/ sup'.pc \notin {"write", "start"},
         proxy' = [proxy EXCEPT !.state = "unloading"], UNCHANGED <<stdin, stdout, child>>
  PROVE  UnloadInv'
<1>1. /\ proxy'.state = "unloading" /\ proxy'.active = proxy.active /\ proxy'.exposed = proxy.exposed
      /\ proxy'.proc = proxy.proc /\ (Sent' <=> Sent) /\ (Computing' <=> Computing)
  BY DEF Typed, ProxyRec, Sent, Computing
<1>2. Spared' /\ Known' /\ Ordered' /\ ReadyFirst' /\ Dormant'
  BY <1>1 DEF UnloadInv, Spared, Known, Ordered, ReadyFirst, Dormant
<1>3. QED
  BY <1>2 DEF UnloadInv

\* Every action keeps this.
LEMMA UnloadStep ==
  ASSUME Typed, MarkerInv, UnloadInv, [DaemonNext]_vars
  PROVE  UnloadInv'
<1>0. /\ proxy \in ProxyRec /\ sup \in SupRec /\ child \in ChildRec /\ late \in [Callers -> CallRec]
      /\ stdin \in Seq(Commands) /\ stdout \in Seq(Emitted) /\ NoTask \notin Tasks
  BY TaskAssumption DEF Typed
<1> USE <1>0 DEF Goto, queue, pipes
<1>1. ASSUME NEW t \in Tasks, Dispatch(t)
       PROVE  UnloadInv'
  BY <1>1, SupKeeps DEF Dispatch
<1>2. CASE StartProcess
  <2>1. /\ sup.pc = "start" /\ sup'.pc = "wait" /\ child'.step = "none" /\ child'.alive
        /\ stdin' = <<>> /\ stdout' = Append(stdout, [kind |-> "ready", task |-> NoTask])
        /\ proxy'.state = "starting" /\ proxy'.proc /\ proxy'.active = proxy.active
    BY <1>2 DEF StartProcess, DeadChild, Emit, ProxyRec
  <2>2. stdout = <<>> /\ proxy.active = NoTask
    BY <2>1 DEF UnloadInv, Dormant
  <2>3. \A i \in DOMAIN stdout' : i = 1
    BY <2>1, <2>2
  <2>4. ~Sent' /\ ~Computing'
    BY <2>1, EmptyPipe DEF Sent, Computing
  <2>5. Spared' /\ Known' /\ Ordered' /\ ReadyFirst' /\ Dormant'
    BY <2>1, <2>2, <2>3, <2>4 DEF Spared, Known, Ordered, ReadyFirst, Dormant
  <2>6. QED
    BY <2>5 DEF UnloadInv
<1>3. CASE StartFails
  BY <1>3, SupKeeps DEF StartFails
<1>4. CASE AwaitReady
  BY <1>4, SupKeeps DEF AwaitReady
<1>5. CASE ClaimDaemon
  BY <1>5, SupKeeps DEF ClaimDaemon
<1>6. CASE WriteRunning
  BY <1>6, SupKeeps DEF WriteRunning
<1>7. CASE SubmitLocked
  <2>1. /\ sup.pc = "submit" /\ sup'.pc \in {"write", "reject"}
        /\ UNCHANGED <<late, stdin, stdout, child>>
        /\ sup'.pc = "write" => AcceptsTask
    BY <1>7 DEF SubmitLocked
  <2>2. CASE AcceptsTask
    <3>1. /\ proxy.state = "idle" /\ proxy'.state = "busy" /\ proxy'.active = sup.task
          /\ proxy'.exposed = UnloadOnItsWay /\ proxy'.proc = proxy.proc
      BY <1>7, <2>2 DEF SubmitLocked, AcceptsTask, ProxyRec
    <3>2. sup.task \in Tasks /\ ~Sent /\ ~Computing
      BY <2>1 DEF MarkerInv, Carried, Supervised, Handing
    <3>3. ~Sent' /\ ~Computing'
      BY <2>1, <3>2 DEF Sent, Computing
    <3>4. Spared' /\ Known' /\ Ordered' /\ ReadyFirst' /\ Dormant'
      BY <2>1, <3>1, <3>2, <3>3 DEF UnloadInv, Spared, Known, Ordered, ReadyFirst, Dormant, UnloadOnItsWay
    <3>5. QED
      BY <3>4 DEF UnloadInv
  <2>3. CASE ~AcceptsTask
    BY <1>7, <2>1, <2>3, SupKeeps DEF SubmitLocked
  <2>4. QED
    BY <2>2, <2>3
<1>8. CASE SubmitWrite
  <2>1. /\ sup.pc = "write" /\ UNCHANGED <<late, stdout, child>> /\ sup.task \in Tasks
        /\ ~Sent /\ ~Computing /\ ~Computing'
    BY <1>8 DEF SubmitWrite, MarkerInv, Carried, Supervised, Handing, Computing
  <2>2. CASE child.alive
    <3>1. /\ stdin' = Append(stdin, [kind |-> "generate", task |-> sup.task])
          /\ proxy' = proxy /\ sup'.pc = "free"
      BY <1>8, <2>2 DEF SubmitWrite
    <3>2. [kind |-> "generate", task |-> sup.task] \in Commands
      BY <2>1, PipeTypes
    <3>3. UnloadsFirst(stdin')
      BY <2>1, <2>2, <3>1, <3>2, OrderWritten DEF Sent
    <3>4. Spared' /\ Known' /\ Ordered' /\ ReadyFirst' /\ Dormant'
      BY <2>1, <2>2, <3>1, <3>3 DEF UnloadInv, Spared, Known, Ordered, ReadyFirst, Dormant
    <3>5. QED
      BY <3>4 DEF UnloadInv
  <2>3. CASE ~child.alive
    <3>0. /\ proxy' = [proxy EXCEPT !.state = "idle", !.active = NoTask, !.exposed = FALSE]
          /\ sup'.pc = "reject" /\ stdin' = stdin
      BY <1>8, <2>3 DEF SubmitWrite
    <3>1. proxy'.state = "idle" /\ proxy'.active = NoTask /\ proxy'.proc = proxy.proc
      BY <3>0 DEF ProxyRec
    <3>2. ~Sent'
      BY <2>1, <2>3 DEF Sent
    <3>3. Spared' /\ Known' /\ Ordered' /\ ReadyFirst' /\ Dormant'
      BY <2>1, <2>3, <3>0, <3>1, <3>2 DEF UnloadInv, Spared, Known, Ordered, ReadyFirst, Dormant
    <3>4. QED
      BY <3>3 DEF UnloadInv
  <2>4. QED
    BY <2>2, <2>3
<1>9. CASE YieldWrite
  <2>1. /\ sup.pc = "unload" /\ sup'.pc = "free" /\ UNCHANGED <<proxy, late, stdout, child>>
    BY <1>9 DEF YieldWrite
  <2>2. ~Sent /\ ~Computing
    BY <2>1, Unmarked DEF MarkerInv, Supervised
  <2>3. CASE child.alive
    <3>1. /\ stdin' = Append(stdin, [kind |-> "unload", task |-> NoTask])
          /\ [kind |-> "unload", task |-> NoTask] \in Commands
      BY <1>9, <2>3, PipeTypes DEF YieldWrite
    <3>2. Ordered' /\ (Sent' <=> Sent)
      BY <2>1, <2>2, <3>1, OrderedKept DEF UnloadInv
    <3>3. Spared' /\ Known' /\ ReadyFirst' /\ Dormant'
      BY <2>1, <2>2, <3>2 DEF UnloadInv, Spared, Known, ReadyFirst, Dormant, Computing
    <3>4. QED
      BY <3>2, <3>3 DEF UnloadInv
  <2>4. CASE ~child.alive
    BY <1>9, <2>1, <2>4, SupKeeps DEF YieldWrite
  <2>5. QED
    BY <2>3, <2>4
<1>10. CASE YieldDaemon
  BY <1>10, UnloadAccepted DEF YieldDaemon, Unloading, MayUnload
<1>11. CASE UnloadButton
  BY <1>11, UnloadAccepted DEF UnloadButton, Unloading, MayUnload
<1>12. CASE IdleTimeout
  BY <1>12, WorkerKeeps DEF IdleTimeout, Computing
<1>13. CASE TaskTimeout
  <2>1. late'["button"] = late["button"] /\ late'["idle"] = late["idle"]
    BY <1>13 DEF TaskTimeout, Callers
  <2>2. QED
    BY <1>13, <2>1, WorkerKeeps DEF TaskTimeout, Computing
<1>14. ASSUME NEW t \in Tasks, Cancel(t)
       PROVE  UnloadInv'
  <2>1. late'["button"] = late["button"] /\ late'["idle"] = late["idle"]
    BY <1>14 DEF Cancel, Callers
  <2>2. QED
    BY <1>14, <2>1, WorkerKeeps DEF Cancel, Computing
<1>15. CASE IdleUnload
  <2>1. CASE MayUnload
    BY <1>15, <2>1, UnloadAccepted DEF IdleUnload, MayUnload
  <2>2. CASE ~MayUnload
    BY <1>15, <2>2, WorkerKeeps DEF IdleUnload, Computing
  <2>3. QED
    BY <2>1, <2>2
<1>16. ASSUME NEW c \in {"button", "idle"}, UnloadWrite(c)
       PROVE  UnloadInv'
  <2>1. /\ late[c] # NoCall /\ UNCHANGED <<proxy, sup, stdout, child>>
        /\ late'["button"] \in {late["button"], NoCall} /\ late'["idle"] \in {late["idle"], NoCall}
        /\ \/ stdin' = stdin
           \/ stdin' = Append(stdin, [kind |-> "unload", task |-> NoTask])
    BY <1>16 DEF UnloadWrite, Callers
  <2>2. (~Sent /\ ~Computing) \/ proxy.exposed
    BY <2>1 DEF UnloadInv, Spared, Known
  <2>3. CASE stdin' = stdin
    BY <2>1, <2>3, WorkerKeeps DEF Computing
  <2>4. CASE stdin' = Append(stdin, [kind |-> "unload", task |-> NoTask])
    <3>1. [kind |-> "unload", task |-> NoTask] \in Commands
      BY PipeTypes
    <3>2. Ordered' /\ (Sent' <=> Sent)
      BY <2>1, <2>2, <2>4, <3>1, OrderedKept DEF UnloadInv
    <3>3. Spared' /\ Known' /\ ReadyFirst' /\ Dormant'
      BY <2>1, <3>2 DEF UnloadInv, Spared, Known, ReadyFirst, Dormant, Computing
    <3>4. QED
      BY <3>2, <3>3 DEF UnloadInv
  <2>5. QED
    BY <2>1, <2>3, <2>4
<1>17. CASE CancelWrite
  <2> DEFINE e == [kind |-> "cancel", task |-> late["cancel"].task]
  <2>1. /\ UNCHANGED <<proxy, sup, stdout, child>> /\ e \in Commands /\ e.kind = "cancel"
        /\ late'["button"] = late["button"] /\ late'["idle"] = late["idle"]
        /\ \/ stdin' = stdin
           \/ stdin' = Append(stdin, e)
    BY <1>17, PipeTypes DEF CancelWrite, Callers, MarkerInv, Carried
  <2> HIDE DEF e
  <2>2. CASE stdin' = stdin
    BY <2>1, <2>2, WorkerKeeps DEF Computing
  <2>3. CASE stdin' = Append(stdin, e)
    <3>1. Ordered' /\ (Sent' <=> Sent)
      BY <2>1, <2>3, OrderedKept DEF UnloadInv
    <3>2. Spared' /\ Known' /\ ReadyFirst' /\ Dormant'
      BY <2>1, <3>1 DEF UnloadInv, Spared, Known, ReadyFirst, Dormant, Computing
    <3>3. QED
      BY <3>1, <3>2 DEF UnloadInv
  <2>4. QED
    BY <2>1, <2>2, <2>3
<1>18. CASE Kill
  <2>1. late'["button"] = late["button"] /\ late'["idle"] = late["idle"]
    BY <1>18 DEF Kill, Callers
  <2>2. child' = child \/ (child'.step = "none" /\ ~child'.alive)
    BY <1>18 DEF Kill, Dies, ChildRec
  <2>3. QED
    BY <1>18, <2>1, <2>2, WorkerKeeps DEF Kill, Computing
<1>19. CASE ReadCommand
  <2> DEFINE c == Head(stdin)
  <2>1. /\ UNCHANGED <<proxy, sup, late>> /\ child.alive /\ stdin # <<>> /\ stdin' = Tail(stdin)
    BY <1>19 DEF ReadCommand
  <2>2. /\ None(stdin, {"generate"}) => None(stdin', {"generate"})
        /\ None(stdin, {"unload"}) => None(stdin', {"unload"})
        /\ UnloadsFirst(stdin) => UnloadsFirst(stdin')
        /\ UnloadsFirst(stdin) /\ c.kind = "generate" => None(stdin', {"unload"})
    BY <2>1, Taken, OrderTaken
  <2>3. c.kind = "generate" => Sent /\ None(stdin', {"generate"})
    <3>1. None(stdin, {"generate"}) => c.kind # "generate"
      BY <2>1, Taken
    <3>2. c.kind = "generate" => None(stdin', {"generate"})
      BY <2>1, Taken DEF MarkerInv, Marked
    <3>3. QED
      BY <2>1, <3>1, <3>2 DEF Sent
  <2>4. CASE /\ c.kind = "generate" /\ stdout' = stdout
             /\ child' = [child EXCEPT !.worker = c.task, !.step = "load", !.cancel = FALSE]
    <3>1. /\ ~Sent' /\ Computing' /\ Sent /\ child'.alive /\ None(stdin', {"generate"})
      BY <2>1, <2>3, <2>4 DEF Sent, Computing, ChildRec
    <3>2. Spared' /\ Known' /\ Ordered' /\ ReadyFirst' /\ Dormant'
      BY <2>1, <2>2, <2>4, <3>1 DEF UnloadInv, Spared, Known, Ordered, ReadyFirst, Dormant
    <3>3. QED
      BY <3>2 DEF UnloadInv
  <2>5. CASE /\ c.kind = "generate" /\ c.task \in Tasks /\ child' = child
             /\ stdout' = Append(stdout, [kind |-> "error", task |-> c.task])
    <3>1. ~Sent' /\ ~Computing /\ ~Computing'
      BY <2>1, <2>3, <2>5 DEF Sent, Computing, MarkerInv, OnePlace
    <3>2. [kind |-> "error", task |-> c.task] \in Emitted
      BY <2>5, PipeTypes DEF TaskEvents
    <3>3. ReadyFirst'
      BY <2>1, <2>5, <3>2, ReadyKept DEF UnloadInv
    <3>4. proxy.proc
      BY <2>1 DEF UnloadInv, Dormant, ProxyRec
    <3>5. Spared' /\ Known' /\ Ordered' /\ Dormant'
      BY <2>1, <2>5, <3>1, <3>4 DEF UnloadInv, Spared, Known, Ordered, Dormant
    <3>6. QED
      BY <3>3, <3>5 DEF UnloadInv
  <2>6. CASE /\ stdout' = stdout
             /\ \/ child' = [child EXCEPT !.cancel = child.cancel \/ (child.worker = c.task)]
                \/ child' = [child EXCEPT !.resident = FALSE, !.main = "unloaded"]
    <3>1. child'.step = child.step /\ child'.alive = child.alive
      BY <2>6 DEF ChildRec
    <3>2. (Sent' => Sent) /\ (Computing' <=> Computing)
      BY <2>2, <3>1 DEF Sent, Computing
    <3>3. Spared' /\ Known' /\ Ordered' /\ ReadyFirst' /\ Dormant'
      BY <2>1, <2>2, <2>6, <3>1, <3>2 DEF UnloadInv, Spared, Known, Ordered, ReadyFirst, Dormant
    <3>4. QED
      BY <3>3 DEF UnloadInv
  <2>7. QED
    BY <1>19, <2>4, <2>5, <2>6, CommandForms
<1>20. CASE EmitUnloaded
  <2>1. /\ [kind |-> "unloaded", task |-> NoTask] \in Emitted /\ child.alive /\ child'.alive
        /\ child'.step = child.step
    BY <1>20, PipeTypes DEF EmitUnloaded, MarkerInv, Carried, ChildRec
  <2>2. QED
    BY <1>20, <2>1, EmitKeeps DEF EmitUnloaded, Emit, Computing
<1>21. CASE ReuseModel
  BY <1>21, WorkerKeeps DEF ReuseModel, Computing, ChildRec
<1>22. CASE UnloadForReload
  BY <1>22, WorkerKeeps DEF UnloadForReload, Computing, ChildRec
<1>23. CASE LoadModel
  BY <1>23, WorkerKeeps DEF LoadModel, Computing, ChildRec
<1>24. CASE EmitLoaded
  <2>1. /\ [kind |-> "loaded", task |-> NoTask] \in Emitted /\ child.alive /\ child'.alive /\ Computing
    BY <1>24, PipeTypes DEF EmitLoaded, MarkerInv, Carried, ChildRec, Computing
  <2>2. QED
    BY <1>24, <2>1, EmitKeeps DEF EmitLoaded, Emit
<1>25. ASSUME NEW k \in TaskEvents, EmitEnd(k)
       PROVE  UnloadInv'
  <2>1. /\ child.worker \in Tasks /\ child.alive /\ child'.alive /\ Computing
        /\ k # "ready"
    BY <1>25 DEF EmitEnd, MarkerInv, Carried, ChildRec, Computing, TaskEvents
  <2>2. [kind |-> k, task |-> child.worker] \in Emitted
    BY <2>1, PipeTypes
  <2>3. QED
    BY <1>25, <2>1, <2>2, EmitKeeps DEF EmitEnd, Emit
<1>26. CASE ClearWorker
  BY <1>26, WorkerKeeps DEF ClearWorker, Computing, ChildRec
<1>27. CASE ProcessDies
  <2>1. child'.step = "none" /\ ~child'.alive
    BY <1>27 DEF ProcessDies, Dies, ChildRec
  <2>2. QED
    BY <1>27, <2>1, WorkerKeeps DEF ProcessDies, Computing
<1>28. CASE ReadEvent
  <2> DEFINE e == Head(stdout)
  <2>1. /\ UNCHANGED <<sup, late, stdin, child>> /\ proxy.proc /\ stdout # <<>> /\ stdout' = Tail(stdout)
    BY <1>28 DEF ReadEvent
  <2>2. /\ None(stdout', {"ready"})
        /\ e.kind = "ready" => proxy.active = NoTask /\ sup.pc # "write"
    BY <2>1, ReadyRead DEF UnloadInv
  <2>3. ReadyFirst'
    BY <2>2 DEF None, ReadyFirst
  <2>4. (Sent' <=> Sent) /\ (Computing' <=> Computing)
    BY <2>1 DEF Sent, Computing
  <2>5. sup.pc # "start"
    BY <2>1 DEF UnloadInv, Dormant
  <2>6. ASSUME /\ proxy'.state = "idle" /\ proxy'.proc
               /\ \/ proxy'.active = NoTask /\ ~Sent /\ ~Computing /\ sup.pc # "write"
                  \/ proxy'.active = proxy.active /\ proxy'.exposed = (proxy.active # NoTask)
        PROVE  UnloadInv'
    <3>1. Spared' /\ Known' /\ Ordered' /\ Dormant'
      BY <2>1, <2>4, <2>5, <2>6 DEF UnloadInv, Spared, Known, Ordered, Dormant
    <3>2. QED
      BY <2>3, <3>1 DEF UnloadInv
  <2>7. CASE e.kind = "ready" /\ proxy' = [proxy EXCEPT !.state = "idle", !.loaded = FALSE]
    <3>1. proxy.active = NoTask /\ ~Sent /\ ~Computing /\ sup.pc # "write"
      BY <2>2, <2>7 DEF UnloadInv, Known
    <3>2. proxy'.state = "idle" /\ proxy'.proc /\ proxy'.active = NoTask
      BY <2>1, <2>7, <3>1 DEF ProxyRec
    <3>3. QED
      BY <2>6, <3>1, <3>2
  <2>8. CASE proxy' = [proxy EXCEPT !.state = "idle", !.loaded = FALSE, !.exposed = proxy.active # NoTask]
    <3>1. /\ proxy'.state = "idle" /\ proxy'.proc /\ proxy'.active = proxy.active
          /\ proxy'.exposed = (proxy.active # NoTask)
      BY <2>1, <2>8 DEF ProxyRec
    <3>2. QED
      BY <2>6, <3>1
  <2>9. CASE /\ e.kind \in TaskEvents
             /\ proxy' = [proxy EXCEPT !.active = NoTask, !.state = "idle", !.exposed = FALSE]
    <3>1. Told
      BY <2>1, <2>9, Taken DEF Told
    <3>2. ~Sent /\ ~Computing /\ sup.pc # "write"
      BY <3>1 DEF MarkerInv, OnePlace, Supervised, Handing
    <3>3. proxy'.state = "idle" /\ proxy'.proc /\ proxy'.active = NoTask
      BY <2>1, <2>9 DEF ProxyRec
    <3>4. QED
      BY <2>6, <3>2, <3>3
  <2>10. CASE proxy' = proxy \/ proxy' = [proxy EXCEPT !.loaded = TRUE]
    <3>1. /\ proxy'.state = proxy.state /\ proxy'.active = proxy.active /\ proxy'.proc = proxy.proc
          /\ proxy'.exposed = proxy.exposed
      BY <2>10 DEF ProxyRec
    <3>2. Spared' /\ Known' /\ Ordered' /\ Dormant'
      BY <2>1, <2>4, <2>5, <3>1 DEF UnloadInv, Spared, Known, Ordered, Dormant
    <3>3. QED
      BY <2>3, <3>2 DEF UnloadInv
  <2>11. QED
    BY <1>28, <2>7, <2>8, <2>9, <2>10, EventForms
<1>29. CASE ReadEof
  <2>1. /\ UNCHANGED <<sup, late, stdin, stdout, child>> /\ ~child.alive /\ stdout = <<>>
        /\ proxy'.state = "stopped" /\ ~proxy'.proc /\ proxy'.active = NoTask
    BY <1>29 DEF ReadEof, Stopped
  <2>2. ~Sent' /\ ~Computing' /\ None(stdout', {"ready"})
    BY <2>1, EmptyPipe DEF Sent, Computing, MarkerInv, Carried
  <2>3. Spared' /\ Known' /\ Ordered' /\ ReadyFirst' /\ Dormant'
    BY <2>1, <2>2 DEF Spared, Known, Ordered, ReadyFirst, Dormant, None
  <2>4. QED
    BY <2>3 DEF UnloadInv
<1>30. CASE TaskCallback
  BY <1>30, WorkerKeeps DEF TaskCallback, Computing
<1>31. CASE StoppedListener
  BY <1>31, WorkerKeeps DEF StoppedListener, Computing
<1>32. CASE RejectTask
  BY <1>32, SupKeeps DEF RejectTask
<1>33. CASE WriteRejected
  BY <1>33, SupKeeps DEF WriteRejected
<1>34. CASE RecordEnd
  BY <1>34, WorkerKeeps DEF RecordEnd, Computing
<1>35. CASE UNCHANGED vars
  BY <1>35, WorkerKeeps DEF vars, Computing
<1>36. QED
  BY <1>1, <1>2, <1>3, <1>4, <1>5, <1>6, <1>7, <1>8, <1>9, <1>10, <1>11, <1>12, <1>13, <1>14,
     <1>15, <1>16, <1>17, <1>18, <1>19, <1>20, <1>21, <1>22, <1>23, <1>24, <1>25, <1>26, <1>27,
     <1>28, <1>29, <1>30, <1>31, <1>32, <1>33, <1>34, <1>35
     DEF DaemonNext, Supervise, LateCalls, MainLoop, Worker, Reader

LEMMA InitUnload == DaemonInit => UnloadInv
<1> SUFFICES ASSUME DaemonInit
             PROVE  UnloadInv
  OBVIOUS
<1>1. /\ proxy.state = "stopped" /\ ~proxy.proc /\ proxy.active = NoTask /\ sup.pc = "free"
      /\ ~child.alive /\ child.step = "none" /\ stdout = <<>>
  BY DEF DaemonInit, Stopped, DeadChild
<1>2. None(stdout, {"ready"})
  BY <1>1, EmptyPipe
<1>3. QED
  BY <1>1, <1>2 DEF UnloadInv, Spared, Known, Ordered, ReadyFirst, Dormant, Sent, Computing, None

--------------------------------------------------------------------------------
(* The theorems *)

\* What holds of the daemon whatever dies or stalls: the types, one task on its way,
\* in one place and marked, and cancellations that were asked for.
THEOREM DaemonInvariant == DaemonSpec => [](Typed /\ MarkerInv /\ AskedFor)
<1>1. Typed /\ MarkerInv /\ AskedFor /\ [DaemonNext]_vars => (Typed /\ MarkerInv /\ AskedFor)'
  BY TypesStep, MarkerStep, AskedStep DEF MarkerInv
<1>2. QED
  BY InitMarker, <1>1, PTL DEF DaemonSpec

\* The state of proxy, pipes and process has its type; a task that is computed, ended
\* or called back is a real one (daemon.py, anima_daemon.py).
THEOREM DaemonTypes == DaemonSpec => []DaemonTypeOK
BY DaemonInvariant, TypedIsTypeOK, PTL

\* The marker of the supervisor covers all work: while it is empty no worker computes
\* and no generate waits in the pipe of a live process, whatever dies or stalls
\* (_daemon_active_task_id, the admission gate).
THEOREM MarkerCovers == DaemonSpec => []NoWorkBehindTheMarker
<1>1. Typed /\ MarkerInv => NoWorkBehindTheMarker
  <2>1. SUFFICES ASSUME Typed, MarkerInv, marker = NoTask
                 PROVE  ~Computing /\ \A i \in DOMAIN stdin : stdin[i].kind # "generate" \/ ~child.alive
    BY DEF NoWorkBehindTheMarker
  <2>2. ~Sent /\ ~Computing
    BY <2>1, Unmarked DEF MarkerInv
  <2>3. QED
    BY <2>2 DEF Sent, None
<1>2. QED
  BY DaemonInvariant, <1>1, PTL

\* With a process that dies only at work and threads that keep up, a row is taken
\* exactly while its task is marked or a thread is about to write its verdict.
THEOREM ContractInvariant ==
  ASSUME Faults = {}
  PROVE  DaemonSpec => [](Typed /\ MarkerInv /\ AskedFor /\ Current /\ Rows)
<1> DEFINE I == Typed /\ MarkerInv /\ AskedFor /\ Current /\ Rows
<1>1. I /\ [DaemonNext]_vars => I'
  BY TypesStep, MarkerStep, AskedStep, CurrentStep, RowsStep DEF MarkerInv
<1>2. DaemonInit => I
  BY InitMarker, InitRows
<1>3. QED
  BY <1>1, <1>2, PTL DEF DaemonSpec

\* The daemon implements the safety of DaemonService: only the marked task is computed,
\* one at a time; the marker is given up when the work is over; and a task that was taken
\* gets one verdict after that, `canceled` only if asked for, be it when the next task has
\* been taken (submit_task, _handle_event, _finalize_daemon_task); when the process dies
\* only at work and threads keep up.
THEOREM KeepsContract ==
  ASSUME Faults = {}
  PROVE  DaemonSpec => Service!Safety
<1>1. DaemonInit => Service!Init
  BY DEF DaemonInit, DeadChild, Service!Init, AtWork, Computing
<1>2. Typed /\ MarkerInv /\ AskedFor /\ Current /\ Rows /\ [DaemonNext]_vars => [Service!Next]_(Service!vars)
  BY RefinementStep DEF Serves
<1>3. QED
  BY ContractInvariant, <1>1, <1>2, PTL DEF DaemonSpec, Service!Safety

\* A task is written `canceled` only if its cancellation was asked for, whatever dies
\* or stalls (cancel_active_task, _request_cancel, the stopped listener).
THEOREM CancelWasAsked == DaemonSpec => []CanceledWasAsked
<1>1. DaemonInit => CanceledWasAsked
  BY DEF DaemonInit, CanceledWasAsked
<1>2. Typed /\ MarkerInv /\ AskedFor /\ CanceledWasAsked /\ [DaemonNext]_vars => CanceledWasAsked'
  BY CanceledStep
<1>3. QED
  BY DaemonInvariant, <1>1, <1>2, PTL DEF DaemonSpec

\* Whatever dies or stalls and however many unloads are on their way: a task that is not
\* exposed has a busy proxy, no unload about to be written, and none behind it in the pipe.
THEOREM UnloadInvariant == DaemonSpec => [](Typed /\ MarkerInv /\ UnloadInv)
<1>1. Typed /\ MarkerInv /\ UnloadInv /\ [DaemonNext]_vars => (Typed /\ MarkerInv /\ UnloadInv)'
  BY TypesStep, MarkerStep, UnloadStep DEF MarkerInv
<1>2. DaemonInit => Typed /\ MarkerInv /\ UnloadInv
  BY InitMarker, InitUnload
<1>3. QED
  BY <1>1, <1>2, PTL DEF DaemonSpec

\* However many ticks, clicks and timers ask for an unload, and whatever dies or stalls:
\* the main thread of the process carries out an unload while the worker computes only if
\* one was let out before the task was accepted and written after it, or was answered
\* while the proxy was busy (request_unload, daemon.py:482-507; "unloaded", 634).
THEOREM UnloadSpares == DaemonSpec => UnloadSparesWorker
<1>1. Typed /\ MarkerInv /\ UnloadInv /\ [DaemonNext]_vars
        => [Computing /\ child'.main = "unloaded" => child.main = "unloaded" \/ proxy.exposed]_vars
  <2>1. SUFFICES ASSUME Typed, MarkerInv, UnloadInv, DaemonNext,
                        Computing, child'.main = "unloaded", ~proxy.exposed
                 PROVE  child.main = "unloaded"
    OBVIOUS
  <2>2. child' # child => ReadCommand \/ child'.main = "read" \/ child'.main = child.main
    <3>1. child \in ChildRec
      BY <2>1 DEF Typed
    <3>2. QED
      BY <2>1, <3>1 DEF DaemonNext, Supervise, Dispatch, StartProcess, StartFails, AwaitReady, ClaimDaemon,
        WriteRunning, SubmitLocked, SubmitWrite, RejectTask, WriteRejected, YieldWrite, YieldDaemon,
        UnloadButton, IdleTimeout, TaskTimeout, Cancel, LateCalls, IdleUnload, UnloadWrite, CancelWrite, Kill,
        MainLoop, EmitUnloaded, Worker, ReuseModel, UnloadForReload, LoadModel, EmitLoaded, EmitEnd,
        ClearWorker, ProcessDies, Reader, ReadEvent, ReadEof, TaskCallback, RecordEnd, StoppedListener,
        DeadChild, Dies, ChildRec, pipes
  <2>3. CASE ReadCommand
    <3>1. child \in ChildRec /\ stdin \in Seq(Commands) /\ stdin # <<>>
      BY <2>1, <2>3 DEF Typed, ReadCommand
    <3>2. None(stdin, {"unload"})
      BY <2>1 DEF UnloadInv, Ordered
    <3>3. Head(stdin).kind # "unload"
      BY <3>1, <3>2, Taken
    <3>4. child'.main = child.main
      BY <2>1, <2>3, <3>1, <3>3, CommandForms DEF ChildRec
    <3>5. QED
      BY <2>1, <3>4
  <2>4. QED
    BY <2>1, <2>2, <2>3
<1>2. QED
  BY UnloadInvariant, <1>1, PTL DEF DaemonSpec, UnloadSparesWorker
==============================================================================
