----------------------------- MODULE DaemonService -----------------------------
(***************************************************************************)
(* What the supervisor relies on when it hands a generate to the inference   *)
(* daemon: the daemon works on one task at a time, the one it was given last, *)
(* and lets go of it only when the work is over; every task it took ends      *)
(* exactly once with one verdict, be it after the next was taken; and a       *)
(* verdict of `canceled` was asked for.                                       *)
(***************************************************************************)
CONSTANTS Tasks, NoTask

VARIABLES
  status,   \* what became of each task
  asked,    \* tasks whose cancellation was asked for
  current,  \* the task the daemon has
  work      \* the task that it computes

Verdicts == {"done", "failed", "canceled"}

ServiceTypeOK == /\ status \in [Tasks -> {"new", "taken"} \cup Verdicts]
                 /\ asked \in SUBSET Tasks
                 /\ {current, work} \subseteq Tasks \cup {NoTask}

Init == /\ status = [t \in Tasks |-> "new"]
        /\ asked = {}
        /\ current = NoTask
        /\ work = NoTask

Admit(t) == /\ current = NoTask /\ work = NoTask /\ status[t] = "new"
            /\ current' = t
            /\ UNCHANGED <<status, asked, work>>

Take(t) == /\ current = t /\ status[t] = "new"
           /\ status' = [status EXCEPT ![t] = "taken"]
           /\ UNCHANGED <<asked, current, work>>

\* A task may fail before the daemon has it: a daemon that cannot start.
Refuse(t) == /\ current = NoTask /\ status[t] = "new"
             /\ status' = [status EXCEPT ![t] = "failed"]
             /\ UNCHANGED <<asked, current, work>>

Ask(t) == /\ current = t /\ status[t] = "taken"
          /\ asked' = asked \cup {t}
          /\ UNCHANGED <<status, current, work>>

Begin(t) == /\ current = t /\ status[t] = "taken" /\ work = NoTask
            /\ work' = t
            /\ UNCHANGED <<status, asked, current>>

Stop == /\ work # NoTask
        /\ work' = NoTask
        /\ UNCHANGED <<status, asked, current>>

LetGo(t) == /\ current = t /\ status[t] = "taken" /\ work = NoTask
            /\ current' = NoTask
            /\ UNCHANGED <<status, asked, work>>

End(t, v) == /\ status[t] = "taken" /\ current # t
             /\ v = "canceled" => t \in asked
             /\ status' = [status EXCEPT ![t] = v]
             /\ UNCHANGED <<asked, current, work>>

Next == \/ \E t \in Tasks : \/ Admit(t) \/ Take(t) \/ Refuse(t) \/ Ask(t) \/ Begin(t) \/ LetGo(t)
                            \/ \E v \in Verdicts : End(t, v)
        \/ Stop

vars == <<status, asked, current, work>>

\* What a step may do: the safety of the contract.
Safety == Init /\ [][Next]_vars

\* And what must happen: a task that was taken gets its verdict.
Spec == Safety /\ \A t \in Tasks : status[t] = "taken" ~> status[t] \in Verdicts
================================================================================
