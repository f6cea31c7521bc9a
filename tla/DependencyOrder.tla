-------------------------- MODULE DependencyOrder --------------------------
(***************************************************************************)
(* What runner/topological promises its callers, without locks, workers    *)
(* or queues: a run of a set of tasks starts a task only when everything   *)
(* it depends on has completed, starts nothing once a failure is known,    *)
(* and ends when nothing is in flight - with success only if every task    *)
(* completed.  Topological.tla is shown to implement this; Svcinit.tla     *)
(* uses it as the scheduler of StartAll and StopAll.                       *)
(***************************************************************************)

CONSTANTS Tasks,   \* the tasks of the run (keys are Bazel labels)
          Deps     \* Deps[t]: the tasks t.Dependents() returns

VARIABLES status,    \* per task: "pending", "running", "completed" or "failed"
          stopping,  \* a failure has been recorded
          outcome    \* "open" until Run returns, then "ok" or "error"

vars == <<status, stopping, outcome>>

TypeOK ==
  /\ status \in [Tasks -> {"pending", "running", "completed", "failed"}]
  /\ stopping \in BOOLEAN
  /\ outcome \in {"open", "ok", "error"}

Init ==
  /\ status = [t \in Tasks |-> "pending"]
  /\ stopping = FALSE
  /\ outcome = "open"

Ready(t) == \A d \in Deps[t] : status[d] = "completed"

Start(t) ==
  /\ ~stopping
  /\ status[t] = "pending"
  /\ Ready(t)
  /\ status' = [status EXCEPT ![t] = "running"]
  /\ UNCHANGED <<stopping, outcome>>

Complete(t) ==
  /\ status[t] = "running"
  /\ status' = [status EXCEPT ![t] = "completed"]
  /\ UNCHANGED <<stopping, outcome>>

Fail(t) ==
  /\ status[t] = "running"
  /\ status' = [status EXCEPT ![t] = "failed"]
  /\ stopping' = TRUE
  /\ UNCHANGED outcome

\* Run returns: nothing is in flight any more, and either everything completed
\* or a failure was recorded.
Return ==
  /\ outcome = "open"
  /\ \A t \in Tasks : status[t] # "running"
  /\ \/ stopping /\ outcome' = "error"
     \/ /\ ~stopping
        /\ \A t \in Tasks : status[t] = "completed"
        /\ outcome' = "ok"
  /\ UNCHANGED <<status, stopping>>

Next ==
  \/ \E t \in Tasks : Start(t) \/ Complete(t) \/ Fail(t)
  \/ Return

Spec == Init /\ [][Next]_vars

=============================================================================
