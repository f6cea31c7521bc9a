------------------------------- MODULE Svcinit -------------------------------
(***************************************************************************)
(* func main of cmd/svcinit around runner.StartAll and runner.StopAll: one *)
(* boot of the services, the select loop, one shutdown.  StartAll and      *)
(* StopAll are two runs of DependencyOrder, which Topological.tla          *)
(* implements: the second has the dependencies reversed.                   *)
(*                                                                         *)
(* A service or task is started at most once here (svcctl is in            *)
(* ServiceInstance.tla, ibazel in Reload.tla), so servicesErrCh, whose     *)
(* capacity is the number of targets, never fills.  Services have a health *)
(* check that only a live one passes, and their shutdown_signal is the     *)
(* rule's default, SIGTERM; a task has none, which Stop takes for SIGKILL. *)
(***************************************************************************)
EXTENDS Naturals, FiniteSets

CONSTANTS
  Targets, Deps,   \* the targets of the specs file, and the deps of each
  Type,            \* Type[t]: "service", "task" or "group"
  DeferredAttr,    \* the targets with deferred = True in their BUILD file
  Enforce,         \* the services with enforce_graceful_shutdown
  HealthTimeout,   \* health_check_timeout: "none", "valid" or "unparsable", such as
                   \* the "4d" the rule accepts and time.ParseDuration does not
  Modes            \* the invocations considered: "test" (bazel test: one-shot),
                   \* "keepUp" (a test with keep_services_up), "run" (no test)

ASSUME SvcinitAssumption ==
  /\ Deps \in [Targets -> SUBSET Targets]
  /\ Type \in [Targets -> {"service", "task", "group"}]
  /\ Enforce \subseteq Targets
  /\ HealthTimeout \in [Targets -> {"none", "valid", "unparsable"}]
  /\ Modes \subseteq {"test", "keepUp", "run"}
  \* _validate_deferred
  /\ \A t \in Targets \ DeferredAttr : Deps[t] \cap DeferredAttr = {}

VARIABLES
  mode,       \* the invocation
  main,       \* "starting" (StartAll), "select", "stopping" (StopAll), "exited"
  exit,       \* "none", or how svcinit exited: "ok", "fail" (exit status 1 after a
              \* message), "panic" (must) or "forced" (second Ctrl-C)
  signals,    \* how many SIGINT or SIGTERM svcinit got
  status, stopping, outcome,   \* the topological run in progress
  firstErr,   \* what its first error is: "none", "canceled" or "other"
  proc,       \* per target: "new" (not started), "running", "exited", "waited"
              \* (reaped; done and runErr set)
  how,        \* per target: "none", "clean", "error", or "context" (killed by the context)
  passed,     \* history: the services that passed their health check
  killed,     \* the targets StopAll has signalled
  overdue,    \* those that got SIGKILL after shutdown_timeout
  told,       \* the targets whose goroutine has reported, or had nothing to
  reports,    \* servicesErrCh
  test,       \* the test process: "none", "running", "passed" or "failed"
  testErr     \* testErrCh holds its result

order == <<status, stopping, outcome, firstErr>>
services == <<proc, how, passed, killed, overdue, told, reports>>
testing == <<test, testErr>>
vars == <<mode, main, exit, signals, order, services, testing>>

TypeOK ==
  /\ mode \in Modes
  /\ main \in {"starting", "select", "stopping", "exited"}
  /\ exit \in {"none", "ok", "fail", "panic", "forced"}
  /\ signals \in 0..2
  /\ status \in [Targets -> {"pending", "running", "completed", "failed"}]
  /\ stopping \in BOOLEAN /\ outcome \in {"open", "ok", "error"}
  /\ firstErr \in {"none", "canceled", "other"}
  /\ proc \in [Targets -> {"new", "running", "exited", "waited"}]
  /\ how \in [Targets -> {"none", "clean", "error", "context"}]
  /\ passed \subseteq Targets /\ killed \subseteq Targets /\ overdue \subseteq Targets
  /\ told \subseteq Targets /\ reports \subseteq Targets
  /\ test \in {"none", "running", "passed", "failed"}
  /\ testErr \in BOOLEAN

Init ==
  /\ mode \in Modes
  /\ main = "starting" /\ exit = "none" /\ signals = 0
  /\ status = [t \in Targets |-> "pending"]
  /\ stopping = FALSE /\ outcome = "open" /\ firstErr = "none"
  /\ proc = [t \in Targets |-> "new"]
  /\ how = [t \in Targets |-> "none"]
  /\ passed = {} /\ killed = {} /\ overdue = {} /\ told = {} /\ reports = {}
  /\ test = "none" /\ testErr = FALSE

\* The specs file: only the rule of a service writes "deferred" into it.
Deferred == {t \in DeferredAttr : Type[t] = "service"}
Skipped(t) == Type[t] = "group" \/ t \in Deferred
OneShot == mode = "test"
HasTest == mode # "run"
Cancelled == signals > 0   \* the context of main and of every command

Dependents_Unreversed == Deps   \* mutant: NewRunner for NewReversedRunner
Dependents == [t \in Targets |-> {u \in Targets : t \in Deps[u]}]

Starter == INSTANCE DependencyOrder WITH Tasks <- Targets
Stopper == INSTANCE DependencyOrder WITH Tasks <- Targets, Deps <- Dependents

Exits(e) == main' = "exited" /\ exit' = e
ExitOf(t, h) == proc' = [proc EXCEPT ![t] = "exited"] /\ how' = [how EXCEPT ![t] = h]

-----------------------------------------------------------------------------
(* StartAll. *)

\* t is in the hands of a worker of StartAll, or of StopAll.
Starting(t) == main = "starting" /\ status[t] = "running"
Stopping(t) == main = "stopping" /\ status[t] = "running"

Schedule(t) ==
  /\ \/ main = "starting" /\ Starter!Start(t)
     \/ main = "stopping" /\ Stopper!Start(t)
  /\ UNCHANGED <<mode, main, exit, signals, firstErr, services, testing>>

\* Groups and deferred services are neither started nor stopped.
Skip(t) ==
  /\ Skipped(t)
  /\ \/ Starting(t) /\ Starter!Complete(t)
     \/ Stopping(t) /\ Stopper!Complete(t)
  /\ UNCHANGED <<mode, main, exit, signals, firstErr, services, testing>>

\* The function of t's task returns nil, or an error.
Starts(t) == Starter!Complete(t) /\ UNCHANGED firstErr
Fails(t, e) ==
  /\ Starter!Fail(t)
  /\ firstErr' = IF stopping THEN firstErr ELSE e

\* Start; exec.Cmd.Start returns the context's error once it is cancelled.
Launch(t) ==
  /\ Starting(t) /\ ~Skipped(t) /\ proc[t] = "new"
  /\ \/ /\ ~Cancelled
        /\ proc' = [proc EXCEPT ![t] = "running"]
        /\ UNCHANGED order
     \/ Fails(t, IF Cancelled THEN "canceled" ELSE "other") /\ UNCHANGED proc
  /\ UNCHANGED <<mode, main, exit, signals, how, passed, killed, overdue, told,
                 reports, testing>>

\* WaitUntilHealthy of a service, in the order of its tests: it has exited; ctx is
\* done; else a health check may pass.  An unparsable timeout is a timeout of zero.
Unhealthy(t) ==
  /\ Starting(t) /\ Type[t] = "service" /\ proc[t] # "new"
  /\ \/ proc[t] = "waited" /\ Fails(t, "other")
     \/ proc[t] # "waited" /\ Cancelled /\ Fails(t, "canceled")
     \/ proc[t] # "waited" /\ HealthTimeout[t] # "none" /\ Fails(t, "other")
  /\ UNCHANGED <<mode, main, exit, signals, services, testing>>
Healthy(t) ==
  /\ Starting(t) /\ Type[t] = "service" /\ proc[t] = "running"
  /\ ~Cancelled /\ HealthTimeout[t] # "unparsable"
  /\ Starts(t)
  /\ passed' = passed \cup {t}
  /\ UNCHANGED <<mode, main, exit, signals, proc, how, killed, overdue, told,
                 reports, testing>>

\* Mutant: a task counts as started like a service.
TaskEnds_NotAwaited(t) ==
  /\ Starting(t) /\ Type[t] = "task" /\ proc[t] # "new"
  /\ Starts(t)
  /\ UNCHANGED <<mode, main, exit, signals, services, testing>>

\* WaitUntilHealthy of a task: its exit.
TaskEnds(t) ==
  /\ Starting(t) /\ Type[t] = "task" /\ proc[t] = "waited"
  /\ IF how[t] = "clean" THEN Starts(t) ELSE Fails(t, "other")
  /\ UNCHANGED <<mode, main, exit, signals, services, testing>>

\* wg.Wait() of either run.
RunReturns ==
  /\ \/ main = "starting" /\ Starter!Return
     \/ main = "stopping" /\ Stopper!Return
  /\ UNCHANGED <<mode, main, exit, signals, firstErr, services, testing>>

-----------------------------------------------------------------------------
(* main, after StartAll. *)

BeginStopAll ==
  /\ main' = "stopping"
  /\ status' = [t \in Targets |-> "pending"]
  /\ stopping' = FALSE /\ outcome' = "open" /\ firstErr' = "none"
  /\ UNCHANGED <<exit, testing>>

\* The top of main's loop.  Starting the test under a cancelled context is a panic.
Loop ==
  /\ UNCHANGED order
  /\ IF HasTest /\ Cancelled THEN Exits("panic") /\ UNCHANGED testing
     ELSE /\ main' = "select" /\ UNCHANGED exit
          /\ test' = IF HasTest THEN "running" ELSE "none"
          /\ testErr' = FALSE

\* Mutant: the error of StartAll is dropped.
Started_ErrorDropped ==
  /\ main = "starting" /\ outcome # "open"
  /\ Loop
  /\ UNCHANGED <<mode, signals, services>>

\* StartAll's result: context.Canceled means StopAll and return, another error is a
\* panic that stops nothing.
Started ==
  /\ main = "starting" /\ outcome # "open"
  /\ \/ outcome = "ok" /\ Loop
     \/ outcome = "error" /\ firstErr = "canceled" /\ BeginStopAll
     \/ /\ outcome = "error" /\ firstErr = "other"
        /\ Exits("panic") /\ UNCHANGED <<order, testing>>
  /\ UNCHANGED <<mode, signals, services>>

\* The select: ctx.Done ...
SelectDone ==
  /\ main = "select" /\ Cancelled
  /\ BeginStopAll
  /\ UNCHANGED <<mode, signals, services>>

\* Mutant: a failed test is only logged.
SelectTest_FailureLogged ==
  /\ main = "select" /\ testErr
  /\ IF OneShot THEN BeginStopAll ELSE Loop
  /\ UNCHANGED <<mode, signals, services>>

\* ... the test's result; unless svcinit is one-shot the loop runs the test again ...
SelectTest ==
  /\ main = "select" /\ testErr
  /\ \/ OneShot /\ test = "failed" /\ Exits("fail") /\ UNCHANGED <<order, testing>>
     \/ OneShot /\ test = "passed" /\ BeginStopAll
     \/ ~OneShot /\ Loop
  /\ UNCHANGED <<mode, signals, services>>

\* ... an unexpected exit.  Unless svcinit is one-shot the test's ProcessState is
\* read next, which is nil while the test runs.
SelectCrash ==
  /\ main = "select"
  /\ \E t \in reports : reports' = reports \ {t}
  /\ \/ OneShot /\ Exits("fail") /\ UNCHANGED <<order, testing>>
     \/ ~OneShot /\ test = "running" /\ Exits("panic") /\ UNCHANGED <<order, testing>>
     \/ ~OneShot /\ test # "running" /\ Loop
  /\ UNCHANGED <<mode, signals, proc, how, passed, killed, overdue, told>>

-----------------------------------------------------------------------------
(* StopAll. *)

\* Stop: a target that never ran or is reaped is nothing to wait for.  It fails at once
\* if kill(2) does, or after the SIGTERM if shutdown_timeout does not parse.
Signal(t) ==
  /\ Stopping(t) /\ ~Skipped(t) /\ t \notin killed
  /\ \/ /\ proc[t] \in {"new", "waited"}
        /\ Stopper!Complete(t)
        /\ UNCHANGED <<proc, how, killed>>
     \/ /\ proc[t] \in {"running", "exited"}
        /\ killed' = killed \cup {t}
        /\ IF Type[t] = "task" /\ proc[t] = "running" THEN ExitOf(t, "error")
           ELSE UNCHANGED <<proc, how>>
        /\ UNCHANGED <<status, stopping, outcome>>
     \/ /\ proc[t] \in {"running", "exited"}
        /\ killed' = killed \cup {t}
        /\ Stopper!Fail(t)
        /\ UNCHANGED <<proc, how>>
  /\ UNCHANGED <<mode, main, exit, signals, firstErr, passed, overdue, told, reports,
                 testing>>

Escalate_Dropped(t) == FALSE   \* mutant: shutdown_timeout is not armed

\* shutdown_timeout ends before isDone: SIGKILL, whose failure fails the stop.
Escalate(t) ==
  /\ Stopping(t) /\ Type[t] = "service" /\ t \in killed \ overdue
  /\ proc[t] \in {"running", "exited"}
  /\ \/ /\ overdue' = overdue \cup {t}
        /\ IF proc[t] = "running" THEN ExitOf(t, "error") ELSE UNCHANGED <<proc, how>>
        /\ UNCHANGED <<status, stopping, outcome>>
     \/ Stopper!Fail(t) /\ UNCHANGED <<proc, how, overdue>>
  /\ UNCHANGED <<mode, main, exit, signals, firstErr, passed, killed, told, reports, testing>>

\* Mutant: a forceful shutdown is no error.
Stopped_NotEnforced(t) ==
  /\ Stopping(t) /\ t \in killed /\ proc[t] = "waited"
  /\ Stopper!Complete(t)
  /\ UNCHANGED <<mode, main, exit, signals, firstErr, services, testing>>

\* isDone: Stop returns.
Stopped(t) ==
  /\ Stopping(t) /\ t \in killed /\ proc[t] = "waited"
  /\ IF t \in overdue \cap Enforce THEN Stopper!Fail(t) ELSE Stopper!Complete(t)
  /\ UNCHANGED <<mode, main, exit, signals, firstErr, services, testing>>

Finish_ErrorDropped ==   \* mutant
  /\ main = "stopping" /\ outcome # "open"
  /\ Exits("ok")
  /\ UNCHANGED <<mode, signals, order, services, testing>>

\* must(err) of StopAll, and main returns.
Finish ==
  /\ main = "stopping" /\ outcome # "open"
  /\ Exits(IF outcome = "ok" THEN "ok" ELSE "panic")
  /\ UNCHANGED <<mode, signals, order, services, testing>>

-----------------------------------------------------------------------------
(* The other goroutines, the processes and the user. *)

\* A process exits when it likes.
Exit(t) ==
  /\ main # "exited" /\ proc[t] = "running"
  /\ \E h \in {"clean", "error"} : ExitOf(t, h)
  /\ UNCHANGED <<mode, main, exit, signals, order, passed, killed, overdue, told,
                 reports, testing>>

KilledByContext_Never(t) == FALSE   \* mutant: exec.Command for CommandContext

\* The goroutine of exec.CommandContext kills the process with SIGKILL.
KilledByContext(t) ==
  /\ main # "exited" /\ Cancelled /\ proc[t] = "running"
  /\ ExitOf(t, "context")
  /\ UNCHANGED <<mode, main, exit, signals, order, passed, killed, overdue, told,
                 reports, testing>>

\* The goroutine StartAll spawned: waitErrFn returns ...
Waited(t) ==
  /\ main # "exited" /\ proc[t] = "exited"
  /\ proc' = [proc EXCEPT ![t] = "waited"]
  /\ UNCHANGED <<mode, main, exit, signals, order, how, passed, killed, overdue, told,
                 reports, testing>>

\* ... and "err != nil && !service.Killed()" is sent to main.
Report(t) ==
  /\ main # "exited" /\ proc[t] = "waited" /\ t \notin told
  /\ told' = told \cup {t}
  /\ reports' = IF how[t] # "clean" /\ t \notin killed THEN reports \cup {t} ELSE reports
  /\ UNCHANGED <<mode, main, exit, signals, order, proc, how, passed, killed, overdue,
                 testing>>

\* The test exits, or is killed with the context.
TestExits ==
  /\ main # "exited" /\ test = "running"
  /\ \E r \in {"passed", "failed"} : (Cancelled => r = "failed") /\ test' = r
  /\ testErr' = TRUE
  /\ UNCHANGED <<mode, main, exit, signals, order, services>>

CtrlC_CountsOn ==   \* mutant: the second signal does not exit
  /\ main # "exited"
  /\ signals' = signals + 1
  /\ UNCHANGED <<mode, main, exit, order, services, testing>>

\* SIGINT or SIGTERM: the first cancels the context, the second exits.
CtrlC ==
  /\ main # "exited"
  /\ signals' = signals + 1
  /\ IF signals = 0 THEN UNCHANGED <<main, exit>> ELSE Exits("forced")
  /\ UNCHANGED <<mode, order, services, testing>>

Exited == main = "exited" /\ UNCHANGED vars

TargetStep(t) ==
  \/ Schedule(t) \/ Skip(t) \/ Launch(t) \/ Unhealthy(t) \/ TaskEnds(t)
  \/ Signal(t) \/ Escalate(t) \/ Stopped(t)
WaiterStep(t) == Waited(t) \/ Report(t)
MainStep == RunReturns \/ Started \/ SelectDone \/ SelectTest \/ SelectCrash \/ Finish

Next ==
  \/ \E t \in Targets : TargetStep(t) \/ Healthy(t) \/ WaiterStep(t)
  \/ MainStep
  \/ \E t \in Targets : Exit(t) \/ KilledByContext(t)
  \/ TestExits \/ CtrlC \/ Exited

\* The goroutines of svcinit run on and its timers fire, and the test ends.  No
\* service need pass its health check or exit on its own.
Fairness ==
  /\ \A t \in Targets : WF_vars(TargetStep(t)) /\ WF_vars(WaiterStep(t))
  /\ \A t \in Targets : WF_vars(KilledByContext(t))
  /\ WF_vars(MainStep) /\ WF_vars(TestExits)

Spec == Init /\ [][Next]_vars
FairSpec == Spec /\ Fairness

-----------------------------------------------------------------------------
\* Everything a target needs, directly or through groups and other targets.
Needs == [t \in Targets |->
  {u \in Targets : \A S \in SUBSET Targets :
     Deps[t] \subseteq S /\ (\A v \in S : Deps[v] \subseteq S) => u \in S}]

\* A service that passed its health check, a task that succeeded.
Served(t) ==
  CASE Type[t] = "service" -> t \in passed
    [] Type[t] = "task" -> proc[t] = "waited" /\ how[t] = "clean"

\* "Services/tasks that must be started before this service/task can be started"
\* (private/itest.bzl:111): nothing is started before all it needs is healthy or, for
\* a task, done, also through groups.
StartedInOrder ==
  \A t \in Targets : proc[t] # "new" =>
    \A u \in Needs[t] : ~Skipped(u) => Served(u)

\* "each verified to have passed health checks before your test code runs"
\* (README.md): the test runs only after every non-deferred target is up.
TestAfterStartup == test # "none" => \A t \in Targets : ~Skipped(t) => Served(t)

\* StopAll stops a target only when nothing that needs it runs any more.
StoppedInOrder ==
  \A t \in killed : \A u \in Targets :
    t \in Needs[u] /\ ~Skipped(u) => proc[u] # "running"

\* When svcinit exits with status 0 it has left no process it started.
OkMeansStopped == exit = "ok" => \A t \in Targets : proc[t] # "running"

\* A one-shot svcinit nobody interrupted exits with status 0 only if the test passed:
\* StopAll's success does not stand for the test's.
TestVerdict == exit = "ok" /\ OneShot /\ ~Cancelled => test = "passed"

\* "the service manager will fail the service_test if the service had to be
\* forcefully killed" (private/itest.bzl:317), whatever else fails meanwhile.
EnforcedShutdown == exit = "ok" => overdue \cap Enforce = {}

\* A first Ctrl-C ends svcinit, wherever main is.
CtrlCEnds == Cancelled ~> main = "exited"

\* Once its test runs, a one-shot svcinit ends, whatever its services do.
OneShotEnds == main = "select" /\ OneShot ~> main = "exited"

\* "Shutdown requested, exiting gracefully" (main.go:159): after one Ctrl-C svcinit
\* does not panic, unless some target failed that the Ctrl-C did not kill.
GracefulExit ==
  signals = 1 /\ exit = "panic" =>
    \E t \in Targets : status[t] = "failed" /\ how[t] # "context"

\* "This will match the behavior of `bazel run` on a service" (BUILD.bazel:41): with
\* keep_services_up a crash does not end an svcinit that is up.
CrashSurvived == mode = "keepUp" /\ ~Cancelled /\ test # "none" => exit = "none"

=============================================================================
