# A TLA+ model of rules_itest

`rules_itest` is a Bazel ruleset that runs services for integration tests. Its
program, `svcinit`, reads a file of service specs the rules generate, starts the
services and tasks in dependency order, runs the test (or keeps the services up
for a developer), restarts what changed when ibazel says so, serves an HTTP
control API while the test runs, and stops everything at the end. This directory
holds its model: what TLC checks of it, what TLAPS proves about it, and what is
not modelled.

Paths below are relative to the repository's root.

## 1. Inventory

| Component | State | Operations | Hard behaviour | Correct when |
|---|---|---|---|---|
| Worker pool, `runner/topological/runner.go` | pending list, completed set, `die`, `err`, a mutex with its condition variable | `NewRunner`, `Run`, `worker`, `nextTask`, `setErr`, `markDone` | 2*NumCPU+1 goroutines, condition-variable wakeups, a failure racing the others, tasks that never return | dependencies first, each task once, no lost wakeup, nothing starts after a failure, nil means everything ran, `Run` returns |
| Graph functions, same file | none (`taskCost` memoizes) | `uniqueDeps`, `NewReversedRunner`, `CriticalPath`, `highestCost`, `taskCost` | breadth-first closure over shared nodes, edges reversed, tasks that never started, ties | closure complete, reversal exact, path is a heaviest chain |
| Task adapter, `runner/topo.go` | none: views of the instances | `Key`, `Run`, `Dependents`, `allTasks` | a label without an instance | every dependency has an instance |
| Runner, `runner/runner.go` | `serviceSpecs`, `serviceInstances` | `New`, `StartAll`, `StopAll`, `UpdateSpecs`, `UpdateSpecsAndRestart`, `computeUpdateActions` | partial failure in a loop, the two maps drifting apart, Go's map order | start order, stop order, instances match the specs, only what changed restarts |
| Service instance, `runner/service_instance.go` | the `exec.Cmd`, start and wait `OnceValue`s, `killed`, `done`, `runErr` | `Start`, `WaitUntilHealthy`, `HealthCheck`, `Stop`, `StopWithSignal`, `Wait`, `SetDone` | fields read and written without the mutex by main, svcctl requests and waiting goroutines; SIGTERM timeouts; a restart while old goroutines finish | one live process, a stop that succeeds leaves none, crashes and only crashes are reported, children are reaped |
| Process groups, `runner/pgroup_*.go` | none | `setPgid`, `killGroup` | a pid that is gone | - |
| svcctl server, `svcctl/svcctl.go` | none: one goroutine per request | `/v0/healthcheck`, `start`, `kill`, `wait`, `port` | requests that overlap, outlive their timeout, or come before the service exists; deferred services | as the instance's |
| svcinit main, `cmd/svcinit/main.go` | context, `servicesErrCh`, `testErrCh`, `interactiveCh`, signal count | boot, select loop, ibazel reload, verdict, shutdown | a select over several ready channels; Ctrl-C at any moment; crash against test result | test runs after startup, exit status means what it says, svcinit ends and leaves nothing |
| Port assignment, `cmd/svcinit/main.go`, `svclib/ports.go` | port map, open listeners, the svcctl listener | `assignPorts`, the alias loop, `Ports.Set`, substitutions | listeners closed before services bind, or by the garbage collector; alias of an alias in map order; a reload assigns nothing | picked ports differ, none is svcctl's, an aware service can bind, a name never gets another name's port |
| `get_assigned_port` | none | a lookup in `ASSIGNED_PORTS` | a name nobody assigned | - |
| Rules, `private/itest.bzl`, `itest.bzl` | none | specs generation, `_validate_deferred`, `_validate_duration` | attributes that do not reach the specs; durations Go cannot parse | the specs say what the BUILD file says |
| Logger, `logger/logger.go` | partial line | `Write` | a last line without a newline | - |

Who calls whom: main makes the runner (`runner.New`), starts the svcctl server on
it, calls `StartAll`, loops, and calls `StopAll`. `StartAll` and `StopAll` hand
one function per instance to the worker pool. `StartAll` and `/v0/start` spawn a
goroutine per process that calls `Wait` and sends an unexpected exit on
`servicesErrCh`, which main's select receives. svcctl requests call the same
instances from other goroutines while all of this happens; the instance's mutex
covers its flags one access at a time, never a whole operation.

`PROJECT.json` lists the hazards of this code, each at its line, with the
properties that would catch it.

## 2. Modules

| Module | Models | Composition |
|---|---|---|
| `DependencyOrder` | what a run of the worker pool promises: status per task, a stop flag, an outcome | abstract specification |
| `Topological` | the worker pool, one program counter per goroutine | refines `DependencyOrder` (`OrderSpec`) |
| `TopologicalProofs` | theorems about `Topological` | extends it and `TLAPS` |
| `Traversal` | the loop that collects tasks and notes their edges, with its invariant; `uniqueDeps`, `NewReversedRunner` | used by `PoolResults` |
| `TraversalProofs` | theorems about `Traversal` | extends it and `InductionProofs` |
| `CriticalPath` | costs and critical path of a finished run, with reference definitions | used by `PoolResults` |
| `PoolResults` | the pool with what is computed from its graph, before it runs and after | extends `Topological`, `Traversal` and `CriticalPath` |
| `PoolResultsProofs` | theorems about `CriticalPath` and `PoolResults` | extends `PoolResults`, `TopologicalProofs` and `TraversalProofs` |
| `InductionProofs` | induction and recursion, for the proofs above | extends `TLAPS` and its library |
| `ServiceInstance` | one service: its struct, its processes, the threads that act on it | stands alone |
| `ServiceProofs` | theorems about `ServiceInstance` | extends it and `TLAPS` |
| `Svcinit` | main, `StartAll`, `StopAll`, the context, the test | two instances of `DependencyOrder`, the second with reversed dependencies |
| `SvcinitProofs` | theorems about `Svcinit` | extends it and `TLAPS` |
| `Reload` | ibazel notifications: `UpdateSpecs`, then `StartAll` | stands alone; starts are atomic |
| `ReloadProofs` | theorems about `Reload` | extends it and `TLAPS` |
| `Ports` | the svcctl listener, `assignPorts`, the kernel's bind rules, the services that bind, other processes | stands alone |
| `PortsProofs` | theorems about `Ports` | extends it and `TLAPS` |
| `MCTopological`, `MCService`, `MCSvcinit`, `MCReload`, `MCPorts` | constants for TLC | extend the modules above |

Operators whose names have the form `Def_Variant` are deliberate mistakes: each
replaces `Def` in turn to see that a property notices (`PROJECT.json`,
"mutants"). No specification uses them.

### Topological

`pc[w]` is where a worker goroutine is: `lock` (about to lock), `loop` (at the
loop's head with the lock held), `waiting` (in `cv.Wait`), `woken` (must take the
lock again), `running` (in `task.Run`), `ran`, `done`. `Take` is `nextTask` with
its removal from the list and the unlock; `Wait` is its other outcome;
`MarkDone` and `SetErr` each include the lock before them and the broadcast in
them. The pending list is a set: its order is Go's map order. A task's `Run` is
the environment.

### Traversal, CriticalPath and PoolResults

`uniqueDeps` and the traversal of `NewReversedRunner` are one loop over a queue;
the second also notes each edge turned round. `Turn` is one turn of it, on the
loop's locals: `queue`, `met` (`deps`, `allTasks` and `seen`) and `reversed`
(`reversedDeps`). Lists stay lists, because the code deduplicates tasks but not
queue entries. `Loop` repeats the turn, as a recursive function of the number of
turns; `TurnBound` turns are enough, which is proved, and more do nothing.

`CriticalPath` takes a finished run: dependencies, completed tasks, which of them
were started, and durations. `Costs` is `taskCost` with `highestCost`'s maximum, a
recursive function along the dependencies; its memo cannot be observed.
`CriticalPath` is a set of paths: the order of Go's map decides between equals. The
reference definitions are the least closed set (`Closure`), the reversed edge
relation, and the maximum over all chains (`Chains`, `Weight`).

`PoolResults` puts these beside the worker pool. When a pool is fresh, whatever
`NewRunner` and `NewReversedRunner` may be given (`Given`) is traversed; when it
has returned, `CriticalPath` is applied to what it completed, with any of the
`Timings`: a task that was running before has an old `StartTime`, a group or a
deferred service never gets one.

### ServiceInstance

Every `Start` makes a new `exec.Cmd` with new closures. A Cmd is a *generation*;
`inst.cmd`, `inst.startFn` and `inst.waitFn` say which generation the struct's
fields belong to, since `initializeServiceCmd` writes them one by one without the
mutex. `once[g]` follows `waitErrFn` through `cmd.Wait`, the store of
`ProcessState` and `SetDone`. Threads are main and the svcctl requests; waiting
goroutines are the one each start spawns and those of `/v0/wait`. The service
exits when it likes.

`spec` is the part of the service's spec that decides which code runs, and never
changes: whether it is deferred (main then skips it in `StartAll` and `StopAll`,
and `/v0/start` walks its dependencies first), whether a dependency of it is not
deferred (each makes `handleStart` wait - for the service itself, `svcctl.go:87`),
whether its health check logs the pid, whether it has a health check timeout, and
whether its `shutdown_timeout` parses (if not, the stop fails after the SIGTERM).

A stop ends in one of these ways: there is no process (`nil`); the signal, or the
SIGKILL that follows `shutdown_timeout`, finds it reaped (ESRCH, `nil`); `isDone`
(`nil`); `kill(2)` refuses either signal, or `shutdown_timeout` does not parse (an
error, the latter after the SIGTERM; `killed` is set all the same). Only the stops
that return `nil` promise that no process is left.

The constant `Serial` states what callers may do. With it,

- no two requests that start or stop the service are served at once, and none
  arrives before the goroutines the last one spawned have called `Wait`;
- the service is not started after a kill, one that failed included, until its process
  has ended and `done` is set.

svcctl enforces none of this: `net/http` serves every request in a goroutine of its
own. It is how a test that waits for each answer, and for the end of what it
killed, uses the API. The second clause matters for the stops that return without
waiting: those that fail, and those that find the process reaped
(`service_instance.go:242-244`, `:283-288`), which return before `SetDone`, so that
a restart at that instant could be marked done by its predecessor. Without `Serial`
`OneLiveProcess` is false: the run `service_overlap` has two starts that both pass
`isRunning`, and a start during a kill sees `killed`, set long before the process
ends, and makes a second process too.

### Svcinit

The actions follow main: `Schedule`, `Skip`, `Launch`, `Unhealthy`, `Healthy`,
`TaskEnds` are a task function of `StartAll`; `Started` is what main does with
its result; `SelectDone`, `SelectTest`, `SelectCrash` the branches of the select;
`Signal`, `Escalate`, `Stopped` a task function of `StopAll`, each of which may fail;
`Finish` the end.
`Waited` and `Report` are the waiting goroutines, `KilledByContext` the goroutine
of `exec.CommandContext`. `Deferred` is what reaches the specs file of the
`deferred` attribute: only the rule for services writes it. The order of the tests
in `WaitUntilHealthy` is kept: an exit is noticed before the context.

### Reload

`specs` is `r.serviceSpecs` and `instances` is `r.serviceInstances`; they are
updated at different places and may differ, which is the point. `phase` walks
through the three loops of `UpdateSpecs` and `StartAll`. A spec has a version, a
definition, dependencies, a type, and the flags hot-reloadable and deferred.
Between reloads services exit and svcctl starts or kills them. `StartOne` is one
step, of which nothing says that it must be taken: a service without
`health_check_timeout` may keep `StartAll` waiting for ever, so the module states
nothing about progress.

### Ports

`pc` is the loop of `assignPorts` main is in and `left` what the loop has not come
to, in any order: Go maps. `ports` is the map `svclib.Ports`, `sock` the port a
listener was really given and `open` the listeners that are open. The second loop
closes those of services without `so_reuseport_aware`, which are in `toClose`. The
others are in no variable once their turn of the loop is over (`main.go:431-433`),
so package net's finalizer closes them at some garbage collection: `Collect`, at any
time, also while other ports are still assigned. `Free` and `Sharable` are the kernel's rules for a bind on Linux: a bind to port 0
gets an unused port, a bind to a number succeeds if every socket on it has
SO_REUSEPORT (the program relies on this; it is no code of the repository).
Services bind and release their port after startup, strangers at any time.

## 3. Runs

| Run | Question | Bounds |
|---|---|---|
| `topological` | is the pool correct, does it terminate, does it implement `DependencyOrder`? are the traversal, the reversal and the critical path right? | 6 tasks (a diamond, a chain behind it, two independent ones that may hang), 3 workers; every acyclic graph of 4 tasks with every set of roots; on the pool's own graph durations 0 to 2, up to two services not started |
| `service` | one service under serial requests: one process, stops that end it, crashes reported, children reaped | 3 specs (booted; unparsable `shutdown_timeout`; deferred with a dependency), 3 generations (two starts after the prepared one), one client besides main, one `/v0/wait` |
| `service_killed` | is an exit svcctl caused ever reported as a crash? *Yes.* | the booted service |
| `service_overlap` | is a service that two clients start at once started once? *No.* | a deferred service, two clients, not `Serial` |
| `reload` | instances and versions over any sequence of reloads | 5 files over 4 targets |
| `reload_unmodified` | does a reload leave an unmodified service alone? *No, svcinit panics.* | same |
| `reload_group` | is a removed group forgotten? *No, nil dereference.* | same |
| `svcinit` | boot, verdict and shutdown in three modes | 5 targets: a database and a fixtures task in parallel, a group of both, an application, a deferred service; two Ctrl-C |
| `svcinit_graceful` | is one Ctrl-C graceful? *Not during startup.* | same |
| `svcinit_keep_up` | does `keep_services_up` survive a crash? *No.* | same |
| `ports` | are ports distinct, bindable while held, and told right, whatever else binds and is collected? | 6 port numbers, 5 ports of services (3 picked, 2 with the same number from a flag; one aware in each group), 3 aliases (of a port, of an alias, of a name nobody assigned) |
| `ports_collected` | does svcinit keep an aware service's port for it? *Not after a garbage collection.* | same |

The runs whose answer is in italics expect a violation; `PROJECT.json` "findings"
quotes the line of the repository each contradicts.

**Why the bounds are enough.** Three workers over this graph let two hold tasks
while a third waits, is woken for nothing, or fails; both orders of every pair
occur. The theorems cover every size. Three generations let the goroutines of an
old process meet the start of a new one twice, and the third start meets a struct
that was stopped and restarted. Five files contain an unchanged, a rebuilt, a
redefined, a removed and an added target of each type, and sequences are not
bounded. Five targets are one of each type, two of them in flight at once, with
dependencies through a group.
Six port numbers are enough for svcctl, three picked ports, the flag's and one for a
stranger, and few enough that assignment can fail; those without a flag are
interchangeable (symmetry). Four tasks hold every shape the traversal treats
differently: shared and transitive dependencies, and several edges into one task.
Counters with a bound: `MaxStarts`, one `/v0/wait` goroutine per Observer at a
time, and the signal count, which the code itself ends at two.

**Fairness.** Weak fairness of each goroutine's next step: the Go scheduler runs
what can run, and a mutex that is free repeatedly is obtained. Timers fire
(`shutdown_timeout`, a parsable `health_check_timeout`). The program of a health
check ends: `HealthCheck` waits for it without a timeout
(`service_instance.go:167-175`), so one that hangs hides the exit of its service. A task's `Run` returns
unless the task is in `Hanging`; the test ends (Bazel bounds it). Nothing obliges
a service to exit or to pass its health check, a client to send a request, or a
user to press Ctrl-C.

## 4. What is proved

`TopologicalProofs` proves, for any set of tasks, any acyclic dependencies and any
non-empty set of workers:

- `Invariance`: `Spec => []IInv`, where `IInv` strengthens the checked invariants
  until it is inductive: the types; a worker is in a critical section exactly when
  it holds the lock; the partition of the tasks into pending, in flight, completed
  and failed, with one worker per task in flight; dependencies of everything in
  flight or completed are completed; `die` exactly when an error is recorded; a
  parked worker implies that no failure is recorded and that some task is in
  flight. The wakeup argument needs acyclicity: among the pending
  tasks one depends on no pending task (`SomethingInFlight`), so if it is not
  ready, something it needs is in flight, and will broadcast.
- `TypeCorrect`, `DependencyOrderHolds`, `TasksRunOnce`, `LockHeldOnce`,
  `WaitersAreOwedAWakeup`, `FailuresBlock`, `NilIsCompletion` follow from `IInv`.
- `NothingStartsAfterDie` and `FirstErrorIsKept` are action properties from it.
- `PoolImplementsOrder`: `Spec => OrderSpec`. Each action of the pool maps to an
  action of `DependencyOrder` or to a stutter; one lemma per action that does not.

The assumptions are those named in `Topological.tla`: dependencies stay within the
tasks, no cycles (Bazel rejects them), at least one worker, `nil` is not a task.

`SvcinitProofs` proves, for any targets, dependencies, types, timeouts and modes
(`SvcinitAssumption`; that dependencies are acyclic is not needed):

- `Invariance`. `IInv` says what the bookkeeping of the worker pool means for the
  processes. In `StartAll`: a pending target has no process, what is handed out has
  its direct dependencies completed, and a completed target serves (a service passed
  its health check, a task ended well). In `StopAll`: what is handed out has its
  users completed, and a completed target has no process. Whenever main is in its
  select, or a test exists, all targets serve.
- The checked invariants speak of everything a target needs, however indirectly
  (`Needs`, a least set). `NeedsCompleted` and `NeededByCompleted` bridge the two:
  the completed targets are closed under `Deps`, so they contain all of `Needs`;
  in `StopAll` the pending ones are. Groups and deferred services are handed out
  like the rest, which is why the order holds through them.
- `TypeCorrect`, `StartsInOrder`, `TestComesLast`, `StopsInOrder`,
  `OkLeavesNothing`, `VerdictIsTheTests` and `GracefulIsEnforced` follow: all seven
  invariants of the run `svcinit`.
- Most steps do to processes only what `Onward` says (nothing starts to run, what
  was reaped stays so); `ServedStays` and `OrderStays` are proved from it once.
  `Launch` is the one step that is not `Onward`.

`ReloadProofs` proves, for any specs files in any order (`ReloadAssumption`):

- `Invariance`. The checked invariants hold between reloads only. In each loop of
  `UpdateSpecs` another statement takes their place: while instances are stopped
  they are those of the old specs (`Stopping`); afterwards those that have been
  dealt with are those of the new ones (`Updating`), except for the code version
  of services still to be told; the three lists are subsets of what
  `computeUpdateActions` returned (`Lists`).
- `TypeCorrect`, `InstancesAreOfSpecs`, `RunningIsCurrent`, `NothingForgotten`: all
  four invariants of the run `reload`.

`PortsProofs` proves, for any names, flags, aliases and ports (`NamesAssumption`,
`ValuesAssumption`):

- `Invariance`. `IInv` ties the loops to the sockets: while ports are assigned
  exactly the names dealt with have an open listener (`Listeners`), so a port that
  is picked is no earlier name's; what svcinit holds no stranger has, and no
  service that is not aware (`Sockets`).
  In the alias loop the aliases it has not come to have no entry, so one that is
  looked up early gives the empty string and never a port (`Entries`).
- `TypeCorrect`, `PickedPortsDiffer`, `SvcctlPortIsItsOwn`, `AwareServicesCanBind`
  and `NamesAreTold`: all five invariants of the run `ports`. The garbage collector
  limits what can be said of aware services: two picked ports differ unless one
  of them is an aware service's, and such a service can bind while svcinit's
  listener is open (`HeldCanBind`); that it can at any time is what
  `ports_collected` refutes.

`ServiceProofs` proves, for any set of requests, any specs and any number of starts
(`ServiceAssumption`):

- Whatever the callers do, overlapping requests included: `CallerInvariance`. The
  fields of the struct may belong to different Cmds for a while, but `cmd` is always
  the last one made, and a process is reaped and its `ProcessState` stored only by
  the `Wait` of its own Cmd (`OwnWait`). So `TypeCorrect`, and `DoneMeansReaped`:
  the test a stop polls is true only of a current process that was reaped, even if
  `done` itself was set for another one.
- For `Serial` callers, both clauses of section 2: `SerialInvariance`.
  All Cmds but the last are over and waited for (`Generations`); `done` and `killed`
  speak of the last (`FlagsAreCurrent`); a start that is past its `isRunning` test
  stands before a Cmd that is over, later before a fresh one (`StartsFromDone`); the
  closures are those of the last Cmd except between the two writes of
  `initializeServiceCmd` (`Closures`); a stop that waits, waits for the last process
  (`StopsLast`); and nobody calls `Wait` while a request is served, but for the
  process main itself has just started (`OneRequest`), so no one calls a stale
  closure. `OnlyRequest` is the frame every step of a request keeps.
- `NeverTwoProcesses`, `DoneSpeaksOfCurrent`, `StopLeavesNothing` follow from it, and
  the action property `KillsAreFinal`: a stop that returns `nil` has left no live
  process. `StopsEnd` says which steps can end a stop that way. With `TypeCorrect` these are all invariants of the run
  `service`, and its action property.

`TraversalProofs` proves, for any graph, cyclic or not, that the loop of `uniqueDeps`
and `NewReversedRunner` is right, the way one proves a loop: `LoopInv` holds at its
start (`LoopBegins`), every turn keeps it (`TurnKeeps`), and with an empty queue it
gives `Exact`: the least closed set, each task once, every edge turned round once
(`LoopEndsExact`). `TurnProgresses` is why it ends on a finite graph.
`ReversedTasksAreClosed` says that StopAll's pool adds no task to the reversed ones.
That dependencies stay within the pool's tasks, which `Topological` assumes, is part
of `Exact`.

- `LoopEnds`: on a finite graph `Loop` has an empty queue and has kept `LoopInv`. A
  task may be put in the queue many times, so its length is no measure; `Remaining`
  adds, for every task not met yet, as many entries as there are tasks, and falls
  with every turn (`TurnProgresses`).
- `ReversalIsExact`: for every finite graph and list of tasks, StartAll's pool has what
  they need, each once, and `NewReversedRunner`'s the same tasks, every edge turned
  round. It needs that Bazel rejects a label listed twice (`IsFiniteGraph`): the code
  would note such an edge twice.

`InductionProofs` is what these proofs and the next stand on. The induction theorems
of the library take an operator as parameter, which the provers here cannot
instantiate, so induction is stated for sets: a set of naturals with 0 that is
closed under successor is `Nat` (`NatSetInduction`), and a set that has every task whose
dependencies it has is the whole set (`AcyclicInduction`). `AcyclicRecursion` builds
the function that a recursion along dependencies without cycles defines, from
the solutions on closed parts of the graph, which agree where they overlap.

`PoolResultsProofs` proves, for any tasks, dependencies, workers, graphs and timings
(`GivenAssumption`, `TimingsAssumption`, and `FiniteAssumption`: the tasks are finite):

- `HeaviestChain`: "Returns the slowest chain of tasks" (`runner.go:239`), for every
  run whose dependencies have no cycle and whose completed tasks are closed under
  them. The costs solve their recursion (`CostsSolve`), so a task costs at least its own
  duration plus the cost of any started dependency, and exactly that with
  the one `highestCost` returns (`CostFacts`). Then no chain of started tasks weighs
  more than the cost of its first one (`ChainsBounded`), a list `highestCost` chose
  weighs exactly that (`GreedyAttains`), and its first task costs most. `Chains` is
  bounded by the number of tasks and still has every chain, since without cycles a
  chain repeats no task (`ChainsDoNotRepeat`).
- `CriticalPathIsHeaviest`: that this holds in every reachable state in which the pool
  has returned, after a failure too. That the completed tasks are closed under
  dependencies is `DependencyOrderHolds`.
- `ReversedGraphIsExact`: `ReversalIsExact` for whatever a pool is given.

`tlapm <module>` checks the proofs of a module, each in about a minute or less.

Every invariant and every safety action property of a passing run, and the
refinement, is a theorem. Only model-checked: the liveness properties (`Termination`,
`OthersProceed`, `ChildrenReaped`, `KillReturns`, `CrashReported`,
`StartNoticesExit`, `CtrlCEnds`, `OneShotEnds`), since fairness and
ENABLED are beyond TLAPS here. No module declares a RECURSIVE operator, with which
the SMT solver is lost: recursion is written as recursive functions, and closures as
least sets (`Svcinit!Needs`, `Traversal!Closure`, `Topological!AcyclicAssumption`).

## 5. Not modelled

- Descendants of a service, and with them `WaitDelay`, which a deferred service does
  not have; pid reuse; Windows (`pgroup_windows.go`, the sockopts file).
- `/v0/healthcheck` and `/v0/port` as requests: neither changes state, apart from
  the health check's memory for a log line. `Ports!Told` is the latter's answer.
- The logger, `startDuration`, `healthcheckAttempted` and the report table: nothing
  reads them back. The environment of the test, `TEST_TIMEOUT`, runfiles lookups.
- In `Svcinit`: restarts through svcctl and reloads (so `servicesErrCh` cannot
  overflow), and an exec failure of the test binary other than under a cancelled
  context. In `Reload`: a Stop that fails, whose error the code drops. In
  `ServiceInstance`: `enforce_graceful_shutdown`, which turns the result of a stop
  into an error after the process has ended (`Stopped` of `Svcinit` has it).
- Two faults that were read off the code, and are in the modules without a
  property of their own. `handleStart` of a deferred service with a booted dependency
  waits for the service itself (`svcctl.go:87`), and a health check that logs the pid
  dereferences its nil Process: the first branch of `HealthCheck`, which ends the
  request. A task's `deferred` attribute is not written to the specs
  (`private/itest.bzl:332-335`), so the task starts on boot: `Deferred` of `Svcinit`.
- Of the Starlark rules: everything but which attributes reach the specs file and
  `_validate_deferred`.
- The examples, the tests and their helpers.

## 6. What is left

1. An instance of `Svcinit` with an unparsable `health_check_timeout`, for which the
   code announces "falling back to no timeout" and waits zero seconds
   (`runner.go:85`); `Unhealthy` models it, no run has such a service.
2. `Reload` with stops that fail, and `Svcinit` with restarts through svcctl, where
   more exits than targets can be sent on `servicesErrCh`.
