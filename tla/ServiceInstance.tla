--------------------------- MODULE ServiceInstance ---------------------------
(***************************************************************************)
(* One service and everything that acts on it concurrently:                *)
(*  - the fields of runner.ServiceInstance, of which only some accesses    *)
(*    hold mu;                                                             *)
(*  - its processes, one per exec.Cmd.  initializeServiceCmd makes a new   *)
(*    Cmd, with its own start and wait closures, on every Start: a Cmd is  *)
(*    a "generation";                                                      *)
(*  - main (StartAll's task for this service, at the end StopAll's), and   *)
(*    the goroutines of the svcctl server that serve /v0/start, /v0/kill   *)
(*    and /v0/wait;                                                        *)
(*  - the goroutine every successful start spawns to reap the child and to *)
(*    report an unexpected exit on servicesErrCh.                          *)
(* The service itself is the environment: it exits when it likes.  It has  *)
(* no descendants, so its process group is its process, and a pid is not   *)
(* reused.                                                                 *)
(***************************************************************************)
EXTENDS Naturals, FiniteSets

CONSTANTS
  Controllers,   \* svcctl requests that may start or kill the service
  Observers,     \* svcctl requests that wait for it
  Main,          \* the goroutine of func main
  MaxStarts,     \* bound: how many times initializeServiceCmd runs
  Specs,         \* the service specs considered
  Serial         \* callers neither overlap requests that start or stop the
                 \* service nor outrun the goroutines of the previous one, nor
                 \* start a service again before a kill of it has led to done

\* What of a service spec the code below tells apart.
ServiceSpec == [
  deferred : BOOLEAN,    \* StartAll and StopAll skip the service
  needsBooted : BOOLEAN, \* one of its deps is not deferred
  check : {"none", "quiet", "logged"},
                         \* its health check, which only a live process passes:
                         \* every check but a terse command one logs the pid
  timeout : BOOLEAN,     \* it has a health_check_timeout
  parses : BOOLEAN]      \* its shutdown_timeout is a valid Go duration

Threads == Controllers \cup {Main}
Gens == 1..MaxStarts
\* A goroutine that calls s.Wait(): x in Gens is the one spawned by the start that
\* created generation x, x in Observers belongs to that /v0/wait request.
Goroutines == Gens \cup Observers
Nil == 0

ASSUME ServiceAssumption ==
  /\ MaxStarts \in Nat \ {0}
  /\ Main \notin Controllers
  /\ Observers \cap Gens = {}
  /\ Specs \subseteq ServiceSpec
  /\ Serial \in BOOLEAN

VARIABLES
  spec,      \* the spec of the service, which never changes
  inst,      \* the struct: cmd, startErrFn and waitErrFn (as generations), killed,
             \* done, and runErr (the generation whose error it holds, or Nil)
  last,      \* how many generations exist
  proc,      \* per generation: "none" (Process is nil), "failed" (cmd.Start
             \* failed, Process is nil), "running", "zombie", "reaped"
  exit,      \* per generation: "none", "clean" or "error" (non-zero or a signal)
  hasState,  \* per generation: cmd.ProcessState is not nil
  once,      \* waitErrFn's OnceValue: "idle", "waiting" in cmd.Wait, "reaped" (wait4
             \* is back, ProcessState not stored yet), "waited" (about to SetDone),
             \* "returned"
  pc,        \* where each thread is
  signal,    \* the signal a kill request sends
  mine,      \* the generation a start request created
  wpc, wfn,  \* where each waiting goroutine is, and whose waitErrFn it called
  phase,     \* main: "starting" (StartAll), "up", "failed" (must(err)), "over"
  reported,  \* the generations whose exit was sent on servicesErrCh
  stopped    \* history: the generations svcinit or svcctl sent a signal to

procs == <<proc, exit>>
goroutines == <<wpc, wfn>>
vars == <<spec, inst, last, proc, exit, hasState, once, pc, signal, mine, wpc, wfn,
          phase, reported, stopped>>

StartLocs == {"check", "initCmd", "initFns", "reset", "exec", "probe", "healthcheck"}
KillLocs == {"stop", "deliver", "mark", "refused", "awaitDone", "awaitTerm", "error"}

TypeOK ==
  /\ spec \in Specs
  /\ inst \in [cmd : Gens, startFn : Gens, waitFn : Gens, killed : BOOLEAN,
               done : BOOLEAN, runErr : Gens \cup {Nil}]
  /\ last \in Gens
  /\ proc \in [Gens -> {"none", "failed", "running", "zombie", "reaped"}]
  /\ exit \in [Gens -> {"none", "clean", "error"}]
  /\ hasState \in [Gens -> BOOLEAN]
  /\ once \in [Gens -> {"idle", "waiting", "reaped", "waited", "returned"}]
  /\ pc \in [Threads -> {"idle"} \cup StartLocs \cup KillLocs]
  /\ signal \in [Threads -> {"SIGTERM", "SIGKILL"}]
  /\ mine \in [Threads -> Gens \cup {Nil}]
  /\ wpc \in [Goroutines -> {"none", "fetch", "wait", "check", "finished"}]
  /\ wfn \in [Goroutines -> Gens \cup {Nil}]
  /\ phase \in {"starting", "up", "failed", "over"}
  /\ reported \in SUBSET Gens
  /\ stopped \in SUBSET Gens

\* runner.New has prepared generation 1; main is in StartAll.
Init ==
  /\ spec \in Specs
  /\ inst = [cmd |-> 1, startFn |-> 1, waitFn |-> 1, killed |-> FALSE,
             done |-> FALSE, runErr |-> Nil]
  /\ last = 1
  /\ proc = [g \in Gens |-> "none"]
  /\ exit = [g \in Gens |-> "none"]
  /\ hasState = [g \in Gens |-> FALSE]
  /\ once = [g \in Gens |-> "idle"]
  /\ pc = [c \in Threads |-> IF c = Main /\ ~spec.deferred THEN "check" ELSE "idle"]
  /\ signal = [c \in Threads |-> "SIGKILL"]
  /\ mine = [c \in Threads |-> Nil]
  /\ wpc = [x \in Goroutines |-> "none"]
  /\ wfn = [x \in Goroutines |-> Nil]
  /\ phase = IF spec.deferred THEN "up" ELSE "starting"
  /\ reported = {}
  /\ stopped = {}

-----------------------------------------------------------------------------
NoProcess(g) == proc[g] \in {"none", "failed"}   \* cmd.Process == nil
Live(g) == proc[g] = "running"

IsRunning == ~NoProcess(inst.cmd) /\ ~inst.done /\ ~inst.killed
IsDone == inst.done /\ hasState[inst.cmd]

\* What Serial says of the moment a request arrives: the requests that start or
\* stop the service have been answered, the goroutines they spawned have called
\* Wait, and a Wait that fails at once, for want of a process, has returned.
Settled ==
  /\ \A d \in Threads : pc[d] = "idle"
  /\ \A x \in Goroutines : wpc[x] # "fetch"
  /\ \A g \in Gens : once[g] = "waited" => ~NoProcess(g)

\* Whether a request may arrive.  The test runs once StartAll has succeeded.
Free(c) == phase = "up" /\ pc[c] = "idle" /\ (Serial => Settled)

\* A thread, or a waiting goroutine, is at one of the given places and svcinit
\* has not exited.
Running == phase \in {"starting", "up"}
At(c, locs) == Running /\ pc[c] \in locs
WaiterAt(x, l) == Running /\ wpc[x] = l
Goto(c, l) == pc' = [pc EXCEPT ![c] = l]
\* A local variable is not read again.
Forget(c) == mine' = [mine EXCEPT ![c] = Nil]

-----------------------------------------------------------------------------
(* Start: handleStart, and the first half of StartAll's task. *)

\* A /v0/start request arrives.  Before it starts a deferred service the handler
\* waits, for each dependency that is not deferred, until the service itself is
\* healthy.  One such dependency stands for all; each has an instance (a label
\* without one has ended svcinit: Dangling in Reload.tla).
RequestStart(c) ==
  /\ Free(c)
  /\ Serial /\ inst.killed => once[inst.cmd] = "returned"
  /\ last < MaxStarts
  /\ Goto(c, IF spec.deferred /\ spec.needsBooted THEN "probe" ELSE "check")
  /\ UNCHANGED <<spec, inst, last, procs, hasState, once, signal, mine, goroutines,
                 phase, reported, stopped>>

CheckRunning_Skipped(c) ==   \* mutant: Start does not test isRunning
  /\ At(c, {"check"})
  /\ Goto(c, "initCmd")
  /\ UNCHANGED <<spec, inst, last, procs, hasState, once, signal, mine, goroutines,
                 phase, reported, stopped>>
\* Start's first test.  "is already running" is an error to the caller.
CheckRunning(c) ==
  /\ At(c, {"check"})
  /\ Goto(c, IF IsRunning THEN "idle" ELSE "initCmd")
  /\ UNCHANGED <<spec, inst, last, procs, hasState, once, signal, mine, goroutines,
                 phase, reported, stopped>>

InitCmd_NotKept(c) ==   \* mutant: the closures capture a Cmd that was never set
  /\ At(c, {"initCmd"})
  /\ last < MaxStarts
  /\ last' = last + 1
  /\ inst' = [inst EXCEPT !.cmd = last', !.killed = FALSE]
  /\ Goto(c, "initFns")
  /\ UNCHANGED <<spec, procs, hasState, once, signal, mine, goroutines, phase, reported,
                 stopped>>
\* initializeServiceCmd, without mu: instance.cmd and instance.killed ...
InitCmd(c) ==
  /\ At(c, {"initCmd"})
  /\ last < MaxStarts
  /\ last' = last + 1
  /\ mine' = [mine EXCEPT ![c] = last']
  /\ inst' = [inst EXCEPT !.cmd = last', !.killed = FALSE]
  /\ Goto(c, "initFns")
  /\ UNCHANGED <<spec, procs, hasState, once, signal, goroutines, phase, reported, stopped>>

\* ... then the closures over the new Cmd ...
InitFns(c) ==
  /\ At(c, {"initFns"})
  /\ inst' = [inst EXCEPT !.startFn = mine[c], !.waitFn = mine[c]]
  /\ Goto(c, "reset")
  /\ UNCHANGED <<spec, last, procs, hasState, once, signal, mine, goroutines, phase,
                 reported, stopped>>

ResetDone_Kept(c) ==   \* mutant: done is not reset
  /\ At(c, {"reset"})
  /\ inst' = [inst EXCEPT !.runErr = Nil]
  /\ Goto(c, "exec")
  /\ UNCHANGED <<spec, last, procs, hasState, once, signal, mine, goroutines, phase,
                 reported, stopped>>

\* ... and, under mu, runErr and done.
ResetDone(c) ==
  /\ At(c, {"reset"})
  /\ inst' = [inst EXCEPT !.runErr = Nil, !.done = FALSE]
  /\ Goto(c, "exec")
  /\ UNCHANGED <<spec, last, procs, hasState, once, signal, mine, goroutines, phase,
                 reported, stopped>>

Spawn_Forgotten(x) == UNCHANGED wpc   \* mutant

\* The goroutine of StartAll and of handleStart that waits for the child.
Spawn(x) == wpc' = [wpc EXCEPT ![x] = "fetch"]

\* startErrFn(), a OnceValue of the current closure's cmd.Start.  On success the
\* reaping goroutine is spawned; a failed cmd.Start is an error to the caller.
Exec(c) ==
  /\ At(c, {"exec"})
  /\ LET g == inst.startFn IN
     /\ \/ proc[g] = "none" /\ proc' \in {[proc EXCEPT ![g] = s] : s \in {"running", "failed"}}
        \/ proc[g] # "none" /\ UNCHANGED proc
     /\ IF proc'[g] = "failed"
          THEN /\ Goto(c, "idle")
               /\ phase' = IF c = Main THEN "failed" ELSE phase
               /\ UNCHANGED wpc
          ELSE /\ Spawn(mine[c])
               /\ Goto(c, IF c = Main THEN "probe" ELSE "idle")
               /\ UNCHANGED phase
  /\ Forget(c)
  /\ UNCHANGED <<spec, inst, last, exit, hasState, once, signal, wfn, reported, stopped>>

Probe_NoExitCheck(c) ==   \* mutant: only the health check ends the loop
  /\ At(c, {"probe"})
  /\ Goto(c, "healthcheck")
  /\ UNCHANGED <<spec, inst, last, procs, hasState, once, signal, mine, goroutines,
                 phase, reported, stopped>>

\* WaitUntilHealthy: an error, an exit or the end of health_check_timeout ends
\* StartAll with an error.  handleStart, which sets no timeout, answers 500 and
\* goes on to start the service ...
Probe(c) ==
  /\ At(c, {"probe"})
  /\ \/ /\ inst.runErr # Nil \/ IsDone \/ (c = Main /\ spec.timeout)
        /\ Goto(c, IF c = Main THEN "idle" ELSE "check")
        /\ phase' = IF c = Main THEN "failed" ELSE phase
     \/ /\ inst.runErr = Nil /\ ~IsDone
        /\ Goto(c, "healthcheck")
        /\ UNCHANGED phase
  /\ UNCHANGED <<spec, inst, last, procs, hasState, once, signal, mine, goroutines,
                 reported, stopped>>

\* ... otherwise the health check decides.  Logging the pid of a Cmd without a
\* Process dereferences nil, which ends the request (net/http recovers) or main;
\* silence needs an earlier attempt.
HealthCheck(c) ==
  /\ At(c, {"healthcheck"})
  /\ LET nilPid == spec.check = "logged" /\ NoProcess(inst.cmd) IN
     \/ /\ nilPid
        /\ Goto(c, "idle")
        /\ phase' = IF c = Main THEN "failed" ELSE phase
     \/ /\ ~nilPid /\ (Live(inst.cmd) \/ spec.check = "none")
        /\ Goto(c, IF c = Main THEN "idle" ELSE "check")
        /\ phase' = IF c = Main THEN "up" ELSE phase
     \/ /\ ~nilPid /\ spec.check # "none"
        /\ Goto(c, "probe")
        /\ UNCHANGED phase
  /\ UNCHANGED <<spec, inst, last, procs, hasState, once, signal, mine, goroutines,
                 reported, stopped>>

-----------------------------------------------------------------------------
(* Stop and StopWithSignal: handleKill, and StopAll's task. *)

\* main calls StopAll, which leaves a deferred service alone.
SkipStop ==
  /\ Free(Main) /\ spec.deferred
  /\ phase' = "over"
  /\ UNCHANGED <<spec, inst, last, procs, hasState, once, pc, signal, mine, goroutines,
                 reported, stopped>>

\* A /v0/kill request arrives, or main calls StopAll.
RequestKill(c, s) ==
  /\ Free(c)
  /\ c = Main => ~spec.deferred
  /\ signal' = [signal EXCEPT ![c] = s]
  /\ Goto(c, "stop")
  /\ UNCHANGED <<spec, inst, last, procs, hasState, once, mine, goroutines, phase,
                 reported, stopped>>

\* A request that is over; its signal is not read again.
Ends(c) == Goto(c, "idle") /\ signal' = [signal EXCEPT ![c] = "SIGKILL"]
\* Stop returns nil; it fails, or panics: must(err) for main.
StopReturns(c) == Ends(c) /\ phase' = IF c = Main THEN "over" ELSE phase
StopBreaks(c) == Ends(c) /\ phase' = IF c = Main THEN "failed" ELSE phase

\* s.cmd.Process == nil: there is nothing to stop.
Stop(c) ==
  /\ At(c, {"stop"})
  /\ IF NoProcess(inst.cmd) THEN StopReturns(c)
     ELSE Goto(c, "deliver") /\ UNCHANGED <<signal, phase>>
  /\ UNCHANGED <<spec, inst, last, procs, hasState, once, mine, goroutines, reported,
                 stopped>>

\* The process once signal s has been sent to it.  SIGKILL ends it; SIGTERM
\* leaves it to the process whether and how it exits.
Signalled(g, s) ==
  IF Live(g) /\ s = "SIGKILL"
  THEN proc' = [proc EXCEPT ![g] = "zombie"] /\ exit' = [exit EXCEPT ![g] = "error"]
  ELSE UNCHANGED procs

\* killGroup(s.cmd, signal).  kill(2) may refuse.  Killing a reaped process is ESRCH:
\* gone already.  A Cmd that another request replaced since has no Process: nil is
\* dereferenced, which ends the request (net/http recovers) or main.
Deliver(c) ==
  /\ At(c, {"deliver"})
  /\ LET g == inst.cmd IN
     \/ /\ proc[g] \in {"running", "zombie"}
        /\ Signalled(g, signal[c])
        /\ stopped' = stopped \cup {g}
        /\ Goto(c, "mark")
        /\ UNCHANGED <<signal, phase>>
     \/ /\ proc[g] \in {"running", "zombie"}
        /\ Goto(c, "refused")
        /\ UNCHANGED <<procs, signal, phase, stopped>>
     \/ /\ proc[g] = "reaped" /\ StopReturns(c)
        /\ UNCHANGED <<procs, stopped>>
     \/ /\ NoProcess(g) /\ StopBreaks(c)
        /\ UNCHANGED <<procs, stopped>>
  /\ UNCHANGED <<spec, inst, last, hasState, once, mine, goroutines, reported>>

\* killed is set, after the signal and even if kill(2) refused it, which is an error at
\* once, as is an unparsable shutdown_timeout, with the SIGTERM sent.
MarkKilled(c) ==
  /\ At(c, {"mark", "refused"})
  /\ inst' = [inst EXCEPT !.killed = TRUE]
  /\ Goto(c, IF pc[c] = "refused" \/ (signal[c] = "SIGTERM" /\ ~spec.parses) THEN "error"
             ELSE IF signal[c] = "SIGKILL" THEN "awaitDone" ELSE "awaitTerm")
  /\ signal' = [signal EXCEPT ![c] = "SIGKILL"]
  /\ UNCHANGED <<spec, last, procs, hasState, once, mine, goroutines, phase, reported,
                 stopped>>

AwaitDone_NotAwaited(c) ==   \* mutant: Stop does not wait for the exit
  /\ At(c, {"awaitDone", "awaitTerm"})
  /\ StopReturns(c)
  /\ UNCHANGED <<spec, inst, last, procs, hasState, once, mine, goroutines, reported,
                 stopped>>

\* The polling loops: nil once isDone.  (The error of enforce_graceful_shutdown, which
\* comes after the end of the process, is Stopped of Svcinit.tla.)
AwaitDone(c) ==
  /\ At(c, {"awaitDone", "awaitTerm"})
  /\ IsDone
  /\ StopReturns(c)
  /\ UNCHANGED <<spec, inst, last, procs, hasState, once, mine, goroutines, reported,
                 stopped>>

Escalate_Dropped(c) == FALSE   \* mutant: SIGTERM is waited for for ever

\* shutdown_timeout is over: SIGKILL, and wait again.  A refusal is an error; a process
\* reaped meanwhile is ESRCH, and the stop returns without waiting for done.
Escalate(c) ==
  /\ At(c, {"awaitTerm"})
  /\ LET g == inst.cmd IN
     \/ /\ proc[g] \in {"running", "zombie"}
        /\ Signalled(g, "SIGKILL")
        /\ stopped' = stopped \cup {g}
        /\ Goto(c, "awaitDone")
        /\ UNCHANGED <<signal, phase>>
     \/ /\ proc[g] \in {"running", "zombie"}
        /\ Goto(c, "error")
        /\ UNCHANGED <<procs, signal, phase, stopped>>
     \/ /\ proc[g] = "reaped" /\ StopReturns(c)
        /\ UNCHANGED <<procs, stopped>>
     \/ /\ NoProcess(g) /\ StopBreaks(c)
        /\ UNCHANGED <<procs, stopped>>
  /\ UNCHANGED <<spec, inst, last, hasState, once, mine, goroutines, reported>>

\* Stop returns an error: a 500 to the client.
StopFails(c) ==
  /\ At(c, {"error"})
  /\ StopBreaks(c)
  /\ UNCHANGED <<spec, inst, last, procs, hasState, once, mine, goroutines, reported,
                 stopped>>

-----------------------------------------------------------------------------
(* Wait: the reaping goroutines and handleWait's. *)

\* A /v0/wait request arrives: a goroutine calls s.Wait() and outlives a timeout of
\* the request.  Bound: one such goroutine per Observer at a time.
RequestWait(o) ==
  /\ phase = "up" /\ (Serial => Settled)
  /\ wpc[o] \in {"none", "finished"}
  /\ wpc' = [wpc EXCEPT ![o] = "fetch"]
  /\ UNCHANGED <<spec, inst, last, procs, hasState, once, pc, signal, mine, wfn, phase,
                 reported, stopped>>

\* The goroutine reads s.waitErrFn, without mu, and calls it.  The first caller of
\* a generation runs cmd.Wait, which fails at once when there is no process.
CallWait(x) ==
  /\ WaiterAt(x, "fetch")
  /\ LET g == inst.waitFn IN
     /\ wfn' = [wfn EXCEPT ![x] = g]
     /\ once' = IF once[g] # "idle" THEN once
                ELSE [once EXCEPT ![g] = IF NoProcess(g) THEN "waited" ELSE "waiting"]
  /\ wpc' = [wpc EXCEPT ![x] = "wait"]
  /\ UNCHANGED <<spec, inst, last, procs, hasState, pc, signal, mine, phase, reported, stopped>>

\* cmd.Wait: wait4 reaps the child ...
Reap(g) ==
  /\ Running /\ once[g] = "waiting"
  /\ proc[g] = "zombie"
  /\ proc' = [proc EXCEPT ![g] = "reaped"]
  /\ once' = [once EXCEPT ![g] = "reaped"]
  /\ UNCHANGED <<spec, inst, last, exit, hasState, pc, signal, mine, goroutines, phase,
                 reported, stopped>>

\* ... and its status is stored ...
StoreState(g) ==
  /\ Running /\ once[g] = "reaped"
  /\ hasState' = [hasState EXCEPT ![g] = TRUE]
  /\ once' = [once EXCEPT ![g] = "waited"]
  /\ UNCHANGED <<spec, inst, last, procs, pc, signal, mine, goroutines, phase, reported, stopped>>

\* ... then waitErrFn sets done, under mu, whatever the current generation is.
SetDone(g) ==
  /\ Running /\ once[g] = "waited"
  /\ inst' = [inst EXCEPT !.done = TRUE]
  /\ once' = [once EXCEPT ![g] = "returned"]
  /\ UNCHANGED <<spec, last, procs, hasState, pc, signal, mine, goroutines, phase,
                 reported, stopped>>

\* The error waitErrFn returns: the exit status, or that there was no process.
WaitFails(g) == exit[g] # "clean"

\* s.Wait() stores the error in runErr, under mu, and returns it.  Only the
\* goroutine of a start goes on, and only with an error.
StoreErr(x) ==
  /\ WaiterAt(x, "wait")
  /\ once[wfn[x]] = "returned"
  /\ inst' = [inst EXCEPT !.runErr = IF WaitFails(wfn[x]) THEN wfn[x] ELSE Nil]
  /\ wpc' = [wpc EXCEPT ![x] =
               IF x \in Gens /\ WaitFails(wfn[x]) THEN "check" ELSE "finished"]
  /\ IF wpc'[x] = "finished" THEN wfn' = [wfn EXCEPT ![x] = Nil] ELSE UNCHANGED wfn
  /\ UNCHANGED <<spec, last, procs, hasState, once, pc, signal, mine, phase,
                 reported, stopped>>

Report_IfNotDone(x) ==   \* mutant: isDone taken for "was stopped"
  /\ WaiterAt(x, "check")
  /\ reported' = IF inst.killed \/ inst.done THEN reported ELSE reported \cup {wfn[x]}
  /\ wpc' = [wpc EXCEPT ![x] = "finished"]
  /\ wfn' = [wfn EXCEPT ![x] = Nil]
  /\ UNCHANGED <<spec, inst, last, procs, hasState, once, pc, signal, mine, phase, stopped>>

\* "err != nil && !service.Killed()": report it.
Report(x) ==
  /\ WaiterAt(x, "check")
  /\ reported' = IF inst.killed THEN reported ELSE reported \cup {wfn[x]}
  /\ wpc' = [wpc EXCEPT ![x] = "finished"]
  /\ wfn' = [wfn EXCEPT ![x] = Nil]
  /\ UNCHANGED <<spec, inst, last, procs, hasState, once, pc, signal, mine, phase, stopped>>

-----------------------------------------------------------------------------
\* The service exits, on its own or because of a SIGTERM.
Exit(g) ==
  /\ Running /\ Live(g)
  /\ proc' = [proc EXCEPT ![g] = "zombie"]
  /\ \E e \in {"clean", "error"} : exit' = [exit EXCEPT ![g] = e]
  /\ UNCHANGED <<spec, inst, last, hasState, once, pc, signal, mine, goroutines, phase,
                 reported, stopped>>

\* svcinit has exited.
Terminated == ~Running /\ UNCHANGED vars

ThreadStep(c) ==
  \/ CheckRunning(c) \/ InitCmd(c) \/ InitFns(c) \/ ResetDone(c) \/ Exec(c)
  \/ Stop(c) \/ Deliver(c) \/ MarkKilled(c) \/ AwaitDone(c) \/ Escalate(c) \/ StopFails(c)
GoroutineStep(x) == CallWait(x) \/ StoreErr(x) \/ Report(x)
WaitStep(g) == Reap(g) \/ StoreState(g) \/ SetDone(g)

Next ==
  \/ \E c \in Controllers : RequestStart(c)
  \/ \E c \in Threads, s \in {"SIGTERM", "SIGKILL"} : RequestKill(c, s)
  \/ SkipStop
  \/ \E c \in Threads : ThreadStep(c) \/ Probe(c) \/ HealthCheck(c)
  \/ \E o \in Observers : RequestWait(o)
  \/ \E x \in Goroutines : GoroutineStep(x)
  \/ \E g \in Gens : WaitStep(g) \/ Exit(g)
  \/ Terminated

\* Goroutines and requests run on; timers fire; nothing obliges the service to exit
\* or its health check to pass.  The program a health check runs is taken to end.
Fairness ==
  /\ \A c \in Threads : WF_vars(ThreadStep(c))
  /\ \A c \in Threads : WF_vars(Probe(c) \/ HealthCheck(c))
  /\ \A x \in Goroutines : WF_vars(GoroutineStep(x))
  /\ \A g \in Gens : WF_vars(WaitStep(g))

Spec == Init /\ [][Next]_vars
FairSpec == Spec /\ Fairness

-----------------------------------------------------------------------------
\* "Starts the service if it is not already running" (docs/itest.md:29): there are
\* never two live processes of the service.
OneLiveProcess == \A g, h \in Gens : Live(g) /\ Live(h) => g = h

\* done speaks of the current process: the goroutine of an earlier generation has
\* not set it for a later one (SetDone, isDone, isRunning).
DoneIsCurrent == inst.done => proc[inst.cmd] \notin {"running", "zombie"}

\* When main has stopped the service, no process of it is left (StopAll); deferred
\* services are left to whoever started them.
NothingLeft == phase = "over" /\ ~spec.deferred => \A g \in Gens : proc[g] \notin {"running", "zombie"}

\* A stop that returns no error has left no live process of the service, whether done,
\* ESRCH or a nil Process ended it (StopWithSignal).  Not so one that fails: if kill(2)
\* refuses either signal or shutdown_timeout does not parse the process may live on.
KillEnds == \A c \in Threads :
  pc[c] \in KillLocs \ {"error"} /\ pc'[c] = "idle" => \A g \in Gens : ~Live(g)
KillLeavesDead == [][KillEnds]_vars

\* killed: "Returns true if killed by svcinit / svcctl instead of exited normally or
\* crashed" (service_instance.go:327): an exit svcctl caused is not reported.
KilledNotReported == reported \cap stopped = {}

\* A child that exited is reaped ("prevent them from turning into zombies",
\* svcctl.go:102).
ChildrenReaped == \A g \in Gens :
  proc[g] = "zombie" ~> proc[g] = "reaped" \/ ~Running

\* A kill request returns, with an error or not, whatever the service does with SIGTERM.
KillReturns == \A c \in Threads : pc[c] \in KillLocs ~> pc[c] = "idle"

\* A crash nobody asked for is reported to main, unless a kill comes first.
Crashed(g) == proc[g] = "zombie" /\ exit[g] = "error" /\ g \notin stopped
CrashReported == \A g \in Gens :
  Crashed(g) ~> g \in reported \/ g \in stopped \/ inst.killed \/ ~Running

\* A service that exits ends every wait for its health (WaitUntilHealthy): StartAll's,
\* and that of a start request.  The next turn of its loop sees the exit, so a health
\* check whose program never returns is excepted, by Fairness: HealthCheck waits for it
\* without a timeout.
Awaiting(c) == At(c, {"probe", "healthcheck"})
StartNoticesExit == \A c \in Threads :
  Awaiting(c) /\ proc[inst.cmd] = "zombie" ~> ~Awaiting(c)

=============================================================================
