------------------------------- MODULE Reload -------------------------------
(***************************************************************************)
(* What main and runner.Runner do with an ibazel notification: re-read the *)
(* service specs, compute what to stop, start and reload, apply it, and    *)
(* run StartAll again (runner/runner.go, UpdateSpecsAndRestart).           *)
(*                                                                         *)
(* An instance is one ServiceInstance struct: the spec it was prepared     *)
(* with, the state of its process, and "seen", the version of the code its *)
(* process runs or was told of.  Starting a target is atomic here          *)
(* (Topological.tla and ServiceInstance.tla have the interleavings), and   *)
(* so is a Stop, whose error UpdateSpecs ignores and which is taken to end *)
(* the process.                                                            *)
(* Services exit when they like, and svcctl starts and kills them while    *)
(* main waits for the next notification.                                   *)
(***************************************************************************)
EXTENDS FiniteSets

CONSTANTS
  Files,        \* the spec maps the specs file may hold: functions from labels to
                \* [type, deps, def, version, hot, deferred]
  FirstFile,    \* what it holds when svcinit starts
  NoLabels      \* the empty spec map, before runner.New

ASSUME ReloadAssumption ==
  /\ FirstFile \in Files
  /\ DOMAIN NoLabels = {}
  /\ \A f \in Files : \A l \in DOMAIN f :
       /\ f[l] = [type |-> f[l].type, deps |-> f[l].deps, def |-> f[l].def,
                  version |-> f[l].version, hot |-> f[l].hot, deferred |-> f[l].deferred]
       /\ f[l].type \in {"service", "task", "group"}
       /\ f[l].deps \subseteq DOMAIN f     \* the specs of a target and all it depends on
       /\ {f[l].hot, f[l].deferred} \subseteq BOOLEAN

VARIABLES
  specs,      \* r.serviceSpecs
  instances,  \* r.serviceInstances
  next,       \* the specs being applied
  toStop, toStart, toReload,   \* what is left of updateActions
  todo,       \* the tasks StartAll has not completed
  phase,      \* "stop", "prepare", "reload" (the three loops of UpdateSpecs), "start"
              \* (StartAll), "idle" (main's select) or "panicked" (svcinit is gone)
  cause       \* why svcinit panicked, or "none"

actions == <<toStop, toStart, toReload>>
vars == <<specs, instances, next, toStop, toStart, toReload, todo, phase, cause>>

Labels == UNION {DOMAIN f : f \in Files}
AllSpecs == UNION {{f[l] : l \in DOMAIN f} : f \in Files}
Versions == {s.version : s \in AllSpecs}
Instance == [spec : AllSpecs, state : {"prepared", "running", "exited"}, seen : Versions]

TypeOK ==
  /\ specs \in Files \cup {NoLabels}
  /\ DOMAIN instances \subseteq Labels
  /\ \A l \in DOMAIN instances : instances[l] \in Instance
  /\ next \in Files
  /\ {toStop, toStart, toReload, todo} \subseteq SUBSET Labels
  /\ phase \in {"stop", "prepare", "reload", "start", "idle", "panicked"}
  /\ cause \in {"none", "already running", "no such dependency", "start failed",
                "prepare failed", "stdin closed"}

-----------------------------------------------------------------------------
(* computeUpdateActions. *)

Common(old, new) == DOMAIN old \cap DOMAIN new
Changed(old, new) == {l \in Common(old, new) : old[l] # new[l]}

\* Mutant: any change to a hot-reloadable service is only forwarded to it.
HotReloads_AnyChange(old, new) == {l \in Changed(old, new) : old[l].hot}

\* Only the version differs (reflect.DeepEqual of the embedded ServiceSpec) and the
\* service asked for notifications.
HotReloads(old, new) ==
  {l \in Changed(old, new) :
     old[l].hot /\ [old[l] EXCEPT !.version = new[l].version] = new[l]}

ToStop(old, new) ==
  (DOMAIN old \ DOMAIN new) \cup (Changed(old, new) \ HotReloads(old, new))
ToStart(old, new) ==
  (DOMAIN new \ DOMAIN old) \cup (Changed(old, new) \ HotReloads(old, new))

\* The instances after one is dropped, and with one prepared for spec s.
Without(l) == [k \in DOMAIN instances \ {l} |-> instances[k]]
With(l, i) == [k \in DOMAIN instances \cup {l} |-> IF k = l THEN i ELSE instances[k]]
Prepared_NotSeen(s) == [spec |-> s, state |-> "prepared", seen |-> ""]   \* mutant
Prepared(s) == [spec |-> s, state |-> "prepared", seen |-> s.version]
SetState(l, st) == [instances EXCEPT ![l].state = st]

Panic(c) == phase' = "panicked" /\ cause' = c

\* UpdateSpecs begins: runner.New with the first file, main with a later one.
Begin(file) ==
  /\ next' = file
  /\ toStop' = ToStop(specs, file)
  /\ toStart' = ToStart(specs, file)
  /\ toReload' = HotReloads(specs, file)
  /\ phase' = "stop"

Init ==
  /\ specs = NoLabels /\ instances = NoLabels
  /\ next = FirstFile
  /\ toStop = {} /\ toStart = DOMAIN FirstFile /\ toReload = {}
  /\ todo = {}
  /\ phase = "stop" /\ cause = "none"

\* A line arrives on stdin; main re-reads the specs.
Notify(file) ==
  /\ phase = "idle"
  /\ Begin(file)
  /\ UNCHANGED <<specs, instances, todo, cause>>

-----------------------------------------------------------------------------
(* The three loops of UpdateSpecs, in Go's map order. *)

\* "continue": the instance of a group that changed or is gone stays in the map.
SkipGroup(l) ==
  /\ phase = "stop" /\ l \in toStop
  /\ instances[l].spec.type = "group"
  /\ toStop' = toStop \ {l}
  /\ UNCHANGED <<specs, instances, next, toStart, toReload, todo, phase, cause>>

\* Any other is stopped, whatever Stop returns, and dropped.
StopOne(l) ==
  /\ phase = "stop" /\ l \in toStop
  /\ instances[l].spec.type # "group"
  /\ instances' = Without(l)
  /\ toStop' = toStop \ {l}
  /\ UNCHANGED <<specs, next, toStart, toReload, todo, phase, cause>>

StopsDone ==
  /\ phase = "stop" /\ toStop = {}
  /\ phase' = "prepare"
  /\ UNCHANGED <<specs, instances, next, actions, todo, cause>>

\* prepareServiceInstance; its only error is a pipe that cannot be made.
Prepare(l) ==
  /\ phase = "prepare" /\ l \in toStart
  /\ \/ /\ instances' = With(l, Prepared(next[l]))
        /\ toStart' = toStart \ {l}
        /\ UNCHANGED <<phase, cause>>
     \/ /\ next[l].hot /\ next[l].type # "group"
        /\ Panic("prepare failed")
        /\ UNCHANGED <<instances, toStart>>
  /\ UNCHANGED <<specs, next, toStop, toReload, todo>>

PreparesDone ==
  /\ phase = "prepare" /\ toStart = {}
  /\ phase' = "reload"
  /\ UNCHANGED <<specs, instances, next, actions, todo, cause>>

\* Mutant: the notification is not forwarded.
Write_Dropped(l) ==
  /\ phase = "reload" /\ l \in toReload
  /\ toReload' = toReload \ {l}
  /\ UNCHANGED <<specs, instances, next, toStop, toStart, todo, phase, cause>>

\* The notification is written to the service's stdin, which cmd.Wait closes.
Write(l) ==
  /\ phase = "reload" /\ l \in toReload
  /\ IF instances[l].state = "exited"
       THEN Panic("stdin closed") /\ UNCHANGED <<instances, toReload>>
       ELSE /\ instances' = [instances EXCEPT ![l].seen = next[l].version]
            /\ toReload' = toReload \ {l}
            /\ UNCHANGED <<phase, cause>>
  /\ UNCHANGED <<specs, next, toStop, toStart, todo>>

\* UpdateSpecs returns nil and StartAll builds its tasks.  A dependency without an
\* instance is a nil *ServiceInstance, whose Label topoTask.Key reads.
Dangling == \E l \in DOMAIN instances : ~(instances[l].spec.deps \subseteq DOMAIN instances)

ToRun_OldSpecs == DOMAIN instances \cap DOMAIN specs   \* mutant: only what was there
ToRun == DOMAIN instances

Commit == specs' = next

StartAll ==
  /\ phase = "reload" /\ toReload = {}
  /\ Commit
  /\ IF Dangling THEN Panic("no such dependency") /\ UNCHANGED todo
     ELSE phase' = "start" /\ todo' = ToRun /\ UNCHANGED cause
  /\ UNCHANGED <<instances, next, actions>>

-----------------------------------------------------------------------------
(* StartAll, one task at a time. *)

Ready(l) == l \in todo /\ instances[l].spec.deps \cap todo = {}

\* Groups and deferred services are skipped.
SkipStart(l) ==
  /\ phase = "start" /\ Ready(l)
  /\ instances[l].spec.type = "group" \/ instances[l].spec.deferred
  /\ todo' = todo \ {l}
  /\ UNCHANGED <<specs, instances, next, actions, phase, cause>>

\* A service becomes healthy, a task runs to its end; a service that runs already
\* is an error, and every error of StartAll is must(err) in main.  One that never
\* becomes healthy, and has no health_check_timeout to fail it, never takes this step.
StartOne(l) ==
  /\ phase = "start" /\ Ready(l)
  /\ instances[l].spec.type # "group" /\ ~instances[l].spec.deferred
  /\ \/ /\ instances[l].state # "running"
        /\ instances' = [instances EXCEPT
             ![l].state = IF instances[l].spec.type = "service" THEN "running" ELSE "exited",
             ![l].seen = next[l].version]
        /\ todo' = todo \ {l}
        /\ UNCHANGED <<phase, cause>>
     \/ /\ Panic(IF instances[l].state = "running" THEN "already running" ELSE "start failed")
        /\ UNCHANGED <<instances, todo>>
  /\ UNCHANGED <<specs, next, actions>>

AllStarted ==
  /\ phase = "start" /\ todo = {}
  /\ phase' = "idle"
  /\ UNCHANGED <<specs, instances, next, actions, todo, cause>>

-----------------------------------------------------------------------------
(* The environment. *)

\* A service exits, or svcctl kills it.
Exit(l) ==
  /\ phase # "panicked"
  /\ l \in DOMAIN instances /\ instances[l].state = "running"
  /\ instances' = SetState(l, "exited")
  /\ UNCHANGED <<specs, next, actions, todo, phase, cause>>

\* /v0/start of a service that does not run.
SvcctlStart(l) ==
  /\ phase = "idle"
  /\ l \in DOMAIN instances
  /\ instances[l].spec.type = "service" /\ instances[l].state # "running"
  /\ instances' = [instances EXCEPT ![l].state = "running", ![l].seen = specs[l].version]
  /\ UNCHANGED <<specs, next, actions, todo, phase, cause>>

Panicked == phase = "panicked" /\ UNCHANGED vars

Update ==
  \/ \E l \in Labels : SkipGroup(l) \/ StopOne(l) \/ Prepare(l) \/ Write(l)
  \/ StopsDone \/ PreparesDone \/ StartAll
  \/ \E l \in Labels : SkipStart(l) \/ StartOne(l)
  \/ AllStarted

Next ==
  \/ \E f \in Files : Notify(f)
  \/ Update
  \/ \E l \in Labels : Exit(l) \/ SvcctlStart(l)
  \/ Panicked

Spec == Init /\ [][Next]_vars

-----------------------------------------------------------------------------
Idle == phase = "idle"

\* Between reloads the instances are those of the specs file, each prepared for its
\* current definition; only groups that are gone may linger (UpdateSpecs).
InstancesMatchSpecs ==
  Idle =>
    /\ DOMAIN specs \subseteq DOMAIN instances
    /\ \A l \in DOMAIN instances :
         \/ l \notin DOMAIN specs /\ instances[l].spec.type = "group"
         \/ /\ l \in DOMAIN specs
            /\ [instances[l].spec EXCEPT !.version = specs[l].version] = specs[l]

\* Between reloads every service that runs has been started with, or told of, the
\* code of the current specs (computeUpdateActions, the stdin write).
RunsCurrentCode ==
  Idle => \A l \in DOMAIN instances :
    instances[l].state = "running" =>
      l \in DOMAIN specs /\ instances[l].seen = specs[l].version

\* A reload forgets nobody: between reloads every service and task of the specs that
\* is not deferred has been started since it was prepared (StartAll).
NoneForgotten ==
  Idle => \A l \in DOMAIN instances :
    instances[l].spec.type # "group" /\ ~instances[l].spec.deferred =>
      instances[l].state # "prepared"

\* "restart only the modified services" (docs/itest.md:6): a service that did not
\* change does not make the reload fail.
UnmodifiedKeepRunning == cause # "already running"

\* "has been removed, stopping" (runner.go:149): removing a group and its members
\* from the specs does not make the next start fail.
RemovedIsForgotten == cause # "no such dependency"

=============================================================================
