---------------------------- MODULE ReloadProofs ----------------------------
(***************************************************************************)
(* Proofs about Reload, for any specs files and any sequence of them.      *)
(*                                                                         *)
(* The invariants of the idle state hold between reloads only; IInv says   *)
(* what takes their place in each loop of UpdateSpecs, where the instances *)
(* are those of the old specs, then of neither, then of the new ones.      *)
(***************************************************************************)
EXTENDS Reload, TLAPS

\* Instance l was prepared for the definition of l in file s, and its process, if it
\* runs, has the code of s.
WithVersion(s, v) == [s EXCEPT !.version = v]
Defined(l, s) == WithVersion(instances[l].spec, s[l].version) = s[l]
Current(l, s) == instances[l].state = "running" => instances[l].seen = s[l].version

\* What is left of the three lists in each phase.
Lists ==
  /\ toStop \subseteq ToStop(specs, next)
  /\ toStart \subseteq ToStart(specs, next)
  /\ toReload \subseteq HotReloads(specs, next)
  /\ phase \in {"stop", "prepare"} => toReload = HotReloads(specs, next)
  /\ phase = "stop" => toStart = ToStart(specs, next)
  /\ phase # "stop" => toStop = {}
  /\ phase \in {"reload", "start", "idle"} => toStart = {}
  /\ phase \in {"start", "idle"} => toReload = {} /\ specs = next
  /\ phase = "start" => todo \subseteq DOMAIN instances
  /\ phase = "idle" => todo = {}

\* While instances are stopped they are those of the old specs.
Stopping ==
  /\ \A l \in DOMAIN specs :
       l \in toStop \/ l \notin ToStop(specs, next) => l \in DOMAIN instances
  /\ \A l \in DOMAIN instances :
       /\ l \notin toStop /\ l \in ToStop(specs, next) => instances[l].spec.type = "group"
       /\ l \notin DOMAIN specs => instances[l].spec.type = "group"
       /\ l \in DOMAIN specs => Defined(l, specs) /\ Current(l, specs)

\* Afterwards those that have been dealt with are those of the new specs.
Updating ==
  /\ \A l \in DOMAIN next \ toStart :
       /\ l \in DOMAIN instances
       /\ Defined(l, next)
       /\ l \notin toReload => Current(l, next)
  /\ \A l \in DOMAIN instances : l \notin DOMAIN next => instances[l].spec.type = "group"

\* What StartAll has come to is not "prepared" any more.
Started ==
  \A l \in DOMAIN instances :
    /\ instances[l].spec.type = "group" => instances[l].state # "running"
    /\ phase \in {"start", "idle"} /\ l \notin todo
         /\ instances[l].spec.type # "group" /\ ~instances[l].spec.deferred =>
           instances[l].state # "prepared"

IInv ==
  /\ TypeOK
  /\ Lists
  /\ phase = "stop" => Stopping
  /\ phase \in {"prepare", "reload", "start", "idle"} => Updating
  /\ Started

-----------------------------------------------------------------------------
\* The specs of a file, and what they are made of.
LEMMA SpecOfFile ==
  ASSUME NEW f \in Files, NEW l \in DOMAIN f
  PROVE  l \in Labels /\ f[l] \in AllSpecs /\ f[l].version \in Versions
         /\ WithVersion(f[l], f[l].version) = f[l]
BY ReloadAssumption DEF Labels, AllSpecs, Versions, WithVersion

\* What the two lists of computeUpdateActions leave alone is unchanged.
LEMMA UpdateLists ==
  ASSUME NEW old, NEW new, NEW l
  PROVE  /\ l \in ToStop(old, new) => l \in DOMAIN old
         /\ l \in ToStart(old, new) => l \in DOMAIN new
         /\ l \in HotReloads(old, new) =>
              /\ l \in DOMAIN old /\ l \in DOMAIN new
              /\ l \notin ToStop(old, new) /\ l \notin ToStart(old, new)
              /\ WithVersion(old[l], new[l].version) = new[l]
         /\ l \in DOMAIN new /\ l \notin ToStart(old, new) =>
              /\ l \in DOMAIN old /\ l \notin ToStop(old, new)
              /\ l \notin HotReloads(old, new) => old[l] = new[l]
         /\ l \in DOMAIN old /\ l \notin DOMAIN new => l \in ToStop(old, new)
BY DEF ToStop, ToStart, HotReloads, Changed, Common, WithVersion

\* Two specs equal to a third up to their version are equal up to it.
LEMMA UpToVersion ==
  ASSUME NEW i, NEW o, NEW n,
         WithVersion(i, o.version) = o, WithVersion(o, n.version) = n
  PROVE  WithVersion(i, n.version) = n
BY DEF WithVersion

LEMMA InitIInv == Init => IInv
<1> SUFFICES ASSUME Init PROVE IInv
  OBVIOUS
<1> USE ReloadAssumption DEF Init
<1>1. TypeOK
  BY DEF TypeOK, Labels
<1>2. Lists
  BY DEF Lists, ToStop, ToStart, HotReloads, Changed, Common
<1>3. Stopping /\ Started
  BY DEF Stopping, Started
<1> QED BY <1>1, <1>2, <1>3 DEF IInv

\* Between reloads the instances are those of the specs: the next one starts there.
LEMMA NotifyIInv == ASSUME IInv, NEW f \in Files, Notify(f) PROVE IInv'
<1> USE DEF IInv, Notify, Begin
<1>1. TypeOK'
  <2>1. \A l \in ToStop(specs, f) : l \in DOMAIN specs
    BY UpdateLists
  <2>2. \A l \in ToStart(specs, f) \cup HotReloads(specs, f) : l \in DOMAIN f
    BY UpdateLists
  <2>3. specs = next
    BY DEF Lists
  <2> QED BY <2>1, <2>2, <2>3, SpecOfFile, ZenonT(30) DEF TypeOK
<1>2. Lists'
  BY DEF Lists
<1>3. Stopping'
  BY DEF Lists, Updating, Stopping, Defined, Current
<1>4. Started'
  BY DEF Started
<1> QED BY <1>1, <1>2, <1>3, <1>4

\* The first loop of UpdateSpecs.
LEMMA StopIInv ==
  ASSUME IInv, NEW l \in Labels, SkipGroup(l) \/ StopOne(l) PROVE IInv'
<1> USE DEF IInv
<1>1. CASE SkipGroup(l)
  <2> USE <1>1 DEF SkipGroup
  <2>1. TypeOK' /\ Lists' /\ Started'
    BY DEF TypeOK, Lists, Started
  <2>2. Stopping'
    BY DEF Stopping, Defined, Current
  <2> QED BY <2>1, <2>2
<1>2. CASE StopOne(l)
  <2> USE <1>2 DEF StopOne
  <2>1. /\ DOMAIN instances' = DOMAIN instances \ {l}
        /\ \A k \in DOMAIN instances' : instances'[k] = instances[k]
    BY DEF Without
  <2>2. TypeOK'
    BY <2>1 DEF TypeOK
  <2>3. Lists' /\ Started'
    BY <2>1 DEF Lists, Started
  <2>4. Stopping'
    BY <2>1 DEF Stopping, Lists, Defined, Current
  <2> QED BY <2>2, <2>3, <2>4
<1> QED BY <1>1, <1>2

\* Once the lists are worked off, what is left is unchanged, to be told or replaced, or
\* a group.
LEMMA StopsDoneIInv == ASSUME IInv, StopsDone PROVE IInv'
<1> USE DEF IInv, StopsDone
<1>1. TypeOK' /\ Lists' /\ Started'
  BY DEF TypeOK, Lists, Started, actions
<1>2. /\ UNCHANGED <<specs, instances, next, toStop, toStart, toReload>>
      /\ toStop = {} /\ toStart = ToStart(specs, next) /\ toReload = HotReloads(specs, next)
  BY DEF Lists, actions
<1>3. ASSUME NEW l \in DOMAIN next \ toStart
      PROVE  /\ l \in DOMAIN instances /\ Defined(l, next)
             /\ l \notin toReload => Current(l, next)
  <2>1. l \in DOMAIN specs /\ l \notin ToStop(specs, next)
    BY <1>2, <1>3, UpdateLists
  <2>2. l \in DOMAIN instances /\ Defined(l, specs) /\ Current(l, specs)
    BY <2>1 DEF Stopping
  <2>3. CASE l \in toReload
    <3>1. WithVersion(specs[l], next[l].version) = next[l]
      BY <1>2, <2>3, UpdateLists
    <3> QED BY <2>2, <2>3, <3>1, UpToVersion DEF Defined
  <2>4. CASE l \notin toReload
    <3>1. specs[l] = next[l]
      BY <1>2, <1>3, <2>4, UpdateLists
    <3> QED BY <2>2, <3>1 DEF Defined, Current
  <2> QED BY <2>3, <2>4
<1>4. ASSUME NEW l \in DOMAIN instances, l \notin DOMAIN next
      PROVE  instances[l].spec.type = "group"
  BY <1>2, <1>4, UpdateLists DEF Stopping
<1>5. Updating'
  BY <1>2, <1>3, <1>4 DEF Updating, Defined, Current
<1> QED BY <1>1, <1>5

\* The second loop.
LEMMA PrepareIInv == ASSUME IInv, NEW l \in Labels, Prepare(l) PROVE IInv'
<1> USE DEF IInv
<1>1. CASE phase' = "panicked"
  <2>1. UNCHANGED <<specs, instances, next, toStop, toStart, toReload, todo>>
        /\ cause' = "prepare failed"
    BY <1>1 DEF Prepare, Panic
  <2> QED BY <1>1, <2>1 DEF Prepare, TypeOK, Lists, Started
<1>2. CASE phase' # "panicked"
  <2>1. /\ phase = "prepare" /\ l \in toStart /\ toStart' = toStart \ {l}
        /\ instances' = With(l, Prepared(next[l]))
        /\ UNCHANGED <<specs, next, toStop, toReload, todo, phase, cause>>
    BY <1>2 DEF Prepare, Panic
  <2>2. /\ DOMAIN instances' = DOMAIN instances \cup {l}
        /\ instances'[l] = [spec |-> next[l], state |-> "prepared", seen |-> next[l].version]
        /\ \A k \in DOMAIN instances : k # l => instances'[k] = instances[k]
    BY <2>1 DEF With, Prepared
  <2>3. l \in DOMAIN next
    BY <2>1, UpdateLists DEF Lists
  <2>4. TypeOK'
    <3>1. next[l] \in AllSpecs /\ next[l].version \in Versions
      BY <2>3, SpecOfFile DEF TypeOK
    <3>2. instances'[l] \in Instance
      BY <2>2, <3>1 DEF Instance
    <3> QED BY <2>1, <2>2, <3>2 DEF TypeOK
  <2>5. Lists'
    BY <2>1 DEF Lists
  <2>6. Started'
    BY <2>1, <2>2 DEF Started
  <2>7. Updating'
    <3>1. Defined(l, next)' /\ Current(l, next)'
      <4>1. WithVersion(next[l], next[l].version) = next[l]
        BY <2>3, SpecOfFile DEF TypeOK
      <4>2. instances'[l].spec = next[l] /\ instances'[l].state # "running" /\ next' = next
        BY <2>1, <2>2
      <4> QED BY <4>1, <4>2 DEF Defined, Current
    <3>2. \A k \in DOMAIN next' \ toStart' : k # l =>
            /\ k \in DOMAIN instances' /\ Defined(k, next)'
            /\ k \notin toReload' => Current(k, next)'
      BY <2>1, <2>2 DEF Updating, Defined, Current
    <3> QED BY <2>1, <2>2, <2>3, <3>1, <3>2 DEF Updating
  <2> QED BY <2>1, <2>4, <2>5, <2>6, <2>7
<1> QED BY <1>1, <1>2

\* The third loop.
LEMMA WriteIInv == ASSUME IInv, NEW l \in Labels, Write(l) PROVE IInv'
<1> USE DEF IInv
<1>1. CASE phase' = "panicked"
  <2>1. UNCHANGED <<specs, instances, next, toStop, toStart, toReload, todo>>
        /\ cause' = "stdin closed"
    BY <1>1 DEF Write, Panic
  <2> QED BY <1>1, <2>1 DEF Write, TypeOK, Lists, Started
<1>2. CASE phase' # "panicked"
  <2>1. /\ phase = "reload" /\ l \in toReload /\ toReload' = toReload \ {l}
        /\ instances' = [instances EXCEPT ![l].seen = next[l].version]
        /\ UNCHANGED <<specs, next, toStop, toStart, todo, phase, cause>>
    BY <1>2 DEF Write, Panic
  <2>2. l \in DOMAIN next /\ l \in DOMAIN instances
    BY <2>1, UpdateLists DEF Lists, Updating
  <2>3. /\ DOMAIN instances' = DOMAIN instances
        /\ instances'[l] = [instances[l] EXCEPT !.seen = next[l].version]
        /\ \A k \in DOMAIN instances : k # l => instances'[k] = instances[k]
    BY <2>1, <2>2
  <2>4. instances[l] \in Instance
    BY <2>2 DEF TypeOK
  <2>5. /\ instances'[l].spec = instances[l].spec
        /\ instances'[l].state = instances[l].state
        /\ instances'[l].seen = next[l].version
        /\ instances'[l] \in Instance
    BY <2>2, <2>3, <2>4, SpecOfFile DEF TypeOK, Instance
  <2>6. TypeOK' /\ Lists'
    BY <2>1, <2>3, <2>5 DEF TypeOK, Lists
  <2>7. Updating'
    BY <2>1, <2>3, <2>5 DEF Updating, Defined, Current
  <2>8. Started'
    BY <2>1, <2>3, <2>5 DEF Started
  <2> QED BY <2>1, <2>6, <2>7, <2>8
<1> QED BY <1>1, <1>2

\* The ends of the loops, and of StartAll.
LEMMA LoopsIInv ==
  ASSUME IInv, PreparesDone \/ StartAll \/ AllStarted PROVE IInv'
<1> USE DEF IInv
<1>1. CASE PreparesDone
  BY <1>1 DEF PreparesDone, actions, TypeOK, Lists, Updating, Defined, Current, Started
<1>2. CASE StartAll
  <2> USE <1>2 DEF StartAll, Commit, actions
  <2>1. TypeOK'
    BY DEF TypeOK, Panic, ToRun
  <2>2. Lists'
    <3>1. /\ toStop' = {} /\ toStart' = {} /\ toReload' = {} /\ specs' = next'
          /\ phase' \in {"start", "panicked"}
          /\ phase' = "start" => todo' \subseteq DOMAIN instances'
      BY DEF Lists, Panic, ToRun
    <3>2. /\ toStop' \subseteq ToStop(specs, next)'
          /\ toStart' \subseteq ToStart(specs, next)'
          /\ toReload' \subseteq HotReloads(specs, next)'
      BY <3>1
    <3> QED BY <3>1, <3>2 DEF Lists
  <2>3. phase' = "start" => Updating'
    BY DEF Updating, Defined, Current
  <2>4. Started'
    BY DEF Started, Panic, ToRun
  <2> QED BY <2>1, <2>2, <2>3, <2>4 DEF Panic
<1>3. CASE AllStarted
  BY <1>3 DEF AllStarted, actions, TypeOK, Lists, Updating, Defined, Current, Started
<1> QED BY <1>1, <1>2, <1>3

\* An instance l whose process changes, and keeps, or gets, the code of the new specs.
LEMMA ProcessIInv ==
  ASSUME IInv, NEW l \in DOMAIN instances,
         NEW st \in {"running", "exited"}, NEW v \in Versions,
         instances' = [instances EXCEPT ![l].state = st, ![l].seen = v],
         UNCHANGED <<specs, next, toStop, toStart, toReload, phase, cause>>,
         todo' \in {todo, todo \ {l}},
         st = "running" =>
           /\ phase \in {"start", "idle"} /\ v = next[l].version
           /\ instances[l].spec.type # "group"
  PROVE  IInv'
<1> USE DEF IInv
<1>1. instances[l] \in Instance
  BY DEF TypeOK
<1>2. /\ DOMAIN instances' = DOMAIN instances
      /\ instances'[l].spec = instances[l].spec
      /\ instances'[l].state = st /\ instances'[l].seen = v
      /\ instances'[l] \in Instance
      /\ \A k \in DOMAIN instances : k # l => instances'[k] = instances[k]
  BY <1>1 DEF Instance
<1>3. TypeOK'
  BY <1>2, ZenonT(30) DEF TypeOK
<1>4. Lists'
  BY DEF Lists
<1>5. phase = "stop" => Stopping'
  BY <1>2 DEF Stopping, Defined, Current
<1>6. phase \in {"prepare", "reload", "start", "idle"} => Updating'
  BY <1>2 DEF Updating, Defined, Current
<1>7. Started'
  BY <1>2 DEF Started
<1> QED BY <1>3, <1>4, <1>5, <1>6, <1>7

LEMMA StartIInv ==
  ASSUME IInv, NEW l \in Labels, SkipStart(l) \/ StartOne(l) PROVE IInv'
<1> USE DEF IInv
<1>1. CASE SkipStart(l)
  BY <1>1 DEF SkipStart, actions, TypeOK, Lists, Updating, Defined, Current, Started
<1>2. CASE StartOne(l) /\ phase' = "panicked"
  <2>1. /\ UNCHANGED <<specs, instances, next, toStop, toStart, toReload, todo>>
        /\ phase = "start" /\ cause' \in {"already running", "start failed"}
    BY <1>2 DEF StartOne, Panic, actions
  <2> QED BY <1>2, <2>1 DEF TypeOK, Lists, Started
<1>3. CASE StartOne(l) /\ phase' # "panicked"
  <2>1. /\ phase = "start" /\ l \in todo
        /\ instances[l].spec.type # "group"
        /\ todo' = todo \ {l}
        /\ UNCHANGED <<specs, next, toStop, toStart, toReload, phase, cause>>
    BY <1>3 DEF StartOne, Panic, actions, Ready
  <2>2. l \in DOMAIN instances /\ l \in DOMAIN next
    BY <2>1 DEF Lists, Updating
  <2>3. next[l].version \in Versions
    BY <2>2, SpecOfFile DEF TypeOK
  <2>4. \E st \in {"running", "exited"} :
          instances' = [instances EXCEPT ![l].state = st, ![l].seen = next[l].version]
    BY <1>3 DEF StartOne, Panic
  <2> QED BY <2>1, <2>2, <2>3, <2>4, ProcessIInv
<1> QED BY <1>1, <1>2, <1>3

\* The environment: exits, and starts through svcctl.
LEMMA EnvironmentIInv ==
  ASSUME IInv, NEW l \in Labels, Exit(l) \/ SvcctlStart(l) PROVE IInv'
<1> USE DEF IInv
<1>1. l \in DOMAIN instances /\ instances[l] \in Instance
  BY DEF Exit, SvcctlStart, TypeOK
<1>2. UNCHANGED <<specs, next, toStop, toStart, toReload, todo, phase, cause>>
  BY DEF Exit, SvcctlStart, actions
<1>3. CASE Exit(l)
  <2>1. instances[l].seen \in Versions
    BY <1>1 DEF Instance
  <2>2. instances' = [instances EXCEPT ![l].state = "exited", ![l].seen = instances[l].seen]
    BY <1>1, <1>3 DEF Exit, SetState, Instance
  <2> QED BY <1>1, <1>2, <2>1, <2>2, ProcessIInv
<1>4. CASE SvcctlStart(l)
  <2>1. phase = "idle" /\ instances[l].spec.type = "service" /\ specs = next
    BY <1>4 DEF SvcctlStart, Lists
  <2>2. l \in DOMAIN next
    BY <1>1, <2>1 DEF Updating
  <2>3. next[l].version \in Versions
    BY <2>2, SpecOfFile DEF TypeOK
  <2>4. instances' = [instances EXCEPT ![l].state = "running", ![l].seen = next[l].version]
    BY <1>4, <2>1 DEF SvcctlStart
  <2> QED BY <1>1, <1>2, <2>1, <2>3, <2>4, ProcessIInv
<1> QED BY <1>3, <1>4

LEMMA StepIInv == IInv /\ [Next]_vars => IInv'
<1> SUFFICES ASSUME IInv, [Next]_vars PROVE IInv'
  OBVIOUS
<1>1. CASE UNCHANGED vars
  <2>1. TypeOK' /\ Lists' /\ Started'
    BY <1>1 DEF vars, IInv, TypeOK, Lists, Started
  <2>2. (phase = "stop" => Stopping)'
    BY <1>1 DEF vars, IInv, Stopping, Defined, Current
  <2>3. (phase \in {"prepare", "reload", "start", "idle"} => Updating)'
    BY <1>1 DEF vars, IInv, Updating, Defined, Current
  <2> QED BY <2>1, <2>2, <2>3 DEF IInv
<1>2. CASE Next
  BY <1>1, <1>2, NotifyIInv, StopIInv, StopsDoneIInv, PrepareIInv, WriteIInv, LoopsIInv,
     StartIInv, EnvironmentIInv
     DEF Next, Update, Panicked
<1> QED BY <1>1, <1>2

-----------------------------------------------------------------------------
\* The inductive invariant holds in every reachable state.
THEOREM Invariance == Spec => []IInv
BY InitIInv, StepIInv, PTL DEF Spec

\* The variables keep their types (UpdateSpecs and the maps of the runner).
THEOREM TypeCorrect == Spec => []TypeOK
<1>1. IInv => TypeOK BY DEF IInv
<1> QED BY <1>1, Invariance, PTL

\* Between reloads the instances are those of the specs file, but for groups that are
\* gone (UpdateSpecs).
THEOREM InstancesAreOfSpecs == Spec => []InstancesMatchSpecs
<1>1. IInv => InstancesMatchSpecs
  BY DEF IInv, Lists, Updating, Defined, WithVersion, InstancesMatchSpecs, Idle
<1> QED BY <1>1, Invariance, PTL

\* Between reloads what runs is the code of the specs file (computeUpdateActions and the
\* notification).
THEOREM RunningIsCurrent == Spec => []RunsCurrentCode
<1>1. IInv => RunsCurrentCode
  BY DEF IInv, Lists, Updating, Started, Current, RunsCurrentCode, Idle
<1> QED BY <1>1, Invariance, PTL

\* Between reloads nothing that StartAll should start is left unstarted.
THEOREM NothingForgotten == Spec => []NoneForgotten
<1>1. IInv => NoneForgotten
  BY DEF IInv, Lists, Started, NoneForgotten, Idle
<1> QED BY <1>1, Invariance, PTL

=============================================================================
