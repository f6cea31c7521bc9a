---------------------------- MODULE ServiceProofs ----------------------------
(***************************************************************************)
(* Proofs about ServiceInstance, for any requests, specs and number of     *)
(* starts.                                                                 *)
(*                                                                         *)
(* CallerInv holds whatever the callers do: cmd is the last Cmd made, and  *)
(* a process is reaped by the Wait of its own Cmd.  SerialInv holds for    *)
(* callers that are Serial: all Cmds but the last are over and waited for, *)
(* done speaks of the last, and a start that gets past isRunning finds no  *)
(* process.                                                                *)
(***************************************************************************)
EXTENDS ServiceInstance, TLAPS

\* The locals a thread or a goroutine still reads are set.
LocalsOK ==
  /\ \A c \in Threads : pc[c] \in {"initFns", "reset", "exec"} => mine[c] \in Gens
  /\ \A x \in Goroutines : wpc[x] \in {"wait", "check"} => wfn[x] \in Gens

\* A process is reaped, and its status stored, by the Wait of its own Cmd.
OwnWait ==
  \A g \in Gens :
    /\ proc[g] = "reaped" => once[g] \in {"reaped", "waited", "returned"}
    /\ once[g] = "waiting" => proc[g] \in {"running", "zombie"}
    /\ once[g] = "reaped" => proc[g] = "reaped"
    /\ hasState[g] => proc[g] = "reaped"

Bookkeeping == LocalsOK /\ inst.cmd = last /\ OwnWait

CallerInv == TypeOK /\ Bookkeeping

\* Every generation but the last is over, or has not begun.
Generations ==
  \A g \in Gens \ {last} :
    /\ once[g] \in {"idle", "returned"} /\ proc[g] \notin {"running", "zombie"}
    /\ g > last => once[g] = "idle" /\ proc[g] = "none"

\* A wait is over only if its process is, or there was none.
WaitedIsOver ==
  \A g \in Gens : once[g] \in {"waited", "returned"} => proc[g] = "reaped" \/ NoProcess(g)

\* done speaks of the last generation.
FlagsAreCurrent == inst.done => NoProcess(last) \/ once[last] = "returned"

\* Only one request starts or stops the service, and no Wait is called meanwhile, but
\* for the one that StartAll spawned itself.
OneRequest ==
  /\ \A c, d \in Threads : pc[c] # "idle" /\ pc[d] # "idle" => c = d
  /\ \A x \in Goroutines, c \in Threads :
       wpc[x] = "fetch" =>
         pc[c] = "idle" \/ (c = Main /\ pc[c] \in {"probe", "healthcheck"})

\* A start, from the request to cmd.Start.
Requested(c) == pc[c] = "check" \/ (c # Main /\ pc[c] \in {"probe", "healthcheck"})
StartsFromDone ==
  \A c \in Threads :
    /\ Requested(c) =>
         /\ inst.killed => once[last] = "returned"
         /\ NoProcess(last) => once[last] \in {"idle", "returned"}
    /\ pc[c] = "initCmd" =>
         once[last] \in {"idle", "returned"} /\ proc[last] \notin {"running", "zombie"}
    /\ pc[c] \in {"initFns", "reset", "exec"} =>
         mine[c] = last /\ proc[last] = "none" /\ once[last] = "idle"
    /\ pc[c] = "exec" => ~inst.done
Closures ==
  (\A c \in Threads : pc[c] # "initFns") => inst.startFn = last /\ inst.waitFn = last

\* StopAll has succeeded.
StopsLast == phase = "over" /\ ~spec.deferred => proc[last] \notin {"running", "zombie"}

\* All of them but OneRequest, which has proofs of its own.
Sequential ==
  /\ Generations /\ WaitedIsOver /\ FlagsAreCurrent /\ StartsFromDone /\ Closures
  /\ StopsLast

SerialInv == CallerInv /\ OneRequest /\ Sequential

-----------------------------------------------------------------------------
(* For any callers. *)

\* TypeOK in five parts: the struct, the processes, the threads, the goroutines that
\* wait, and the rest.
StructTyped ==
  /\ last \in Gens
  /\ inst \in [cmd : Gens, startFn : Gens, waitFn : Gens, killed : BOOLEAN,
               done : BOOLEAN, runErr : Gens \cup {Nil}]
ProcsTyped ==
  /\ proc \in [Gens -> {"none", "failed", "running", "zombie", "reaped"}]
  /\ exit \in [Gens -> {"none", "clean", "error"}]
  /\ hasState \in [Gens -> BOOLEAN]
  /\ once \in [Gens -> {"idle", "waiting", "reaped", "waited", "returned"}]
ThreadsTyped ==
  /\ pc \in [Threads -> {"idle"} \cup StartLocs \cup KillLocs]
  /\ signal \in [Threads -> {"SIGTERM", "SIGKILL"}]
  /\ mine \in [Threads -> Gens \cup {Nil}]
WaitersTyped ==
  /\ wpc \in [Goroutines -> {"none", "fetch", "wait", "check", "finished"}]
  /\ wfn \in [Goroutines -> Gens \cup {Nil}]
RestTyped ==
  /\ spec \in Specs
  /\ phase \in {"starting", "up", "failed", "over"}
  /\ reported \in SUBSET Gens
  /\ stopped \in SUBSET Gens

LEMMA TypeParts ==
  TypeOK <=> StructTyped /\ ProcsTyped /\ ThreadsTyped /\ WaitersTyped /\ RestTyped
BY DEF TypeOK, StructTyped, ProcsTyped, ThreadsTyped, WaitersTyped, RestTyped

LEMMA TypePartsNext ==
  TypeOK' <=> StructTyped' /\ ProcsTyped' /\ ThreadsTyped' /\ WaitersTyped' /\ RestTyped'
BY DEF TypeOK, StructTyped, ProcsTyped, ThreadsTyped, WaitersTyped, RestTyped

LEMMA InitCallerInv == Init => CallerInv
<1> SUFFICES ASSUME Init PROVE CallerInv
  OBVIOUS
<1> USE ServiceAssumption DEF Init, Gens, Nil
<1>1. StructTyped
  BY DEF StructTyped
<1>2. ProcsTyped
  BY DEF ProcsTyped
<1>3. ThreadsTyped
  BY DEF ThreadsTyped, StartLocs
<1>4. WaitersTyped
  BY DEF WaitersTyped
<1>5. RestTyped
  BY DEF RestTyped
<1>6. LocalsOK /\ inst.cmd = last /\ OwnWait
  BY DEF LocalsOK, OwnWait
<1> QED BY <1>1, <1>2, <1>3, <1>4, <1>5, <1>6, TypeParts DEF CallerInv, Bookkeeping

\* The Cmd a step is about is one of Gens.
LEMMA CmdsTyped ==
  ASSUME CallerInv
  PROVE  /\ last \in Gens /\ inst.cmd \in Gens /\ inst.startFn \in Gens
         /\ inst.waitFn \in Gens
         /\ last < MaxStarts => last + 1 \in Gens
BY ServiceAssumption DEF CallerInv, TypeOK, Gens

LEMMA SignalledTypes ==
  ASSUME ProcsTyped, NEW g \in Gens, NEW s, Signalled(g, s)
  PROVE  /\ proc' \in [Gens -> {"none", "failed", "running", "zombie", "reaped"}]
         /\ exit' \in [Gens -> {"none", "clean", "error"}]
<1>1. CASE Live(g) /\ s = "SIGKILL"
  BY <1>1 DEF ProcsTyped, Signalled
<1>2. CASE ~(Live(g) /\ s = "SIGKILL")
  BY <1>2 DEF ProcsTyped, Signalled, procs
<1> QED BY <1>1, <1>2

LEMMA TypeStep == ASSUME CallerInv, [Next]_vars PROVE TypeOK'
<1> USE CmdsTyped, ServiceAssumption
    DEF CallerInv, Bookkeeping, LocalsOK, Threads, Goroutines, Gens, Nil, procs,
        goroutines, At, WaiterAt, Goto, Forget
<1>1. ASSUME NEW c \in Threads, RequestStart(c) PROVE TypeOK'
  BY <1>1 DEF TypeOK, RequestStart, Free, StartLocs
<1>2. ASSUME NEW c \in Threads, NEW s \in {"SIGTERM", "SIGKILL"}, RequestKill(c, s)
      PROVE  TypeOK'
  BY <1>2 DEF TypeOK, RequestKill, Free, KillLocs
<1>3. ASSUME SkipStop PROVE TypeOK'
  BY <1>3 DEF TypeOK, SkipStop
<1>4. ASSUME NEW c \in Threads, CheckRunning(c) PROVE TypeOK'
  BY <1>4 DEF TypeOK, CheckRunning, StartLocs
<1>5. ASSUME NEW c \in Threads, InitCmd(c) PROVE TypeOK'
  <2>1. StructTyped'
    BY <1>5, TypeParts DEF StructTyped, InitCmd
  <2>2. ThreadsTyped'
    BY <1>5, TypeParts DEF ThreadsTyped, InitCmd, StartLocs
  <2>3. ProcsTyped' /\ WaitersTyped' /\ RestTyped'
    BY <1>5, TypeParts DEF ProcsTyped, WaitersTyped, RestTyped, InitCmd
  <2> QED BY <2>1, <2>2, <2>3, TypePartsNext
<1>6. ASSUME NEW c \in Threads, InitFns(c) PROVE TypeOK'
  BY <1>6 DEF TypeOK, InitFns, StartLocs
<1>7. ASSUME NEW c \in Threads, ResetDone(c) PROVE TypeOK'
  BY <1>7 DEF TypeOK, ResetDone, StartLocs
<1>8. ASSUME NEW c \in Threads, Exec(c) PROVE TypeOK'
  <2>1. StructTyped'
    BY <1>8, TypeParts DEF StructTyped, Exec
  <2>2. ThreadsTyped'
    BY <1>8, TypeParts DEF ThreadsTyped, Exec, StartLocs
  <2>3. ProcsTyped'
    BY <1>8, TypeParts DEF ProcsTyped, Exec
  <2>4. WaitersTyped' /\ RestTyped'
    BY <1>8, TypeParts DEF WaitersTyped, RestTyped, Exec, Spawn
  <2> QED BY <2>1, <2>2, <2>3, <2>4, TypePartsNext
<1>9. ASSUME NEW c \in Threads, Probe(c) \/ HealthCheck(c) PROVE TypeOK'
  <2>1. CASE Probe(c)
    BY <2>1 DEF TypeOK, Probe, StartLocs
  <2>2. CASE HealthCheck(c)
    BY <2>2 DEF TypeOK, HealthCheck, StartLocs
  <2> QED BY <1>9, <2>1, <2>2
<1>10. ASSUME NEW c \in Threads, Stop(c) PROVE TypeOK'
  <2>1. ThreadsTyped'
    BY <1>10, TypeParts DEF ThreadsTyped, Stop, StopReturns, Ends, KillLocs
  <2>2. RestTyped'
    BY <1>10, TypeParts DEF RestTyped, Stop, StopReturns
  <2>3. StructTyped' /\ ProcsTyped' /\ WaitersTyped'
    BY <1>10, TypeParts DEF StructTyped, ProcsTyped, WaitersTyped, Stop
  <2> QED BY <2>1, <2>2, <2>3, TypePartsNext
<1>11. ASSUME NEW c \in Threads, Deliver(c) PROVE TypeOK'
  <2>1. ThreadsTyped'
    BY <1>11, TypeParts DEF ThreadsTyped, Deliver, StopReturns, StopBreaks, Ends, KillLocs
  <2>2. ProcsTyped'
    <3>1. UNCHANGED procs \/ Signalled(inst.cmd, signal[c])
      BY <1>11 DEF Deliver
    <3>2. UNCHANGED <<hasState, once>>
      BY <1>11 DEF Deliver
    <3> QED BY <3>1, <3>2, CmdsTyped, TypeParts, SignalledTypes DEF ProcsTyped
  <2>3. StructTyped' /\ WaitersTyped'
    BY <1>11, TypeParts DEF StructTyped, WaitersTyped, Deliver
  <2>4. RestTyped'
    BY <1>11, TypeParts DEF RestTyped, Deliver, StopReturns, StopBreaks
  <2> QED BY <2>1, <2>2, <2>3, <2>4, TypePartsNext
<1>12. ASSUME NEW c \in Threads, MarkKilled(c) PROVE TypeOK'
  <2>1. StructTyped'
    BY <1>12, TypeParts DEF StructTyped, MarkKilled
  <2>2. ThreadsTyped'
    BY <1>12, TypeParts DEF ThreadsTyped, MarkKilled, KillLocs
  <2>3. ProcsTyped' /\ WaitersTyped' /\ RestTyped'
    BY <1>12, TypeParts DEF ProcsTyped, WaitersTyped, RestTyped, MarkKilled
  <2> QED BY <2>1, <2>2, <2>3, TypePartsNext
<1>13. ASSUME NEW c \in Threads, AwaitDone(c) PROVE TypeOK'
  BY <1>13 DEF TypeOK, AwaitDone, StopReturns, Ends
<1>14. ASSUME NEW c \in Threads, Escalate(c) PROVE TypeOK'
  <2>1. ThreadsTyped'
    BY <1>14, TypeParts DEF ThreadsTyped, Escalate, StopReturns, StopBreaks, Ends, KillLocs
  <2>2. ProcsTyped'
    <3>1. UNCHANGED procs \/ Signalled(inst.cmd, "SIGKILL")
      BY <1>14 DEF Escalate
    <3>2. UNCHANGED <<hasState, once>>
      BY <1>14 DEF Escalate
    <3> QED BY <3>1, <3>2, CmdsTyped, TypeParts, SignalledTypes DEF ProcsTyped
  <2>3. StructTyped' /\ WaitersTyped'
    BY <1>14, TypeParts DEF StructTyped, WaitersTyped, Escalate
  <2>4. RestTyped'
    BY <1>14, TypeParts DEF RestTyped, Escalate, StopReturns, StopBreaks
  <2> QED BY <2>1, <2>2, <2>3, <2>4, TypePartsNext
<1>15. ASSUME NEW o \in Observers, RequestWait(o) PROVE TypeOK'
  BY <1>15 DEF TypeOK, RequestWait
<1>16. ASSUME NEW x \in Goroutines, CallWait(x) PROVE TypeOK'
  BY <1>16 DEF TypeOK, CallWait
<1>17. ASSUME NEW x \in Goroutines, StoreErr(x) PROVE TypeOK'
  <2>1. StructTyped'
    BY <1>17, TypeParts DEF StructTyped, StoreErr
  <2>2. WaitersTyped'
    BY <1>17, TypeParts DEF WaitersTyped, StoreErr
  <2>3. ProcsTyped' /\ ThreadsTyped' /\ RestTyped'
    BY <1>17, TypeParts DEF ProcsTyped, ThreadsTyped, RestTyped, StoreErr
  <2> QED BY <2>1, <2>2, <2>3, TypePartsNext
<1>18. ASSUME NEW x \in Goroutines, Report(x) PROVE TypeOK'
  <2>1. WaitersTyped'
    BY <1>18, TypeParts DEF WaitersTyped, Report
  <2>2. RestTyped'
    BY <1>18, TypeParts DEF WaitersTyped, RestTyped, Report
  <2>3. StructTyped' /\ ProcsTyped' /\ ThreadsTyped'
    BY <1>18, TypeParts DEF StructTyped, ProcsTyped, ThreadsTyped, Report
  <2> QED BY <2>1, <2>2, <2>3, TypePartsNext
<1>19. ASSUME NEW g \in Gens, WaitStep(g) \/ Exit(g) PROVE TypeOK'
  <2>1. CASE Reap(g)
    BY <2>1 DEF TypeOK, Reap
  <2>2. CASE StoreState(g)
    BY <2>2 DEF TypeOK, StoreState
  <2>3. CASE SetDone(g)
    BY <2>3 DEF TypeOK, SetDone
  <2>4. CASE Exit(g)
    BY <2>4 DEF TypeOK, Exit
  <2> QED BY <1>19, <2>1, <2>2, <2>3, <2>4 DEF WaitStep
<1>20. CASE UNCHANGED vars
  BY <1>20 DEF TypeOK, vars
<1>21. ASSUME NEW c \in Threads, StopFails(c) PROVE TypeOK'
  BY <1>21 DEF TypeOK, StopFails, StopBreaks, Ends
<1> HIDE DEF CallerInv, Bookkeeping, LocalsOK, Threads, Goroutines, Gens
<1> QED
  BY <1>1, <1>2, <1>3, <1>4, <1>5, <1>6, <1>7, <1>8, <1>9, <1>10, <1>11, <1>12, <1>13,
     <1>14, <1>15, <1>16, <1>17, <1>18, <1>19, <1>20, <1>21
     DEF Next, ThreadStep, GoroutineStep, Terminated, Threads, Goroutines

\* And the rest of CallerInv.
LEMMA CallerStep == ASSUME CallerInv, [Next]_vars PROVE CallerInv'
<1>1. TypeOK'
  BY TypeStep
<1> USE ServiceAssumption
    DEF CallerInv, Bookkeeping, LocalsOK, OwnWait, TypeOK, Threads, Goroutines, Gens,
        procs, goroutines, At, WaiterAt, Goto, Forget
<1>2. ASSUME NEW c \in Threads, RequestStart(c) PROVE Bookkeeping'
  BY <1>2 DEF RequestStart
<1>3. ASSUME NEW c \in Threads, NEW s \in {"SIGTERM", "SIGKILL"}, RequestKill(c, s)
      PROVE  Bookkeeping'
  BY <1>3 DEF RequestKill
<1>4. ASSUME SkipStop PROVE Bookkeeping'
  BY <1>4 DEF SkipStop
<1>5. ASSUME NEW c \in Threads, CheckRunning(c) PROVE Bookkeeping'
  BY <1>5 DEF CheckRunning
<1>6. ASSUME NEW c \in Threads, InitCmd(c) PROVE Bookkeeping'
  BY <1>6, CmdsTyped DEF InitCmd
<1>7. ASSUME NEW c \in Threads, InitFns(c) PROVE Bookkeeping'
  BY <1>7 DEF InitFns
<1>8. ASSUME NEW c \in Threads, ResetDone(c) PROVE Bookkeeping'
  BY <1>8 DEF ResetDone
<1>9. ASSUME NEW c \in Threads, Exec(c) PROVE Bookkeeping'
  <2>1. LocalsOK'
    BY <1>9 DEF Exec, Spawn
  <2>2. (inst.cmd = last)'
    BY <1>9 DEF Exec
  <2>3. OwnWait'
    BY <1>9 DEF Exec
  <2> QED BY <2>1, <2>2, <2>3
<1>10. ASSUME NEW c \in Threads, Probe(c) PROVE Bookkeeping'
  BY <1>10 DEF Probe
<1>11. ASSUME NEW c \in Threads, HealthCheck(c) PROVE Bookkeeping'
  BY <1>11 DEF HealthCheck
<1>12. ASSUME NEW c \in Threads, Stop(c) PROVE Bookkeeping'
  BY <1>12 DEF Stop, StopReturns, Ends
<1>13. ASSUME NEW c \in Threads, Deliver(c) PROVE Bookkeeping'
  <2>1. LocalsOK' /\ (inst.cmd = last)'
    BY <1>13 DEF Deliver, StopReturns, StopBreaks, Ends
  <2>2. OwnWait'
    BY <1>13 DEF Deliver, Signalled, Live
  <2> QED BY <2>1, <2>2
<1>14. ASSUME NEW c \in Threads, MarkKilled(c) PROVE Bookkeeping'
  <2>1. LocalsOK'
    BY <1>14 DEF MarkKilled
  <2>2. (inst.cmd = last)' /\ OwnWait'
    BY <1>14 DEF MarkKilled
  <2> QED BY <2>1, <2>2
<1>15. ASSUME NEW c \in Threads, AwaitDone(c) PROVE Bookkeeping'
  BY <1>15 DEF AwaitDone, StopReturns, Ends
<1>16. ASSUME NEW c \in Threads, Escalate(c) PROVE Bookkeeping'
  <2>1. LocalsOK' /\ (inst.cmd = last)'
    BY <1>16 DEF Escalate, StopReturns, StopBreaks, Ends
  <2>2. OwnWait'
    BY <1>16 DEF Escalate, Signalled, Live
  <2> QED BY <2>1, <2>2
<1>17. ASSUME NEW o \in Observers, RequestWait(o) PROVE Bookkeeping'
  BY <1>17 DEF RequestWait
<1>18. ASSUME NEW x \in Goroutines, CallWait(x) PROVE Bookkeeping'
  BY <1>18 DEF CallWait, NoProcess
<1>19. ASSUME NEW x \in Goroutines, StoreErr(x) PROVE Bookkeeping'
  BY <1>19 DEF StoreErr
<1>20. ASSUME NEW x \in Goroutines, Report(x) PROVE Bookkeeping'
  BY <1>20 DEF Report
<1>21. ASSUME NEW g \in Gens, Reap(g) PROVE Bookkeeping'
  BY <1>21 DEF Reap
<1>22. ASSUME NEW g \in Gens, StoreState(g) PROVE Bookkeeping'
  BY <1>22 DEF StoreState
<1>23. ASSUME NEW g \in Gens, SetDone(g) PROVE Bookkeeping'
  BY <1>23 DEF SetDone
<1>24. ASSUME NEW g \in Gens, Exit(g) PROVE Bookkeeping'
  BY <1>24 DEF Exit, Live
<1>25. ASSUME UNCHANGED vars PROVE Bookkeeping'
  BY <1>25 DEF vars
<1>27. ASSUME NEW c \in Threads, StopFails(c) PROVE Bookkeeping'
  BY <1>27 DEF StopFails, StopBreaks, Ends
<1> HIDE DEF Bookkeeping, CallerInv, LocalsOK, OwnWait, TypeOK, Gens
<1>26. Bookkeeping'
  BY <1>2, <1>3, <1>4, <1>5, <1>6, <1>7, <1>8, <1>9, <1>10, <1>11, <1>12, <1>13, <1>14,
     <1>15, <1>16, <1>17, <1>18, <1>19, <1>20, <1>21, <1>22, <1>23, <1>24, <1>25, <1>27
     DEF Next, ThreadStep, GoroutineStep, WaitStep, Terminated
<1> QED BY <1>1, <1>26 DEF CallerInv

\* For any callers.
THEOREM CallerInvariance == Spec => []CallerInv
BY InitCallerInv, CallerStep, PTL DEF Spec

\* The struct, the Cmds and the locals of threads and goroutines are typed.
THEOREM TypeCorrect == Spec => []TypeOK
<1>1. CallerInv => TypeOK
  BY DEF CallerInv
<1> QED BY <1>1, CallerInvariance, PTL

\* Whatever the callers do, isDone is true only once the process of the current Cmd is
\* reaped: a start that is in the middle of initializeServiceCmd, or another process's
\* wait, cannot make a stop return while the process it sees is alive.
THEOREM DoneMeansReaped == Spec => [](IsDone => proc[inst.cmd] = "reaped")
<1>1. CallerInv => (IsDone => proc[inst.cmd] = "reaped")
  BY CmdsTyped DEF CallerInv, Bookkeeping, OwnWait, IsDone
<1> QED BY <1>1, CallerInvariance, PTL

-----------------------------------------------------------------------------
(* For Serial callers. *)

LEMMA InitSerialInv == Init => SerialInv
<1> SUFFICES ASSUME Init PROVE SerialInv
  OBVIOUS
<1> USE ServiceAssumption DEF Init, Gens, Nil, Threads
<1>1. CallerInv
  BY InitCallerInv
<1>2. OneRequest
  BY DEF OneRequest
<1>3. Generations /\ WaitedIsOver /\ FlagsAreCurrent
  BY DEF Generations, WaitedIsOver, FlagsAreCurrent, NoProcess
<1>4. StartsFromDone /\ Closures /\ StopsLast
  BY DEF StartsFromDone, Requested, Closures, StopsLast, NoProcess
<1> QED BY <1>1, <1>2, <1>3, <1>4 DEF SerialInv, Sequential

\* A request that is being served goes on: it stays the only one, and the Wait of the
\* process StartAll started is called while main looks at its health, if at all.
LEMMA OnlyRequest ==
  ASSUME SerialInv, NEW c \in Threads, pc[c] # "idle",
         \A d \in Threads : d # c => pc'[d] = pc[d],
         \A x \in Goroutines : wpc'[x] = "fetch" => wpc[x] = "fetch",
         c = Main /\ pc[c] \in {"probe", "healthcheck"} =>
           pc'[c] \in {"idle", "probe", "healthcheck"}
  PROVE  OneRequest'
BY DEF SerialInv, OneRequest

LEMMA OneRequestStep == ASSUME Serial, SerialInv, [Next]_vars PROVE OneRequest'
<1> USE ServiceAssumption
    DEF SerialInv, CallerInv, TypeOK, Threads, Goroutines, goroutines, At, WaiterAt,
        Goto
<1>1. ASSUME NEW c \in Threads, RequestStart(c) PROVE OneRequest'
  BY <1>1 DEF RequestStart, Free, Settled, OneRequest
<1>2. ASSUME NEW c \in Threads, NEW s \in {"SIGTERM", "SIGKILL"}, RequestKill(c, s)
      PROVE  OneRequest'
  BY <1>2 DEF RequestKill, Free, Settled, OneRequest
<1>3. ASSUME NEW o \in Observers, RequestWait(o) PROVE OneRequest'
  BY <1>3 DEF RequestWait, Settled, OneRequest
<1>4. ASSUME NEW c \in Threads, Exec(c) PROVE OneRequest'
  <2>1. \A x \in Goroutines : wpc[x] # "fetch"
    BY <1>4 DEF Exec, OneRequest
  <2>2. \A d \in Threads : d # c => pc[d] = "idle" /\ pc'[d] = "idle"
    BY <1>4 DEF Exec, OneRequest
  <2>3. pc'[c] = "idle" \/ (c = Main /\ pc'[c] = "probe")
    BY <1>4 DEF Exec
  <2> QED BY <2>2, <2>3 DEF OneRequest
<1>5. ASSUME NEW c \in Threads,
             CheckRunning(c) \/ InitCmd(c) \/ InitFns(c) \/ ResetDone(c) \/ Stop(c)
      PROVE  OneRequest'
  BY <1>5, OnlyRequest
     DEF CheckRunning, InitCmd, InitFns, ResetDone, Stop, StopReturns, Ends
<1>6. ASSUME NEW c \in Threads, Probe(c) \/ HealthCheck(c) PROVE OneRequest'
  BY <1>6, OnlyRequest DEF Probe, HealthCheck
<1>7. ASSUME NEW c \in Threads, Deliver(c) PROVE OneRequest'
  BY <1>7, OnlyRequest DEF Deliver, StopReturns, StopBreaks, Ends
<1>8. ASSUME NEW c \in Threads, MarkKilled(c) PROVE OneRequest'
  BY <1>8, OnlyRequest DEF MarkKilled
<1>9. ASSUME NEW c \in Threads, AwaitDone(c) PROVE OneRequest'
  BY <1>9, OnlyRequest DEF AwaitDone, StopReturns, Ends
<1>10. ASSUME NEW c \in Threads, Escalate(c) PROVE OneRequest'
  BY <1>10, OnlyRequest DEF Escalate, StopReturns, StopBreaks, Ends
<1>11. ASSUME NEW x \in Goroutines, GoroutineStep(x) PROVE OneRequest'
  BY <1>11 DEF GoroutineStep, CallWait, StoreErr, Report, OneRequest
<1>12. ASSUME NEW g \in Gens, WaitStep(g) \/ Exit(g) PROVE OneRequest'
  BY <1>12 DEF WaitStep, Reap, StoreState, SetDone, Exit, OneRequest
<1>13. CASE SkipStop \/ UNCHANGED vars
  BY <1>13 DEF SkipStop, vars, OneRequest
<1>14. ASSUME NEW c \in Threads, StopFails(c) PROVE OneRequest'
  BY <1>14, OnlyRequest DEF StopFails, StopBreaks, Ends
<1> HIDE DEF SerialInv, CallerInv, TypeOK
<1> QED
  BY <1>1, <1>2, <1>3, <1>4, <1>5, <1>6, <1>7, <1>8, <1>9, <1>10, <1>11, <1>12, <1>13,
     <1>14
     DEF Next, ThreadStep, Terminated

LEMMA SequentialStep ==
  ASSUME Serial, SerialInv, [Next]_vars, TypeOK' PROVE Sequential'
<1>1. last' \in Gens
  BY DEF TypeOK
<1> USE <1>1, ServiceAssumption
    DEF SerialInv, CallerInv, Bookkeeping, LocalsOK, OwnWait, TypeOK, OneRequest,
        Sequential, Generations, WaitedIsOver, FlagsAreCurrent, StartsFromDone,
        Requested, Closures, StopsLast, Threads, Goroutines, Gens, Nil, procs,
        goroutines, NoProcess, Live, Running, At, WaiterAt, Goto, Forget
<1>2. ASSUME NEW c \in Controllers, RequestStart(c) PROVE Sequential'
  BY <1>2 DEF RequestStart, Free, Settled
<1>3. ASSUME NEW c \in Threads, NEW s \in {"SIGTERM", "SIGKILL"}, RequestKill(c, s)
      PROVE  Sequential'
  BY <1>3 DEF RequestKill, Free, Settled
<1>4. ASSUME SkipStop PROVE Sequential'
  BY <1>4 DEF SkipStop, Free, Settled
<1>5. ASSUME NEW c \in Threads, CheckRunning(c) PROVE Sequential'
  BY <1>5 DEF CheckRunning, IsRunning
<1>6. ASSUME NEW c \in Threads, InitCmd(c) PROVE Sequential'
  <2>1. /\ last' = last + 1 /\ proc' = proc /\ once' = once /\ stopped' = stopped
        /\ proc[last'] = "none" /\ once[last'] = "idle"
        /\ once[last] \in {"idle", "returned"} /\ proc[last] \notin {"running", "zombie"}
        /\ inst'.killed = FALSE
    BY <1>6 DEF InitCmd
  <2>2. /\ pc'[c] = "initFns" /\ mine'[c] = last'
        /\ \A d \in Threads : d # c => pc'[d] = "idle"
    BY <1>6 DEF InitCmd
  <2>3. Generations'
    BY <2>1
  <2>4. (WaitedIsOver /\ FlagsAreCurrent)'
    BY <2>1
  <2>5. StartsFromDone'
    BY <2>1, <2>2
  <2>6. (Closures /\ StopsLast)'
    BY <1>6, <2>2 DEF InitCmd
  <2> QED BY <2>3, <2>4, <2>5, <2>6
<1>7. ASSUME NEW c \in Threads, InitFns(c) PROVE Sequential'
  BY <1>7 DEF InitFns
<1>8. ASSUME NEW c \in Threads, ResetDone(c) PROVE Sequential'
  BY <1>8 DEF ResetDone
<1>9. ASSUME NEW c \in Threads, Exec(c) PROVE Sequential'
  <2>1. /\ last' = last /\ once' = once /\ once[last] = "idle"
        /\ \A g \in Gens : g # last => proc'[g] = proc[g]
    BY <1>9 DEF Exec
  <2>2. (Generations /\ WaitedIsOver)'
    BY <2>1
  <2>3. (FlagsAreCurrent /\ StartsFromDone /\ Closures /\ StopsLast)'
    BY <1>9 DEF Exec, Spawn
  <2> QED BY <2>2, <2>3
<1>10. ASSUME NEW c \in Threads, Probe(c) PROVE Sequential'
  BY <1>10 DEF Probe
<1>11. ASSUME NEW c \in Threads, HealthCheck(c) PROVE Sequential'
  BY <1>11 DEF HealthCheck
<1>12. ASSUME NEW c \in Threads, Stop(c) PROVE Sequential'
  BY <1>12 DEF Stop, StopReturns, Ends
<1>13. ASSUME NEW c \in Threads, Deliver(c) PROVE Sequential'
  BY <1>13 DEF Deliver, StopReturns, StopBreaks, Ends, Signalled
<1>14. ASSUME NEW c \in Threads, MarkKilled(c) PROVE Sequential'
  <2>1. (Generations /\ WaitedIsOver /\ FlagsAreCurrent)'
    BY <1>14 DEF MarkKilled
  <2>2. (StartsFromDone /\ Closures)'
    <3>1. \A d \in Threads : pc'[d] \in {"idle", "awaitDone", "awaitTerm", "error"}
      BY <1>14 DEF MarkKilled
    <3>2. StartsFromDone'
      BY <3>1
    <3>3. inst.startFn = last /\ inst.waitFn = last
      BY <1>14 DEF MarkKilled
    <3>4. Closures'
      BY <1>14, <3>3 DEF MarkKilled
    <3> QED BY <3>2, <3>4
  <2>3. StopsLast'
    BY <1>14 DEF MarkKilled
  <2> QED BY <2>1, <2>2, <2>3
<1>15. ASSUME NEW c \in Threads, AwaitDone(c) PROVE Sequential'
  BY <1>15 DEF AwaitDone, IsDone, StopReturns, Ends
<1>16. ASSUME NEW c \in Threads, Escalate(c) PROVE Sequential'
  BY <1>16 DEF Escalate, StopReturns, StopBreaks, Ends, Signalled
<1>17. ASSUME NEW o \in Observers, RequestWait(o) PROVE Sequential'
  BY <1>17 DEF RequestWait
<1>18. ASSUME NEW x \in Goroutines, CallWait(x) PROVE Sequential'
  <2>1. /\ UNCHANGED <<spec, inst, last, proc, pc, mine, phase>>
        /\ \A g \in Gens : once'[g] # once[g] =>
             /\ g = inst.waitFn /\ once[g] = "idle"
             /\ once'[g] = IF NoProcess(g) THEN "waited" ELSE "waiting"
    BY <1>18 DEF CallWait
  <2>2. \A c \in Threads :
          pc[c] = "idle" \/ (c = Main /\ pc[c] \in {"probe", "healthcheck"})
    BY <1>18 DEF CallWait
  <2>3. inst.waitFn = last
    BY <2>2
  <2>4. (Generations /\ WaitedIsOver /\ FlagsAreCurrent)'
    BY <2>1, <2>3
  <2>5. (StartsFromDone /\ Closures /\ StopsLast)'
    BY <2>1, <2>2
  <2> QED BY <2>4, <2>5
<1>19. ASSUME NEW x \in Goroutines, StoreErr(x) PROVE Sequential'
  BY <1>19 DEF StoreErr
<1>20. ASSUME NEW x \in Goroutines, Report(x) PROVE Sequential'
  BY <1>20 DEF Report
<1>21. ASSUME NEW g \in Gens, Reap(g) PROVE Sequential'
  BY <1>21 DEF Reap
<1>22. ASSUME NEW g \in Gens, StoreState(g) PROVE Sequential'
  BY <1>22 DEF StoreState
<1>23. ASSUME NEW g \in Gens, SetDone(g) PROVE Sequential'
  BY <1>23 DEF SetDone
<1>24. ASSUME NEW g \in Gens, Exit(g) PROVE Sequential'
  BY <1>24 DEF Exit
<1>25. CASE UNCHANGED vars
  BY <1>25 DEF vars
<1>26. ASSUME NEW c \in Threads, StopFails(c) PROVE Sequential'
  BY <1>26 DEF StopFails, StopBreaks, Ends
<1> HIDE DEF SerialInv, CallerInv, Bookkeeping, TypeOK, Sequential, Gens
<1> QED
  BY <1>2, <1>3, <1>4, <1>5, <1>6, <1>7, <1>8, <1>9, <1>10, <1>11, <1>12, <1>13, <1>14,
     <1>15, <1>16, <1>17, <1>18, <1>19, <1>20, <1>21, <1>22, <1>23, <1>24, <1>25, <1>26
     DEF Next, ThreadStep, GoroutineStep, WaitStep, Terminated

LEMMA SerialStep == ASSUME Serial, SerialInv, [Next]_vars PROVE SerialInv'
<1>1. CallerInv'
  BY CallerStep DEF SerialInv
<1>2. OneRequest'
  BY OneRequestStep
<1>3. Sequential'
  BY <1>1, SequentialStep DEF CallerInv
<1> QED BY <1>1, <1>2, <1>3 DEF SerialInv

-----------------------------------------------------------------------------
\* For callers that are Serial: no two requests that start or stop the service at once,
\* none before the goroutines of the last one have called Wait, and no start after a
\* kill, also one that failed, that has not led to done.
THEOREM SerialInvariance == ASSUME Serial PROVE Spec => []SerialInv
<1>1. SerialInv /\ [Next]_vars => SerialInv'
  BY SerialStep
<1> QED BY <1>1, InitSerialInv, PTL DEF Spec

\* "Starts the service if it is not already running" (docs/itest.md:29), for Serial
\* callers only: isRunning, which a crash and a restart may change at any moment, refuses
\* every start while a process lives.  Two starts at once make two processes
\* (ServiceOverlap.cfg), and so does a start after a kill that failed.
THEOREM NeverTwoProcesses == ASSUME Serial PROVE Spec => []OneLiveProcess
<1>1. SerialInv => OneLiveProcess
  BY DEF SerialInv, Sequential, Generations, OneLiveProcess, Live
<1> QED BY <1>1, SerialInvariance, PTL

\* For Serial callers done is about the current process, though SetDone sets it for
\* whichever Cmd is the current one by then.
THEOREM DoneSpeaksOfCurrent == ASSUME Serial PROVE Spec => []DoneIsCurrent
<1>1. SerialInv => DoneIsCurrent
  BY CmdsTyped
     DEF SerialInv, CallerInv, Bookkeeping, Sequential, WaitedIsOver, FlagsAreCurrent,
         DoneIsCurrent, NoProcess
<1> QED BY <1>1, SerialInvariance, PTL

\* For Serial callers a StopAll that succeeds leaves no process of a service it is to
\* stop, however often the service was restarted.
THEOREM StopLeavesNothing == ASSUME Serial PROVE Spec => []NothingLeft
<1>1. SerialInv => NothingLeft
  BY DEF SerialInv, Sequential, Generations, StopsLast, NothingLeft
<1> QED BY <1>1, SerialInvariance, PTL

\* What lets a stop return no error.
LEMMA StopsEnd ==
  ASSUME TypeOK, [Next]_vars, NEW c \in Threads, pc[c] \in KillLocs \ {"error"},
         pc'[c] = "idle"
  PROVE  Stop(c) \/ Deliver(c) \/ AwaitDone(c) \/ Escalate(c)
<1> USE DEF TypeOK, Threads, At, Goto, KillLocs
<1>1. ASSUME NEW d \in Threads, ThreadStep(d) PROVE d = c
  BY <1>1 DEF ThreadStep, CheckRunning, InitCmd, InitFns, ResetDone, Exec, Stop, Deliver,
              MarkKilled, AwaitDone, Escalate, StopFails, StopReturns, StopBreaks, Ends
<1>2. ASSUME NEW d \in Threads, Probe(d) \/ HealthCheck(d) PROVE FALSE
  BY <1>2 DEF Probe, HealthCheck
<1>3. ASSUME NEW d \in Threads, RequestStart(d) PROVE FALSE
  BY <1>3 DEF RequestStart, Free
<1>4. ASSUME NEW d \in Threads, NEW s \in {"SIGTERM", "SIGKILL"}, RequestKill(d, s)
      PROVE  FALSE
  BY <1>4 DEF RequestKill, Free
<1>5. ASSUME NEW x \in Goroutines, GoroutineStep(x) PROVE FALSE
  BY <1>5 DEF GoroutineStep, CallWait, StoreErr, Report
<1>6. ASSUME NEW g \in Gens, WaitStep(g) \/ Exit(g) PROVE FALSE
  BY <1>6 DEF WaitStep, Reap, StoreState, SetDone, Exit
<1>7. ASSUME NEW o \in Observers, RequestWait(o) PROVE FALSE
  BY <1>7 DEF RequestWait
<1>8. ASSUME SkipStop \/ UNCHANGED vars PROVE FALSE
  BY <1>8 DEF SkipStop, vars
<1>9. ThreadStep(c)
  <2> HIDE DEF TypeOK
  <2> QED
    BY <1>1, <1>2, <1>3, <1>4, <1>5, <1>6, <1>7, <1>8 DEF Next, Terminated
<1> QED
  BY <1>9 DEF ThreadStep, CheckRunning, InitCmd, InitFns, ResetDone, Exec, MarkKilled,
              StopFails

\* For Serial callers a stop that returns no error has left no live process, whether done
\* ended it or the ESRCH of either signal; stops that fail are excepted.
THEOREM KillsAreFinal == ASSUME Serial PROVE Spec => KillLeavesDead
<1>1. SerialInv /\ [Next]_vars => [KillEnds]_vars
  <2> SUFFICES ASSUME SerialInv, [Next]_vars, NEW c \in Threads,
                      pc[c] \in KillLocs \ {"error"}, pc'[c] = "idle"
               PROVE  \A g \in Gens : ~Live(g)
    BY DEF KillEnds
  <2>1. \A g \in Gens \ {last} : ~Live(g)
    BY DEF SerialInv, Sequential, Generations, Live
  <2>2. last = inst.cmd /\ last \in Gens
    BY CmdsTyped DEF SerialInv, CallerInv, Bookkeeping
  <2>3. Stop(c) \/ Deliver(c) \/ AwaitDone(c) \/ Escalate(c)
    BY StopsEnd DEF SerialInv, CallerInv
  <2>4. ~Live(last)
    <3>1. CASE Stop(c)
      BY <2>2, <3>1 DEF SerialInv, CallerInv, TypeOK, Stop, Goto, NoProcess, Live
    <3>2. CASE Deliver(c)
      BY <2>2, <3>2 DEF SerialInv, CallerInv, TypeOK, Deliver, Goto, NoProcess, Live
    <3>3. CASE AwaitDone(c)
      BY <2>2, <3>3
         DEF SerialInv, CallerInv, Bookkeeping, OwnWait, AwaitDone, IsDone, Live
    <3>4. CASE Escalate(c)
      BY <2>2, <3>4 DEF SerialInv, CallerInv, TypeOK, Escalate, Goto, NoProcess, Live
    <3> QED BY <2>3, <3>1, <3>2, <3>3, <3>4
  <2> QED BY <2>1, <2>4
<1> QED BY <1>1, SerialInvariance, PTL DEF Spec, KillLeavesDead
====
