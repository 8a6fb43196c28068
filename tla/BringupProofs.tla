---------------------------- MODULE BringupProofs ----------------------------
(***************************************************************************)
(* Theorems about module Bringup, for every stack.                         *)
(***************************************************************************)
EXTENDS Bringup, TLAPS

\* Reach fires states of its own lifecycle (lifecycle.Reach).
LEMMA ReachStates ==
  /\ \A st \in ServiceLifecycle.states : ServiceReach[st] \subseteq ServiceLifecycle.states
  /\ \A st \in BuildLifecycle.states : BuildReach[st] \subseteq BuildLifecycle.states
  /\ \A st \in ProvisionLifecycle.states :
       ProvisionReach[st] \subseteq ProvisionLifecycle.states
  /\ \A st \in ToolchainLifecycle.states :
       ToolchainReach[st] \subseteq ToolchainLifecycle.states
BY DEF ServiceReach, BuildReach, ProvisionReach, ToolchainReach, Upto

\* The names of the states the actions reach.
LEMMA StateNames ==
  /\ {"scheduled", "running", "ready", "failed", "stopped"} = ServiceLifecycle.states
  /\ {"scheduled", "running", "success", "failure"} = BuildLifecycle.states
  /\ {"scheduled", "running", "success", "failure"} = ProvisionLifecycle.states
  /\ {"installing", "ready", "failed"} = ToolchainLifecycle.states
BY DEF ServiceLifecycle, BuildLifecycle, ProvisionLifecycle, ToolchainLifecycle

------------------------------------------------------------------------------
(* Type correctness.                                                        *)

\* Passing one more reference keeps the counters' type.
LEMMA DepType ==
  ASSUME TypeOK, NEW e \in Entity, dep' = [dep EXCEPT ![e] = @ + 1]
  PROVE  dep' \in [Entity -> Nat]
<1>1. dep \in [Entity -> Nat] BY DEF TypeOK
<1>2. dep[e] + 1 \in Nat BY <1>1
<1>3. QED BY <1>1, <1>2

\* So does what one service's goroutine writes for itself.
LEMMA ServiceWrites ==
  ASSUME TypeOK, NEW s \in Service
  PROVE  /\ \A pc \in ServicePc : ServiceAt(s, pc) => spc' \in [Service -> ServicePc]
         /\ \A st \in ServiceLifecycle.states :
              ReachRuntime(s, st) =>
                runtime' \in [Service -> SUBSET (ServiceLifecycle.states \cup {"done"})]
         /\ \A st \in BuildLifecycle.states :
              ReachBuild(s, st) =>
                build' \in [Service -> SUBSET (BuildLifecycle.states \cup {"done"})]
<1>1. ASSUME NEW pc \in ServicePc, ServiceAt(s, pc)
      PROVE  spc' \in [Service -> ServicePc]
  BY <1>1 DEF TypeOK, ServiceAt
<1>2. ASSUME NEW st \in ServiceLifecycle.states, ReachRuntime(s, st)
      PROVE  runtime' \in [Service -> SUBSET (ServiceLifecycle.states \cup {"done"})]
  BY <1>2, ReachStates DEF TypeOK, ReachRuntime
<1>3. ASSUME NEW st \in BuildLifecycle.states, ReachBuild(s, st)
      PROVE  build' \in [Service -> SUBSET (BuildLifecycle.states \cup {"done"})]
  BY <1>3, ReachStates DEF TypeOK, ReachBuild
<1>4. QED BY <1>1, <1>2, <1>3

\* A failed wait (waitAfter's fail) keeps the types.
LEMMA FailWaitType ==
  ASSUME TypeOK, NEW s \in Service, FailWait(s)
  PROVE  /\ runtime' \in [Service -> SUBSET (ServiceLifecycle.states \cup {"done"})]
         /\ build' \in [Service -> SUBSET (BuildLifecycle.states \cup {"done"})]
<1>1. ReachRuntime(s, "failed") BY DEF FailWait
<1>2. ReachBuild(s, "failure") \/ build' = build BY DEF FailWait
<1>3. QED BY <1>1, <1>2, ServiceWrites, StateNames DEF TypeOK

\* What runProvision writes for itself keeps the types.
LEMMA ProvisionWrites ==
  ASSUME TypeOK, NEW p \in Provision
  PROVE  /\ \A pc \in ProvisionPc :
              ProvisionAt(p, pc) => ppc' \in [Provision -> ProvisionPc]
         /\ \A st \in ProvisionLifecycle.states :
              ReachProvision(p, st) =>
                provision' \in
                  [Provision -> SUBSET (ProvisionLifecycle.states \cup {"done"})]
<1>1. ASSUME NEW pc \in ProvisionPc, ProvisionAt(p, pc)
      PROVE  ppc' \in [Provision -> ProvisionPc]
  BY <1>1 DEF TypeOK, ProvisionAt
<1>2. ASSUME NEW st \in ProvisionLifecycle.states, ReachProvision(p, st)
      PROVE  provision' \in [Provision -> SUBSET (ProvisionLifecycle.states \cup {"done"})]
  BY <1>2, ReachStates DEF TypeOK, ReachProvision
<1>3. QED BY <1>1, <1>2

\* Reaping a service's process keeps the types.
LEMMA ReapType ==
  ASSUME TypeOK, NEW s \in Service, Reap(s)
  PROVE  TypeOK'
<1>1. PICK pc \in {"unwind", "returned"}, st \in {"failed", "stopped"} :
        ServiceAt(s, pc) /\ ReachRuntime(s, st)
  BY DEF Reap
<1>2. UNCHANGED <<alphaVars, ppc, dep, proc, readiness, build, provision, toolchain>>
  BY DEF Reap
<1>3. spc' \in [Service -> ServicePc] BY <1>1, ServiceWrites DEF ServicePc
<1>4. runtime' \in [Service -> SUBSET (ServiceLifecycle.states \cup {"done"})]
  BY <1>1, ServiceWrites, StateNames
<1>5. QED BY <1>2, <1>3, <1>4 DEF TypeOK, alphaVars

\* So does reading a provision's template.
LEMMA ReadTemplateType ==
  ASSUME TypeOK, NEW p \in Provision, ReadTemplate(p)
  PROVE  TypeOK'
<1>1. PICK pc \in {"after", "unwind"}, st \in {"scheduled", "failure"} :
        ProvisionAt(p, pc) /\ ReachProvision(p, st)
  BY DEF ReadTemplate, FailProvision
<1>2. UNCHANGED <<alphaVars, serviceVars, dep, toolchain>> BY DEF ReadTemplate
<1>3. ppc' \in [Provision -> ProvisionPc] BY <1>1, ProvisionWrites DEF ProvisionPc
<1>4. provision' \in [Provision -> SUBSET (ProvisionLifecycle.states \cup {"done"})]
  BY <1>1, ProvisionWrites, StateNames
<1>5. QED BY <1>2, <1>3, <1>4 DEF TypeOK, alphaVars, serviceVars

\* Every action of a service's goroutine keeps the types.
LEMMA SuperviseType ==
  ASSUME TypeOK, NEW s \in Service, Supervise(s)
  PROVE  TypeOK'
<1> USE ReachStates, StateNames
<1> USE DEF TypeOK, ServicePc, ServiceAt, ReachRuntime, ReachBuild, SetReadiness,
            alphaVars, serviceVars
<1>1. CASE StartPrepare(s) BY <1>1 DEF StartPrepare
<1>2. CASE PassAfter(s)
  <2>1. s \in Entity BY DEF Entity
  <2>2. dep' \in [Entity -> Nat] BY <1>2, <2>1, DepType DEF PassAfter
  <2>3. UNCHANGED <<alphaVars, serviceVars, ppc, provision, toolchain>>
    BY <1>2 DEF PassAfter
  <2>4. QED BY <2>2, <2>3
<1>3. CASE WaitFails(s)
  <2>1. spc' \in [Service -> ServicePc] BY <1>3 DEF WaitFails
  <2>2. FailWait(s) BY <1>3 DEF WaitFails
  <2>3. QED BY <1>3, <2>1, <2>2, FailWaitType DEF WaitFails
<1>4. CASE WaitUnresolvable(s)
  <2>1. spc' \in [Service -> ServicePc] BY <1>4 DEF WaitUnresolvable
  <2>2. FailWait(s) BY <1>4 DEF WaitUnresolvable
  <2>3. QED BY <1>4, <2>1, <2>2, FailWaitType DEF WaitUnresolvable
<1>5. CASE LockPrimary(s) BY <1>5 DEF LockPrimary
<1>6. CASE WorkspaceReady(s) BY <1>6 DEF WorkspaceReady
<1>7. CASE BuildReady(s) BY <1>7 DEF BuildReady
<1>8. CASE PrepareFails(s) BY <1>8 DEF PrepareFails
<1>9. CASE Gate(s)
  <2>1. \/ ServiceAt(s, "returned") /\ ReachRuntime(s, "failed")
        \/ ServiceAt(s, "after") /\ UNCHANGED runtime
    BY <1>9 DEF Gate
  <2>2. UNCHANGED <<alphaVars, ppc, dep, proc, readiness, build, provision, toolchain>>
    BY <1>9 DEF Gate
  <2>3. QED BY <2>1, <2>2, ServiceWrites
<1>10. CASE SpawnFails(s) BY <1>10 DEF SpawnFails
<1>11. CASE Spawn(s) BY <1>11 DEF Spawn
<1>12. CASE ProbePasses(s) BY <1>12 DEF ProbePasses
<1>13. CASE ProbeFails(s) BY <1>13 DEF ProbeFails
<1>14. CASE ExitsEarly(s) BY <1>14 DEF ExitsEarly
<1>15. CASE StopUp(s) BY <1>15 DEF StopUp
<1>16. CASE Reap(s) BY <1>16, ReapType
<1>17. CASE Unwind(s) BY <1>17, ConfigAssumption DEF Unwind, ConfigAssumption
<1>18. QED
  BY <1>1, <1>2, <1>3, <1>4, <1>5, <1>6, <1>7, <1>8, <1>9, <1>10, <1>11, <1>12,
     <1>13, <1>14, <1>15, <1>16, <1>17 DEF Supervise

\* So does every action of a provision's goroutine.
LEMMA RunProvisionType ==
  ASSUME TypeOK, NEW p \in Provision, RunProvision(p)
  PROVE  TypeOK'
<1> USE ReachStates, StateNames
<1> USE DEF TypeOK, ProvisionPc, ProvisionAt, ReachProvision, FailProvision,
            alphaVars, serviceVars
<1>1. CASE ReadTemplate(p) BY <1>1, ReadTemplateType
<1>2. CASE ProvisionPassAfter(p)
  <2>1. p \in Entity BY DEF Entity
  <2>2. dep' \in [Entity -> Nat] BY <1>2, <2>1, DepType DEF ProvisionPassAfter
  <2>3. UNCHANGED <<alphaVars, serviceVars, ppc, provision, toolchain>>
    BY <1>2 DEF ProvisionPassAfter
  <2>4. QED BY <2>2, <2>3
<1>3. CASE ProvisionWaitFails(p) BY <1>3 DEF ProvisionWaitFails
<1>4. CASE Run(p) BY <1>4 DEF Run
<1>5. CASE EnterShell(p)
  <2>1. \E pc \in {"check", "cmd"} : ProvisionAt(p, pc) BY <1>5 DEF EnterShell
  <2>2. UNCHANGED <<alphaVars, serviceVars, dep, provision, toolchain>>
    BY <1>5 DEF EnterShell
  <2>3. QED BY <2>1, <2>2, ProvisionWrites
<1>6. CASE EnvFails(p) BY <1>6 DEF EnvFails
<1>7. CASE ShellSucceeds(p) BY <1>7 DEF ShellSucceeds
<1>8. CASE Verify(p) BY <1>8 DEF Verify
<1>9. CASE CheckFails(p) BY <1>9 DEF CheckFails
<1>10. CASE CmdFails(p) BY <1>10 DEF CmdFails
<1>11. CASE ProvisionUnwind(p) BY <1>11 DEF ProvisionUnwind
<1>12. QED
  BY <1>1, <1>2, <1>3, <1>4, <1>5, <1>6, <1>7, <1>8, <1>9, <1>10, <1>11 DEF RunProvision

\* And the handler's, the shutdown's and the composed barriers'.
LEMMA ConfigureType == ASSUME TypeOK, Configure PROVE TypeOK'
<1> USE DEF TypeOK, serviceVars, ServicePc, ProvisionPc
<1>1. CASE Setup BY <1>1, ReachStates, StateNames DEF Setup
<1>2. CASE SetupFails BY <1>2 DEF SetupFails
<1>3. ASSUME NEW e \in Entity, Allocate(e) PROVE TypeOK' BY <1>3 DEF Allocate
<1>4. CASE Launch BY <1>4 DEF Launch
<1>5. CASE ServicesDecided BY <1>5 DEF ServicesDecided
<1>6. CASE Refuse BY <1>6 DEF Refuse
<1>7. CASE Commit BY <1>7 DEF Commit
<1>8. CASE Abandon BY <1>8 DEF Abandon
<1>9. QED BY <1>1, <1>2, <1>3, <1>4, <1>5, <1>6, <1>7, <1>8 DEF Configure

\* serveAlpha's end touches only its own variables.
LEMMA ShutdownType == ASSUME TypeOK, Shutdown PROVE TypeOK'
BY DEF TypeOK, Shutdown, TakeAll, AllDone, Exit, serviceVars

\* A composed "done" barrier (barrier.Any) is a barrier of its lifecycle.
LEMMA ComposeType == ASSUME TypeOK, Compose PROVE TypeOK'
<1> USE DEF TypeOK, alphaVars, serviceVars
<1>1. ASSUME NEW s \in Service, ComposeRuntime(s) PROVE TypeOK'
  BY <1>1 DEF ComposeRuntime
<1>2. ASSUME NEW s \in Service, ComposeBuild(s) PROVE TypeOK'
  BY <1>2 DEF ComposeBuild
<1>3. ASSUME NEW p \in Provision, ComposeProvision(p) PROVE TypeOK'
  BY <1>3 DEF ComposeProvision
<1>4. ASSUME NEW t \in Toolchain, ComposeToolchain(t) PROVE TypeOK'
  BY <1>4 DEF ComposeToolchain
<1>5. QED BY <1>1, <1>2, <1>3, <1>4 DEF Compose

\* The variables keep their types, whatever the stack.
THEOREM TypeCorrect == Spec => []TypeOK
<1>1. Init => TypeOK
  <2> SUFFICES ASSUME Init PROVE TypeOK OBVIOUS
  <2>1. ServiceReach["scheduled"] \subseteq ServiceLifecycle.states
        /\ BuildReach["scheduled"] \subseteq BuildLifecycle.states
    BY ReachStates, StateNames
  <2>2. QED BY <2>1 DEF Init, TypeOK, ServicePc, ProvisionPc
<1>2. TypeOK /\ [Next]_vars => TypeOK'
  <2> SUFFICES ASSUME TypeOK, [Next]_vars PROVE TypeOK' OBVIOUS
  <2>1. CASE UNCHANGED vars BY <2>1 DEF vars, TypeOK
  <2>2. CASE Connect BY <2>2 DEF Connect, TypeOK, serviceVars
  <2>3. CASE Koniec BY <2>3 DEF Koniec, TypeOK, serviceVars
  <2>4. CASE Configure BY <2>4, ConfigureType
  <2>5. CASE Shutdown BY <2>5, ShutdownType
  <2>6. CASE Compose BY <2>6, ComposeType
  <2>7. CASE \E s \in Service : Supervise(s) BY <2>7, SuperviseType
  <2>8. CASE \E p \in Provision : RunProvision(p) BY <2>8, RunProvisionType
  <2>9. ASSUME NEW t \in Toolchain, InstallDone(t) PROVE TypeOK'
    <3>1. PICK st \in {"ready", "failed"} :
            toolchain' = [toolchain EXCEPT ![t] = @ \cup ToolchainReach[st]]
      BY <2>9 DEF InstallDone
    <3>2. ToolchainReach[st] \subseteq ToolchainLifecycle.states
      BY ReachStates, StateNames
    <3>3. QED BY <2>9, <3>1, <3>2 DEF InstallDone, TypeOK, alphaVars, serviceVars
  <2>10. ASSUME NEW s \in Service, ProcExit(s) PROVE TypeOK'
    BY <2>10 DEF ProcExit, TypeOK, alphaVars
  <2>11. QED
    BY <2>1, <2>2, <2>3, <2>4, <2>5, <2>6, <2>7, <2>8, <2>9, <2>10 DEF Next
<1>3. QED BY <1>1, <1>2, PTL DEF Spec

------------------------------------------------------------------------------
(* What one step of a goroutine can do to the rest.                         *)

\* A service's goroutine moves itself along, starts its process only past the
\* gate, and takes its last steps only when its process is not alive.
ServiceMove(s) ==
  /\ spc' = [spc EXCEPT ![s] = spc'[s]] /\ proc' = [proc EXCEPT ![s] = proc'[s]]
  /\ spc[s] \notin {"unborn", "returned"} /\ spc'[s] # "unborn"
  /\ proc'[s] = proc[s] \/ (spc[s] = "after" /\ spc'[s] = "probing")
  /\ spc'[s] \in BeforeGate => spc[s] \in BeforeGate
  /\ spc'[s] = "after" => spc[s] = "after" \/ (spc[s] = "gate" /\ ~shutdown)
  /\ spc[s] \in BeforeGate => spc'[s] \in BeforeGate \cup {"after", "unwind", "returned"}
  /\ spc'[s] \in {"unwind", "returned"} =>
       spc[s] \in BeforeGate \cup {"after", "unwind"} \/ proc[s] = "dead"
  /\ spc[s] = "unwind" => spc'[s] = "returned"

\* What one step of bringupAndSupervise may do to spc, proc and the rest.
LEMMA SuperviseMove ==
  ASSUME TypeOK, NEW s \in Service, Supervise(s)
  PROVE  /\ UNCHANGED <<main, handler, answer, known, awaited, ppc, provision, toolchain>>
         /\ shutdown => shutdown'
         /\ ServiceMove(s)
<1> USE DEF TypeOK, ServiceMove, BeforeGate, ServiceAt, alphaVars, serviceVars
<1>1. CASE StartPrepare(s) BY <1>1 DEF StartPrepare
<1>2. CASE PassAfter(s) BY <1>2 DEF PassAfter
<1>3. CASE WaitFails(s) BY <1>3 DEF WaitFails
<1>4. CASE WaitUnresolvable(s) BY <1>4 DEF WaitUnresolvable
<1>5. CASE LockPrimary(s) BY <1>5 DEF LockPrimary
<1>6. CASE WorkspaceReady(s) BY <1>6 DEF WorkspaceReady
<1>7. CASE BuildReady(s) BY <1>7 DEF BuildReady
<1>8. CASE PrepareFails(s) BY <1>8 DEF PrepareFails
<1>9. CASE Gate(s) BY <1>9 DEF Gate
<1>10. CASE SpawnFails(s) BY <1>10 DEF SpawnFails
<1>11. CASE Spawn(s) BY <1>11 DEF Spawn
<1>12. CASE ProbePasses(s) BY <1>12 DEF ProbePasses
<1>13. CASE ProbeFails(s) BY <1>13 DEF ProbeFails
<1>14. CASE ExitsEarly(s) BY <1>14 DEF ExitsEarly
<1>15. CASE StopUp(s) BY <1>15 DEF StopUp
<1>16. CASE Reap(s) BY <1>16 DEF Reap
<1>17. CASE Unwind(s) BY <1>17 DEF Unwind
<1>18. QED
  BY <1>1, <1>2, <1>3, <1>4, <1>5, <1>6, <1>7, <1>8, <1>9, <1>10, <1>11, <1>12,
     <1>13, <1>14, <1>15, <1>16, <1>17 DEF Supervise

\* A provision's goroutine touches no service.
LEMMA RunProvisionMove ==
  ASSUME TypeOK, NEW p \in Provision, RunProvision(p)
  PROVE  /\ UNCHANGED <<main, handler, answer, known, awaited, serviceVars, toolchain>>
         /\ shutdown => shutdown'
BY DEF TypeOK, RunProvision, alphaVars, serviceVars, ReadTemplate, ProvisionPassAfter,
       ProvisionWaitFails, Run, EnterShell, EnvFails, ShellSucceeds, Verify, CheckFails,
       CmdFails, ProvisionUnwind

------------------------------------------------------------------------------
(* No service process outlives alpha.                                       *)

\* A goroutine has a live process only between its start and its reaping.
ProcInv ==
  \A s \in Service :
    /\ spc[s] \in BeforeGate \cup {"after"} => proc[s] = "none"
    /\ spc[s] \in {"unwind", "returned"} => proc[s] # "alive"

\* shutdownAll finds the services whose goroutines run, or finds them not yet
\* started; those it missed are held back by the gate.
StopInv ==
  /\ handler \in {"idle", "setup", "alloc"} => \A s \in Service : spc[s] = "unborn"
  /\ main = "serving" => awaited = {}
  /\ main # "serving" => shutdown
  /\ \A s \in Service :
       /\ spc[s] # "unborn" => s \in Allocated
       /\ main # "serving" /\ s \notin awaited =>
            spc[s] \in BeforeGate \cup {"unwind", "returned"}
       /\ main \in {"draining", "exited"} /\ s \in awaited => spc[s] = "returned"

OrphanInv == ProcInv /\ StopInv

\* Before the first configure no service has a process.
LEMMA OrphanInit == Init => OrphanInv
BY DEF Init, OrphanInv, ProcInv, StopInv, BeforeGate

\* A step of bringupAndSupervise starts a process only in a service that
\* shutdownAll waits for, or before shutdownCh is closed.
LEMMA OrphanSupervise ==
  ASSUME TypeOK, OrphanInv, NEW s \in Service, Supervise(s)
  PROVE  OrphanInv'
<1>1. /\ UNCHANGED <<main, handler, answer, known, awaited>>
      /\ shutdown => shutdown'
      /\ ServiceMove(s)
  BY SuperviseMove
<1>2. \A o \in Service : o # s => spc'[o] = spc[o] /\ proc'[o] = proc[o]
  BY <1>1 DEF ServiceMove, TypeOK
<1>3. ProcInv'
  BY <1>1, <1>2 DEF ServiceMove, OrphanInv, ProcInv, TypeOK, ServicePc, BeforeGate
<1>4. StopInv'
  <2>1. StopInv BY DEF OrphanInv
  <2>2. handler' \in {"idle", "setup", "alloc"} => \A o \in Service : spc'[o] = "unborn"
    BY <1>1, <2>1 DEF ServiceMove, StopInv
  <2>3. main' = "serving" => awaited' = {}
    BY <1>1, <2>1 DEF StopInv
  <2>4. main' # "serving" => shutdown'
    BY <1>1, <2>1 DEF StopInv
  <2>5. ASSUME NEW o \in Service, o # s
        PROVE  /\ spc'[o] # "unborn" => o \in Allocated'
               /\ main' # "serving" /\ o \notin awaited' =>
                    spc'[o] \in BeforeGate \cup {"unwind", "returned"}
               /\ main' \in {"draining", "exited"} /\ o \in awaited' => spc'[o] = "returned"
    BY <1>1, <1>2, <2>1, <2>5 DEF StopInv, Allocated
  <2>6. s \in Allocated'
    BY <1>1, <2>1 DEF StopInv, ServiceMove, Allocated
  <2>7. main' # "serving" /\ s \notin awaited' => spc'[s] \in BeforeGate \cup {"unwind", "returned"}
    BY <1>1, <2>1 DEF StopInv, ServiceMove, BeforeGate
  <2>8. main' \in {"draining", "exited"} /\ s \in awaited' => spc'[s] = "returned"
    BY <1>1, <2>1 DEF StopInv, ServiceMove
  <2>9. QED BY <2>2, <2>3, <2>4, <2>5, <2>6, <2>7, <2>8 DEF StopInv
<1>5. QED BY <1>3, <1>4 DEF OrphanInv

\* handleConfigure starts goroutines, never processes.
LEMMA OrphanConfigure ==
  ASSUME TypeOK, OrphanInv, Configure
  PROVE  OrphanInv'
<1> USE DEF OrphanInv, ProcInv, StopInv, Allocated, BeforeGate, TypeOK, serviceVars
<1>1. CASE Setup BY <1>1 DEF Setup
<1>2. CASE SetupFails BY <1>2 DEF SetupFails
<1>3. ASSUME NEW e \in Entity, Allocate(e) PROVE OrphanInv' BY <1>3 DEF Allocate
<1>4. CASE Launch
  <2>1. Service \subseteq known \cup awaited BY <1>4 DEF Launch, Entity
  <2>2. \A s \in Service : spc[s] = "unborn" /\ spc'[s] = "toolchain" BY <1>4 DEF Launch
  <2>3. QED BY <1>4, <2>1, <2>2 DEF Launch
<1>5. CASE ServicesDecided BY <1>5 DEF ServicesDecided
<1>6. CASE Refuse BY <1>6 DEF Refuse
<1>7. CASE Commit BY <1>7 DEF Commit
<1>8. CASE Abandon BY <1>8 DEF Abandon
<1>9. QED BY <1>1, <1>2, <1>3, <1>4, <1>5, <1>6, <1>7, <1>8 DEF Configure

\* serveAlpha leaves when the goroutines it took over have returned.
LEMMA OrphanShutdown ==
  ASSUME TypeOK, OrphanInv, Shutdown
  PROVE  OrphanInv'
<1> USE DEF OrphanInv, ProcInv, StopInv, Allocated, BeforeGate, TypeOK, serviceVars
<1>1. CASE TakeAll BY <1>1 DEF TakeAll
<1>2. CASE AllDone BY <1>2 DEF AllDone, Returned
<1>3. CASE Exit BY <1>3 DEF Exit
<1>4. QED BY <1>1, <1>2, <1>3 DEF Shutdown

\* The strengthened invariant is inductive: one case per kind of step.
LEMMA OrphanNext == TypeOK /\ OrphanInv /\ [Next]_vars => OrphanInv'
<1> SUFFICES ASSUME TypeOK, OrphanInv, [Next]_vars PROVE OrphanInv' OBVIOUS
<1> DEFINE Same == UNCHANGED <<main, handler, known, awaited, spc, proc>>
<1>1. ASSUME Same, shutdown => shutdown' PROVE OrphanInv'
  BY <1>1 DEF OrphanInv, ProcInv, StopInv, Allocated, TypeOK
<1>2. CASE UNCHANGED vars BY <1>1, <1>2 DEF vars
<1>3. CASE Connect
  BY <1>3 DEF Connect, OrphanInv, ProcInv, StopInv, Allocated, TypeOK, serviceVars
<1>4. CASE Koniec BY <1>1, <1>4 DEF Koniec, serviceVars
<1>5. CASE Configure BY <1>5, OrphanConfigure
<1>6. CASE Shutdown BY <1>6, OrphanShutdown
<1>7. CASE Compose
  BY <1>1, <1>7 DEF Compose, ComposeRuntime, ComposeBuild, ComposeProvision,
                    ComposeToolchain, alphaVars, serviceVars
<1>8. CASE \E s \in Service : Supervise(s) BY <1>8, OrphanSupervise
<1>9. CASE \E p \in Provision : RunProvision(p)
  BY <1>1, <1>9, RunProvisionMove DEF serviceVars
<1>10. CASE \E t \in Toolchain : InstallDone(t)
  BY <1>1, <1>10 DEF InstallDone, alphaVars, serviceVars
<1>11. ASSUME NEW s \in Service, ProcExit(s) PROVE OrphanInv'
  BY <1>11 DEF ProcExit, OrphanInv, ProcInv, StopInv, Allocated, TypeOK, alphaVars, BeforeGate
<1>12. QED
  BY <1>2, <1>3, <1>4, <1>5, <1>6, <1>7, <1>8, <1>9, <1>10, <1>11 DEF Next

\* It is strong enough: nothing survives the exit of serveAlpha.
LEMMA OrphanFree == OrphanInv /\ TypeOK => NoServiceSurvivesExit
BY DEF OrphanInv, ProcInv, StopInv, NoServiceSurvivesExit, BeforeGate, TypeOK

\* shutdownAll and the gate together: no service process outlives alpha.
THEOREM NoOrphans == Spec => []NoServiceSurvivesExit
<1>1. Spec => []OrphanInv
  BY TypeCorrect, OrphanInit, OrphanNext, PTL DEF Spec
<1>2. QED BY <1>1, TypeCorrect, OrphanFree, PTL

------------------------------------------------------------------------------
(* A commit is sound.                                                       *)

\* What has fired stays fired (barrier.Trigger), so what the handler saw when
\* it left a waiting loop still holds when it answers.
Growing ==
  /\ \A s \in Service : runtime[s] \subseteq runtime'[s]
  /\ \A p \in Provision : provision[p] \subseteq provision'[p]

CommitInv ==
  /\ Failfast /\ handler = "provisions" => AllReady
  /\ CommitSound

\* bringupAndSupervise fires barriers and never resets one.
LEMMA SuperviseGrows ==
  ASSUME TypeOK, NEW s \in Service, Supervise(s)
  PROVE  Growing
<1>1. \/ runtime' = runtime
      \/ \E st \in ServiceLifecycle.states : ReachRuntime(s, st)
  BY StateNames
  DEF Supervise, alphaVars, serviceVars, StartPrepare, PassAfter, WaitFails, FailWait,
      WaitUnresolvable, LockPrimary, WorkspaceReady, BuildReady, PrepareFails, Gate,
      SpawnFails, Spawn, ProbePasses, ProbeFails, ExitsEarly, StopUp, Reap, Unwind
<1>2. \A o \in Service : runtime[o] \subseteq runtime'[o]
  BY <1>1 DEF ReachRuntime, TypeOK
<1>3. provision' = provision BY SuperviseMove
<1>4. QED BY <1>2, <1>3 DEF Growing

\* Nor does runProvision.
LEMMA RunProvisionGrows ==
  ASSUME TypeOK, NEW p \in Provision, RunProvision(p)
  PROVE  Growing
<1>1. \/ provision' = provision
      \/ \E st \in ProvisionLifecycle.states : ReachProvision(p, st)
  BY StateNames
  DEF RunProvision, alphaVars, serviceVars, ReadTemplate, ProvisionPassAfter, FailProvision,
      ProvisionWaitFails, Run, EnterShell, EnvFails, ShellSucceeds, Verify, CheckFails,
      CmdFails, ProvisionUnwind
<1>2. \A o \in Provision : provision[o] \subseteq provision'[o]
  BY <1>1 DEF ReachProvision, TypeOK
<1>3. runtime' = runtime BY RunProvisionMove DEF serviceVars
<1>4. QED BY <1>2, <1>3 DEF Growing

\* Nor does barrier.Any.
LEMMA ComposeGrows == ASSUME TypeOK, Compose PROVE Growing
<1> USE DEF Growing, TypeOK, serviceVars
<1>1. ASSUME NEW s \in Service, ComposeRuntime(s) PROVE Growing
  BY <1>1 DEF ComposeRuntime
<1>2. ASSUME NEW s \in Service, ComposeBuild(s) PROVE Growing
  BY <1>2 DEF ComposeBuild
<1>3. ASSUME NEW p \in Provision, ComposeProvision(p) PROVE Growing
  BY <1>3 DEF ComposeProvision
<1>4. ASSUME NEW t \in Toolchain, ComposeToolchain(t) PROVE Growing
  BY <1>4 DEF ComposeToolchain
<1>5. QED BY <1>1, <1>2, <1>3, <1>4 DEF Compose

\* What handleConfigure has seen of the barriers stays true while it waits.
LEMMA CommitStable ==
  ASSUME TypeOK, CommitInv, Growing,
         handler' = "provisions" => handler = "provisions",
         answer' = "done" => answer = "done"
  PROVE  CommitInv'
BY DEF CommitInv, CommitSound, Growing, AllReady, AllProvisioned, Required

\* Each step of handleConfigure establishes what its next place promises.
LEMMA CommitConfigure ==
  ASSUME TypeOK, CommitInv, Configure
  PROVE  CommitInv'
<1> USE DEF CommitInv, CommitSound, AllReady, AllProvisioned, Required, serviceVars
<1>1. CASE Setup BY <1>1 DEF Setup
<1>2. CASE SetupFails BY <1>2 DEF SetupFails
<1>3. ASSUME NEW e \in Entity, Allocate(e) PROVE CommitInv' BY <1>3 DEF Allocate
<1>4. CASE Launch BY <1>4 DEF Launch
<1>5. CASE ServicesDecided BY <1>5 DEF ServicesDecided
<1>6. CASE Refuse BY <1>6 DEF Refuse
<1>7. CASE Commit BY <1>7 DEF Commit
<1>8. CASE Abandon BY <1>8 DEF Abandon
<1>9. QED BY <1>1, <1>2, <1>3, <1>4, <1>5, <1>6, <1>7, <1>8 DEF Configure

\* The commit invariant is inductive.
LEMMA CommitNext == TypeOK /\ CommitInv /\ [Next]_vars => CommitInv'
<1> SUFFICES ASSUME TypeOK, CommitInv, [Next]_vars PROVE CommitInv' OBVIOUS
<1>1. ASSUME handler' = handler \/ handler' = "setup", answer' = answer,
             runtime' = runtime, provision' = provision
      PROVE  CommitInv'
  BY <1>1, CommitStable DEF Growing
<1>2. CASE UNCHANGED vars BY <1>1, <1>2 DEF vars
<1>3. CASE Connect BY <1>1, <1>3 DEF Connect, serviceVars
<1>4. CASE Koniec BY <1>1, <1>4 DEF Koniec, serviceVars
<1>5. CASE Configure BY <1>5, CommitConfigure
<1>6. CASE Shutdown BY <1>1, <1>6 DEF Shutdown, TakeAll, AllDone, Exit, serviceVars
<1>7. CASE Compose
  <2>1. Growing BY <1>7, ComposeGrows
  <2>2. handler' = handler /\ answer' = answer
    BY <1>7 DEF Compose, ComposeRuntime, ComposeBuild, ComposeProvision,
                ComposeToolchain, alphaVars
  <2>3. QED BY <2>1, <2>2, CommitStable
<1>8. CASE \E s \in Service : Supervise(s)
  BY <1>8, SuperviseGrows, SuperviseMove, CommitStable
<1>9. CASE \E p \in Provision : RunProvision(p)
  BY <1>9, RunProvisionGrows, RunProvisionMove, CommitStable
<1>10. CASE \E t \in Toolchain : InstallDone(t)
  BY <1>1, <1>10 DEF InstallDone, alphaVars, serviceVars
<1>11. CASE \E s \in Service : ProcExit(s)
  BY <1>1, <1>11 DEF ProcExit, alphaVars
<1>12. QED
  BY <1>2, <1>3, <1>4, <1>5, <1>6, <1>7, <1>8, <1>9, <1>10, <1>11 DEF Next

\* EventDone under failfast is only ever written for a complete stack.
THEOREM CommitIsSound == Spec => []CommitSound
<1>1. Init => CommitInv BY DEF Init, CommitInv, CommitSound
<1>2. CommitInv => CommitSound BY DEF CommitInv
<1>3. QED BY <1>1, <1>2, CommitNext, TypeCorrect, PTL DEF Spec

------------------------------------------------------------------------------
(* The shutdown gate.                                                       *)

\* Once the alpha is stopping, a service that has no process and has not gone
\* past the gate stays so.
HeldBack(s) ==
  /\ shutdown /\ proc[s] = "none"
  /\ spc[s] \in BeforeGate \cup {"unwind", "returned"}

\* A goroutine that the gate of bringupAndSupervise will meet after shutdownCh
\* is closed stays without a process, step by step.
LEMMA HeldBackNext ==
  ASSUME NEW s \in Service
  PROVE  TypeOK /\ OrphanInv /\ HeldBack(s) /\ [Next]_vars => HeldBack(s)'
<1> SUFFICES ASSUME TypeOK, OrphanInv, HeldBack(s), [Next]_vars PROVE HeldBack(s)' OBVIOUS
<1>1. ASSUME spc'[s] = spc[s], proc'[s] = proc[s], shutdown => shutdown'
      PROVE  HeldBack(s)'
  BY <1>1 DEF HeldBack
<1>2. CASE UNCHANGED vars BY <1>1, <1>2 DEF vars
<1>3. CASE Connect BY <1>1, <1>3 DEF Connect, serviceVars
<1>4. CASE Koniec BY <1>1, <1>4 DEF Koniec, serviceVars
<1>5. CASE Configure
  <2>1. CASE Launch BY <2>1 DEF Launch, HeldBack, BeforeGate
  <2>2. CASE ~Launch
    <3>1. spc' = spc /\ proc' = proc /\ (shutdown => shutdown')
      BY <1>5, <2>2 DEF Configure, Setup, SetupFails, Allocate, ServicesDecided, Refuse,
                        Commit, Abandon, serviceVars
    <3>2. QED BY <1>1, <3>1
  <2>3. QED BY <2>1, <2>2
<1>6. CASE Shutdown BY <1>1, <1>6 DEF Shutdown, TakeAll, AllDone, Exit, serviceVars
<1>7. CASE Compose
  BY <1>1, <1>7 DEF Compose, ComposeRuntime, ComposeBuild, ComposeProvision,
                    ComposeToolchain, alphaVars, serviceVars
<1>8. ASSUME NEW o \in Service, Supervise(o) PROVE HeldBack(s)'
  <2>1. ServiceMove(o) /\ (shutdown => shutdown') BY <1>8, SuperviseMove
  <2>2. CASE o = s BY <2>1, <2>2 DEF ServiceMove, HeldBack, BeforeGate
  <2>3. CASE o # s BY <1>1, <2>1, <2>3 DEF ServiceMove, TypeOK
  <2>4. QED BY <2>2, <2>3
<1>9. CASE \E p \in Provision : RunProvision(p)
  BY <1>1, <1>9, RunProvisionMove DEF serviceVars
<1>10. CASE \E t \in Toolchain : InstallDone(t)
  BY <1>1, <1>10 DEF InstallDone, alphaVars, serviceVars
<1>11. ASSUME NEW o \in Service, ProcExit(o) PROVE HeldBack(s)'
  BY <1>11 DEF ProcExit, HeldBack, TypeOK, alphaVars
<1>12. QED
  BY <1>2, <1>3, <1>4, <1>5, <1>6, <1>7, <1>8, <1>9, <1>10, <1>11 DEF Next

\* A service that is still preparing when the alpha starts to stop never gets
\* a process.
THEOREM GateHolds == Spec => NoSpawnPastGate
<1> SUFFICES ASSUME NEW s \in Service
             PROVE  Spec => [](shutdown /\ spc[s] \in BeforeGate => [](proc[s] = "none"))
  BY DEF NoSpawnPastGate
<1>1. Spec => []OrphanInv
  BY TypeCorrect, OrphanInit, OrphanNext, PTL DEF Spec
<1>2. OrphanInv /\ shutdown /\ spc[s] \in BeforeGate => HeldBack(s)
  BY DEF OrphanInv, ProcInv, HeldBack
<1>3. HeldBack(s) => proc[s] = "none" BY DEF HeldBack
<1>4. TypeOK /\ OrphanInv /\ HeldBack(s) /\ [Next]_vars => HeldBack(s)'
  BY HeldBackNext
<1>5. QED BY <1>1, <1>2, <1>3, <1>4, TypeCorrect, PTL DEF Spec

------------------------------------------------------------------------------
(* Nothing is both a success and a failure.                                 *)

\* A predecessor-closed set with s in it bounds what Reach(s) fires.
LEMMA ReachBound ==
  ASSUME NEW d, NEW s, NEW C \in SUBSET d.states, s \in C, PredClosed(d, C)
  PROVE  Upto(d, s) \subseteq C
BY DEF Upto

\* Reach(s) fires s.
LEMMA ReachSelf ==
  ASSUME NEW d, NEW s \in d.states
  PROVE  s \in Upto(d, s)
BY DEF Upto

\* "ready" and "stopped" never drag "failed" with them, nor the reverse.
LEMMA ServiceBranches ==
  /\ \A st \in {"scheduled", "running", "ready", "stopped"} : "failed" \notin ServiceReach[st]
  /\ \A st \in {"scheduled", "running", "failed"} : "ready" \notin ServiceReach[st]
<1> DEFINE Good == {"scheduled", "running", "ready", "stopped"}
           Bad  == {"scheduled", "running", "failed"}
<1>1. Good \in SUBSET ServiceLifecycle.states /\ Bad \in SUBSET ServiceLifecycle.states
  BY StateNames
<1>2. PredClosed(ServiceLifecycle, Good) /\ PredClosed(ServiceLifecycle, Bad)
  BY DEF PredClosed, ServiceLifecycle
<1>3. \A st \in Good : Upto(ServiceLifecycle, st) \subseteq Good
  BY <1>1, <1>2, ReachBound
<1>4. \A st \in Bad : Upto(ServiceLifecycle, st) \subseteq Bad
  BY <1>1, <1>2, ReachBound
<1>5. \A st \in ServiceLifecycle.states : ServiceReach[st] = Upto(ServiceLifecycle, st)
  BY DEF ServiceReach
<1>6. QED BY <1>1, <1>3, <1>4, <1>5

\* The same of a one-shot task's two outcomes; and Reach("success") fires it.
LEMMA BuildBranches ==
  /\ \A st \in {"scheduled", "running", "success"} : "failure" \notin BuildReach[st]
  /\ \A st \in {"scheduled", "running", "failure"} : "success" \notin BuildReach[st]
  /\ "success" \in BuildReach["success"]
<1> DEFINE Good == {"scheduled", "running", "success"}
           Bad  == {"scheduled", "running", "failure"}
<1>1. Good \in SUBSET BuildLifecycle.states /\ Bad \in SUBSET BuildLifecycle.states
  BY StateNames
<1>2. PredClosed(BuildLifecycle, Good) /\ PredClosed(BuildLifecycle, Bad)
  BY DEF PredClosed, BuildLifecycle
<1>3. \A st \in Good : Upto(BuildLifecycle, st) \subseteq Good
  BY <1>1, <1>2, ReachBound
<1>4. \A st \in Bad : Upto(BuildLifecycle, st) \subseteq Bad
  BY <1>1, <1>2, ReachBound
<1>5. \A st \in BuildLifecycle.states : BuildReach[st] = Upto(BuildLifecycle, st)
  BY DEF BuildReach
<1>6. "success" \in Upto(BuildLifecycle, "success") BY StateNames, ReachSelf
<1>7. QED BY <1>1, <1>3, <1>4, <1>5, <1>6

\* The same of a provision's two outcomes (alphasfile.ProvisionLifecycle).
LEMMA ProvisionBranches ==
  /\ \A st \in {"scheduled", "running", "success"} : "failure" \notin ProvisionReach[st]
  /\ \A st \in {"scheduled", "running", "failure"} : "success" \notin ProvisionReach[st]
BY BuildBranches
DEF ProvisionReach, BuildReach, Upto, PredClosed, ProvisionLifecycle, BuildLifecycle

\* Which outcomes are still open, given where the goroutine is.
ServiceOutcome(s) ==
  /\ spc[s] \in BeforeGate \cup {"after", "probing", "reap"} =>
       "ready" \notin runtime[s] /\ "failed" \notin runtime[s]
  /\ spc[s] \in {"up", "kill"} => "failed" \notin runtime[s]
  /\ spc[s] \in BeforeGate \ {"gate"} =>
       "success" \notin build[s] /\ "failure" \notin build[s]
  /\ spc[s] \in {"gate", "after"} => "success" \in build[s]
  /\ ~({"ready", "failed"} \subseteq runtime[s])
  /\ ~({"success", "failure"} \subseteq build[s])

ProvisionOutcome(p) ==
  /\ ppc[p] \notin {"unwind", "returned"} =>
       "success" \notin provision[p] /\ "failure" \notin provision[p]
  /\ ~({"success", "failure"} \subseteq provision[p])

OutcomeInv ==
  /\ \A s \in Service : ServiceOutcome(s)
  /\ \A p \in Provision : ProvisionOutcome(p)
  /\ handler \in {"idle", "setup", "alloc"} =>
       /\ \A s \in Service : spc[s] = "unborn"
       /\ \A p \in Provision \ Latent : ppc[p] = "unborn"

\* The barriers of the other services stay as they are.
LEMMA SuperviseBarriers ==
  ASSUME TypeOK, NEW s \in Service, Supervise(s)
  PROVE  \A o \in Service \ {s} : runtime'[o] = runtime[o] /\ build'[o] = build[o]
<1>1. \/ runtime' = runtime
      \/ \E st \in ServiceLifecycle.states : ReachRuntime(s, st)
  BY StateNames
  DEF Supervise, alphaVars, serviceVars, StartPrepare, PassAfter, WaitFails, FailWait,
      WaitUnresolvable, LockPrimary, WorkspaceReady, BuildReady, PrepareFails, Gate,
      SpawnFails, Spawn, ProbePasses, ProbeFails, ExitsEarly, StopUp, Reap, Unwind
<1>2. \/ build' = build
      \/ \E st \in BuildLifecycle.states : ReachBuild(s, st)
  BY StateNames
  DEF Supervise, alphaVars, serviceVars, StartPrepare, PassAfter, WaitFails, FailWait,
      WaitUnresolvable, LockPrimary, WorkspaceReady, BuildReady, PrepareFails, Gate,
      SpawnFails, Spawn, ProbePasses, ProbeFails, ExitsEarly, StopUp, Reap, Unwind
<1>3. QED BY <1>1, <1>2 DEF ReachRuntime, ReachBuild, TypeOK

\* A wait that fails decides only what was still open.
LEMMA OutcomeFailWait ==
  ASSUME TypeOK, NEW s \in Service, ServiceOutcome(s), FailWait(s),
         spc[s] \in {"toolchain", "after"}, spc'[s] \in {"unwind", "returned"}
  PROVE  ServiceOutcome(s)'
<1> USE DEF ServiceOutcome, TypeOK, BeforeGate
<1>1. "ready" \notin runtime'[s]
  BY ServiceBranches DEF FailWait, ReachRuntime
<1>2. ~({"success", "failure"} \subseteq build'[s])
  <2>1. CASE "success" \in build[s]
    <3>1. "failure" \notin build[s] /\ build' = build BY <2>1 DEF FailWait
    <3>2. QED BY <3>1
  <2>2. CASE "success" \notin build[s]
    <3>1. build'[s] = build[s] \cup BuildReach["failure"] BY <2>2 DEF FailWait, ReachBuild
    <3>2. QED BY <2>2, <3>1, BuildBranches
  <2>3. QED BY <2>1, <2>2
<1>3. QED BY <1>1, <1>2

\* Each step of bringupAndSupervise decides its service and its build one way.
LEMMA OutcomeSupervise ==
  ASSUME TypeOK, NEW s \in Service, ServiceOutcome(s), Supervise(s)
  PROVE  ServiceOutcome(s)'
<1> USE ServiceBranches, BuildBranches
<1> USE DEF ServiceOutcome, TypeOK, BeforeGate, ServiceAt, ReachRuntime, ReachBuild
<1>1. CASE StartPrepare(s) BY <1>1 DEF StartPrepare
<1>2. CASE PassAfter(s) BY <1>2 DEF PassAfter, serviceVars
<1>3. CASE WaitFails(s)
  <2>1. spc[s] \in {"toolchain", "after"} /\ spc'[s] = "returned" /\ FailWait(s)
    BY <1>3 DEF WaitFails
  <2>2. QED BY <2>1, OutcomeFailWait
<1>4. CASE WaitUnresolvable(s)
  <2>1. spc[s] = "after" /\ spc'[s] = "unwind" /\ FailWait(s)
    BY <1>4 DEF WaitUnresolvable
  <2>2. QED BY <2>1, OutcomeFailWait
<1>5. CASE LockPrimary(s) BY <1>5 DEF LockPrimary
<1>6. CASE WorkspaceReady(s) BY <1>6 DEF WorkspaceReady
<1>7. CASE BuildReady(s) BY <1>7 DEF BuildReady
<1>8. CASE PrepareFails(s) BY <1>8 DEF PrepareFails
<1>9. CASE Gate(s)
  <2>1. spc[s] = "gate" /\ build' = build BY <1>9 DEF Gate
  <2>2. CASE shutdown
    <3>1. spc'[s] = "returned" /\ runtime'[s] = runtime[s] \cup ServiceReach["failed"]
      BY <1>9, <2>2 DEF Gate
    <3>2. "ready" \notin ServiceReach["failed"] BY ServiceBranches
    <3>3. QED BY <2>1, <3>1, <3>2
  <2>3. CASE ~shutdown BY <1>9, <2>1, <2>3 DEF Gate
  <2>4. QED BY <2>2, <2>3
<1>10. CASE SpawnFails(s) BY <1>10 DEF SpawnFails
<1>11. CASE Spawn(s) BY <1>11 DEF Spawn
<1>12. CASE ProbePasses(s) BY <1>12 DEF ProbePasses
<1>13. CASE ProbeFails(s) BY <1>13 DEF ProbeFails
<1>14. CASE ExitsEarly(s) BY <1>14 DEF ExitsEarly
<1>15. CASE StopUp(s) BY <1>15 DEF StopUp
<1>16. CASE Reap(s)
  <2>1. build' = build BY <1>16 DEF Reap
  <2>2. CASE spc[s] = "reap"
    <3>1. spc'[s] = "unwind" /\ runtime'[s] = runtime[s] \cup ServiceReach["failed"]
      BY <1>16, <2>2 DEF Reap
    <3>2. "ready" \notin ServiceReach["failed"] BY ServiceBranches
    <3>3. QED BY <2>1, <2>2, <3>1, <3>2
  <2>3. CASE spc[s] \in {"kill", "up"}
    <3>1. /\ spc'[s] \in {"unwind", "returned"}
          /\ runtime'[s] = runtime[s] \cup ServiceReach["stopped"]
      BY <1>16, <2>3 DEF Reap
    <3>2. "failed" \notin ServiceReach["stopped"] BY ServiceBranches
    <3>3. QED BY <2>1, <2>3, <3>1, <3>2
  <2>4. QED BY <1>16, <2>2, <2>3 DEF Reap
<1>17. CASE Unwind(s) BY <1>17 DEF Unwind
<1>18. QED
  BY <1>1, <1>2, <1>3, <1>4, <1>5, <1>6, <1>7, <1>8, <1>9, <1>10, <1>11, <1>12,
     <1>13, <1>14, <1>15, <1>16, <1>17 DEF Supervise

\* Each step of runProvision decides its provision one way.
LEMMA OutcomeRunProvision ==
  ASSUME TypeOK, NEW p \in Provision, ProvisionOutcome(p), RunProvision(p)
  PROVE  /\ ProvisionOutcome(p)'
         /\ ppc[p] # "unborn"
         /\ \A o \in Provision \ {p} : ppc'[o] = ppc[o] /\ provision'[o] = provision[o]
<1> USE ProvisionBranches
<1> USE DEF ProvisionOutcome, TypeOK, ProvisionAt, ReachProvision, FailProvision
<1>1. CASE ReadTemplate(p)
  <2>1. /\ ppc[p] = "template"
        /\ \/ ProvisionAt(p, "after") /\ ReachProvision(p, "scheduled")
           \/ ProvisionAt(p, "unwind") /\ ReachProvision(p, "failure")
    BY <1>1 DEF ReadTemplate
  <2>2. CASE ProvisionAt(p, "after") /\ ReachProvision(p, "scheduled")
    BY <2>1, <2>2
  <2>3. CASE ProvisionAt(p, "unwind") /\ ReachProvision(p, "failure")
    BY <2>1, <2>3
  <2>4. QED BY <2>1, <2>2, <2>3
<1>2. CASE ProvisionPassAfter(p) BY <1>2 DEF ProvisionPassAfter
<1>3. CASE ProvisionWaitFails(p) BY <1>3 DEF ProvisionWaitFails
<1>4. CASE Run(p) BY <1>4 DEF Run
<1>5. CASE EnterShell(p) BY <1>5 DEF EnterShell
<1>6. CASE EnvFails(p) BY <1>6 DEF EnvFails
<1>7. CASE ShellSucceeds(p) BY <1>7 DEF ShellSucceeds
<1>8. CASE Verify(p) BY <1>8 DEF Verify
<1>9. CASE CheckFails(p) BY <1>9 DEF CheckFails
<1>10. CASE CmdFails(p) BY <1>10 DEF CmdFails
<1>11. CASE ProvisionUnwind(p) BY <1>11 DEF ProvisionUnwind
<1>12. QED
  BY <1>1, <1>2, <1>3, <1>4, <1>5, <1>6, <1>7, <1>8, <1>9, <1>10, <1>11 DEF RunProvision

\* handleConfigure decides nothing; it starts goroutines that have not begun.
LEMMA OutcomeConfigure ==
  ASSUME TypeOK, OutcomeInv, Configure
  PROVE  OutcomeInv'
<1> USE DEF OutcomeInv, ServiceOutcome, ProvisionOutcome, BeforeGate, TypeOK, serviceVars
<1>1. CASE Setup BY <1>1 DEF Setup
<1>2. CASE SetupFails BY <1>2 DEF SetupFails
<1>3. ASSUME NEW e \in Entity, Allocate(e) PROVE OutcomeInv' BY <1>3 DEF Allocate
<1>4. CASE Launch BY <1>4 DEF Launch
<1>5. CASE ServicesDecided BY <1>5 DEF ServicesDecided
<1>6. CASE Refuse BY <1>6 DEF Refuse
<1>7. CASE Commit BY <1>7 DEF Commit
<1>8. CASE Abandon BY <1>8 DEF Abandon
<1>9. QED BY <1>1, <1>2, <1>3, <1>4, <1>5, <1>6, <1>7, <1>8 DEF Configure

\* "done" is neither outcome (barrier.Any's target is a barrier of its own).
LEMMA OutcomeCompose ==
  ASSUME TypeOK, OutcomeInv, Compose
  PROVE  OutcomeInv'
<1> USE DEF OutcomeInv, ServiceOutcome, ProvisionOutcome, TypeOK, alphaVars, serviceVars
<1>1. ASSUME NEW s \in Service, ComposeRuntime(s) PROVE OutcomeInv'
  BY <1>1 DEF ComposeRuntime
<1>2. ASSUME NEW s \in Service, ComposeBuild(s) PROVE OutcomeInv'
  BY <1>2 DEF ComposeBuild
<1>3. ASSUME NEW p \in Provision, ComposeProvision(p) PROVE OutcomeInv'
  BY <1>3 DEF ComposeProvision
<1>4. ASSUME NEW t \in Toolchain, ComposeToolchain(t) PROVE OutcomeInv'
  BY <1>4 DEF ComposeToolchain
<1>5. QED BY <1>1, <1>2, <1>3, <1>4 DEF Compose

\* The outcome invariant is inductive.
LEMMA OutcomeNext == TypeOK /\ OutcomeInv /\ [Next]_vars => OutcomeInv'
<1> SUFFICES ASSUME TypeOK, OutcomeInv, [Next]_vars PROVE OutcomeInv' OBVIOUS
<1>1. ASSUME UNCHANGED <<handler, spc, ppc, runtime, build, provision>> PROVE OutcomeInv'
  BY <1>1 DEF OutcomeInv, ServiceOutcome, ProvisionOutcome
<1>2. CASE UNCHANGED vars BY <1>1, <1>2 DEF vars
<1>3. CASE Connect
  BY <1>3 DEF Connect, OutcomeInv, ServiceOutcome, ProvisionOutcome, serviceVars
<1>4. CASE Koniec BY <1>1, <1>4 DEF Koniec, serviceVars
<1>5. CASE Configure BY <1>5, OutcomeConfigure
<1>6. CASE Shutdown BY <1>1, <1>6 DEF Shutdown, TakeAll, AllDone, Exit, serviceVars
<1>7. CASE Compose BY <1>7, OutcomeCompose
<1>8. ASSUME NEW s \in Service, Supervise(s) PROVE OutcomeInv'
  <2>1. ServiceOutcome(s)' BY <1>8, OutcomeSupervise DEF OutcomeInv
  <2>2. /\ UNCHANGED <<handler, ppc, provision>> /\ ServiceMove(s)
        /\ \A o \in Service \ {s} : runtime'[o] = runtime[o] /\ build'[o] = build[o]
    BY <1>8, SuperviseMove, SuperviseBarriers
  <2>3. \A o \in Service \ {s} : spc'[o] = spc[o] BY <2>2 DEF ServiceMove, TypeOK
  <2>4. \A o \in Service \ {s} : ServiceOutcome(o)'
    BY <2>2, <2>3 DEF OutcomeInv, ServiceOutcome
  <2>5. handler \notin {"idle", "setup", "alloc"}
    BY <2>2 DEF OutcomeInv, ServiceMove
  <2>6. QED BY <2>1, <2>2, <2>4, <2>5 DEF OutcomeInv, ProvisionOutcome
<1>9. ASSUME NEW p \in Provision, RunProvision(p) PROVE OutcomeInv'
  <2>1. UNCHANGED <<handler, spc, runtime, build>>
    BY <1>9, RunProvisionMove DEF serviceVars
  <2>2. ProvisionOutcome(p) BY DEF OutcomeInv
  <2>3. /\ ProvisionOutcome(p)' /\ ppc[p] # "unborn"
        /\ \A o \in Provision \ {p} : ppc'[o] = ppc[o] /\ provision'[o] = provision[o]
    BY <1>9, <2>2, OutcomeRunProvision
  <2>4. \A o \in Provision : ProvisionOutcome(o)'
    BY <2>3 DEF OutcomeInv, ProvisionOutcome
  <2>5. QED BY <2>1, <2>3, <2>4 DEF OutcomeInv, ServiceOutcome
<1>10. CASE \E t \in Toolchain : InstallDone(t)
  BY <1>1, <1>10 DEF InstallDone, alphaVars, serviceVars
<1>11. CASE \E s \in Service : ProcExit(s)
  BY <1>1, <1>11 DEF ProcExit, alphaVars
<1>12. QED
  BY <1>2, <1>3, <1>4, <1>5, <1>6, <1>7, <1>8, <1>9, <1>10, <1>11 DEF Next

\* newServiceCtx reaches "scheduled", which decides nothing.
LEMMA OutcomeInit == Init => OutcomeInv
<1> SUFFICES ASSUME Init PROVE OutcomeInv OBVIOUS
<1>1. "ready" \notin ServiceReach["scheduled"] /\ "failed" \notin ServiceReach["scheduled"]
      /\ "success" \notin BuildReach["scheduled"] /\ "failure" \notin BuildReach["scheduled"]
  BY ServiceBranches, BuildBranches
<1>2. QED
  BY <1>1 DEF Init, OutcomeInv, ServiceOutcome, ProvisionOutcome, BeforeGate

\* No service, build or provision is ever both decided ways.
THEOREM OneOutcome == Spec => []SingleOutcome
<1>1. OutcomeInv => SingleOutcome
  BY DEF OutcomeInv, ServiceOutcome, ProvisionOutcome, SingleOutcome
<1>2. QED BY <1>1, OutcomeInit, OutcomeNext, TypeCorrect, PTL DEF Spec

------------------------------------------------------------------------------
(* A process starts after everything it depends on.                         *)

\* What has fired stays fired, in the four kinds of lifecycle.
AllGrowing ==
  /\ Growing
  /\ \A s \in Service : build[s] \subseteq build'[s]
  /\ \A t \in Toolchain : toolchain[t] \subseteq toolchain'[t]

\* A reference waitAfter has passed: it named something, and its target fired.
Met(r) == r \in Ref /\ r.of # NoEntity /\ Fired(r)

\* What the place of a service's goroutine says of what it has waited for.
ServiceDeps(s) ==
  /\ Pin[s] # NoEntity /\ (spc[s] \in {"lock", "workspace", "build", "gate", "after"} \/ proc[s] # "none")
       => "ready" \in toolchain[Pin[s]]
  /\ proc[s] # "none" => "success" \in build[s] /\ Cleared(s)
  /\ dep[s] <= Len(After[s])
  /\ \A i \in 1 .. dep[s] : Met(After[s][i])

\* And the toolchains' lifecycles begin with the configure, not after it.
DepsInv ==
  /\ handler \in {"idle", "setup"} => \A t \in Toolchain : toolchain[t] = {}
  /\ \A s \in Service : ServiceDeps(s)

\* bringupAndSupervise resets no barrier of a build either.
LEMMA SuperviseAllGrowing ==
  ASSUME TypeOK, NEW s \in Service, Supervise(s)
  PROVE  AllGrowing
<1>1. \/ build' = build
      \/ \E st \in BuildLifecycle.states : ReachBuild(s, st)
  BY StateNames
  DEF Supervise, alphaVars, serviceVars, StartPrepare, PassAfter, WaitFails, FailWait,
      WaitUnresolvable, LockPrimary, WorkspaceReady, BuildReady, PrepareFails, Gate,
      SpawnFails, Spawn, ProbePasses, ProbeFails, ExitsEarly, StopUp, Reap, Unwind
<1>2. \A o \in Service : build[o] \subseteq build'[o]
  BY <1>1 DEF ReachBuild, TypeOK
<1>3. QED BY <1>2, SuperviseGrows, SuperviseMove DEF AllGrowing

\* No step of alpha resets a barrier: the first configure starts the
\* toolchains' lifecycles from nothing.
LEMMA NothingUnfires ==
  ASSUME TypeOK, DepsInv, [Next]_vars
  PROVE  AllGrowing
<1> USE DEF AllGrowing, Growing, serviceVars
<1>1. CASE UNCHANGED vars BY <1>1 DEF vars
<1>2. CASE Connect \/ Koniec BY <1>2 DEF Connect, Koniec
<1>3. CASE Configure
  <2>1. CASE Setup BY <2>1 DEF Setup, DepsInv
  <2>2. CASE ~Setup
    <3>1. UNCHANGED <<runtime, build, provision, toolchain>>
      BY <1>3, <2>2 DEF Configure, SetupFails, Allocate, Launch, ServicesDecided, Refuse,
                        Commit, Abandon
    <3>2. QED BY <3>1
  <2>3. QED BY <2>1, <2>2
<1>4. CASE Shutdown BY <1>4 DEF Shutdown, TakeAll, AllDone, Exit
<1>5. CASE Compose
  <2>1. ASSUME NEW s \in Service, ComposeRuntime(s) PROVE AllGrowing
    BY <2>1 DEF ComposeRuntime, TypeOK
  <2>2. ASSUME NEW s \in Service, ComposeBuild(s) PROVE AllGrowing
    BY <2>2 DEF ComposeBuild, TypeOK
  <2>3. ASSUME NEW p \in Provision, ComposeProvision(p) PROVE AllGrowing
    BY <2>3 DEF ComposeProvision, TypeOK
  <2>4. ASSUME NEW t \in Toolchain, ComposeToolchain(t) PROVE AllGrowing
    BY <2>4 DEF ComposeToolchain, TypeOK
  <2>5. QED BY <1>5, <2>1, <2>2, <2>3, <2>4 DEF Compose
<1>6. CASE \E s \in Service : Supervise(s) BY <1>6, SuperviseAllGrowing
<1>7. CASE \E p \in Provision : RunProvision(p)
  BY <1>7, RunProvisionGrows, RunProvisionMove
<1>8. CASE \E t \in Toolchain : InstallDone(t)
  BY <1>8 DEF InstallDone, TypeOK
<1>9. CASE \E s \in Service : ProcExit(s) BY <1>9 DEF ProcExit
<1>10. QED
  BY <1>1, <1>2, <1>3, <1>4, <1>5, <1>6, <1>7, <1>8, <1>9 DEF Next

\* A reference that was met stays met.
LEMMA MetStays ==
  ASSUME AllGrowing, NEW r, Met(r)
  PROVE  Met(r)'
<1>1. /\ r.kind = "runtime" => r.of \in Service
      /\ r.kind = "build" => r.of \in Service
      /\ r.kind = "provision" => r.of \in Provision
      /\ r.kind = "toolchain" => r.of \in Toolchain
  BY DEF Met, Ref
<1>2. Fired(r)' BY <1>1 DEF Met, Fired, AllGrowing, Growing
<1>3. QED BY <1>2 DEF Met

\* What resolveBarrier finds and has fired is met.
LEMMA PassedIsMet ==
  ASSUME TypeOK, NEW r \in Ref, Resolvable(r), Fired(r)
  PROVE  Met(r)
<1>1. known \subseteq Entity
  BY DEF TypeOK
<1>2. NoEntity \notin Entity \cup Toolchain
  BY ConfigAssumption DEF ConfigAssumption, Entity
<1>3. r.of \in Entity \cup Toolchain
  BY <1>1 DEF Resolvable
<1>4. QED BY <1>2, <1>3 DEF Met

\* What a service has waited for stays, while it and its process rest.
LEMMA DepsStay ==
  ASSUME NEW s \in Service, AllGrowing, ServiceDeps(s),
         spc'[s] = spc[s] \/ spc'[s] \notin {"lock", "workspace", "build", "gate", "after"},
         proc'[s] # "none" => proc[s] # "none", dep'[s] = dep[s]
  PROVE  ServiceDeps(s)'
<1>1. Pin[s] # NoEntity => Pin[s] \in Toolchain
  BY ConfigAssumption DEF ConfigAssumption
<1>2. \A i \in 1 .. dep'[s] : Met(After[s][i])' BY MetStays DEF ServiceDeps
<1>3. (Pin[s] # NoEntity /\ (spc[s] \in {"lock", "workspace", "build", "gate", "after"} \/ proc[s] # "none")
       => "ready" \in toolchain[Pin[s]])'
  BY <1>1 DEF ServiceDeps, AllGrowing
<1>4. (proc[s] # "none" => "success" \in build[s] /\ Cleared(s))'
  BY DEF ServiceDeps, AllGrowing, Cleared
<1>5. QED BY <1>2, <1>3, <1>4 DEF ServiceDeps

\* Each step of bringupAndSupervise has waited for what its next place needs.
LEMMA DepsSupervise ==
  ASSUME TypeOK, OrphanInv, OutcomeInv, DepsInv, NEW s \in Service, Supervise(s)
  PROVE  ServiceDeps(s)'
<1>1. AllGrowing BY SuperviseAllGrowing
<1>2. ServiceDeps(s) /\ ServiceOutcome(s) BY DEF DepsInv, OutcomeInv
<1>3. toolchain' = toolchain /\ ServiceMove(s) BY SuperviseMove
<1>4. s \in Entity /\ After[s] \in Seq(Ref) /\ dep[s] \in Nat
  BY ConfigAssumption DEF ConfigAssumption, Entity, TypeOK
<1>5. CASE StartPrepare(s)
  <2>1. Pin[s] # NoEntity => "ready" \in toolchain'[Pin[s]]
    BY <1>3, <1>5 DEF StartPrepare, Fired, PinRef
  <2>2. proc' = proc /\ dep' = dep BY <1>5 DEF StartPrepare
  <2>3. \A i \in 1 .. dep'[s] : Met(After[s][i])'
    BY <1>1, <1>2, <2>2, MetStays DEF ServiceDeps
  <2>4. (proc[s] # "none" => "success" \in build[s] /\ Cleared(s))'
    BY <1>1, <1>2, <2>2 DEF ServiceDeps, AllGrowing, Cleared
  <2>5. QED BY <1>2, <2>1, <2>2, <2>3, <2>4 DEF ServiceDeps
<1>6. CASE PassAfter(s)
  <2>1. /\ spc[s] = "after" /\ dep[s] # Len(After[s])
        /\ Resolvable(NextRef(s)) /\ Fired(NextRef(s))
        /\ spc' = spc /\ proc' = proc /\ build' = build
    BY <1>6 DEF PassAfter, Cleared, serviceVars
  <2>2. dep'[s] = dep[s] + 1 BY <1>4, <1>6 DEF PassAfter, TypeOK
  <2>3. dep[s] + 1 \in 1 .. Len(After[s])
    BY <1>2, <1>4, <2>1 DEF ServiceDeps
  <2>4. Met(After[s][dep[s] + 1])
    BY <1>4, <2>1, <2>3, PassedIsMet DEF NextRef
  <2>5. \A i \in 1 .. dep'[s] : Met(After[s][i])
    BY <1>2, <1>4, <2>2, <2>4 DEF ServiceDeps
  <2>6. \A i \in 1 .. dep'[s] : Met(After[s][i])' BY <1>1, <2>5, MetStays
  <2>7. proc[s] = "none" BY <2>1 DEF OrphanInv, ProcInv
  <2>8. QED BY <1>2, <1>3, <1>4, <2>1, <2>2, <2>3, <2>6, <2>7 DEF ServiceDeps
<1>7. CASE Spawn(s)
  <2>1. spc[s] = "after" /\ Cleared(s) /\ dep' = dep /\ build' = build
    BY <1>7 DEF Spawn
  <2>2. "success" \in build[s] BY <1>2, <2>1 DEF ServiceOutcome
  <2>3. \A i \in 1 .. dep'[s] : Met(After[s][i])'
    BY <1>1, <1>2, <2>1, MetStays DEF ServiceDeps
  <2>4. QED BY <1>2, <1>3, <2>1, <2>2, <2>3 DEF ServiceDeps, Cleared
<1>8. CASE LockPrimary(s) \/ WorkspaceReady(s) \/ BuildReady(s) \/ Gate(s)
  <2>1. spc[s] \in {"lock", "workspace", "build", "gate"} /\ proc' = proc /\ dep' = dep
    BY <1>8 DEF LockPrimary, WorkspaceReady, BuildReady, Gate
  <2>2. \A i \in 1 .. dep'[s] : Met(After[s][i])'
    BY <1>1, <1>2, <2>1, MetStays DEF ServiceDeps
  <2>3. (proc[s] # "none" => "success" \in build[s] /\ Cleared(s))'
    BY <1>1, <1>2, <2>1 DEF ServiceDeps, AllGrowing, Cleared
  <2>4. QED BY <1>2, <1>3, <2>1, <2>2, <2>3 DEF ServiceDeps
<1>9. CASE \/ WaitFails(s) \/ WaitUnresolvable(s) \/ PrepareFails(s) \/ SpawnFails(s)
           \/ ProbePasses(s) \/ ProbeFails(s) \/ ExitsEarly(s) \/ StopUp(s) \/ Reap(s)
           \/ Unwind(s)
  <2>1. /\ spc'[s] \in {"unwind", "returned", "up", "reap", "kill"}
        /\ proc' = proc /\ dep' = dep
    BY <1>9 DEF WaitFails, WaitUnresolvable, PrepareFails, SpawnFails, ProbePasses,
                ProbeFails, ExitsEarly, StopUp, Reap, Unwind, ServiceAt, TypeOK
  <2>2. QED BY <1>1, <1>2, <2>1, DepsStay
<1>10. QED BY <1>5, <1>6, <1>7, <1>8, <1>9 DEF Supervise

\* Only a goroutine's own steps count its references.
LEMMA SuperviseOwnDeps ==
  ASSUME TypeOK, NEW s \in Service, Supervise(s), NEW o \in Service \ {s}
  PROVE  dep'[o] = dep[o]
<1>1. dep' = dep \/ dep' = [dep EXCEPT ![s] = @ + 1]
  BY DEF Supervise, alphaVars, serviceVars, StartPrepare, PassAfter, WaitFails,
         WaitUnresolvable, LockPrimary, WorkspaceReady, BuildReady, PrepareFails, Gate,
         SpawnFails, Spawn, ProbePasses, ProbeFails, ExitsEarly, StopUp, Reap, Unwind
<1>2. QED BY <1>1 DEF TypeOK, Entity

LEMMA RunProvisionOwnDeps ==
  ASSUME TypeOK, NEW p \in Provision, RunProvision(p), NEW s \in Service
  PROVE  dep'[s] = dep[s]
<1>1. dep' = dep \/ dep' = [dep EXCEPT ![p] = @ + 1]
  BY DEF RunProvision, ReadTemplate, ProvisionPassAfter, ProvisionWaitFails, Run, EnterShell,
         EnvFails, ShellSucceeds, Verify, CheckFails, CmdFails, ProvisionUnwind
<1>2. p # s BY ConfigAssumption DEF ConfigAssumption
<1>3. QED BY <1>1, <1>2 DEF TypeOK, Entity

\* The invariant is inductive.
LEMMA DepsNext == TypeOK /\ OrphanInv /\ OutcomeInv /\ DepsInv /\ [Next]_vars => DepsInv'
<1> SUFFICES ASSUME TypeOK, OrphanInv, OutcomeInv, DepsInv, [Next]_vars PROVE DepsInv'
  OBVIOUS
<1>1. AllGrowing BY NothingUnfires
<1>2. ASSUME spc' = spc, \A s \in Service : proc'[s] # "none" => proc[s] # "none",
             dep' = dep, handler' \in {"idle", "setup"} => handler \in {"idle", "setup"},
             handler' \in {"idle", "setup"} => toolchain' = toolchain
      PROVE  DepsInv'
  BY <1>1, <1>2, DepsStay DEF DepsInv
<1>3. CASE UNCHANGED vars BY <1>2, <1>3 DEF vars
<1>4. CASE Connect \/ Koniec BY <1>2, <1>4 DEF Connect, Koniec, serviceVars
<1>5. CASE Configure
  <2>1. CASE Launch
    <3>1. proc' = proc /\ dep' = dep /\ handler' = "settle" /\ \A s \in Service : spc'[s] = "toolchain"
      BY <2>1 DEF Launch
    <3>2. QED BY <1>1, <3>1, DepsStay DEF DepsInv
  <2>2. CASE ~Launch
    <3>1. spc' = spc /\ proc' = proc /\ dep' = dep /\ handler' \notin {"idle", "setup"}
      BY <1>5, <2>2 DEF Configure, Setup, SetupFails, Allocate, ServicesDecided, Refuse,
                        Commit, Abandon, serviceVars
    <3>2. QED BY <1>2, <3>1
  <2>3. QED BY <2>1, <2>2
<1>6. CASE Shutdown BY <1>2, <1>6 DEF Shutdown, TakeAll, AllDone, Exit, serviceVars
<1>7. CASE Compose
  <2>1. UNCHANGED <<spc, proc, dep, handler>>
    BY <1>7 DEF Compose, ComposeRuntime, ComposeBuild, ComposeProvision, ComposeToolchain,
                alphaVars, serviceVars
  <2>2. handler \in {"idle", "setup"} => toolchain' = toolchain
    BY <1>7 DEF Compose, ComposeRuntime, ComposeBuild, ComposeProvision, ComposeToolchain,
                DepsInv
  <2>3. QED BY <1>2, <2>1, <2>2
<1>8. ASSUME NEW s \in Service, Supervise(s) PROVE DepsInv'
  <2>1. /\ UNCHANGED <<handler, toolchain>> /\ ServiceMove(s)
        /\ \A o \in Service \ {s} : dep'[o] = dep[o]
    BY <1>8, SuperviseMove, SuperviseOwnDeps
  <2>2. \A o \in Service \ {s} : spc'[o] = spc[o] /\ proc'[o] = proc[o]
    BY <2>1 DEF ServiceMove, TypeOK
  <2>3. \A o \in Service \ {s} : ServiceDeps(o)'
    BY <1>1, <2>1, <2>2, DepsStay DEF DepsInv
  <2>4. ServiceDeps(s)' BY <1>8, DepsSupervise
  <2>5. QED BY <2>1, <2>3, <2>4 DEF DepsInv
<1>9. ASSUME NEW p \in Provision, RunProvision(p) PROVE DepsInv'
  <2>1. UNCHANGED <<handler, toolchain, spc, proc>>
    BY <1>9, RunProvisionMove DEF serviceVars
  <2>2. \A s \in Service : dep'[s] = dep[s] BY <1>9, RunProvisionOwnDeps
  <2>3. QED BY <1>1, <2>1, <2>2, DepsStay DEF DepsInv
<1>10. ASSUME NEW t \in Toolchain, InstallDone(t) PROVE DepsInv'
  <2>1. handler \notin {"idle", "setup"} BY <1>10 DEF InstallDone, Installing, DepsInv
  <2>2. QED BY <1>2, <1>10, <2>1 DEF InstallDone, alphaVars, serviceVars
<1>11. ASSUME NEW s \in Service, ProcExit(s) PROVE DepsInv'
  <2>1. \A o \in Service : proc'[o] # "none" => proc[o] # "none"
    BY <1>11 DEF ProcExit, TypeOK
  <2>2. QED BY <1>2, <1>11, <2>1 DEF ProcExit, alphaVars
<1>12. QED
  BY <1>3, <1>4, <1>5, <1>6, <1>7, <1>8, <1>9, <1>10, <1>11 DEF Next

\* waitAfter and the toolchain's barrier: no service has a process before its
\* toolchain is ready, its build has succeeded and every barrier of its
\* runtime.after has fired, however the stack's references are drawn.
THEOREM DepsComeFirst == Spec => []DepsBeforeProcess
<1>1. Init => DepsInv
  <2> SUFFICES ASSUME Init PROVE DepsInv OBVIOUS
  <2>1. ASSUME NEW s \in Service PROVE ServiceDeps(s)
    <3>1. s \in Entity /\ After[s] \in Seq(Ref)
      BY ConfigAssumption DEF ConfigAssumption, Entity
    <3>2. dep[s] = 0 /\ spc[s] = "unborn" /\ proc[s] = "none" BY <3>1 DEF Init
    <3>3. QED BY <3>1, <3>2 DEF ServiceDeps
  <2>2. QED BY <2>1 DEF Init, DepsInv
<1>2. DepsInv => DepsBeforeProcess
  <2> SUFFICES ASSUME DepsInv, NEW s \in Service, proc[s] # "none"
               PROVE  /\ "success" \in build[s]
                      /\ Pin[s] # NoEntity => "ready" \in toolchain[Pin[s]]
                      /\ \A i \in 1 .. Len(After[s]) : Fired(After[s][i])
    BY DEF DepsBeforeProcess
  <2>1. QED BY DEF DepsInv, ServiceDeps, Cleared, Met
<1>3. Spec => []OrphanInv
  BY TypeCorrect, OrphanInit, OrphanNext, PTL DEF Spec
<1>4. Spec => []OutcomeInv
  BY TypeCorrect, OutcomeInit, OutcomeNext, PTL DEF Spec
<1>5. QED BY <1>1, <1>2, <1>3, <1>4, DepsNext, TypeCorrect, PTL DEF Spec

------------------------------------------------------------------------------
(* The goroutines keep the promise of module Supervisor.                    *)

\* What else the promise needs: the probe has a process to probe, a service
\* that is up was called ready, and nobody answers twice.
ServicePromise(s) ==
  /\ spc[s] = "probing" => proc[s] # "none"
  /\ spc[s] \in {"up", "kill"} => "ready" \in runtime[s]

PromiseInv ==
  /\ \A s \in Service : ServicePromise(s)
  /\ handler # "closed" => answer = "none"

\* Reach fires the state it is called with.
LEMMA ReachFires ==
  \A st \in {"ready", "failed"} : st \in ServiceReach[st]
BY StateNames, ReachSelf DEF ServiceReach

\* Before the first configure nothing is decided and nobody is answered.
LEMMA PromiseInit == Init => PromiseInv
BY DEF Init, PromiseInv, ServicePromise

\* A step of bringupAndSupervise keeps the promise's part of its own service.
LEMMA PromiseSupervise ==
  ASSUME TypeOK, PromiseInv, NEW s \in Service, Supervise(s)
  PROVE  ServicePromise(s)'
<1>1. ServicePromise(s) BY DEF PromiseInv
<1> USE <1>1 DEF ServicePromise, TypeOK, ServiceAt, ReachRuntime
<1>2. CASE \/ StartPrepare(s) \/ LockPrimary(s) \/ WorkspaceReady(s) \/ BuildReady(s)
           \/ PrepareFails(s) \/ WaitFails(s) \/ WaitUnresolvable(s) \/ Gate(s)
           \/ SpawnFails(s) \/ ProbeFails(s) \/ ExitsEarly(s) \/ Unwind(s)
  BY <1>2 DEF StartPrepare, LockPrimary, WorkspaceReady, BuildReady, PrepareFails, WaitFails,
              WaitUnresolvable, Gate, SpawnFails, ProbeFails, ExitsEarly, Unwind
<1>3. CASE PassAfter(s) BY <1>3 DEF PassAfter, serviceVars
<1>4. CASE Spawn(s) BY <1>4 DEF Spawn
<1>5. CASE ProbePasses(s) BY <1>5, ReachFires DEF ProbePasses
<1>6. CASE StopUp(s) BY <1>6 DEF StopUp
<1>7. CASE Reap(s)
  <2>1. spc'[s] \in {"unwind", "returned"} BY <1>7 DEF Reap
  <2>2. QED BY <2>1
<1>8. QED BY <1>2, <1>3, <1>4, <1>5, <1>6, <1>7 DEF Supervise

\* Steps that move no service along keep the promise's invariant.
LEMMA PromiseStays ==
  ASSUME TypeOK, PromiseInv, spc' = spc,
         \A s \in Service : runtime[s] \subseteq runtime'[s] /\ (proc'[s] = "none" => proc[s] = "none"),
         answer' = answer \/ handler' = "closed", handler = "closed" => handler' = "closed"
  PROVE  PromiseInv'
BY DEF PromiseInv, ServicePromise, TypeOK

\* The invariant is inductive.
LEMMA PromiseNext == TypeOK /\ PromiseInv /\ [Next]_vars => PromiseInv'
<1> SUFFICES ASSUME TypeOK, PromiseInv, [Next]_vars PROVE PromiseInv' OBVIOUS
<1>1. ASSUME UNCHANGED <<spc, proc, runtime>>, answer' = answer \/ handler' = "closed",
             handler = "closed" => handler' = "closed"
      PROVE  PromiseInv'
  BY <1>1, PromiseStays
<1>2. CASE UNCHANGED vars BY <1>1, <1>2 DEF vars
<1>3. CASE Connect \/ Koniec BY <1>1, <1>3 DEF Connect, Koniec, serviceVars
<1>4. CASE Configure
  <2>1. CASE Launch BY <2>1 DEF Launch, PromiseInv, ServicePromise
  <2>2. CASE ~Launch
    BY <1>1, <1>4, <2>2 DEF Configure, Setup, SetupFails, Allocate, ServicesDecided, Refuse,
                            Commit, Abandon, serviceVars
  <2>3. QED BY <2>1, <2>2
<1>5. CASE Shutdown BY <1>1, <1>5 DEF Shutdown, TakeAll, AllDone, Exit, serviceVars
<1>6. CASE Compose
  <2>1. Growing BY <1>6, ComposeGrows
  <2>2. UNCHANGED <<spc, proc, answer, handler>>
    BY <1>6 DEF Compose, ComposeRuntime, ComposeBuild, ComposeProvision, ComposeToolchain,
                alphaVars, serviceVars
  <2>3. QED BY <2>1, <2>2, PromiseStays DEF Growing
<1>7. ASSUME NEW s \in Service, Supervise(s) PROVE PromiseInv'
  <2>1. /\ UNCHANGED <<handler, answer>> /\ ServiceMove(s)
        /\ \A o \in Service \ {s} : runtime'[o] = runtime[o]
    BY <1>7, SuperviseMove, SuperviseBarriers
  <2>2. \A o \in Service \ {s} : spc'[o] = spc[o] /\ proc'[o] = proc[o]
    BY <2>1 DEF ServiceMove, TypeOK
  <2>3. ServicePromise(s)' BY <1>7, PromiseSupervise
  <2>4. QED BY <2>1, <2>2, <2>3 DEF PromiseInv, ServicePromise
<1>8. CASE \E p \in Provision : RunProvision(p)
  BY <1>1, <1>8, RunProvisionMove DEF serviceVars
<1>9. CASE \E t \in Toolchain : InstallDone(t)
  BY <1>1, <1>9 DEF InstallDone, alphaVars, serviceVars
<1>10. ASSUME NEW s \in Service, ProcExit(s) PROVE PromiseInv'
  BY <1>10, PromiseStays DEF ProcExit, TypeOK, alphaVars
<1>11. QED
  BY <1>2, <1>3, <1>4, <1>5, <1>6, <1>7, <1>8, <1>9, <1>10 DEF Next

\* What a service's outcome is, read off its barriers.
LEMMA OutcomeOf ==
  ASSUME NEW s \in Service
  PROVE  /\ outcome[s] = "pending" <=> "ready" \notin runtime[s] /\ "failed" \notin runtime[s]
         /\ outcome[s] = "ready" <=> "ready" \in runtime[s]
         /\ outcome[s] = "failed" <=> "ready" \notin runtime[s] /\ "failed" \in runtime[s]
BY DEF outcome

\* Barriers that neither "ready" nor "failed" is among change no outcome.
LEMMA SameOutcome ==
  ASSUME \A s \in Service : /\ "ready" \in runtime'[s] <=> "ready" \in runtime[s]
                            /\ "failed" \in runtime'[s] <=> "failed" \in runtime[s]
  PROVE  outcome' = outcome
BY DEF outcome

\* One service is decided: its outcome changes and no other.
LEMMA OneDecided ==
  ASSUME NEW s \in Service, NEW st \in {"ready", "failed"},
         "ready" \notin runtime[s] /\ "failed" \notin runtime[s],
         runtime'[s] = runtime[s] \cup ServiceReach[st],
         \A o \in Service \ {s} : runtime'[o] = runtime[o]
  PROVE  outcome[s] = "pending" /\ outcome' = [outcome EXCEPT ![s] = st]
<1>1. outcome[s] = "pending" BY OutcomeOf
<1>2. IF "ready" \in runtime'[s] THEN st = "ready" ELSE "failed" \in runtime'[s] /\ st = "failed"
  BY ServiceBranches, ReachFires
<1>3. outcome' = [o \in Service |-> IF o = s THEN st ELSE outcome[o]]
  BY <1>2 DEF outcome
<1>4. outcome = [o \in Service |-> outcome[o]] BY DEF outcome
<1>5. QED BY <1>1, <1>3, <1>4

\* A step of bringupAndSupervise starts a process, decides a service or is
\* none of Supervisor's business.
LEMMA SuperviseKeeps ==
  ASSUME TypeOK, OrphanInv, OutcomeInv, PromiseInv, main # "exited",
         NEW s \in Service, Supervise(s)
  PROVE  Promise!Next \/ UNCHANGED Promise!vars
<1>1. /\ ServiceOutcome(s) /\ ServicePromise(s)
      /\ spc[s] \in BeforeGate \cup {"after"} => proc[s] = "none"
  BY DEF OutcomeInv, PromiseInv, OrphanInv, ProcInv
<1>2. /\ UNCHANGED <<main, answer>>
      /\ \A o \in Service \ {s} : runtime'[o] = runtime[o]
  BY SuperviseMove, SuperviseBarriers
<1>3. ASSUME proc' = proc, "ready" \in runtime'[s] <=> "ready" \in runtime[s],
             "failed" \in runtime'[s] <=> "failed" \in runtime[s]
      PROVE  UNCHANGED Promise!vars
  <2>1. outcome' = outcome BY <1>2, <1>3, SameOutcome
  <2>2. QED BY <1>2, <1>3, <2>1 DEF Promise!vars
<1>4. ASSUME proc' = proc, proc[s] # "alive", "ready" \notin runtime[s] /\ "failed" \notin runtime[s],
             ReachRuntime(s, "failed")
      PROVE  Promise!Next
  <2>1. runtime'[s] = runtime[s] \cup ServiceReach["failed"] BY <1>4 DEF ReachRuntime, TypeOK
  <2>2. outcome[s] = "pending" /\ outcome' = [outcome EXCEPT ![s] = "failed"]
    BY <1>2, <1>4, <2>1, OneDecided
  <2>3. Promise!Fail(s) BY <1>2, <1>4, <2>2 DEF Promise!Fail
  <2>4. QED BY <2>3 DEF Promise!Next
<1>5. CASE \/ StartPrepare(s) \/ PassAfter(s) \/ LockPrimary(s) \/ WorkspaceReady(s)
           \/ BuildReady(s) \/ ProbeFails(s) \/ StopUp(s) \/ Unwind(s)
  BY <1>3, <1>5 DEF StartPrepare, PassAfter, LockPrimary, WorkspaceReady, BuildReady,
                    ProbeFails, StopUp, Unwind, serviceVars
<1>6. CASE WaitFails(s) \/ WaitUnresolvable(s)
  <2>1. spc[s] \in {"toolchain", "after"} /\ proc' = proc /\ FailWait(s)
    BY <1>6 DEF WaitFails, WaitUnresolvable
  <2>2. QED BY <1>1, <1>4, <2>1 DEF FailWait, ServiceOutcome, BeforeGate
<1>7. CASE PrepareFails(s) \/ SpawnFails(s)
  <2>1. /\ spc[s] \in {"workspace", "build", "after"} /\ proc' = proc
        /\ ReachRuntime(s, "failed")
    BY <1>7 DEF PrepareFails, SpawnFails
  <2>2. QED BY <1>1, <1>4, <2>1 DEF ServiceOutcome, BeforeGate
<1>8. CASE Gate(s)
  <2>1. spc[s] = "gate" /\ proc' = proc /\ (ReachRuntime(s, "failed") \/ runtime' = runtime)
    BY <1>8 DEF Gate
  <2>2. QED BY <1>1, <1>3, <1>4, <2>1 DEF ServiceOutcome, BeforeGate
<1>9. CASE Spawn(s)
  <2>1. /\ spc[s] = "after" /\ proc' = [proc EXCEPT ![s] = "alive"]
        /\ runtime'[s] = runtime[s] \cup ServiceReach["running"]
    BY <1>9 DEF Spawn, ReachRuntime, TypeOK
  <2>2. "ready" \notin ServiceReach["running"] /\ "failed" \notin ServiceReach["running"]
    BY ServiceBranches
  <2>3. outcome' = outcome BY <1>2, <2>1, <2>2, SameOutcome
  <2>4. outcome[s] = "pending" BY <1>1, <2>1, OutcomeOf DEF ServiceOutcome
  <2>5. proc[s] = "none" BY <1>1, <2>1
  <2>6. Promise!Start(s) BY <1>2, <2>1, <2>3, <2>4, <2>5 DEF Promise!Start
  <2>7. QED BY <2>6 DEF Promise!Next
<1>10. CASE ProbePasses(s)
  <2>1. /\ spc[s] = "probing" /\ proc' = proc
        /\ runtime'[s] = runtime[s] \cup ServiceReach["ready"]
    BY <1>10 DEF ProbePasses, ReachRuntime, TypeOK
  <2>2. outcome[s] = "pending" /\ outcome' = [outcome EXCEPT ![s] = "ready"]
    BY <1>1, <1>2, <2>1, OneDecided DEF ServiceOutcome
  <2>3. proc[s] # "none" BY <1>1, <2>1 DEF ServicePromise
  <2>4. Promise!Succeed(s) BY <1>2, <2>1, <2>2, <2>3 DEF Promise!Succeed
  <2>5. QED BY <2>4 DEF Promise!Next
<1>11. CASE ExitsEarly(s)
  <2>1. /\ spc[s] = "probing" /\ proc[s] = "dead" /\ proc' = proc
        /\ ReachRuntime(s, "failed")
    BY <1>11 DEF ExitsEarly
  <2>2. QED BY <1>1, <1>4, <2>1 DEF ServiceOutcome
<1>12. CASE Reap(s)
  <2>1. proc[s] = "dead" /\ proc' = proc BY <1>12 DEF Reap
  <2>2. CASE spc[s] = "reap"
    <3>1. ReachRuntime(s, "failed") BY <1>12, <2>2 DEF Reap
    <3>2. QED BY <1>1, <1>4, <2>1, <2>2, <3>1 DEF ServiceOutcome
  <2>3. CASE spc[s] \in {"kill", "up"}
    <3>1. runtime'[s] = runtime[s] \cup ServiceReach["stopped"]
      BY <1>12, <2>3 DEF Reap, ReachRuntime, TypeOK
    <3>2. "failed" \notin ServiceReach["stopped"] BY ServiceBranches
    <3>3. "ready" \in runtime[s] BY <1>1, <2>3 DEF ServicePromise
    <3>4. QED BY <1>3, <2>1, <3>1, <3>2, <3>3
  <2>4. QED BY <1>12, <2>2, <2>3 DEF Reap
<1>13. QED
  BY <1>5, <1>6, <1>7, <1>8, <1>9, <1>10, <1>11, <1>12 DEF Supervise

\* handleConfigure answers once, and with "done" only as it may.
LEMMA ConfigureKeeps ==
  ASSUME TypeOK, CommitInv, PromiseInv, main # "exited", Configure
  PROVE  Promise!Next \/ UNCHANGED Promise!vars
<1>1. UNCHANGED <<main, proc, runtime>>
  BY DEF Configure, Setup, SetupFails, Allocate, Launch, ServicesDecided, Refuse, Commit,
         Abandon, serviceVars
<1>2. outcome' = outcome BY <1>1 DEF outcome
<1>3. CASE answer' = answer BY <1>1, <1>2, <1>3 DEF Promise!vars
<1>4. CASE SetupFails \/ Refuse
  <2>1. answer = "none" /\ answer' = "error" BY <1>4 DEF SetupFails, Refuse, PromiseInv
  <2>2. QED BY <1>1, <1>2, <2>1 DEF Promise!Next, Promise!Answer
<1>5. CASE Commit
  <2>1. answer = "none" /\ answer' = "done" BY <1>5 DEF Commit, PromiseInv
  <2>2. Failfast => \A s \in Service : outcome[s] = "ready"
    BY <1>5, OutcomeOf DEF Commit, CommitInv, AllReady
  <2>3. QED BY <1>1, <1>2, <2>1, <2>2 DEF Promise!Next, Promise!Answer
<1>6. QED
  BY <1>3, <1>4, <1>5 DEF Configure, Setup, Allocate, Launch, ServicesDecided, Abandon

\* Every step of alpha is a step of Supervisor or changes nothing it speaks of.
LEMMA StepKeepsPromise ==
  TypeOK /\ OrphanInv /\ OutcomeInv /\ CommitInv /\ PromiseInv /\ [Next]_vars
    => [Promise!Next]_Promise!vars
<1> SUFFICES ASSUME TypeOK, OrphanInv, OutcomeInv, CommitInv, PromiseInv, [Next]_vars
             PROVE  Promise!Next \/ UNCHANGED Promise!vars
  OBVIOUS
<1>1. ASSUME UNCHANGED <<main, answer, proc, runtime>> PROVE UNCHANGED Promise!vars
  BY <1>1 DEF Promise!vars, outcome
<1>2. CASE UNCHANGED vars BY <1>1, <1>2 DEF vars
<1>3. CASE Connect \/ Koniec BY <1>1, <1>3 DEF Connect, Koniec, serviceVars
<1>4. CASE main # "exited" /\ Configure BY <1>4, ConfigureKeeps
<1>5. CASE main # "exited" /\ Shutdown
  <2>1. UNCHANGED <<answer, proc, runtime>> /\ outcome' = outcome
    BY <1>5 DEF Shutdown, TakeAll, AllDone, Exit, serviceVars, outcome
  <2>2. CASE TakeAll \/ AllDone
    BY <1>5, <2>1, <2>2 DEF TakeAll, AllDone, Promise!vars
  <2>3. CASE Exit
    <3>1. main = "draining" /\ main' = "exited" BY <2>3 DEF Exit
    <3>2. \A s \in Service : proc[s] # "alive"
      BY <3>1 DEF OrphanInv, StopInv, ProcInv, BeforeGate
    <3>3. QED BY <1>5, <2>1, <3>1, <3>2 DEF Promise!Next, Promise!Leave
  <2>4. QED BY <1>5, <2>2, <2>3 DEF Shutdown
<1>6. CASE Compose
  <2>1. UNCHANGED <<main, answer, proc>>
    BY <1>6 DEF Compose, ComposeRuntime, ComposeBuild, ComposeProvision, ComposeToolchain,
                alphaVars, serviceVars
  <2>2. \A s \in Service : runtime'[s] \in {runtime[s], runtime[s] \cup {"done"}}
    <3>1. ASSUME NEW o \in Service, ComposeRuntime(o)
          PROVE  \A s \in Service : runtime'[s] \in {runtime[s], runtime[s] \cup {"done"}}
      BY <3>1 DEF ComposeRuntime, TypeOK
    <3>2. \/ \E o \in Service : ComposeRuntime(o)
          \/ runtime' = runtime
      BY <1>6 DEF Compose, ComposeBuild, ComposeProvision, ComposeToolchain, serviceVars
    <3>3. QED BY <3>1, <3>2
  <2>3. outcome' = outcome BY <2>2, SameOutcome
  <2>4. QED BY <2>1, <2>3 DEF Promise!vars
<1>7. CASE main # "exited" /\ \E s \in Service : Supervise(s) BY <1>7, SuperviseKeeps
<1>8. CASE \E p \in Provision : RunProvision(p)
  BY <1>1, <1>8, RunProvisionMove DEF serviceVars
<1>9. CASE \E t \in Toolchain : InstallDone(t)
  BY <1>1, <1>9 DEF InstallDone, alphaVars, serviceVars
<1>10. ASSUME NEW s \in Service, ProcExit(s) PROVE Promise!Next
  <2>1. outcome' = outcome /\ UNCHANGED <<main, answer>>
    BY <1>10 DEF ProcExit, alphaVars, outcome
  <2>2. Promise!Die(s) BY <1>10, <2>1 DEF ProcExit, Promise!Die
  <2>3. QED BY <2>2 DEF Promise!Next
<1>11. QED
  BY <1>2, <1>3, <1>4, <1>5, <1>6, <1>7, <1>8, <1>9, <1>10 DEF Next

\* Bringup implements Supervisor: the services' goroutines, handleConfigure
\* and serveAlpha together decide every service once, answer at most once and
\* as they may, and leave no process behind, for every stack.
THEOREM PromiseKept == Spec => KeepsPromise
<1>1. Init => Promise!Init
  <2> SUFFICES ASSUME Init PROVE Promise!Init OBVIOUS
  <2>1. \A s \in Service : runtime[s] = ServiceReach["scheduled"] BY DEF Init
  <2>2. outcome = [s \in Service |-> "pending"]
    BY <2>1, ServiceBranches DEF outcome
  <2>3. QED BY <2>2 DEF Init, Promise!Init
<1>2. Spec => []OrphanInv
  BY TypeCorrect, OrphanInit, OrphanNext, PTL DEF Spec
<1>3. Spec => []OutcomeInv
  BY TypeCorrect, OutcomeInit, OutcomeNext, PTL DEF Spec
<1>4. Spec => []CommitInv
  <2>1. Init => CommitInv BY DEF Init, CommitInv, CommitSound
  <2>2. QED BY <2>1, TypeCorrect, CommitNext, PTL DEF Spec
<1>5. Spec => []PromiseInv
  BY TypeCorrect, PromiseInit, PromiseNext, PTL DEF Spec
<1>6. QED
  BY <1>1, <1>2, <1>3, <1>4, <1>5, TypeCorrect, StepKeepsPromise, PTL
  DEF Spec, KeepsPromise, Promise!Spec
==============================================================================
