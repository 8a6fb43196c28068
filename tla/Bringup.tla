------------------------------- MODULE Bringup -------------------------------
(***************************************************************************)
(* One alpha process from its first OpConfigure to its exit: the goroutine *)
(* of every service (bringupAndSupervise), of every provision              *)
(* (runProvision) and of every pinned toolchain (bringupToolchain), the    *)
(* connection handler that started them (handleConfigure) and the ordered  *)
(* shutdown of the process (serveAlpha, shutdownAll).  cmd/alpha/main.go.  *)
(*                                                                         *)
(* Goroutines share three things: the one-shot barriers of every entity's  *)
(* lifecycle, the channel shutdownCh, and the maps state.services and      *)
(* state.provisions in which references are resolved.                      *)
(*                                                                         *)
(* A stopCh is closed here only by shutdownAll, after shutdownCh, and all  *)
(* its readers but one select on both, so it is not a variable of its own. *)
(***************************************************************************)
EXTENDS Naturals, Sequences, Lifecycle

CONSTANTS
  Service, Provision, Toolchain,  \* what the Alphasfile declares
  Primary,     \* git or src checkouts services share
  NoEntity,    \* an id nothing is registered under
  Pin,         \* Pin[s]: the toolchain pinned for service s, or NoEntity
  Repo,        \* Repo[s]: the primary s is checked out from, or NoEntity
  Owner,       \* Owner[p]: the service provision p belongs to
  Template,    \* Template[p]: the provision whose snippets p runs (p: its own)
  After,       \* After[e]: the barrier references e waits for, in order
  Detached,    \* provisions EventDone does not wait for
  Latent,      \* provisions declared `after = never`
  Failfast     \* the request's failfast flag

Entity == Service \cup Provision

\* A barrier reference, as resolveBarrier parses it; an entity nothing is
\* registered under stands for a typo, a dropped service or a bad state.
Ref ==
  [kind : {"runtime"}, of : Service \cup {NoEntity},
   at : ServiceLifecycle.states \cup {"done"}] \cup
  [kind : {"build"}, of : Service \cup {NoEntity},
   at : BuildLifecycle.states \cup {"done"}] \cup
  [kind : {"provision"}, of : Provision \cup {NoEntity},
   at : ProvisionLifecycle.states \cup {"done"}] \cup
  [kind : {"toolchain"}, of : Toolchain \cup {NoEntity},
   at : ToolchainLifecycle.states \cup {"done"}]

ASSUME ConfigAssumption ==
  /\ Service \cap Provision = {}
  /\ NoEntity \notin Service \cup Provision \cup Toolchain \cup Primary
  /\ Pin \in [Service -> Toolchain \cup {NoEntity}]
  /\ Repo \in [Service -> Primary \cup {NoEntity}]
  /\ Owner \in [Provision -> Service]
  /\ Template \in [Provision -> Provision \cup {NoEntity}]
  /\ After \in [Entity -> Seq(Ref)]
  /\ Detached \subseteq Provision
  /\ Latent \subseteq Provision
  /\ Failfast \in BOOLEAN

VARIABLES
  main,       \* where serveAlpha is
  shutdown,   \* shutdownCh is closed
  handler,    \* where handleConfigure is
  answer,     \* the terminal event it wrote to its connection
  known,      \* entries of state.services and state.provisions
  awaited,    \* entries shutdownAll took out of the maps and waits for
  spc, ppc,   \* where each service's and each provision's goroutine is
  dep,        \* how many references of After[e] have been passed
  proc,       \* the service's process: none yet, alive, dead
  readiness,  \* state.readiness, what OpState reports
  runtime, build, provision, toolchain  \* fired barriers, per lifecycle

alphaVars == <<main, shutdown, handler, answer, known, awaited>>
serviceVars == <<spc, proc, readiness, runtime, build>>
vars == <<main, shutdown, handler, answer, known, awaited, spc, ppc, dep,
          proc, readiness, runtime, build, provision, toolchain>>

ServicePc == {"unborn", "toolchain", "lock", "workspace", "build", "gate",
              "after", "probing", "reap", "up", "kill", "unwind", "returned"}
ProvisionPc == {"unborn", "template", "after", "toolchain",
                "check", "cmd", "verify", "unwind", "returned"}

TypeOK ==
  /\ main \in {"serving", "stopping", "draining", "exited"}
  /\ shutdown \in BOOLEAN
  /\ handler \in {"idle", "setup", "alloc", "settle", "provisions", "closed"}
  /\ answer \in {"none", "done", "error"}
  /\ known \in SUBSET Entity
  /\ awaited \in SUBSET Entity
  /\ spc \in [Service -> ServicePc]
  /\ ppc \in [Provision -> ProvisionPc]
  /\ dep \in [Entity -> Nat]
  /\ proc \in [Service -> {"none", "alive", "dead"}]
  /\ readiness \in [Service -> {"", "probing", "ready", "failed"}]
  /\ runtime \in [Service -> SUBSET (ServiceLifecycle.states \cup {"done"})]
  /\ build \in [Service -> SUBSET (BuildLifecycle.states \cup {"done"})]
  /\ provision \in [Provision -> SUBSET (ProvisionLifecycle.states \cup {"done"})]
  /\ toolchain \in [Toolchain -> SUBSET (ToolchainLifecycle.states \cup {"done"})]

\* newServiceCtx reaches "scheduled" in both lifecycles of a service.
Init ==
  /\ main = "serving" /\ shutdown = FALSE
  /\ handler = "idle" /\ answer = "none"
  /\ known = {} /\ awaited = {}
  /\ spc = [s \in Service |-> "unborn"]
  /\ ppc = [p \in Provision |-> "unborn"]
  /\ dep = [e \in Entity |-> 0]
  /\ proc = [s \in Service |-> "none"]
  /\ readiness = [s \in Service |-> ""]
  /\ runtime = [s \in Service |-> ServiceReach["scheduled"]]
  /\ build = [s \in Service |-> BuildReach["scheduled"]]
  /\ provision = [p \in Provision |-> {}]
  /\ toolchain = [t \in Toolchain |-> {}]

ReachRuntime(s, st) == runtime' = [runtime EXCEPT ![s] = @ \cup ServiceReach[st]]
ReachBuild(s, st) == build' = [build EXCEPT ![s] = @ \cup BuildReach[st]]
ReachProvision(p, st) ==
  provision' = [provision EXCEPT ![p] = @ \cup ProvisionReach[st]]
ServiceAt(s, pc) == spc' = [spc EXCEPT ![s] = pc]
ProvisionAt(p, pc) == ppc' = [ppc EXCEPT ![p] = pc]
\* Variant: reports a probed service under its lifecycle's name.
SetLifecycleName(s, st) ==
  readiness' = [readiness EXCEPT ![s] = IF st = "probing" THEN "running" ELSE st]

SetReadiness(s, st) == readiness' = [readiness EXCEPT ![s] = st]

------------------------------------------------------------------------------
(* Barriers.                                                                *)

\* The entity of r is in the map resolveBarrier looks it up in.
Resolvable(r) ==
  IF r.kind = "toolchain" THEN r.of \in Toolchain ELSE r.of \in known

\* The target barrier of r has fired.
Fired(r) ==
  \/ r.kind = "runtime"   /\ r.at \in runtime[r.of]
  \/ r.kind = "build"     /\ r.at \in build[r.of]
  \/ r.kind = "provision" /\ r.at \in provision[r.of]
  \/ r.kind = "toolchain" /\ r.at \in toolchain[r.of]

\* The terminal-failure barrier resolveBarrier pairs with it has fired.
Broken(r) ==
  \/ r.kind = "runtime"   /\ "failed" \in runtime[r.of]
  \/ r.kind = "build"     /\ "failure" \in build[r.of]
  \/ r.kind = "provision" /\ "failure" \in provision[r.of]
  \/ r.kind = "toolchain" /\ "failed" \in toolchain[r.of]

Cleared(e) == dep[e] = Len(After[e])
NextRef(e) == After[e][dep[e] + 1]   \* the reference e is waiting on

\* barrier.Any: a goroutine per source fires the composed "done" barrier some
\* time after a terminal state of the entity has been reached.
ComposeRuntime(s) ==
  /\ runtime[s] \cap {"ready", "failed"} # {}
  /\ "done" \notin runtime[s]
  /\ runtime' = [runtime EXCEPT ![s] = @ \cup {"done"}]
  /\ UNCHANGED <<alphaVars, spc, ppc, dep, proc, readiness, build, provision, toolchain>>

ComposeBuild(s) ==
  /\ build[s] \cap {"success", "failure"} # {}
  /\ "done" \notin build[s]
  /\ build' = [build EXCEPT ![s] = @ \cup {"done"}]
  /\ UNCHANGED <<alphaVars, spc, ppc, dep, proc, readiness, runtime, provision, toolchain>>

ComposeProvision(p) ==
  /\ provision[p] \cap {"success", "failure"} # {}
  /\ "done" \notin provision[p]
  /\ provision' = [provision EXCEPT ![p] = @ \cup {"done"}]
  /\ UNCHANGED <<alphaVars, serviceVars, ppc, dep, toolchain>>

ComposeToolchain(t) ==
  /\ toolchain[t] \cap {"ready", "failed"} # {}
  /\ "done" \notin toolchain[t]
  /\ toolchain' = [toolchain EXCEPT ![t] = @ \cup {"done"}]
  /\ UNCHANGED <<alphaVars, serviceVars, ppc, dep, provision>>

------------------------------------------------------------------------------
(* handleConfigure.  This is the first configure of the process, so there   *)
(* is nothing to stop; a later one is module Reconfigure's subject.         *)

\* acceptLoop registers the handler before the listener is closed.
Connect ==
  /\ main = "serving" /\ handler = "idle"
  /\ handler' = "setup"
  /\ UNCHANGED <<main, shutdown, answer, known, awaited, serviceVars, ppc, dep, provision, toolchain>>

\* configure, materializeFiles, ensureAnchorDirs; then every pinned toolchain
\* is registered and its goroutine started.
Setup ==
  /\ handler = "setup"
  /\ handler' = "alloc"
  /\ toolchain' = [t \in Toolchain |-> ToolchainReach["installing"]]
  /\ UNCHANGED <<main, shutdown, answer, known, awaited, serviceVars, ppc, dep, provision>>

\* A file or an anchor directory cannot be written.
SetupFails ==
  /\ handler = "setup"
  /\ handler' = "closed" /\ answer' = "error"
  /\ UNCHANGED <<main, shutdown, known, awaited, serviceVars, ppc, dep, provision, toolchain>>

Allocated == known \cup awaited

\* Variant: a latent provision's done channel is left open.
AllocateOnly(e) ==
  /\ handler = "alloc" /\ e \notin Allocated
  /\ e \in Provision => Service \subseteq Allocated
  /\ known' = known \cup {e}
  /\ UNCHANGED <<main, shutdown, handler, answer, awaited, serviceVars, ppc, dep, provision, toolchain>>

\* addService, addProvision: services first, one map insertion at a time.  A
\* latent provision has no goroutine, so its done channel is closed at once.
Allocate(e) ==
  /\ handler = "alloc" /\ e \notin Allocated
  /\ e \in Provision => Service \subseteq Allocated
  /\ known' = known \cup {e}
  /\ ppc' = [p \in Provision |-> IF p = e /\ p \in Latent THEN "returned" ELSE ppc[p]]
  /\ UNCHANGED <<main, shutdown, handler, answer, awaited, serviceVars, dep, provision, toolchain>>

\* Every entity is registered; the goroutines start.
Launch ==
  /\ handler = "alloc" /\ Allocated = Entity
  /\ handler' = "settle"
  /\ spc' = [s \in Service |-> "toolchain"]
  /\ ppc' = [p \in Provision |-> IF p \in Latent THEN ppc[p] ELSE "template"]
  /\ UNCHANGED <<main, shutdown, answer, known, awaited, proc, readiness, runtime, build, dep, provision, toolchain>>

Required == Provision \ (Detached \cup Latent)

Settled == \A s \in Service : "done" \in runtime[s]
ProvisionsSettled == \A p \in Required : "done" \in provision[p]
AllReady == \A s \in Service : "ready" \in runtime[s]
AllProvisioned == \A p \in Required : "success" \in provision[p]

\* Variant: the outcome of the services is not looked at.
ServicesSettled ==
  /\ handler = "settle" /\ Settled
  /\ handler' = "provisions"
  /\ UNCHANGED <<main, shutdown, answer, known, awaited, serviceVars, ppc, dep, provision, toolchain>>

\* The loops over serviceCtxs and provs wait for one barrier after the other;
\* barriers stay fired, so the last one to fire decides.
ServicesDecided ==
  /\ handler = "settle" /\ Settled
  /\ Failfast => AllReady
  /\ handler' = "provisions"
  /\ UNCHANGED <<main, shutdown, answer, known, awaited, serviceVars, ppc, dep, provision, toolchain>>

\* failfast: EventError, then requestShutdown.
Refuse ==
  /\ Failfast
  /\ \/ handler = "settle" /\ Settled /\ ~AllReady
     \/ handler = "provisions" /\ ProvisionsSettled /\ ~AllProvisioned
  /\ handler' = "closed" /\ answer' = "error" /\ shutdown' = TRUE
  /\ UNCHANGED <<main, known, awaited, serviceVars, ppc, dep, provision, toolchain>>

\* life.Release, then EventDone.
Commit ==
  /\ handler = "provisions" /\ ProvisionsSettled
  /\ Failfast => AllProvisioned
  /\ handler' = "closed" /\ answer' = "done"
  /\ UNCHANGED <<main, shutdown, known, awaited, serviceVars, ppc, dep, provision, toolchain>>

\* Either loop sees shutdownCh first and returns without a terminal event.
Abandon ==
  /\ shutdown
  /\ \/ handler = "settle" /\ Service # {}
     \/ handler = "provisions" /\ Required # {}
  /\ handler' = "closed"
  /\ UNCHANGED <<main, shutdown, answer, known, awaited, serviceVars, ppc, dep, provision, toolchain>>

------------------------------------------------------------------------------
(* serveAlpha's end.                                                        *)

\* A terminal signal, the death of zordon before the commit, or OpShutdown.
Koniec ==
  /\ main = "serving" /\ ~shutdown
  /\ shutdown' = TRUE
  /\ UNCHANGED <<main, handler, answer, known, awaited, serviceVars, ppc, dep, provision, toolchain>>

\* The listener is closed and acceptLoop has returned; shutdownAll takes the
\* maps and closes every stopCh in them.
TakeAll ==
  /\ main = "serving" /\ shutdown
  /\ main' = "stopping"
  /\ awaited' = known /\ known' = {}
  /\ UNCHANGED <<shutdown, handler, answer, serviceVars, ppc, dep, provision, toolchain>>

Returned(e) == IF e \in Service THEN spc[e] = "returned" ELSE ppc[e] = "returned"

\* Variant: shutdownAll does not wait for the done channels.
AllStopped ==
  /\ main = "stopping"
  /\ main' = "draining"
  /\ UNCHANGED <<shutdown, handler, answer, known, awaited, serviceVars, ppc, dep, provision, toolchain>>

\* Every done channel is closed; the generated files are removed.
AllDone ==
  /\ main = "stopping" /\ \A e \in awaited : Returned(e)
  /\ main' = "draining"
  /\ UNCHANGED <<shutdown, handler, answer, known, awaited, serviceVars, ppc, dep, provision, toolchain>>

\* drainedCh, or the grace period for a handler that hangs.
Exit ==
  /\ main = "draining"
  /\ main' = "exited"
  /\ UNCHANGED <<shutdown, handler, answer, known, awaited, serviceVars, ppc, dep, provision, toolchain>>

------------------------------------------------------------------------------
(* bringupToolchain.                                                        *)

Installing(t) == toolchain[t] # {} /\ toolchain[t] \cap {"ready", "failed"} = {}

InstallDone(t) ==
  /\ Installing(t)
  /\ \E st \in {"ready", "failed"} :
       toolchain' = [toolchain EXCEPT ![t] = @ \cup ToolchainReach[st]]
  /\ UNCHANGED <<alphaVars, serviceVars, ppc, dep, provision>>

------------------------------------------------------------------------------
(* bringupAndSupervise.                                                     *)

PinRef(s) == [kind |-> "toolchain", of |-> Pin[s], at |-> "ready"]

\* Variant: the build does not wait for the toolchain.
PrepareAtOnce(s) ==
  /\ spc[s] = "toolchain"
  /\ ServiceAt(s, "lock") /\ ReachBuild(s, "running")
  /\ UNCHANGED <<alphaVars, ppc, dep, proc, readiness, runtime, provision, toolchain>>

\* The toolchain is there (or none is pinned): EventServiceStart, and the
\* build is running as far as its barriers tell.
StartPrepare(s) ==
  /\ spc[s] = "toolchain"
  /\ Pin[s] # NoEntity => Fired(PinRef(s))
  /\ ServiceAt(s, "lock") /\ ReachBuild(s, "running")
  /\ UNCHANGED <<alphaVars, ppc, dep, proc, readiness, runtime, provision, toolchain>>

\* Variant: marks a build that has succeeded as failed.
FailBoth(s) == ReachRuntime(s, "failed") /\ ReachBuild(s, "failure")

\* waitAfter's failure: failed, and the build too unless it is over.
FailWait(s) ==
  /\ ReachRuntime(s, "failed")
  /\ IF "success" \in build[s] THEN UNCHANGED build ELSE ReachBuild(s, "failure")

\* Variant: goes on when the entity it waits for has failed.
PassDecided(s) ==
  /\ spc[s] = "after" /\ ~Cleared(s)
  /\ Resolvable(NextRef(s)) /\ (Fired(NextRef(s)) \/ Broken(NextRef(s)))
  /\ dep' = [dep EXCEPT ![s] = @ + 1]
  /\ UNCHANGED <<alphaVars, serviceVars, ppc, provision, toolchain>>

\* waitAfter on one reference: its target fires.
PassAfter(s) ==
  /\ spc[s] = "after" /\ ~Cleared(s)
  /\ Resolvable(NextRef(s)) /\ Fired(NextRef(s))
  /\ dep' = [dep EXCEPT ![s] = @ + 1]
  /\ UNCHANGED <<alphaVars, serviceVars, ppc, provision, toolchain>>

\* Variant: the target is not paired with its terminal failure.
WaitCancelled(s) ==
  /\ shutdown
  /\ \/ spc[s] = "toolchain" /\ Pin[s] # NoEntity
     \/ spc[s] = "after" /\ ~Cleared(s) /\ Resolvable(NextRef(s))
  /\ ServiceAt(s, "returned") /\ FailWait(s)
  /\ UNCHANGED <<alphaVars, ppc, dep, proc, readiness, provision, toolchain>>

\* Its entity failed, or the alpha is stopping.  No shutdown is requested.
WaitFails(s) ==
  /\ \/ spc[s] = "toolchain" /\ Pin[s] # NoEntity /\ (shutdown \/ Broken(PinRef(s)))
     \/ /\ spc[s] = "after" /\ ~Cleared(s) /\ Resolvable(NextRef(s))
        /\ shutdown \/ Broken(NextRef(s))
  /\ ServiceAt(s, "returned") /\ FailWait(s)
  /\ UNCHANGED <<alphaVars, ppc, dep, proc, readiness, provision, toolchain>>

\* It names nothing that is registered.
WaitUnresolvable(s) ==
  /\ spc[s] = "after" /\ ~Cleared(s) /\ ~Resolvable(NextRef(s))
  /\ ServiceAt(s, "unwind") /\ FailWait(s)
  /\ UNCHANGED <<alphaVars, ppc, dep, proc, readiness, provision, toolchain>>

\* primaryLockFor: one checkout per primary at a time; no select, so a stop
\* does not interrupt the wait.
LockPrimary(s) ==
  /\ spc[s] = "lock"
  /\ \A o \in Service :
       spc[o] = "workspace" => Repo[o] = NoEntity \/ Repo[o] # Repo[s]
  /\ ServiceAt(s, "workspace")
  /\ UNCHANGED <<alphaVars, ppc, dep, proc, readiness, runtime, build, provision, toolchain>>

WorkspaceReady(s) ==
  /\ spc[s] = "workspace"
  /\ ServiceAt(s, "build")
  /\ UNCHANGED <<alphaVars, ppc, dep, proc, readiness, runtime, build, provision, toolchain>>

BuildReady(s) ==
  /\ spc[s] = "build"
  /\ ServiceAt(s, "gate") /\ ReachBuild(s, "success")
  /\ UNCHANGED <<alphaVars, ppc, dep, proc, readiness, runtime, provision, toolchain>>

\* prepareFail: git or the build failed, or prepCtx was cancelled under it.
PrepareFails(s) ==
  /\ spc[s] \in {"workspace", "build"}
  /\ ServiceAt(s, "unwind")
  /\ ReachBuild(s, "failure") /\ ReachRuntime(s, "failed")
  /\ SetReadiness(s, "failed")
  /\ UNCHANGED <<alphaVars, ppc, dep, proc, provision, toolchain>>

\* Variant: no gate.
NoGate(s) ==
  /\ spc[s] = "gate"
  /\ ServiceAt(s, "after")
  /\ UNCHANGED <<alphaVars, ppc, dep, proc, readiness, runtime, build, provision, toolchain>>

\* The shutdown gate between the build and the runtime.
Gate(s) ==
  /\ spc[s] = "gate"
  /\ IF shutdown
     THEN ServiceAt(s, "returned") /\ ReachRuntime(s, "failed")
     ELSE ServiceAt(s, "after") /\ UNCHANGED runtime
  /\ UNCHANGED <<alphaVars, ppc, dep, proc, readiness, build, provision, toolchain>>

\* bringupAndSuperviseStart gives up before the process exists: toolchain env,
\* command, cwd, lookup, tommy pipe, log filter, stdio or cmd.Start.
SpawnFails(s) ==
  /\ spc[s] = "after" /\ Cleared(s)
  /\ ServiceAt(s, "returned") /\ ReachRuntime(s, "failed")
  /\ UNCHANGED <<alphaVars, ppc, dep, proc, readiness, build, provision, toolchain>>

Spawn(s) ==
  /\ spc[s] = "after" /\ Cleared(s)
  /\ ServiceAt(s, "probing") /\ ReachRuntime(s, "running")
  /\ proc' = [proc EXCEPT ![s] = "alive"]
  /\ SetReadiness(s, "probing")
  /\ UNCHANGED <<alphaVars, ppc, dep, build, provision, toolchain>>

\* The probe and cmd.Wait race; the select takes either result.
ProbePasses(s) ==
  /\ spc[s] = "probing"
  /\ ServiceAt(s, "up") /\ ReachRuntime(s, "ready")
  /\ SetReadiness(s, "ready")
  /\ UNCHANGED <<alphaVars, ppc, dep, proc, build, provision, toolchain>>

\* Variant: the failure is announced before the process has been reaped.
ProbeFailsEarly(s) ==
  /\ spc[s] = "probing"
  /\ ServiceAt(s, "reap") /\ ReachRuntime(s, "failed")
  /\ SetReadiness(s, "failed")
  /\ UNCHANGED <<alphaVars, ppc, dep, proc, build, provision, toolchain>>

\* A shutdown cancels probeCtx; the failure is then not reported.
ProbeFails(s) ==
  /\ spc[s] = "probing"
  /\ ServiceAt(s, "reap")
  /\ SetReadiness(s, "failed") \/ (shutdown /\ UNCHANGED readiness)
  /\ UNCHANGED <<alphaVars, ppc, dep, proc, runtime, build, provision, toolchain>>

ExitsEarly(s) ==
  /\ spc[s] = "probing" /\ proc[s] = "dead"
  /\ ServiceAt(s, "unwind") /\ ReachRuntime(s, "failed")
  /\ SetReadiness(s, "failed")
  /\ UNCHANGED <<alphaVars, ppc, dep, proc, build, provision, toolchain>>

StopUp(s) ==
  /\ spc[s] = "up" /\ shutdown
  /\ ServiceAt(s, "kill")
  /\ UNCHANGED <<alphaVars, ppc, dep, proc, readiness, runtime, build, provision, toolchain>>

\* cmd.Wait has returned: after SIGTERM and SIGKILL of a failed probe or of a
\* stop, or by the process's own doing once it was up.
Reap(s) ==
  /\ proc[s] = "dead"
  /\ \/ spc[s] = "reap" /\ ServiceAt(s, "unwind") /\ ReachRuntime(s, "failed")
     \/ spc[s] = "kill" /\ ServiceAt(s, "returned") /\ ReachRuntime(s, "stopped")
     \/ spc[s] = "up" /\ ServiceAt(s, "unwind") /\ ReachRuntime(s, "stopped")
  /\ UNCHANGED <<alphaVars, ppc, dep, proc, readiness, build, provision, toolchain>>

\* Variant: the failure is left to handleConfigure's final reckoning.
UnwindOnly(s) ==
  /\ spc[s] = "unwind"
  /\ ServiceAt(s, "returned")
  /\ UNCHANGED <<alphaVars, ppc, dep, proc, readiness, runtime, build, provision, toolchain>>

\* failfast: requestShutdown; the deferred close(sc.done).
Unwind(s) ==
  /\ spc[s] = "unwind"
  /\ shutdown' = (shutdown \/ Failfast)
  /\ ServiceAt(s, "returned")
  /\ UNCHANGED <<main, handler, answer, known, awaited, ppc, dep, proc, readiness, runtime, build, provision, toolchain>>

\* The process ends: of itself, or killed.
ProcExit(s) ==
  /\ proc[s] = "alive"
  /\ proc' = [proc EXCEPT ![s] = "dead"]
  /\ UNCHANGED <<alphaVars, spc, ppc, dep, readiness, runtime, build, provision, toolchain>>

------------------------------------------------------------------------------
(* runProvision.                                                            *)

FailProvision(p, pc) == ProvisionAt(p, pc) /\ ReachProvision(p, "failure")

\* The snippets come from the template's registration, if there is one.
ReadTemplate(p) ==
  /\ ppc[p] = "template"
  /\ IF Template[p] \in known \cup {p}
     THEN ProvisionAt(p, "after") /\ ReachProvision(p, "scheduled")
     ELSE FailProvision(p, "unwind")
  /\ UNCHANGED <<alphaVars, serviceVars, dep, toolchain>>

ProvisionPassAfter(p) ==
  /\ ppc[p] = "after" /\ ~Cleared(p)
  /\ Resolvable(NextRef(p)) /\ Fired(NextRef(p))
  /\ dep' = [dep EXCEPT ![p] = @ + 1]
  /\ UNCHANGED <<alphaVars, serviceVars, ppc, provision, toolchain>>

\* None of the ways a provision's wait fails requests a shutdown.
ProvisionWaitFails(p) ==
  /\ ppc[p] = "after" /\ ~Cleared(p)
  /\ Resolvable(NextRef(p)) => shutdown \/ Broken(NextRef(p))
  /\ FailProvision(p, "returned")
  /\ UNCHANGED <<alphaVars, serviceVars, dep, toolchain>>

Run(p) ==
  /\ ppc[p] = "after" /\ Cleared(p)
  /\ ProvisionAt(p, "toolchain") /\ ReachProvision(p, "running")
  /\ UNCHANGED <<alphaVars, serviceVars, dep, toolchain>>

\* toolchainEnv: the owner's toolchain; then the check snippet, if there is
\* one, or the cmd snippet.
EnvReady(p) == Pin[Owner[p]] # NoEntity => Fired(PinRef(Owner[p]))

EnterShell(p) ==
  /\ ppc[p] = "toolchain" /\ EnvReady(p)
  /\ \E pc \in {"check", "cmd"} : ProvisionAt(p, pc)
  /\ UNCHANGED <<alphaVars, serviceVars, dep, provision, toolchain>>

\* The toolchain failed, the alpha is stopping, or the cwd is missing.
EnvFails(p) ==
  /\ ppc[p] = "toolchain"
  /\ ~EnvReady(p) => shutdown \/ Broken(PinRef(Owner[p]))
  /\ FailProvision(p, "unwind")
  /\ UNCHANGED <<alphaVars, serviceVars, dep, toolchain>>

\* check exited 0, cmd exited 0 with nothing to verify, or verify ended.
ShellSucceeds(p) ==
  /\ ppc[p] \in {"check", "cmd", "verify"}
  /\ ProvisionAt(p, "returned") /\ ReachProvision(p, "success")
  /\ UNCHANGED <<alphaVars, serviceVars, dep, toolchain>>

Verify(p) ==
  /\ ppc[p] = "cmd" /\ ProvisionAt(p, "verify")
  /\ UNCHANGED <<alphaVars, serviceVars, dep, provision, toolchain>>

\* A check that failed, or was cancelled, is followed by cmd all the same.
CheckFails(p) ==
  /\ ppc[p] = "check" /\ ProvisionAt(p, "cmd")
  /\ UNCHANGED <<alphaVars, serviceVars, dep, provision, toolchain>>

CmdFails(p) ==
  /\ ppc[p] = "cmd" /\ FailProvision(p, "unwind")
  /\ UNCHANGED <<alphaVars, serviceVars, dep, toolchain>>

ProvisionUnwind(p) ==
  /\ ppc[p] = "unwind"
  /\ shutdown' = (shutdown \/ (Failfast /\ p \notin Detached))
  /\ ProvisionAt(p, "returned")
  /\ UNCHANGED <<main, handler, answer, known, awaited, serviceVars, dep, provision, toolchain>>

------------------------------------------------------------------------------
Configure ==
  \/ Setup \/ SetupFails \/ \E e \in Entity : Allocate(e)
  \/ Launch \/ ServicesDecided \/ Refuse \/ Commit \/ Abandon

Shutdown == TakeAll \/ AllDone \/ Exit

Compose ==
  \/ \E s \in Service : ComposeRuntime(s) \/ ComposeBuild(s)
  \/ \E p \in Provision : ComposeProvision(p)
  \/ \E t \in Toolchain : ComposeToolchain(t)

Supervise(s) ==
  \/ StartPrepare(s) \/ PassAfter(s) \/ WaitFails(s) \/ WaitUnresolvable(s)
  \/ LockPrimary(s) \/ WorkspaceReady(s) \/ BuildReady(s) \/ PrepareFails(s)
  \/ Gate(s) \/ SpawnFails(s) \/ Spawn(s)
  \/ ProbePasses(s) \/ ProbeFails(s) \/ ExitsEarly(s)
  \/ StopUp(s) \/ Reap(s) \/ Unwind(s)

RunProvision(p) ==
  \/ ReadTemplate(p) \/ ProvisionPassAfter(p) \/ ProvisionWaitFails(p)
  \/ Run(p) \/ EnterShell(p) \/ EnvFails(p) \/ ShellSucceeds(p)
  \/ Verify(p) \/ CheckFails(p) \/ CmdFails(p) \/ ProvisionUnwind(p)

\* Once alpha has exited only what it left behind can still move.
Next ==
  \/ /\ main # "exited"
     /\ \/ Connect \/ Koniec
        \/ Configure \/ Shutdown \/ Compose
        \/ \E s \in Service : Supervise(s)
        \/ \E p \in Provision : RunProvision(p)
        \/ \E t \in Toolchain : InstallDone(t)
  \/ \E s \in Service : ProcExit(s)
  \/ main = "exited" /\ UNCHANGED vars

Spec == Init /\ [][Next]_vars

------------------------------------------------------------------------------
(* Fairness.  A goroutine that can take a step takes one, and a group that  *)
(* was sent SIGKILL dies.  Nothing external is assumed to end: builds, git, *)
(* probes, installs and snippets may run for ever while nobody cancels      *)
(* them; once the alpha is stopping they are killed, which is a step.       *)

SuperviseStep(s) ==
  \/ StartPrepare(s) \/ PassAfter(s) \/ WaitFails(s) \/ WaitUnresolvable(s)
  \/ LockPrimary(s) \/ Gate(s) \/ SpawnFails(s) \/ Spawn(s)
  \/ ExitsEarly(s) \/ StopUp(s) \/ Reap(s) \/ Unwind(s)
  \/ /\ shutdown
     /\ \/ WorkspaceReady(s) \/ BuildReady(s) \/ PrepareFails(s)
        \/ ProbePasses(s) \/ ProbeFails(s)

ProvisionStep(p) ==
  \/ ReadTemplate(p) \/ ProvisionPassAfter(p) \/ ProvisionWaitFails(p)
  \/ Run(p) \/ EnterShell(p) \/ EnvFails(p) \/ ProvisionUnwind(p)
  \/ /\ shutdown
     /\ ShellSucceeds(p) \/ Verify(p) \/ CheckFails(p) \/ CmdFails(p)

Killed(s) == spc[s] \in {"reap", "kill"} /\ ProcExit(s)

\* What alpha does not wait for stops with it.
Alive(A) == main # "exited" /\ A

Fairness ==
  /\ WF_vars(Alive(Configure)) /\ WF_vars(Alive(Shutdown))
  /\ \A s \in Service :
       /\ WF_vars(Alive(SuperviseStep(s))) /\ WF_vars(Killed(s))
       /\ WF_vars(Alive(ComposeRuntime(s))) /\ WF_vars(Alive(ComposeBuild(s)))
  /\ \A p \in Provision :
       WF_vars(Alive(ProvisionStep(p))) /\ WF_vars(Alive(ComposeProvision(p)))
  /\ \A t \in Toolchain : WF_vars(Alive(ComposeToolchain(t)))

FairSpec == Spec /\ Fairness

------------------------------------------------------------------------------
(* Safety.                                                                  *)

\* Nothing is both a success and a failure to those who wait for it: a ready
\* service's barrier "failed" never fires, though Reach is called from many
\* places and "stopped" drags "ready" with it (lifecycle.Reach).
SingleOutcome ==
  /\ \A s \in Service :
       /\ ~({"ready", "failed"} \subseteq runtime[s])
       /\ ~({"success", "failure"} \subseteq build[s])
  /\ \A p \in Provision : ~({"success", "failure"} \subseteq provision[p])

\* EventDone is a commit: under failfast every service has been ready and
\* every provision that is neither detached nor latent has succeeded.
CommitSound == answer = "done" /\ Failfast => AllReady /\ AllProvisioned

\* shutdownAll waits for the goroutines it found, and a goroutine it did not
\* find (its service was registered too late) is stopped by the gate: once
\* alpha has exited none of its service processes is alive, and a goroutine
\* that has returned has reaped its process.
NoServiceSurvivesExit ==
  \A s \in Service :
    main = "exited" \/ spc[s] = "returned" => proc[s] # "alive"

\* A process starts only under its toolchain, after its own build, and after
\* every barrier its runtime.after names.
DepsBeforeProcess ==
  \A s \in Service :
    proc[s] # "none" =>
      /\ "success" \in build[s]
      /\ Pin[s] # NoEntity => "ready" \in toolchain[Pin[s]]
      /\ \A i \in 1 .. Len(After[s]) : Fired(After[s][i])

BeforeGate == {"unborn", "toolchain", "lock", "workspace", "build", "gate"}

\* The gate: a service that has not reached it when the alpha starts to stop
\* never gets a process, however long its build goes on.
NoSpawnPastGate ==
  \A s \in Service :
    [](shutdown /\ spc[s] \in BeforeGate => [](proc[s] = "none"))

------------------------------------------------------------------------------
(* Liveness.                                                                *)

\* A stop completes: whatever is being built, probed, installed or run.
ShutdownCompletes == shutdown ~> main = "exited"

\* Under failfast a service that could not be built, failed its probe or
\* exited takes the alpha down, though its peers' builds go on.
FailfastBringsDown ==
  Failfast => ((\E s \in Service : spc[s] = "unwind") ~> main = "exited")

\* External work the configure is waiting for.
Working ==
  {s \in Service : spc[s] \in {"workspace", "build", "probing", "reap"}} \cup
  {t \in Toolchain : Installing(t)} \cup
  {p \in Required : ppc[p] \in {"check", "cmd", "verify"}}

\* Nobody waits for ever on a barrier that cannot fire: if the external work
\* comes to an end, so does the configure.
ConfigureAnswered ==
  <>[](Working = {}) =>
    (handler = "setup" ~> handler = "closed" \/ main = "exited")

------------------------------------------------------------------------------
\* A service's outcome as those who wait for it see it.
outcome ==
  [s \in Service |-> IF "ready" \in runtime[s] THEN "ready"
                     ELSE IF "failed" \in runtime[s] THEN "failed" ELSE "pending"]

Promise == INSTANCE Supervisor WITH process <- proc, gone <- (main = "exited")

\* The goroutines, the barriers and the ordered shutdown implement the promise.
KeepsPromise == Promise!Spec

------------------------------------------------------------------------------
(* What the repository says and the code does not do.                       *)

\* docs/dynamic-config.md on self.runtime.running: "the service's cmd process
\* has been spawned".  Reach("failed") fires it too.
RunningMeansSpawned ==
  \A s \in Service : "running" \in runtime[s] => proc[s] # "none"

\* internal/protocol on an empty readiness: "its process has not been spawned
\* yet, because alpha is still materializing toolchains or building".
UnreportedMeansPending ==
  \A s \in Service : readiness[s] = "" /\ ~shutdown => spc[s] # "returned"

\* shutdownAll on provisions: "detached or not, they need a clean shutdown
\* path when alpha is going away".
NoShellSurvivesExit ==
  \A p \in Provision : main = "exited" => ppc[p] \notin {"check", "cmd", "verify"}
==============================================================================
