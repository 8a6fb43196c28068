# A verification project for zordon

TLA+ models of zordon, a local-development orchestrator, with TLC runs on small
instances and TLAPS proofs for every instance. All paths are relative to `src/`.

## The system

`zordon start` reads an Alphasfile (HCL), evaluates it, and for each level of a
federation chain makes sure one background process, **alpha**, runs the
services declared there. zordon pushes a *configure* over alpha's Unix socket,
streams the bringup's log and leaves when it is answered; alpha stays. Every
service process runs under **tommy**, which ends the service's process group
when alpha dies without having done so.

| Component | Source | State it keeps | Operations | What makes it correct |
|---|---|---|---|---|
| alpha: bringup and supervision | `cmd/alpha/main.go` | maps of services and provisions, readiness, one-shot barriers per entity, `shutdownCh` | configure, and per entity a goroutine: `bringupAndSupervise`, `runProvision`, `bringupToolchain` | every entity is decided once; a process starts only after what it depends on; a commit is sound; failfast brings the stack down |
| alpha: boot and ordered shutdown | `cmd/alpha/main.go` | the maps taken, connections in flight | `requestShutdown`, `shutdownAll`, `drainedCh` | no process survives; it always completes |
| alpha: invoke and clean | `cmd/alpha/main.go` | on-demand provisions, cleanup order | `handleInvoke`, `handleClean` | one run per target; clean only with the stack down |
| lifecycles and barriers | `internal/lifecycle`, `internal/barrier`, `internal/alphasfile/lifecycle.go` | a barrier (closed channel) per state of a DAG | `Reach`, `Barrier`, `Any` | a state and all its predecessors fire; nothing unfires |
| daemon lifelines, parent watching | `internal/daemon`, `internal/parentwatch` | `tripped`, `stopped`, `done`, the parent's pipe | `arm`, `Release`, `Stop`, `run` | a death before the commit ends alpha; a clean exit after it does not |
| tommy | `cmd/tommy` | its child's process group | spawn, forward, reap | the group does not outlive alpha |
| registry | `internal/registry` | a flocked JSON file of process groups | `Register`, `Remove`, `ReapByFsHash` | orphans of a dead alpha are reaped, strangers are not |
| locks | `internal/zlock` | `alpha.lock`, `zordon.lock` | `TryLock…`, `Unlock` | one alpha per workspace, one chain at a time |
| control socket, protocol | `internal/control`, `internal/protocol` | one socket per workspace | listen, dial, request, events | one request per connection, one final event |
| zordon: start, stop, clean, federation | `cmd/zordon/federation.go`, `federationstate.go`, `main.go` | none; locks and running alphas | `resolveLevel`, `reconcileAlpha`, `waitAlphaGone`, `spawnAlpha`, `pushConfigure` | an alpha is replaced only when it is gone; a reused level is what it was resolved to |
| zordon: status, summaries, init, doctor | `cmd/zordon`, `internal/summary` | none | rendering, critical path | output |
| readiness probes | `internal/probe` | runs of successes and failures | `Wait`, and one attempt by HTTP, TCP or a command | thresholds count in a row; a cancel ends it |
| sources and worktrees | `internal/source` | the bare clone, checkouts, worktrees, sentinels | `Ensure`, `Clone`, `AddWorktree` | what is reused is whole; an interrupted one is redone; nobody's work is thrown away |
| toolchain installation | `internal/tools` | one store for all alphas, file locks by name | `bringupToolchain`, installs by mise, npm, cargo, corepack | one installer per directory; ready means the pin is there |
| Alphasfile: graph, evaluation | `internal/alphasfile/dag.go`, `eval.go`, … | the level being computed | `Plan`, `topoSort`, `Compute` | nothing is read before it is final; cycles, and nothing else, are reported as such |
| Alphasfile: packages, visibility | `internal/alphasfile/package.go`, `tree.go`, … | instances, links, rules | `load`, `applyRulesToLoaded`, `resolvePackages`, `packageToolchains` | loading ends; what was decided package by package agrees with the finished stack |
| Alphasfile: pins, workspaces | `internal/alphasfile/resolve.go`, `pin.go`, … | `zordon.lock`, two halves with two writers | load, update, `PinSources` | an unchanged selector keeps its pin; the file says what was read |
| log filter, ring, env, merges | `internal/logfilter`, `ring`, `zenv`, `ztypes` | small values | pure | match their definitions |
| MCP server, docs, hooks, test harness | `internal/mcpserver`, `zdoc`, `claude/`, `internal/zordontest` | none | adapters | input and output |

`PROJECT.json` lists the same components with their status.

**How they interact.** zordon and alpha share the socket, two lock files and
the pipe zordon keeps open until it exits (its EOF is zordon's death). Inside
alpha, goroutines share barriers (read by `select`), `shutdownCh`, and the maps
behind a mutex in which references are resolved. alpha and tommy share a pipe;
successive alphas share the registry file.

**What is hard.** A dependency's target, its failure, the stop of the waiter
and the stop of alpha may all be ready in one `select`. A configure registers
entities while `shutdownAll` takes the maps. A stop has to reach work nobody
selects on. A probe's last answer races with the process's exit. zordon may die
or leave at any point of the commit. A group is ended through its leader, while
signals, exits and deaths of its members cross. Several processes rewrite one
lock file, fill one toolchain store and check out one repository. The rest, each at its line, is in
`PROJECT.json` under `hazards`.

## Modules

| Module | What it is |
|---|---|
| `Lifecycle` | the four state DAGs and what `Reach` fires: the least predecessor-closed set holding the state |
| `Supervisor` | abstract: what alpha promises about a stack, with no goroutine, barrier or channel in it |
| `Bringup` | one alpha from its first configure to its exit |
| `MCBringup` | the small stacks TLC checks `Bringup` on |
| `BringupProofs` | theorems about `Bringup` |
| `Lifeline` | alpha bound to zordon until it commits |
| `LifelineProofs` | theorems about `Lifeline` and `Groups` |
| `Federation` | commands, alphas, locks, sockets and registry rows of a host, over crashes |
| `MCFederation` | the small hosts TLC checks `Federation` on |
| `FederationProofs` | theorems about `Federation` |
| `Groups` | one command in its process group: alpha's goroutine, the probe, tommy, the next alpha's reaper |
| `Tree` | an entrypoint and its packages made into one stack |
| `MCTree` | the entrypoints and packages TLC checks `Tree` on |
| `MCEnds` | `Tree` and `Groups` side by side, one per behaviour, with the fairness of both |
| `Requests` | a configured alpha's further requests: configure, invoke, clean |
| `RequestsProofs` | theorems about `Requests` |
| `Pins` | `zordon.lock` under concurrent loads and pinnings |
| `PinsProofs` | theorems about `Pins` |
| `Sources` | clones and worktrees of one repository under kills |
| `SourcesProofs` | theorems about `Sources` |
| `Toolchains` | the installs of several alphas into one store |
| `ToolchainsProofs` | theorems about `Toolchains` |
| `Evaluation` | one level's manifest made into services |
| `Levels` | a chain of levels: what is handed down, reused, picked, pulled, looked at |
| `AlphasfileProofs` | theorems about `Tree`, `Evaluation` and `Levels` |
| `MCParts` | these six components side by side, one per behaviour, with their instances |

`Bringup` and `Lifeline` look inside one alpha; `Federation` takes their results
as its steps: services are one group that comes up or not and is reaped by
the shutdown (`NoServiceSurvivesExit`), and an uncommitted alpha whose zordon is
gone is told to stop (`DeathEndsDaemon`). `Groups` is what `Bringup`'s `proc` and
`Federation`'s `group` stand for: there a group lives or is gone, here its members
are apart. `Requests` cuts a service's bringup down to what the shared maps see of
it. `Levels` takes the replacement of an alpha from `Federation`, one level's
evaluation from `Evaluation` and the lock's contents from `Pins`, each as one step.
`MCParts` and `MCEnds` compose nothing: they run components that share no
state in one TLC run, each behaviour keeping to one of them. Their actions are named
after the module (`PinsInit`, `GroupNext`) where a composing module extends several.

### Bringup

The constants are the Alphasfile after evaluation: services, provisions,
toolchains, each entity's `after` references, checkouts, pins, templates. The
named assumption `ConfigAssumption` only types them; a reference to nothing
(`NoEntity`) is included.

| Model | Code |
|---|---|
| `runtime`, `build`, `provision`, `toolchain` | the barriers an entity's lifecycle instance has fired; `"done"` is the composed `Any` barrier, fired by a goroutine of its own (`Compose…`) |
| `spc`, `ppc` | where the goroutine of a service or provision is; one value per point where it blocks or may fail |
| `dep` | how many references `waitAfter` has passed |
| `proc` | the service's process group; `ProcExit` is its end, of itself or by SIGKILL |
| `known`, `awaited` | `state.services`/`provisions`, and what `shutdownAll` took from them |
| `handler`, `answer` | `handleConfigure` and the terminal event it wrote |
| `main`, `shutdown` | `serveAlpha`, and whether `shutdownCh` is closed |
| `Connect` … `Abandon` | `handleConfigure`: set up, `Allocate` entity by entity, `Launch`, wait for services, then provisions, `Commit`, `Refuse`, or leave at a shutdown |
| `StartPrepare` … `Unwind` | `bringupAndSupervise`: toolchain, primary's lock, workspace, build, the shutdown gate, `waitAfter`, spawn, probe, supervision, reaping, failfast |
| `ReadTemplate` … `ProvisionUnwind` | `runProvision`: template, `waitAfter`, toolchain environment, check, command, verification |
| `Koniec`, `TakeAll`, `AllDone`, `Exit` | `serveAlpha`'s end |

Choices of a `select` are disjuncts; every outcome ready is allowed.
`Fairness` makes each goroutine take a step it can take and a killed group die.
It does not make external work end: a build, a checkout, an install, a probe or
a snippet may last for ever. Once alpha is stopping their contexts are
cancelled, and only then is their end a fair step. This is what Go's scheduler,
`exec.CommandContext` and SIGKILL provide. `ConfigureAnswered` therefore says: *if*
the external work ends, the configure ends.

Simplifications, each on the generous side unless said otherwise: `Reach`
fires its states in one step; `Exit` may follow `shutdownAll` at once, which
covers both the drain and its grace period; a service's `stopCh` is closed only
by the shutdown, hence not a variable; one configure (the next ones are in
`Requests`); a probe that is cancelled ends, which an exec probe may not
(`Groups`, finding 18). A killed snippet or build step does let go: its `Wait` runs
in a goroutine of its own and closes alpha's ends of the output pipes. What a process
is started *with* (commands, environment) is left out.

### Lifeline

The goroutines of `Lifeline.arm` (pipe forwarder, getppid ticker),
`Watcher.run`, the one execution of `stop` in the order flag, close, join,
`handleConfigure`'s `Release` then `EventDone`, and `serveAlpha`'s `select` down
to `Run`'s deferred stop. The owner (zordon) may die at any time and may leave
only once answered; signals come at any time. It has no constants: both
initial states, with and without the pipe, are explored in full. Fairness is
that of goroutines; the handler's work (`Release`) and the service of alpha may
last for ever.

### Federation

| Model | Code |
|---|---|
| `zpc`, `level` | where `runStart` or `runClean` is, and the level of its loop |
| `zlock`, `alock` | the flocks `zordon.lock` and `alpha.lock` of a workspace; they go with their process |
| `sock` | the alpha listening on `alpha.sock`; a request reaches whoever listens when it is sent |
| `row` | the registry's row for the workspace |
| `apc`, `koniec` | where `serveAlpha` is; that its context is cancelled or `shutdownCh` closed |
| `conf`, `work` | `state.cfgHash`; how far the configure (or clean) it was sent has come |
| `prey` | what `ReapByFsHash` dropped from the file and has not yet killed |
| `group` | the services' process group |
| `lost` | history: groups that no row leads to when their alpha, or their reaper, was killed |
| `TakeLock` … `Leave` | `TryLockZordon`, `resolveLevel` (`Adopt`, `Recompute`), `reconcileAlpha` (`StopOld`, `waitAlphaGone` in two steps, `SpawnAlpha`, `Ready`, `Push`, `Answered`), `cleanLeaf` |
| `Fail`, `ReadyTimeout` | every error, timeout, ^C and SIGKILL of a command; the one timeout that kills its alpha |
| `LockAlpha` … `Exit` | `serveAlpha` from `LockAlpha` to its return |
| `Koniec` | `zordon stop`, a signal, failfast, the lifeline |
| `Crash`, `TommyReaps` | SIGKILL of an alpha; tommy's lifeline |

A config hash is a model value per command and workspace: `Want[z][w]`. Two
commands disagree on it when an Alphasfile was edited between them. Left out: an
alpha without `--state-dir` (no lock, the fallback on the old pid), reuse of
process ids, a registry file that cannot be read (a row that cannot be written is
in), the second configure of an alpha by hand. `Fairness` lets alphas and tommies
run and lifelines fire, and asks nothing of the commands or the services.

### Groups

| Model | Code |
|---|---|
| `alpha` | where the goroutine is that started the command: `start`, `register`, the probe's `race`, `up`, after SIGTERM (`term`), after SIGKILL (`kill`), `over` |
| `kind` | a service (row, probe, perhaps tommy), a provision's snippet (`runShell`) or a build step (`newPrepareRunner`); their stop is the same code three times |
| `probe` | `Probe.Wait`'s counters and where it is; `stuck` is `CombinedOutput` waiting for an output that stays open |
| `stopped` | `stopCh`, `shutdownCh` or the context: whatever stops this command |
| `tommy`, `told` | tommy from exec to exit; that it caught a signal |
| `service`, `helper` | the command and a process it forked, both in the group |
| `row`, `heir` | the registry's row, and the next alpha's `ReapByFsHash`, which drops the row before it signals |

A process may end at any time; only SIGKILL makes it. Graces and periods are
timers that may expire at any time. The detectors of tommy's lifeline are
`Lifeline`'s and are one guard here (`ContextOver`). Fairness: alpha's goroutine, the
probe's and tommy run and their timers expire. Nothing is asked of the service,
its helper, a stuck attempt, the next alpha or whoever kills.

### Tree

`load`, `follow` and `applyRulesToLoaded` are recursive: `calls` is their stack, and
a Go stack that overflows is the state `exhausted` (`StackLimit`). `FollowBound`,
`FollowLoaded`, `FollowNew`, `ApplyToLink` are the ways an import is followed under
its rules; `ResolveEntry`, `ResolveIdle`, `ResolveImported` a package settled by
`resolvePackages`, in any order its condition allows, a superset of the code's; then `Satisfy`, `checkRequired`, `AdoptToolchain`,
`checkGated` and `checkVisibility`. `applyRulesToLoaded` visits the links of a package one
by one (`LinksLeft`). Values of inputs are left out: who passes one
is what counts. Fairness: the one goroutine that loads takes its next step.

### Requests

`conf[h]` is a connection's handler; `Accept`, `Diff`, `StopServices`, `Store`,
`Materialize`, `Register`, `Spawn`, `Commit`/`Refuse`/`Abandon` are `handleConfigure`
from its diff on; `Invoke` and `Teardown` the other two. `ctxs` are the contexts
the handlers make, `services` and `provisions` the maps that lead to them, and
`readiness` what the status says. `unserialized` is history: two configures met, or a
clean came to a configured alpha. zordon's own lock keeps that from happening;
alpha does not refuse it, and none of the module's invariants survives it. The
constraint `Serialized` ends such behaviours.

### Pins

`proc[z]` is a load (`LoadTreeWith`) or a `PinSources` of one zordon process with the
file it read at its start; every import is one of `ResolveLocked`,
`ResolveFetched`, a search of local checkouts, an error. The file is written once,
at the end, under the pins lock; kills and moving branches come at any time.

### Sources

`job[w]` is the git command about to run for workspace `w`; after each of them the
process may be killed. `tree[w]` and `registered[w]` are what stands at the checkout
and what the bare clone records of it; people edit, switch, put plain files there
or check the branch out elsewhere (`MaxActs`).

### Toolchains

`Configure` makes contexts of pins and packages; each runs `FindMise`, takes the
lock of its name, installs its runtime through a child process (`InstallRuntime`) and goes
on with its tools one by one (`EnsureTool`), then, for Node, with Corepack and its shims.
A tool is asked for at a version, and `Overwritten` is what its install takes away: gem
keeps versions side by side, npm, pip, cargo and go put one in the place of another. A pin
may be fuzzy: `Newest` says which release mise takes for it, `Dir` and `CorepackOf` go by
that release, the lock by the pin. An alpha may end while a child works (`ended`): its
locks go, the child does not.

Two exceptions appear in the properties, because the code has them: `NamedOnce` (a
directory that the Alphasfiles of the host know by one name, hence by one lock) and
`Rivalled` (a tool of which they ask for two versions where there is room for one).
`OneInstallerEach` and `ToolsStay` are the properties without them: findings 22 and 23.

### Evaluation

`Merge` (parts of a unit), `Plan` (`prepareServices`, `newGraph`), `Sort`/`Sorted`
(`topoSort`, step by step), `Evaluate` one producer after the other,
`FinishService` and `Assemble`. A reference is the producer it leads to and how it is
written, since the graph sees some forms and not others. `unseen` records what an
evaluation met that was not final yet. Every action reads the manifest `given`, one
of `Entries`.

### Levels

A command reads every Alphasfile first (`Read`), then walks the chain: `Lock`, `Pull`,
`HashLevel` (the lock file is read before the alpha is asked), `Reuse` or `ResolveLevel`, `PinLevel`, `StopOld`, `ConfigureAlpha`; a clean and the commands that look
take their own paths (`CleanLeaf`, `Look`). Alphasfiles are edited (`Edit`) and alphas go
away (`AlphaGone`) meanwhile. Facts
are a level's services (with ports drawn anew at each evaluation) and the rest.

## Runs

| Run | Instance | Result |
|---|---|---|
| `bringup_chain` | failfast; `db`, `api` sharing one checkout; a provision between them; 107,791 states | passes |
| `bringup_template` | no failfast; a pinned toolchain; a latent template, a provision running it, a detached provision; 150,211 states | passes |
| `late_configure` | one service, one detached provision | counterexample, see Findings |
| `lifeline` | complete; 6,457 states | passes |
| `lifeline_clean_exit` | the same | counterexample, see Findings |
| `federation_takeover` | one workspace, two starts and a clean, three alphas, one crash; 5,619,876 states | passes |
| `federation_chain` | a parent and two projects, three starts, the parent edited after the first, two alphas for it; 6,211,890 states | passes |
| `federation_left_behind` | one workspace, two starts and a clean, two alphas, one crash; 490,740 states | passes |
| `ends` | 12 entrypoints over four packages, of which three have 3 to 5 manifests each; and one command of each kind, both thresholds 2; 27,441 states | passes |
| `parts` | the six parts of `MCParts`; 1,365,125 states | passes |
| `pins_update` | `Pins` within `MCParts` | counterexample, see Findings |
| `reconfigure` | `Requests` within `MCParts` | counterexample, see Findings |

* `bringup_chain` — **SingleOutcome**: no waiter sees both success and failure;
  **CommitSound**: `EventDone` under failfast means all ready and provisioned;
  **NoServiceSurvivesExit**; **DepsBeforeProcess**; **NoSpawnPastGate**: what has
  not passed the gate at the stop never gets a process; **KeepsPromise**: the
  module implements `Supervisor` under the mapping `outcome`, `proc`, `answer`,
  `main = "exited"`; **FailfastBringsDown**.
* `bringup_template` — **DepsBeforeProcess** with toolchains,
  **ShutdownCompletes**, **ConfigureAnswered**.
* `lifeline` — **NoFalseEOF**: the pipe leg reports a death only of an owner that
  died unanswered; **StopSettles**: no verdict after `Stop` returned;
  **DeathIsNamed**: a context cancelled by a death is not logged as a signal;
  **DeathEndsDaemon**: such a death ends the daemon and no stop hangs in its join.

* `federation_takeover` — **NoTwoGenerations**: while an alpha serves, no other
  one's services are alive in its workspace, unless nothing leads to them (without
  tommy these stay for ever; that is the code's acknowledged residue).
  **ReachesItsOwn**: a configure goes to the alpha its command spawned. It holds
  although an alpha orphaned while booting competes for `alpha.lock`: the exception
  in it, the command's own alpha killed or stopped in between, is reachable.
* `federation_chain` — **ParentsKept**: whoever receives a start's `OpShutdown` at a
  parent really has another hash, though the request is addressed to a socket
  and not to the alpha whose state was read. This is `zordon.lock`'s doing.
* `federation_left_behind` — **NothingLeftBehind**.
* `ends`, loading — **TreeLoadEnds**: every load ends; **ExhaustedOnlyByCycles**: by a
  full stack only where packages import each other; **FeaturesExact**,
  **StackAgrees**: features and membership, decided package by package, are those the
  finished stack implies (the second with the exception of finding 21);
  **ToolchainSetOnce**: an adopted toolchain is not taken back.
* `ends`, groups — **LeaderSpeaks**: what alpha reports as over is over;
  **DeadAlphaReaped**: after alpha's SIGKILL tommy ends the service, and no next alpha is
  needed; **StopEnds**: a stop ends the command wherever its bringup was, whatever it
  does with SIGTERM, but for a probe stuck for ever.
* `parts`, requests — **LiveIsRegistered**: what runs is in the maps or told to stop;
  **StatusStands**: no configure makes the status say less of a service that is up;
  **StopIsNoFailure**: no service a reconfigure stops brings alpha down as a failed
  one: a configure that answers has settled all it started. All three for requests one
  after the other; overlapping configures break them, see `unserialized`.
* `parts`, pins — **PinsKept**: a pin moves only under a process asked to move it and
  goes only under a load that read nothing through it; **FileSaysWhatWasRead**.
* `parts`, sources — **ReusedCloneIsWhole**, **WorkRespected**.
* `parts`, toolchains — **OneInstaller** per directory while alphas stay and know it by
  one name; **NothingRewritten** that is in use, but for rival versions of a tool;
  **ReadyHasItsPins**: its runtime, its tools at their versions (but for rivals) and, for
  Node, a whole Corepack, though another key's context may have installed them. The plans
  include the exceptions: two versions of one go tool, a ruby pin with two versions side by
  side, `22` beside `22.11.0`, a package `node`, a package called as the pin `go`.
* `parts`, evaluation — **Ordered**: a value named is final when read, and `Plan` reports
  a cycle exactly when there is one, or a producer is declared twice; **OneSource**: the checkout shown to a service's
  expressions is the one alpha is told to use.
* `parts`, levels — **ServicesCurrent**: a start stands on the chain it walked.

The bounds of `Federation`: `MaxCrash` alphas are killed (one; none in
`federation_chain`), each command runs once, and no alpha is reused. Three alphas
are the one in place, its successor and one orphaned while booting, all
contending for one lock; three commands are needed for one to act on a state two
others have changed. A command that finds no alpha left to spawn can still fail.

The bounds of the others. `Tree`: a stack of `StackLimit` 9 calls is deeper than any
acyclic instance needs, which `ExhaustedOnlyByCycles` itself shows. `Groups`: thresholds of 2 tell a
run of successes from a count and need a reset between; one helper and one next alpha.
`Requests`: two handlers, three requests (two configures and something beside
them), two services. `Pins`: two processes, one of which sees what the other
wrote; branches that move once. `Sources`: two workspaces, `MaxKills` 2 (a kill of
a reclaim needs a kill before), `MaxActs` 1. `Toolchains`: two alphas; one
that ends while it installs does not come back.
`Evaluation`: two services with a file, an input of two parts and an output,
reading one another in every combination of a few ways. `Levels`: three levels (a
level with one above and one below), two terminals, two commands, one edit, two
ports at the root.

`MCParts.cfg` and `MCEnds.cfg` check for deadlock: an alpha nobody asks, toolchains that
are settled and a command that is over rest explicitly (`AtRest`, `Rest`).

Why the instances of `Bringup` suffice for what they are used for: interactions in the code
are pairwise (waiter and awaited, handler and shutdown, siblings on a primary),
so two services, one of each kind of dependency and one shared checkout meet
all of them; `api` has two references of different kinds, so `waitAfter`'s order
matters; every action fires in a passing run. No counter is unbounded (`dep`
ends at the length of `after`), so no bound is imposed beyond the instance. The
safety properties proved below do not depend on the instance.

## Proofs

Checked by TLAPS, for every stack that satisfies `ConfigAssumption`:

* **TypeCorrect** — `TypeOK`.
* **NoOrphans** — `NoServiceSurvivesExit`. Not inductive: whether a service is
  stopped depends on whether `shutdownAll` found it. `OrphanInv` adds `ProcInv`
  (a live process only between start and reaping) and `StopInv` (every started
  goroutine was allocated before; one that `shutdownAll` did not take is still in front of
  the gate or over; those taken have returned once alpha drains).
* **GateHolds** — `NoSpawnPastGate`. `HeldBack(s)` — stopping, no process, in front
  of the gate or over — is preserved by every step, given `OrphanInv`.
* **CommitIsSound** — `CommitSound`. `CommitInv` remembers what the handler saw
  when it went on to the provisions; `Growing` (barriers never unfire) carries it
  to the answer.
* **OneOutcome** — `SingleOutcome`. `OutcomeInv` ties each goroutine's place to
  the outcomes that can have fired, so that no second one is reached. It
  needs what `Reach` fires (`ServiceBranches`, `BuildBranches`,
  `ProvisionBranches`: no path to one outcome passes through the other).

And of the lifeline: **LifelineTyped**; **VerdictSound** (`NoFalseEOF`) from
`PipeInv`, whose `StopOrder` says that the owner leaves only after the answer, the
answer follows the stop, the stop follows the reader's end; **StopIsFinal**
(`StopSettles`) from the same; **DeathNamed** (`DeathIsNamed`) from `CauseInv` (the
flag precedes the cancel).

And of a host, for all chains, commands and alphas and any number of crashes:

* **FederationTyped** — `TypeOK`.
* **GenerationsApart** — `NoTwoGenerations`, from `HostInv`: `alpha.lock` has one
  holder from the reaping to the exit (`LockInv`); only the holder writes a row, and
  no old row is left once it has dropped them (`RowInv`); a living group that is
  not lost belongs to its alpha, to its row or to the reaper that read the row
  (`GroupInv`). None of the three owners can be there while another alpha serves.
* **OwnReached** — `ReachesItsOwn`, from `OwnInv`: a serving alpha is the listener of
  its socket, and READY came from the command's own.
* **ParentsStay** — `ParentsKept`, from `DriftInv`: between the reading of the state
  and the shutdown nobody else can configure an alpha there, for want of
  `zordon.lock`; one that comes up meanwhile has no hash.

They assume `FederationAssumption`, which types the constants and says that no
hash is the placeholder for none.

And of a process group, for all thresholds: **LeaderIsRight** — `LeaderSpeaks`, from
`LeaderInv`. The property speaks of alpha and the service, which never meet; the
invariant puts tommy between them: no service before its tommy is up (`NotYet`), tommy
the last to go unless killed (`LastToGo`), and an ended or never started command does
not come back under the next alpha's signals (`OverInv`).

Of requests, whatever the stack and the order they come in, as long as no two
configures meet and no clean comes to a configured alpha (`unserialized`; outside that
the code itself breaks all three): **NothingIsLost** (`LiveIsRegistered`),
**StatusIsKept** (`StatusStands`), **StopsAreQuiet** (`StopIsNoFailure`), from
`RequestsInv`, which is `Serial` unless `unserialized`:

* `OneChanges` and `HandlerInv` — at most one handler is between its diff and its end; what
  it has picked to stop, and what it has made, are contexts that stand where its place
  in `handleConfigure` says.
* `MapsInv` — a map's entry is a context of that name, and is in the stored Alphasfile.
* `ContextInv` — a context is in the maps until it is over, or told to stop and waited
  for by a handler.
* `ShutdownInv` — whoever asked for a shutdown had not been told to stop, and a
  registered context is settled, or its handler has yet to settle it.
* `StatusInv` — a service that is up or ready is reported as that.

Of `zordon.lock`, for any number of processes, imports and followed sources:
**PinsAreKept** (`PinsKept`) and **FileIsTrue** (`FileSaysWhatWasRead`), from `PinsInv`.
Who is at work holds the pins lock, so nobody else writes (`WorksAlone`); `Remembers`
says that its memory is the file but for what it was asked to move, and is
the file when untouched; `LoadInv` and `PinInv` that every result so far is what the memory
says, under a key in use. The heart of it is `ResolveFetchedKeeps`: a fetch overwrites only
a key that no import has read yet, because a key is of its import's repository
(`WantedOfRepo`) and an update of either asks for a repository's ref once (`fresh`). It
fixes a ref of a repository, not the repository: the finding `pins_update` is about
the difference.

Of checkouts: **ClonesAreWhole** (`ReusedCloneIsWhole`) and **WorkIsRespected**
(`WorkRespected`), from `SourcesInv`, which says of each place in the preparation
what stands at the checkout after any kill before it; `OneCheckout`: a step of
one workspace touches no other's checkout, though they share the bare clone.

Of installs: **InstallersApart** (`OneInstaller`), **NobodyRewrites** (`NothingRewritten`),
**ReadyIsProvided** (`ReadyHasItsPins`), from `ToolchainsInv`: a lock is held by one context,
of the installation it is at (`LocksInv`); an installer works for a context that
holds a lock of its directory (`ChildrenInv`), and while alphas stay on nothing that is
there but half a Corepack (`FreshInv`); what is on disk, or on its way, some Alphasfile of the host asks for
(`ItemsInv`); a context is of its plan (`ContextsInv`) and has what it went past, or a rival has
taken its place (`FoundInv`). They hold for all plans, those whose names or versions meet
included: where that breaks what the comments say, the property has the exception
(`NamedOnce`, `Rivalled`, a package that took the key) and a finding shows it.

What they assume of the constants is a named operator in each module (`RequestsAssumption`,
`PinsAssumption`, `SourcesAssumption`, `ToolchainsAssumption`), the hypothesis of the
theorems and asserted of the instances in `MCParts`. They type the constants, with
what the code gives by construction: a file is imported before what it imports, a plan's
pins and packages are finite.

Of Alphasfiles (`AlphasfileProofs`), the packages first. **InstancesRunAsImported**
(`FeaturesExact`) and **StackIsWhatRuns** (`StackAgrees`), for all packages, entrypoints and
rules, from two invariants:

* `LoadInv`, while loading: every link and every rule leads to an instance that is there
  (`TargetOf` and the rules handed down included), the entrypoint's imports are never
  conditional, and what it imports at its top level it configures. What a step of
  `applyRulesToLoaded` redirects, it redirects to such an instance.
* `ResolveInv`, while resolving: `DecidedInv(p)` of every instance already settled says that
  its importers are done and that it runs, and runs with what it does, exactly by the
  imports that count; and the active ones are reached over imports already known to be
  on (`OnNow`). The heart is `NeedsKept`: settling one instance changes nothing that an
  earlier decision went by. An importer that was not settled then was in `Sure` and
  imported without a condition, so it was counted before it was known to run; `OnStays`
  says that no condition is evaluated before the features it reads are final.

When nothing is pending, `Sure` is within the active ones (`ActiveClosed`), so that what
counted is what is on in the instances that run. The recursion is that of `Those`, which
keeps the elements of a sequence: `ThoseKept` is proved from the well-foundedness of the
numbers, and `Reach` by its being the least closed set (`ReachIsLeast`, `ReachedFrom`).

The first form of `StackAgrees`, that the active instances are those the stack reaches,
could not be proved, and is false: see finding 21. `NamesApart` is what it was missing,
and `MCTree` has a package that goes without.

**ToolchainsAreKept** (`ToolchainSetOnce`), from `ToolchainInv`: the toolchain a package
adopted is among those it is offered, so `Adopts` is never true of it again.

**ChainIsCurrent** (`ServicesCurrent`), from `LevelsInv`: a start holds `zordon.lock` of
every level it has passed, and of its own from the lock on (`HoldsHere`); what still runs
at a level it passed serves what was passed on and stands on what the levels above passed
on (`StandsOn`); a hash covers the parents it was computed from, in a command from
its hash on (`HashCovers`) and in an alpha that serves (`ServingInv`). The last two meet
when a parent is reused. It does not matter who else stops an alpha: one that is gone
stands on nothing.

**EvaluationIsOrdered** (`Ordered`), from `OrderInv`: what `topoSort` has put out is out once
and after all it depends on (`SortInv`, with `free` and `waits` what they should be), none of
a set that wait for each other ever comes out (`RingInv`), and nothing is named before it is
final (`NamesFinal`). That a sort stuck with producers left over has such a set is
`LeftOverIsRing`: the set of those left over itself. **ServicesHaveOneSource** (`OneSource`),
from `SourceInv`.

The hypotheses are `TreeAssumption` (what parses is a sequence of import blocks of
directories there are), `EvaluationAssumption` (a manifest is finite, and what an import
passes to an input is not that input) and `LevelsAssumption` (a command runs at a
level of the chain), asserted of the instances in `MCTree` and `MCParts`.

Of `Bringup`, the last two: **DepsComeFirst** (`DepsBeforeProcess`), from `DepsInv`: a
goroutine past a wait has met all it waited for, and what is met stays so, since no
barrier unfires (`NothingUnfires`, `MetStays`). **PromiseKept** (`KeepsPromise`): every step
of `Bringup` is one of `Supervisor` or a stutter. The mapping reads a service's
outcome off its barriers, so the steps need `OutcomeInv` (it is decided once), `OrphanInv`
and `CommitInv` (what an exit and an answer find), and `PromiseInv`: a service that is
probing has a process, one that is up has fired `ready`, no answer precedes the close.

Only model-checked:

* liveness (`FailfastBringsDown`, `ShutdownCompletes`, `ConfigureAnswered`,
  `DeathEndsDaemon`, `NothingLeftBehind`, `TreeLoadEnds`, `DeadAlphaReaped`, `StopEnds`) and
  anything with `ENABLED`: outside the prover's reach;
* `ExhaustedOnlyByCycles` of `Tree`: it says that a stack of nine calls is enough for four
  packages that import each other in no cycle. For every `StackLimit` that is false, and the
  limit that any number of packages needs is an induction over the paths of a graph.

## Findings

Each is a property whose counterexample is what the code does; `PROJECT.json`
quotes both sides. 1 to 4 are runs; the others are checked with the configuration
named, one property at a time.

1. `late_configure`: a configure accepted just before a stop registers
   provisions `shutdownAll` does not wait for; a shell outlives alpha.
2. `lifeline_clean_exit`: a getppid poll under way at `Release` is not joined and
   may take the clean exit of zordon for a death.
3. `pins_update`: an update moves one path of a repository and leaves another path of
   it at the old commit; one load reads both.
4. `reconfigure`: services are compared by a print that shows addresses, so a
   second configure stops every one of them.
5. `MCBringupRunningBarrier.cfg`: a service that fails before its process exists fires
   `self.runtime.running`, documented as "the process has been spawned".
6. `MCBringupSpawnStatus.cfg`: a service whose spawn or dependency failed reports the
   empty readiness for ever, which stands for "still starting".
7. `MCFederationAdopt.cfg`: the hash alone decides that a parent is up to date. An
   alpha whose zordon was killed in mid-bringup is adopted, documented as "healthy",
   and then shuts down under the start that adopted it.
8. `MCPartsFindings.cfg`, `ReusedWorktreeIsWhole`: a kill between `unlock` and `remove`
   leaves an empty worktree that the next start reuses.
9. `OneInstallerEver`: an installer outlives its alpha and its lock.
10. `OneCheckoutEach`: one name under two toolchains owns one checkout.
11. `NothingReadEarly`: a reference by index or to a whole object is no edge of the
    graph.
12. `OthersCurrent`: the hash covers the parents' services, not what else they hand
    down.
13. `ParentsWhole`: a parent started with some of its services passes for the whole.
14. `SudoOnTheRunning`: `zordon sudo` runs hooks of levels that are not running.
15. `MCEndsFindings.cfg`, `CyclesLoad`: binds over packages that import each other make
    loading call itself until the stack is full.
16. `InjectionIsolates`: settings injected into a loaded package change the shared one.
17. `NeverPanics`: a missing input of a package nobody's import keeps panics.
18. `StopAlwaysEnds`: an exec probe's timeout does not end an attempt whose output a
    left-behind process holds, and neither does a stop.
19. `StillTracked`: when tommy is killed alpha removes the row of a living group.
20. `GroupGoes`: a stop that ends the leader in time sends no SIGKILL to the others.

21. `EveryImportLinked`: of two imports of one package under one name in one scope, the second
    isolated by its `packages` rules, both are settled and counted, but the first, with what
    only it imports, is silently left out of the stack.
22. `MCPartsFindings.cfg`, `ToolsStay`: two pins of one runtime with two versions of one
    tool: npm, pip, cargo and go replace what the first pin's services may be loading, and
    the first pin stays ready without its version.
23. `OneInstallerEach`: `node` and `nodejs`, or `22` and `22.11.0`, are two locks over one
    directory, and two installers work in it at a time.
24. `PinsServed`: a package called as a pin's key takes that key, and what waits for the
    pin's toolchain waits for the package.

Smaller disagreements met on the way, without a property:

* `docs/dynamic-config.md:104` calls `done` "ready or terminal failure", yet a waiter
  on it whose failure pair is ready too may fail; the comment on `waitAfter` says the
  chain's first failure triggers a shutdown, which a failed toolchain does not.
* A search marks only its own require's pins as used, less than the comment
  beside it says (`resolve.go:214`); `docs/alphasfile.md:416` lets the entrypoint's
  require win, `resolve.go:225` has an exception.
* `handleClean` always answers `EventDone`, failed snippets or not (`main.go:2159`).
* `prepareFail` does not ask whether it was cancelled (`main.go:2771`).
* Two pkg services of one name share the first one's version (`main.go:2340`).
* A file declared twice is reported as a cycle (`dag.go:363`).
* `ParentContext` leaves env, runtime and build out (`alphasfile.go:1283`).
* A second import's bind rules override the first's without a word, and the
  value of a scalar input set twice depends on the alphabetical order of scopes.
* `pinLevel` rewrites the lock after the hash was computed, so a parent is restarted
  once more by the next start.
* Snippets and build steps have no tommy and survive alpha's SIGKILL.

## Not modelled

* Values: HCL expressions, command lines, environments, the fields of blocks,
  selectors' syntax. They decide what a process is started with, not when.
* Output: status tables, summaries, `init`, `doctor`, MCP and editor adapters,
  logging and its filter; they keep no state that another part reads.
* Small sequential data types (ring, merges, environment joins) and the test harness.
* Steps taken in one that the code takes in several: `Reach`'s barriers, a
  read-modify-write of the registry under its lock, the encoding of a message.
* An alpha without `--state-dir`, reuse of process ids, a registry that cannot be read.
* mise, git, npm, cargo, corepack and the services are external; their outcomes are
  nondeterministic choices. Which release mise takes for a fuzzy version is fixed
  (`Newest`), so a release that comes out between two alphas is not; nor are a check for a
  tool that fails for another reason, and names that are one after `LockTool` has
  made file names of them.

What a further step would prove: of the sort and the walks of the imports, that they
come to an end, which is liveness; and the limit `ExhaustedOnlyByCycles` holds from.

## Running it

    tlc -config MCBringupChain.cfg MCBringup.tla
    tlc -config MCLifeline.cfg Lifeline.tla
    tlc -config MCFederationTakeover.cfg MCFederation.tla
    tlc -config MCEnds.cfg MCEnds.tla
    tlc -config MCParts.cfg MCParts.tla
    tlc -config MCPartsFindings.cfg MCParts.tla
    tlapm BringupProofs.tla
    tlapm LifelineProofs.tla
    tlapm FederationProofs.tla
    tlapm RequestsProofs.tla
    tlapm PinsProofs.tla
    tlapm SourcesProofs.tla
    tlapm ToolchainsProofs.tla
    tlapm AlphasfileProofs.tla
