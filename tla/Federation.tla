----------------------------- MODULE Federation -----------------------------
(***************************************************************************)
(* Several zordon commands over a chain of workspaces, the alphas they     *)
(* start, and what an alpha leaves behind when it is killed                *)
(* (cmd/zordon/federation.go, federationstate.go; cmd/alpha/main.go        *)
(* serveAlpha; internal/registry; cmd/tommy).                              *)
(*                                                                         *)
(* A workspace has two flocks (zordon.lock, alpha.lock), a socket and a    *)
(* row of the registry.  The services of one alpha are one process group;  *)
(* how it starts and stops them is module Bringup, how it learns of its    *)
(* zordon's death is module Lifeline.                                      *)
(***************************************************************************)
EXTENDS Naturals, Sequences

CONSTANTS
  Workspace,
  Zordon,     \* start and clean commands; each runs once
  Cleaner,    \* those that run `zordon clean`
  Chain,      \* Chain[z]: the workspaces of the levels, the leaf last
  Want,       \* Want[z][w]: the config hash z computes for w
  Alpha,      \* alpha processes that may be spawned
  Home,       \* Home[a]: the workspace it is spawned for
  Nobody,     \* no process
  Wrapped,    \* tommy is installed
  MaxCrash    \* bound on alphas killed from outside

ASSUME FederationAssumption ==
  /\ Cleaner \subseteq Zordon
  /\ Chain \in [Zordon -> Seq(Workspace) \ {<<>>}]
  /\ Home \in [Alpha -> Workspace]
  /\ Nobody \notin Zordon \cup Alpha
  /\ \A z \in Zordon : DOMAIN Want[z] = Workspace /\ \A w \in Workspace : Want[z][w] # Nobody
  /\ Wrapped \in BOOLEAN
  /\ MaxCrash \in Nat

VARIABLES
  zpc, level,    \* where a zordon is, and at which level of its chain
  old,           \* the alpha whose state resolveLevel read
  mine,          \* the alpha it spawned at this level
  peer,          \* the alpha its configure or clean reached
  adopted,       \* the alphas it reused
  zlock,         \* holder of a workspace's zordon.lock
  alock,         \* holder of its alpha.lock
  sock,          \* the alpha listening on its socket
  row,           \* the group its row in the registry names
  apc,           \* where an alpha is
  parent,        \* the zordon that spawned it
  koniec,        \* it has been told to stop
  conf, work,    \* the hash it was configured with; how far the work is
  prey,          \* the group it read from the row and has yet to kill
  group,         \* its services' process group
  lost,          \* groups no registry row leads to any more
  crashes

zordonVars == <<zpc, level, old, mine, peer, adopted, zlock>>
alphaVars == <<apc, parent, koniec, conf, work, prey>>
hostVars == <<alock, sock, row, group, lost, crashes>>
vars == <<zpc, level, old, mine, peer, adopted, zlock, apc, parent, koniec,
          conf, work, prey, alock, sock, row, group, lost, crashes>>

Hashes == {Want[z][w] : z \in Zordon, w \in Workspace}

TypeOK ==
  /\ zpc \in [Zordon -> {"lock", "query", "shutdown", "socket", "drain", "spawn",
                         "ready", "push", "stream", "finish", "leave", "done", "over"}]
  /\ level \in [Zordon -> Nat] /\ \A z \in Zordon : level[z] \in 1 .. Len(Chain[z])
  /\ {old, mine, peer} \subseteq [Zordon -> Alpha \cup {Nobody}]
  /\ adopted \in [Zordon -> SUBSET Alpha]
  /\ zlock \in [Workspace -> Zordon \cup {Nobody}]
  /\ {alock, sock, row} \subseteq [Workspace -> Alpha \cup {Nobody}]
  /\ apc \in [Alpha -> {"unborn", "lock", "reap", "kill", "bind", "serving",
                        "draining", "stopped", "gone", "crashed"}]
  /\ parent \in [Alpha -> Zordon \cup {Nobody}]
  /\ koniec \in [Alpha -> BOOLEAN]
  /\ conf \in [Alpha -> Hashes \cup {Nobody}]
  /\ work \in [Alpha -> {"idle", "configured", "spawned", "registered",
                         "committed", "cleaning"}]
  /\ prey \in [Alpha -> Alpha \cup {Nobody}]
  /\ group \in [Alpha -> {"none", "alive", "dead"}]
  /\ lost \in SUBSET Alpha
  /\ crashes \in 0 .. MaxCrash

\* A clean walks to its leaf without a lock: parents are only read.
Init ==
  /\ zpc = [z \in Zordon |-> IF z \in Cleaner THEN "query" ELSE "lock"]
  /\ level = [z \in Zordon |-> IF z \in Cleaner THEN Len(Chain[z]) ELSE 1]
  /\ old = [z \in Zordon |-> Nobody] /\ mine = old /\ peer = old
  /\ adopted = [z \in Zordon |-> {}]
  /\ zlock = [w \in Workspace |-> Nobody]
  /\ alock = zlock /\ sock = zlock /\ row = zlock
  /\ apc = [a \in Alpha |-> "unborn"] /\ parent = [a \in Alpha |-> Nobody]
  /\ koniec = [a \in Alpha |-> FALSE]
  /\ conf = parent /\ work = [a \in Alpha |-> "idle"] /\ prey = parent
  /\ group = [a \in Alpha |-> "none"]
  /\ lost = {} /\ crashes = 0

------------------------------------------------------------------------------
(* zordon start and zordon clean.                                           *)

At(z) == Chain[z][level[z]]
IsLeaf(z) == level[z] = Len(Chain[z])
Active(z) == zpc[z] \notin {"done", "over"}

GoTo(z, pc) == zpc' = [zpc EXCEPT ![z] = pc]

\* A zordon that exits, or is killed, holds no flock.
Exits(z, pc) ==
  /\ GoTo(z, pc)
  /\ zlock' = [w \in Workspace |-> IF zlock[w] = z THEN Nobody ELSE zlock[w]]

\* The next level, or the end: runStart's loop.
Advance(z) ==
  IF IsLeaf(z)
  THEN Exits(z, "done") /\ UNCHANGED level
  ELSE GoTo(z, "lock") /\ level' = [level EXCEPT ![z] = @ + 1] /\ UNCHANGED zlock

\* Variant: the workspace is not locked.
NoLock(z) ==
  /\ zpc[z] = "lock"
  /\ GoTo(z, IF z \in Cleaner THEN "socket" ELSE "query")
  /\ UNCHANGED <<level, old, mine, peer, adopted, zlock, alphaVars, hostVars>>

\* TryLockZordon; a zordon that finds the lock taken gives up (Fail).
TakeLock(z) ==
  /\ zpc[z] = "lock" /\ zlock[At(z)] = Nobody
  /\ zlock' = [zlock EXCEPT ![At(z)] = z]
  /\ GoTo(z, IF z \in Cleaner THEN "socket" ELSE "query")
  /\ UNCHANGED <<level, old, mine, peer, adopted, alphaVars, hostVars>>

\* Who answers OpState.  An alpha about to close its listener may drop the
\* connection, which reads as nobody.
Answering(w) ==
  {sock[w]} \cup (IF sock[w] # Nobody /\ koniec[sock[w]] THEN {Nobody} ELSE {})

\* canReuse.
Reusable(z, a) == ~IsLeaf(z) /\ a # Nobody /\ conf[a] = Want[z][At(z)]

Adopt(z) ==
  /\ zpc[z] = "query" /\ z \notin Cleaner
  /\ \E a \in Answering(At(z)) :
       /\ Reusable(z, a)
       /\ adopted' = [adopted EXCEPT ![z] = @ \cup {a}]
  /\ Advance(z)
  /\ UNCHANGED <<old, mine, peer, alphaVars, hostVars>>

\* The manifest is computed anew.  A clean looks before it locks, and refuses
\* if the stack is up (Fail) unless it may wait for it to stop.
Recompute(z) ==
  /\ zpc[z] = "query"
  /\ \E a \in Answering(At(z)) :
       /\ ~Reusable(z, a)
       /\ old' = [old EXCEPT ![z] = a]
       /\ GoTo(z, IF z \in Cleaner THEN "lock"
                  ELSE IF a = Nobody THEN "socket" ELSE "shutdown")
  /\ UNCHANGED <<level, mine, peer, adopted, zlock, alphaVars, hostVars>>

\* OpShutdown, to whoever listens now; an error is only logged.
Tell(w) ==
  \/ koniec' = [a \in Alpha |-> koniec[a] \/ sock[w] = a]
  \/ UNCHANGED koniec

StopOld(z) ==
  /\ zpc[z] = "shutdown"
  /\ Tell(At(z))
  /\ GoTo(z, "socket")
  /\ UNCHANGED <<level, old, mine, peer, adopted, zlock, apc, parent, conf, work, prey, hostVars>>

\* waitAlphaGone: first the socket, then alpha.lock.  The old pid is polled
\* only for an alpha without the lock, and every alpha here takes it.
SocketGone(z) ==
  /\ zpc[z] = "socket" /\ sock[At(z)] = Nobody
  /\ GoTo(z, "drain")
  /\ UNCHANGED <<level, old, mine, peer, adopted, zlock, alphaVars, hostVars>>

Drained(z) ==
  /\ zpc[z] = "drain" /\ alock[At(z)] = Nobody
  /\ GoTo(z, "spawn")
  /\ UNCHANGED <<level, old, mine, peer, adopted, zlock, alphaVars, hostVars>>

SpawnAlpha(z) ==
  /\ zpc[z] = "spawn"
  /\ \E a \in Alpha :
       /\ apc[a] = "unborn" /\ Home[a] = At(z)
       /\ apc' = [apc EXCEPT ![a] = "lock"]
       /\ parent' = [parent EXCEPT ![a] = z]
       /\ mine' = [mine EXCEPT ![z] = a]
  /\ GoTo(z, "ready")
  /\ UNCHANGED <<level, old, peer, adopted, zlock, koniec, conf, work, prey, hostVars>>

\* Variant: any listener on the socket will do.
ReadyAtOnce(z) ==
  /\ zpc[z] = "ready"
  /\ GoTo(z, "push")
  /\ UNCHANGED <<level, old, mine, peer, adopted, zlock, alphaVars, hostVars>>

\* READY=1 on the pipe of the alpha it spawned.
Ready(z) ==
  /\ zpc[z] = "ready" /\ apc[mine[z]] \in {"serving", "draining", "stopped"}
  /\ GoTo(z, "push")
  /\ UNCHANGED <<level, old, mine, peer, adopted, zlock, alphaVars, hostVars>>

\* WaitListening, and OpConfigure (OpClean) to whoever listens.  The hash is
\* stored before the work begins (alphaState.configure).
Push(z) ==
  /\ zpc[z] = "push" /\ sock[At(z)] # Nobody
  /\ peer' = [peer EXCEPT ![z] = sock[At(z)]]
  /\ conf' = [conf EXCEPT ![sock[At(z)]] = Want[z][At(z)]]
  /\ work' = [work EXCEPT ![sock[At(z)]] =
                IF z \in Cleaner THEN "cleaning" ELSE "configured"]
  /\ GoTo(z, "stream")
  /\ UNCHANGED <<level, old, mine, adopted, zlock, apc, parent, koniec, prey, hostVars>>

\* EventDone; a clean goes on whatever it is answered.
Answered(z) ==
  /\ zpc[z] = "stream"
  /\ \/ work[peer[z]] = "committed" /\ Advance(z)
     \/ z \in Cleaner /\ GoTo(z, "finish") /\ UNCHANGED <<level, zlock>>
  /\ UNCHANGED <<old, mine, peer, adopted, alphaVars, hostVars>>

\* cleanLeaf shuts the transient alpha down and waits for it to be gone.
EndClean(z) ==
  /\ zpc[z] = "finish"
  /\ Tell(At(z))
  /\ GoTo(z, "leave")
  /\ UNCHANGED <<level, old, mine, peer, adopted, zlock, apc, parent, conf, work, prey, hostVars>>

Leave(z) ==
  /\ zpc[z] = "leave" /\ sock[At(z)] = Nobody /\ alock[At(z)] = Nobody
  /\ Exits(z, "done")
  /\ UNCHANGED <<level, old, mine, peer, adopted, alphaVars, hostVars>>

\* An error, a timeout, ^C or SIGKILL.
Fail(z) ==
  /\ Active(z)
  /\ Exits(z, "over")
  /\ UNCHANGED <<level, old, mine, peer, adopted, alphaVars, hostVars>>

------------------------------------------------------------------------------
(* alpha.                                                                   *)

AlphaAt(a, pc) == apc' = [apc EXCEPT ![a] = pc]
Up(a) == apc[a] \notin {"unborn", "gone", "crashed"}
Free(held, a) == [w \in Workspace |-> IF held[w] = a THEN Nobody ELSE held[w]]

LockAlpha(a) ==
  /\ apc[a] = "lock" /\ alock[Home[a]] = Nobody
  /\ alock' = [alock EXCEPT ![Home[a]] = a]
  /\ AlphaAt(a, "reap")
  /\ UNCHANGED <<zordonVars, parent, koniec, conf, work, prey, sock, row, group, lost, crashes>>

\* Variant: the wait for the lock does not end with the context.
WaitOn(a) == FALSE /\ UNCHANGED vars

\* The wait for the lock ends with the daemon's context.
LockAborts(a) ==
  /\ apc[a] = "lock" /\ koniec[a]
  /\ AlphaAt(a, "gone")
  /\ UNCHANGED <<zordonVars, parent, koniec, conf, work, prey, hostVars>>

\* ReapByFsHash: the rows go first, under the registry's lock.
DropRows(a) ==
  /\ apc[a] = "reap"
  /\ prey' = [prey EXCEPT ![a] = row[Home[a]]]
  /\ row' = [row EXCEPT ![Home[a]] = Nobody]
  /\ AlphaAt(a, "kill")
  /\ UNCHANGED <<zordonVars, parent, koniec, conf, work, alock, sock, group, lost, crashes>>

\* Variant: forgets the groups with their rows.
ForgetOrphans(a) ==
  /\ apc[a] = "kill"
  /\ prey' = [prey EXCEPT ![a] = Nobody]
  /\ AlphaAt(a, "bind")
  /\ UNCHANGED <<zordonVars, parent, koniec, conf, work, hostVars>>

\* Then SIGTERM, the grace, SIGKILL.
KillOrphans(a) ==
  /\ apc[a] = "kill"
  /\ group' = [b \in Alpha |-> IF b = prey[a] THEN "dead" ELSE group[b]]
  /\ prey' = [prey EXCEPT ![a] = Nobody]
  /\ AlphaAt(a, "bind")
  /\ UNCHANGED <<zordonVars, parent, koniec, conf, work, alock, sock, row, lost, crashes>>

\* control.Listen; a dead alpha's socket is unlinked, a live one's is an error.
Bind(a) ==
  /\ apc[a] = "bind"
  /\ IF sock[Home[a]] = Nobody
     THEN AlphaAt(a, "serving") /\ sock' = [sock EXCEPT ![Home[a]] = a] /\ UNCHANGED alock
     ELSE AlphaAt(a, "gone") /\ alock' = Free(alock, a) /\ UNCHANGED sock
  /\ UNCHANGED <<zordonVars, parent, koniec, conf, work, prey, row, group, lost, crashes>>

\* A handler and its goroutines run on after the listener is closed.
WorkTo(a, from, to) ==
  /\ apc[a] \in {"serving", "draining"} /\ work[a] = from
  /\ work' = [work EXCEPT ![a] = to]

SpawnServices(a) ==
  /\ WorkTo(a, "configured", "spawned")
  /\ group' = [group EXCEPT ![a] = "alive"]
  /\ UNCHANGED <<zordonVars, apc, parent, koniec, conf, prey, alock, sock, row, lost, crashes>>

\* The row's key is the workspace and the service: it replaces an older one.
\* A write that fails is logged and the service goes on.
Register(a) ==
  /\ WorkTo(a, "spawned", "registered")
  /\ row' = [row EXCEPT ![Home[a]] = a] \/ row' = row
  /\ UNCHANGED <<zordonVars, apc, parent, koniec, conf, prey, alock, sock, group, lost, crashes>>

\* The commit point and EventDone.
Commit(a) ==
  /\ WorkTo(a, "registered", "committed")
  /\ UNCHANGED <<zordonVars, apc, parent, koniec, conf, prey, hostVars>>

\* A signal, `zordon stop`, failfast, or the lifeline: see Abandoned.
Koniec(a) ==
  /\ Up(a) /\ ~koniec[a]
  /\ koniec' = [koniec EXCEPT ![a] = TRUE]
  /\ UNCHANGED <<zordonVars, apc, parent, conf, work, prey, hostVars>>

CloseListener(a) ==
  /\ apc[a] = "serving" /\ koniec[a]
  /\ sock' = Free(sock, a)
  /\ AlphaAt(a, "draining")
  /\ UNCHANGED <<zordonVars, parent, koniec, conf, work, prey, alock, row, group, lost, crashes>>

\* shutdownAll: every supervisor reaps its group and removes its row.
ShutdownAll(a) ==
  /\ apc[a] = "draining"
  /\ IF group[a] = "alive"
     THEN group' = [group EXCEPT ![a] = "dead"] /\ row' = Free(row, a)
     ELSE UNCHANGED <<group, row>>
  /\ AlphaAt(a, "stopped")
  /\ UNCHANGED <<zordonVars, parent, koniec, conf, work, prey, alock, sock, lost, crashes>>

Exit(a) ==
  /\ apc[a] = "stopped"
  /\ alock' = Free(alock, a)
  /\ AlphaAt(a, "gone")
  /\ UNCHANGED <<zordonVars, parent, koniec, conf, work, prey, sock, row, group, lost, crashes>>

\* SIGKILL: flocks and the listener go with the process, the services stay.
Killed(a) ==
  /\ AlphaAt(a, "crashed")
  /\ alock' = Free(alock, a) /\ sock' = Free(sock, a)
  /\ lost' = lost \cup {b \in Alpha : group[b] = "alive" /\
                          (b = prey[a] \/ (b = a /\ row[Home[a]] # a))}

Crash(a) ==
  /\ Up(a) /\ crashes < MaxCrash
  /\ Killed(a)
  /\ crashes' = crashes + 1
  /\ UNCHANGED <<zordonVars, parent, koniec, conf, work, prey, row, group>>

\* spawnAlpha's timeout kills the alpha that is not ready.
ReadyTimeout(z) ==
  /\ zpc[z] = "ready"
  /\ \E a \in Alpha : mine[z] = a /\ Up(a) /\ Killed(a)
  /\ Exits(z, "over")
  /\ UNCHANGED <<level, old, mine, peer, adopted, parent, koniec, conf, work,
                 prey, row, group, crashes>>

\* tommy, which shares the group, sees its alpha gone.
TommyReaps(a) ==
  /\ Wrapped /\ apc[a] = "crashed" /\ group[a] = "alive"
  /\ group' = [group EXCEPT ![a] = "dead"]
  /\ UNCHANGED <<zordonVars, alphaVars, alock, sock, row, lost, crashes>>

------------------------------------------------------------------------------
Command(z) ==
  \/ TakeLock(z) \/ Adopt(z) \/ Recompute(z) \/ StopOld(z) \/ SocketGone(z)
  \/ Drained(z) \/ SpawnAlpha(z) \/ Ready(z) \/ Push(z) \/ Answered(z)
  \/ EndClean(z) \/ Leave(z)

Boot(a) == LockAlpha(a) \/ LockAborts(a) \/ DropRows(a) \/ KillOrphans(a) \/ Bind(a)
Serve(a) == SpawnServices(a) \/ Register(a) \/ Commit(a)
Stop(a) == CloseListener(a) \/ ShutdownAll(a) \/ Exit(a)

Next ==
  \/ \E z \in Zordon : Command(z) \/ Fail(z) \/ ReadyTimeout(z)
  \/ \E a \in Alpha : Boot(a) \/ Serve(a) \/ Koniec(a) \/ Stop(a) \/ Crash(a) \/ TommyReaps(a)
  \/ (\A z \in Zordon : ~Active(z)) /\ (\A a \in Alpha : ~Up(a)) /\ UNCHANGED vars

Spec == Init /\ [][Next]_vars

\* The lifeline of an alpha that has not committed (module Lifeline).
Abandoned(a) == Up(a) /\ parent[a] # Nobody /\ ~Active(parent[a]) /\ work[a] # "committed"

\* Alphas run, lifelines fire and tommies reap.  Nothing is assumed of the
\* commands, nor that services come up.
Fairness ==
  \A a \in Alpha :
    /\ WF_vars(Boot(a)) /\ WF_vars(Stop(a))
    /\ WF_vars(Abandoned(a) /\ Koniec(a)) /\ WF_vars(TommyReaps(a))

FairSpec == Spec /\ Fairness

------------------------------------------------------------------------------
\* While an alpha serves a workspace no other alpha's services are alive there,
\* whether it shut down or was killed, but for a group nothing leads to: its
\* alpha died before it was registered, or its reaper before it had reaped it
\* (serveAlpha's order of alpha.lock, ReapByFsHash and Listen, its shutdown).
NoTwoGenerations ==
  \A a, b \in Alpha :
    apc[a] = "serving" /\ a # b /\ Home[a] = Home[b] /\ group[b] = "alive" => b \in lost

\* A configure or clean reaches the alpha its zordon spawned, never one that
\* an earlier zordon left booting, unless its own was killed or told to stop
\* and the other could take its place (spawnAlpha, pushConfigure).
ReachesItsOwn ==
  \A z \in Zordon :
    zpc[z] = "stream" => \/ peer[z] = mine[z]
                         \/ koniec[mine[z]] \/ apc[mine[z]] = "crashed"

\* A start stops a parent's alpha only for drift: whoever receives its
\* OpShutdown does not serve the hash it wants (resolveLevel, reconcileAlpha).
ParentsKept ==
  [][\A z \in Zordon :
       zpc[z] = "shutdown" /\ zpc'[z] = "socket" /\ ~IsLeaf(z) /\ sock[At(z)] # Nobody
         => conf[sock[At(z)]] # Want[z][At(z)]]_vars

\* An alpha whose zordon is gone before the commit goes too, even while it
\* waits for a lock, and the services of a killed alpha end.
NothingLeftBehind ==
  \A a \in Alpha :
    /\ Abandoned(a) ~> ~Up(a) \/ work[a] = "committed"
    /\ Wrapped => (apc[a] = "crashed" /\ group[a] = "alive" ~> group[a] = "dead")

\* docs/federation.md: "if a healthy alpha is already serving that Alphasfile,
\* it's reused as-is".  The hash alone decides, and the alpha has stored it
\* before its bringup began (canReuse, alphaState.configure).
AdoptsTheHealthy ==
  [][\A z \in Zordon, a \in Alpha :
       a \in adopted'[z] \ adopted[z] => work[a] = "committed"]_vars
==============================================================================
