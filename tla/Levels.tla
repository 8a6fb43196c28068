------------------------------- MODULE Levels -------------------------------
(***************************************************************************)
(* A chain of Alphasfiles evaluated from the root down: what each level    *)
(* takes from the levels above, which running alphas a start reuses, and   *)
(* what the commands that only look see (cmd/zordon/federation.go,         *)
(* federationstate.go; internal/alphasfile ParentContext and               *)
(* GlobalComputedState; internal/invocation).                              *)
(*                                                                         *)
(* How one Alphasfile is evaluated is module Evaluation, how an alpha is   *)
(* replaced is module Federation, how pins are locked is module Pins.      *)
(***************************************************************************)
EXTENDS Naturals, Sequences

CONSTANTS
  Absent,
  Depth,      \* Alphasfiles from the root of the chain to its deepest level
  Texts,      \* Texts[l]: what level l's Alphasfile may say; its first is Texts[l][1]
  Ports,      \* Ports[l]: what net::pickport may draw there
  Runs,       \* what a command may be: [op, leaf, ws, picks, pull]
  Terminals,  \* where commands are run
  MaxRuns, MaxEdits

VARIABLES
  alphasfile, \* alphasfile[l]: what it says, as an index of Texts[l]
  lockfile,   \* lockfile[l]: its zordon.lock, [repos, sources]
  alphas,     \* alphas[s]: what the alpha of slot s serves, [hash, block, parents]
  locked,     \* locked[s]: the terminal that holds the slot's zordon.lock
  cmd,        \* cmd[t]: the command run at t
  runs, edits

levelsVars == <<alphasfile, lockfile, alphas, locked, cmd, runs, edits>>

Levels == 1 .. Depth

\* A command runs at a level of the chain.
LevelsAssumption ==
  /\ Depth \in Nat
  /\ \A r \in Runs : r.leaf \in Levels /\ r.op \in {"start", "clean", "look"}
  /\ Absent \notin Terminals

\* An instance: an Alphasfile and the workspace it is run in.
Slots == Levels \X {"main"} \cup {<<r.leaf, r.ws>> : r \in Runs}

\* A parent is always main; so is a leaf, unless it is run in a workspace.
Slot(r, l) == <<l, IF l = r.leaf THEN r.ws ELSE "main">>

NoCommand == [at |-> "none"]
LevelsInit ==
  /\ alphasfile = [l \in Levels |-> 1]
  /\ \E pin \in {Absent, "tip"} : lockfile = [l \in Levels |-> [repos |-> "old", sources |-> pin]]
  /\ alphas = [s \in Slots |-> Absent] /\ locked = [s \in Slots |-> Absent]
  /\ cmd = [t \in Terminals |-> NoCommand]
  /\ runs = 0 /\ edits = 0

PutCommand(t, c) == cmd' = [cmd EXCEPT ![t] = c]
To(t, at) == PutCommand(t, [cmd[t] EXCEPT !.at = at])
Here(t) == Slot(cmd[t].run, cmd[t].level)
AtLeaf(t) == cmd[t].level = cmd[t].run.leaf

------------------------------------------------------------------------------
(* What a level computes and passes down.                                   *)

\* The facts of a level, computed afresh: the services, which may draw ports,
\* and what else it hands down (toolchain, sysenv, dotenv, env).
LevelBlocks(l, tree) ==
  {[services |-> [text |-> tree.text.services, port |-> p, pin |-> Absent, whole |-> TRUE],
    others |-> tree.text.others] : p \in Ports[l]}

\* GlobalComputedState.Services: what the accumulated parents' services are.
Services(parents) == [i \in DOMAIN parents |-> parents[i].services]

\* Variant: the level's own files alone.
OwnHash(tree, lock, parents) == <<tree, lock>>

\* The identity drift is judged by.
ConfigHash(tree, lock, parents) == <<tree, lock, Services(parents)>>

CanReuse(c, serving, hash) ==
  /\ c.level # c.run.leaf
  /\ serving # Absent /\ serving.hash = hash

LevelTree(l) == [text |-> Texts[l][alphasfile[l]], repos |-> lockfile[l].repos]

------------------------------------------------------------------------------
(* The commands.                                                            *)

\* ResolveInvocation: where it is run decides the leaf and the workspace.
BeginRun(t, r) ==
  /\ cmd[t] = NoCommand /\ runs < MaxRuns
  /\ runs' = runs + 1
  /\ PutCommand(t, [at |-> "read", run |-> r, level |-> 1, trees |-> <<>>, parents |-> <<>>,
                      live |-> <<>>, hash |-> Absent, block |-> Absent])
  /\ UNCHANGED <<alphasfile, lockfile, alphas, locked, edits>>

\* A walk's first step at a level: a start locks, a clean takes its hash, and
\* the others only look.
FirstStep(r) == CASE r.op = "start" -> "lock" [] r.op = "clean" -> "hash" [] OTHER -> "query"

\* NewFederationState reads every Alphasfile before any is evaluated.
Read(t) ==
  LET c == cmd[t]
      trees == Append(c.trees, LevelTree(Len(c.trees) + 1))
  IN /\ c.at = "read"
     /\ PutCommand(t, [c EXCEPT !.trees = trees,
                                !.at = IF Len(trees) = c.run.leaf THEN FirstStep(c.run) ELSE "read"])
     /\ UNCHANGED <<alphasfile, lockfile, alphas, locked, runs, edits>>

\* The locks go with the process.
CommandEnds(t) ==
  /\ PutCommand(t, NoCommand)
  /\ locked' = [s \in Slots |-> IF locked[s] = t THEN Absent ELSE locked[s]]

\* TryLockZordon.  A taken lock ends the command (Fail).
Lock(t) ==
  /\ cmd[t].at = "lock" /\ locked[Here(t)] = Absent
  /\ locked' = [locked EXCEPT ![Here(t)] = t]
  /\ To(t, IF cmd[t].run.op = "start" THEN "pull" ELSE "clean")
  /\ UNCHANGED <<alphasfile, lockfile, alphas, runs, edits>>

\* FederationState.Pull: the leaf's repositories are locked at their newest
\* commits and its tree is read again.
Pull(t) ==
  LET c == cmd[t]
      l == c.level
  IN /\ c.at = "pull"
     /\ IF AtLeaf(t) /\ "pkg" \in c.run.pull
        THEN /\ lockfile' = [lockfile EXCEPT ![l].repos = "new"]
             /\ PutCommand(t, [c EXCEPT !.at = "hash",
                                        !.trees[l] = [text |-> Texts[l][alphasfile[l]], repos |-> "new"]])
        ELSE To(t, "hash") /\ UNCHANGED lockfile
     /\ UNCHANGED <<alphasfile, alphas, locked, runs, edits>>

\* ConfigHash reads zordon.lock before the running alpha is asked: a clean,
\* which has not locked yet, may find an alpha started meanwhile.
HashLevel(t) ==
  LET c == cmd[t]
  IN /\ c.at = "hash"
     /\ PutCommand(t, [c EXCEPT !.at = "query",
                                !.hash = ConfigHash(c.trees[c.level], lockfile[c.level], c.parents)])
     /\ UNCHANGED <<alphasfile, lockfile, alphas, locked, runs, edits>>

\* Joined, the next level is at hand, or the walk is over.
DescendTo(t, c, block, live) ==
  IF c.level = c.run.leaf
  THEN CommandEnds(t)
  ELSE /\ PutCommand(t, [c EXCEPT !.at = FirstStep(c.run), !.level = @ + 1,
                                  !.parents = Append(@, block), !.live = Append(@, live)])
       /\ UNCHANGED locked

\* resolveLevel of a level that can be reused: its running alpha's facts.
Reuse(t) ==
  LET c == cmd[t]
      serving == alphas[Here(t)]
  IN /\ c.at = "query" /\ c.run.op # "look"
     /\ CanReuse(c, serving, c.hash)
     /\ DescendTo(t, c, serving.block, TRUE)
     /\ UNCHANGED <<alphasfile, lockfile, alphas, runs, edits>>

\* A start may be asked for some of the leaf's services only (pickServices).
PickedBlock(c, b) == [b EXCEPT !.services.whole = c.level # c.run.leaf \/ ~c.run.picks]

\* resolveLevel of any other.  A clean passes a parent by, whether
\* anything runs there.
ResolveLevel(t) ==
  LET c == cmd[t]
  IN /\ c.at = "query" /\ c.run.op # "look"
     /\ ~CanReuse(c, alphas[Here(t)], c.hash)
     /\ \E b \in LevelBlocks(c.level, c.trees[c.level]) :
          IF c.run.op = "clean" /\ ~AtLeaf(t)
          THEN DescendTo(t, c, b, FALSE)
          ELSE /\ PutCommand(t, [c EXCEPT !.at = IF c.run.op = "start" THEN "pin" ELSE "lock",
                                          !.block = PickedBlock(c, b)])
               /\ UNCHANGED locked
     /\ UNCHANGED <<alphasfile, lockfile, alphas, runs, edits>>

\* pinLevel: the sources that follow a branch, at the commit the lock holds,
\* after the hash was computed.
PinLevel(t) ==
  LET c == cmd[t]
      l == c.level
      moves == lockfile[l].sources = Absent \/ (AtLeaf(t) /\ "srv" \in c.run.pull)
      pin == IF moves THEN "tip" ELSE lockfile[l].sources
  IN /\ c.at = "pin"
     /\ IF c.trees[l].text.git
        THEN /\ lockfile' = [lockfile EXCEPT ![l].sources = pin]
             /\ PutCommand(t, [c EXCEPT !.at = "stop", !.block.services.pin = pin])
        ELSE To(t, "stop") /\ UNCHANGED lockfile
     /\ UNCHANGED <<alphasfile, alphas, locked, runs, edits>>

\* reconcileAlpha: the old alpha first.
StopOld(t) ==
  /\ cmd[t].at = "stop"
  /\ alphas' = [alphas EXCEPT ![Here(t)] = Absent]
  /\ To(t, "configure")
  /\ UNCHANGED <<alphasfile, lockfile, locked, runs, edits>>

ConfigureAlpha(t) ==
  LET c == cmd[t]
  IN /\ c.at = "configure"
     /\ alphas' = [alphas EXCEPT ![Here(t)] = [hash |-> c.hash, block |-> c.block, parents |-> c.parents]]
     /\ DescendTo(t, c, c.block, TRUE)
     /\ UNCHANGED <<alphasfile, lockfile, runs, edits>>

\* cleanLeaf: a transient alpha, which is given the manifest and its hash.  A
\* stack that was up is refused (Fail) or waited for.
CleanLeaf(t) ==
  LET c == cmd[t]
  IN /\ c.at = "clean" /\ alphas[Here(t)] = Absent
     /\ alphas' = [alphas EXCEPT ![Here(t)] = [hash |-> c.hash, block |-> c.block, parents |-> c.parents]]
     /\ To(t, "cleaned")
     /\ UNCHANGED <<alphasfile, lockfile, locked, runs, edits>>

CleanEnds(t) ==
  /\ cmd[t].at = "cleaned"
  /\ alphas' = [alphas EXCEPT ![Here(t)] = Absent]
  /\ CommandEnds(t)
  /\ UNCHANGED <<alphasfile, lockfile, runs, edits>>

\* walkChain for status, get, sudo and stop: the running alpha if one answers,
\* else the level evaluated from its files, else (it cannot be) nothing.
Look(t) ==
  LET c == cmd[t]
      serving == alphas[Here(t)]
      skip == [c EXCEPT !.level = @ + 1]
  IN /\ c.at = "query" /\ c.run.op = "look"
     /\ \/ serving # Absent /\ DescendTo(t, c, serving.block, TRUE)
        \/ serving = Absent /\ \E b \in LevelBlocks(c.level, c.trees[c.level]) : DescendTo(t, c, b, FALSE)
        \/ serving = Absent /\ ~AtLeaf(t) /\ PutCommand(t, skip) /\ UNCHANGED locked
     /\ UNCHANGED <<alphasfile, lockfile, alphas, runs, edits>>

\* Any error, ^C or SIGKILL.
CommandFails(t) ==
  /\ cmd[t] # NoCommand
  /\ CommandEnds(t)
  /\ alphas' = IF cmd[t].at = "cleaned" THEN [alphas EXCEPT ![Here(t)] = Absent] ELSE alphas
  /\ UNCHANGED <<alphasfile, lockfile, runs, edits>>

------------------------------------------------------------------------------
(* The rest of the world.                                                   *)

Edit(l, n) ==
  /\ edits < MaxEdits /\ n # alphasfile[l]
  /\ alphasfile' = [alphasfile EXCEPT ![l] = n]
  /\ edits' = edits + 1
  /\ UNCHANGED <<lockfile, alphas, locked, cmd, runs>>

\* `zordon stop`, a failfast or a crash: nothing locks against it.
AlphaGone(s) ==
  /\ alphas[s] # Absent
  /\ alphas' = [alphas EXCEPT ![s] = Absent]
  /\ UNCHANGED <<alphasfile, lockfile, locked, cmd, runs, edits>>

Command(t) ==
  \/ \E r \in Runs : BeginRun(t, r)
  \/ Read(t) \/ Lock(t) \/ Pull(t) \/ HashLevel(t) \/ Reuse(t) \/ ResolveLevel(t) \/ PinLevel(t) \/ StopOld(t)
  \/ ConfigureAlpha(t) \/ CleanLeaf(t) \/ CleanEnds(t) \/ Look(t) \/ CommandFails(t)

LevelsNext ==
  \/ \E t \in Terminals : Command(t)
  \/ \E l \in Levels : \E n \in DOMAIN Texts[l] : Edit(l, n)
  \/ \E s \in Slots : AlphaGone(s)

LevelsSpec == LevelsInit /\ [][LevelsNext]_levelsVars

------------------------------------------------------------------------------
PassedLevels(t) == IF cmd[t] # NoCommand /\ cmd[t].run.op = "start" THEN 1 .. Len(cmd[t].parents) ELSE {}

\* A start stands on the chain it walked: until it is over, every alpha of a
\* level it passed was resolved against the services the alphas above serve,
\* whoever else starts, cleans, edits or stops (the zordon.locks it holds, and
\* the hash a parent is reused by).
ServicesCurrent ==
  \A t \in Terminals : \A l \in PassedLevels(t) : \A k \in 1 .. l - 1 :
    LET serving == alphas[<<l, "main">>]
        above == alphas[<<k, "main">>]
    IN serving # Absent /\ above # Absent => serving.parents[k].services = above.block.services

\* docs/dynamic-config.md: cfg::hash() covers the "parent context".  Of the
\* parents it covers the services alone.
OthersCurrent ==
  \A t \in Terminals : \A l \in PassedLevels(t) : \A k \in 1 .. l - 1 :
    LET serving == alphas[<<l, "main">>]
        above == alphas[<<k, "main">>]
    IN serving # Absent /\ above # Absent => serving.parents[k].others = above.block.others

\* A parent a start adopted runs all of its services, as one it starts does
\* (docs/federation.md: "a healthy alpha is already serving that Alphasfile").
ParentsWhole ==
  \A t \in Terminals : \A l \in PassedLevels(t) : cmd[t].parents[l].services.whole

\* docs/federation.md: `zordon sudo` "reads each *running* alpha's" steps.
SudoOnTheRunning ==
  \A t \in Terminals :
    cmd[t] # NoCommand /\ cmd[t].run.op = "look" => \A i \in DOMAIN cmd[t].live : cmd[t].live[i]
==============================================================================
