-------------------------- MODULE FederationProofs --------------------------
(***************************************************************************)
(* Proofs about Federation, for every set of commands, chains, alphas and  *)
(* any number of crashes: the state is well typed, no alpha serves beside  *)
(* the services of another one, a command talks to the alpha it spawned,   *)
(* and a parent is stopped only for drift.                                 *)
(***************************************************************************)
EXTENDS Federation, TLAPS

\* From the moment it has the lock to its exit or death.
Holding == {"reap", "kill", "bind", "serving", "draining", "stopped"}

\* alpha.lock has one holder, and a holder is at its own workspace.
LockInv ==
  /\ \A a \in Alpha : apc[a] \in Holding => alock[Home[a]] = a
  /\ \A a \in Alpha, w \in Workspace : alock[w] = a => Home[a] = w /\ apc[a] \in Holding

\* A row names a group of its workspace; the holder that has dropped the rows
\* it found is the only one to write a new one.
RowInv ==
  /\ \A a \in Alpha, w \in Workspace : row[w] = a => Home[a] = w
  /\ \A a \in Alpha : apc[a] \in Holding \ {"reap"} => row[Home[a]] \in {Nobody, a}

PreyInv ==
  \A a, b \in Alpha :
    prey[a] = b => Home[b] = Home[a] /\ apc[a] \in {"kill", "crashed"}

\* A group that is alive and not lost has somebody who will end it: its alpha,
\* or whoever reads its row, or the reaper that has.
Owned(b) ==
  \/ apc[b] \in {"serving", "draining"}
  \/ apc[b] = "crashed" /\ row[Home[b]] = b
  \/ apc[b] = "crashed" /\ \E a \in Alpha : apc[a] = "kill" /\ prey[a] = b

GroupInv == \A b \in Alpha : group[b] = "alive" => b \in lost \/ Owned(b)

\* NoTwoGenerations, strengthened.
HostInv == TypeOK /\ LockInv /\ RowInv /\ PreyInv /\ GroupInv

------------------------------------------------------------------------------
\* A command is at a workspace, and wants a hash for it (runStart's loop).
LEMMA AtWorkspace ==
  ASSUME TypeOK, NEW z \in Zordon
  PROVE  /\ At(z) \in Workspace
         /\ Want[z][At(z)] \in Hashes
         /\ ~IsLeaf(z) => level[z] + 1 \in 1 .. Len(Chain[z])
<1>1. level[z] \in 1 .. Len(Chain[z])
  BY DEF TypeOK
<1>2. Chain[z] \in Seq(Workspace)
  BY FederationAssumption
<1> QED
  BY <1>1, <1>2 DEF At, IsLeaf, Hashes

\* The initial state is well typed (runStart, runClean, serveAlpha).
LEMMA TypeInit == Init => TypeOK
<1> SUFFICES ASSUME Init PROVE TypeOK
  OBVIOUS
<1>1. \A z \in Zordon : Len(Chain[z]) \in Nat /\ Len(Chain[z]) >= 1
  <2> SUFFICES ASSUME NEW z \in Zordon PROVE Len(Chain[z]) \in Nat /\ Len(Chain[z]) >= 1
    OBVIOUS
  <2>1. Chain[z] \in Seq(Workspace) /\ Chain[z] # <<>>
    BY FederationAssumption
  <2> QED
    BY <2>1
<1>2. \A z \in Zordon : level[z] \in 1 .. Len(Chain[z])
  BY <1>1 DEF Init
<1> QED
  BY <1>2, FederationAssumption DEF Init, TypeOK

\* Every step of a command keeps the state well typed (runStart, runClean).
LEMMA CommandTyped ==
  ASSUME TypeOK, NEW z \in Zordon, Command(z) \/ Fail(z) \/ ReadyTimeout(z)
  PROVE  TypeOK'
<1> USE DEF TypeOK
<1>1. At(z) \in Workspace /\ Want[z][At(z)] \in Hashes
  BY AtWorkspace
<1>2. ASSUME Advance(z)
      PROVE  /\ zpc' \in [Zordon -> {"lock", "query", "shutdown", "socket", "drain", "spawn",
                         "ready", "push", "stream", "finish", "leave", "done", "over"}]
             /\ level' \in [Zordon -> Nat]
             /\ \A y \in Zordon : level'[y] \in 1 .. Len(Chain[y])
             /\ zlock' \in [Workspace -> Zordon \cup {Nobody}]
  <2>1. CASE IsLeaf(z)
    BY <1>2, <2>1 DEF Advance, Exits, GoTo
  <2>2. CASE ~IsLeaf(z)
    <3>1. level[z] + 1 \in 1 .. Len(Chain[z])
      BY <2>2, AtWorkspace
    <3>2. \A y \in Zordon : level'[y] = IF y = z THEN level[z] + 1 ELSE level[y]
      BY <1>2, <2>2 DEF Advance
    <3>3. \A y \in Zordon : level'[y] \in 1 .. Len(Chain[y])
      BY <3>1, <3>2
    <3>4. level' \in [Zordon -> Nat]
      BY <1>2, <2>2 DEF Advance
    <3>5. zpc' = [zpc EXCEPT ![z] = "lock"] /\ zlock' = zlock
      BY <1>2, <2>2 DEF Advance, GoTo
    <3> QED
      BY <3>3, <3>4, <3>5
  <2> QED
    BY <2>1, <2>2
<1>3. CASE TakeLock(z)
  BY <1>1, <1>3 DEF TakeLock, GoTo, alphaVars, hostVars
<1>4. CASE Adopt(z)
  <2>1. sock[At(z)] \in Alpha \cup {Nobody}
    BY <1>1
  <2>2. adopted' \in [Zordon -> SUBSET Alpha]
    BY <1>4, <2>1 DEF Adopt, Answering, Reusable
  <2> QED
    BY <1>2, <1>4, <2>2 DEF Adopt, alphaVars, hostVars
<1>5. CASE Recompute(z)
  <2>1. sock[At(z)] \in Alpha \cup {Nobody}
    BY <1>1
  <2>2. old' \in [Zordon -> Alpha \cup {Nobody}]
    BY <1>5, <2>1 DEF Recompute, Answering
  <2> QED
    BY <1>5, <2>2 DEF Recompute, GoTo, alphaVars, hostVars
<1>6. CASE StopOld(z)
  BY <1>6 DEF StopOld, Tell, GoTo, hostVars
<1>7. CASE SocketGone(z) \/ Drained(z) \/ Ready(z)
  <2>1. CASE SocketGone(z)
    BY <2>1 DEF SocketGone, GoTo, alphaVars, hostVars
  <2>2. CASE Drained(z)
    BY <2>2 DEF Drained, GoTo, alphaVars, hostVars
  <2>3. CASE Ready(z)
    BY <2>3 DEF Ready, GoTo, alphaVars, hostVars
  <2> QED
    BY <1>7, <2>1, <2>2, <2>3
<1>8. CASE SpawnAlpha(z)
  BY <1>8 DEF SpawnAlpha, GoTo, hostVars
<1>9. CASE Push(z)
  <2>1. sock[At(z)] \in Alpha
    BY <1>1, <1>9 DEF Push
  <2> QED
    BY <1>1, <1>9, <2>1 DEF Push, GoTo, hostVars
<1>10. CASE Answered(z)
  <2>1. CASE Advance(z)
    BY <1>2, <1>10, <2>1 DEF Answered, alphaVars, hostVars
  <2>2. CASE GoTo(z, "finish") /\ UNCHANGED <<level, zlock>>
    BY <1>10, <2>2 DEF Answered, GoTo, alphaVars, hostVars
  <2> QED
    BY <1>10, <2>1, <2>2 DEF Answered
<1>11. CASE EndClean(z)
  BY <1>11 DEF EndClean, Tell, GoTo, hostVars
<1>12. CASE Leave(z) \/ Fail(z)
  BY <1>12 DEF Leave, Fail, Exits, GoTo, alphaVars, hostVars
<1>13. CASE ReadyTimeout(z)
  <2>1. apc' \in [Alpha -> {"unborn", "lock", "reap", "kill", "bind", "serving",
                           "draining", "stopped", "gone", "crashed"}]
    BY <1>13 DEF ReadyTimeout, Killed, AlphaAt
  <2>2. {alock', sock'} \subseteq [Workspace -> Alpha \cup {Nobody}] /\ lost' \in SUBSET Alpha
    BY <1>13 DEF ReadyTimeout, Killed, Free
  <2>3. /\ zpc' \in [Zordon -> {"lock", "query", "shutdown", "socket", "drain", "spawn",
                         "ready", "push", "stream", "finish", "leave", "done", "over"}]
        /\ zlock' \in [Workspace -> Zordon \cup {Nobody}]
    BY <1>13 DEF ReadyTimeout, Exits, GoTo
  <2> QED
    BY <1>13, <2>1, <2>2, <2>3 DEF ReadyTimeout
<1> QED
  BY <1>3, <1>4, <1>5, <1>6, <1>7, <1>8, <1>9, <1>10, <1>11, <1>12, <1>13 DEF Command

\* Every step of an alpha and of its tommies does (serveAlpha, ReapByFsHash).
LEMMA AlphaTyped ==
  ASSUME TypeOK, NEW a \in Alpha,
         Boot(a) \/ Serve(a) \/ Koniec(a) \/ Stop(a) \/ Crash(a) \/ TommyReaps(a)
  PROVE  TypeOK'
<1> USE FederationAssumption DEF TypeOK, zordonVars
<1>1. Home[a] \in Workspace
  OBVIOUS
<1>2. CASE LockAlpha(a) \/ LockAborts(a)
  <2>1. CASE LockAlpha(a)
    BY <1>1, <2>1 DEF LockAlpha, AlphaAt
  <2>2. CASE LockAborts(a)
    BY <2>2 DEF LockAborts, AlphaAt, hostVars
  <2> QED
    BY <1>2, <2>1, <2>2
<1>3. CASE DropRows(a)
  BY <1>1, <1>3 DEF DropRows, AlphaAt
<1>4. CASE KillOrphans(a)
  BY <1>4 DEF KillOrphans, AlphaAt
<1>5. CASE Bind(a)
  <2>1. apc' \in [Alpha -> {"unborn", "lock", "reap", "kill", "bind", "serving",
                           "draining", "stopped", "gone", "crashed"}]
    <3>1. apc' = [apc EXCEPT ![a] = "serving"] \/ apc' = [apc EXCEPT ![a] = "gone"]
      BY <1>5 DEF Bind, AlphaAt
    <3> QED
      BY <3>1
  <2>2. sock' \in [Workspace -> Alpha \cup {Nobody}]
    BY <1>1, <1>5 DEF Bind
  <2>3. alock' \in [Workspace -> Alpha \cup {Nobody}]
    BY <1>5 DEF Bind, Free
  <2> QED
    BY <1>5, <2>1, <2>2, <2>3 DEF Bind
<1>6. CASE SpawnServices(a)
  BY <1>6 DEF SpawnServices, WorkTo
<1>7. CASE Register(a)
  BY <1>1, <1>7 DEF Register, WorkTo
<1>8. CASE Commit(a)
  BY <1>8 DEF Commit, WorkTo, hostVars
<1>9. CASE Koniec(a)
  BY <1>9 DEF Koniec, hostVars
<1>10. CASE CloseListener(a)
  BY <1>10 DEF CloseListener, AlphaAt, Free
<1>11. CASE ShutdownAll(a)
  <2>1. apc' \in [Alpha -> {"unborn", "lock", "reap", "kill", "bind", "serving",
                           "draining", "stopped", "gone", "crashed"}]
    BY <1>11 DEF ShutdownAll, AlphaAt
  <2>2. row' \in [Workspace -> Alpha \cup {Nobody}]
    BY <1>11 DEF ShutdownAll, Free
  <2>3. group' \in [Alpha -> {"none", "alive", "dead"}]
    <3>1. group' = [group EXCEPT ![a] = "dead"] \/ group' = group
      BY <1>11 DEF ShutdownAll
    <3> QED
      BY <3>1
  <2> QED
    BY <1>11, <2>1, <2>2, <2>3 DEF ShutdownAll
<1>12. CASE Exit(a)
  BY <1>12 DEF Exit, AlphaAt, Free
<1>13. CASE Crash(a)
  BY <1>13 DEF Crash, Killed, AlphaAt, Free
<1>14. CASE TommyReaps(a)
  BY <1>14 DEF TommyReaps, alphaVars
<1> QED
  BY <1>2, <1>3, <1>4, <1>5, <1>6, <1>7, <1>8, <1>9, <1>10, <1>11, <1>12, <1>13, <1>14
  DEF Boot, Serve, Stop

\* So does every step of the system.
LEMMA TypeStep == TypeOK /\ [Next]_vars => TypeOK'
<1> SUFFICES ASSUME TypeOK, [Next]_vars PROVE TypeOK'
  OBVIOUS
<1>1. CASE UNCHANGED vars
  BY <1>1 DEF TypeOK, vars
<1> QED
  BY <1>1, CommandTyped, AlphaTyped DEF Next

------------------------------------------------------------------------------
\* HostInv holds of a host with no alpha (Init).
LEMMA HostInvInit == Init => HostInv
<1> SUFFICES ASSUME Init PROVE LockInv /\ RowInv /\ PreyInv /\ GroupInv
  BY TypeInit DEF HostInv
<1> QED
  BY FederationAssumption
  DEF Init, LockInv, RowInv, PreyInv, GroupInv, Holding

\* A step that moves no alpha, lock, row or group keeps it.
LEMMA HostInvKept ==
  ASSUME HostInv, UNCHANGED <<apc, alock, row, prey, group, lost>>
  PROVE  LockInv' /\ RowInv' /\ PreyInv' /\ GroupInv'
  BY DEF HostInv, LockInv, RowInv, PreyInv, GroupInv, Owned

\* Killing an alpha keeps it: what its row does not name, and what it had read
\* from a row and not yet killed, is lost (SIGKILL).
LEMMA KilledKeeps ==
  ASSUME HostInv, NEW a \in Alpha, Up(a), Killed(a), UNCHANGED <<row, prey, group>>
  PROVE  LockInv' /\ RowInv' /\ PreyInv' /\ GroupInv'
<1> USE FederationAssumption DEF HostInv, TypeOK, Holding, Killed, AlphaAt, Free
<1>1. LockInv'
  <2>1. ASSUME NEW c \in Alpha, apc'[c] \in Holding PROVE alock'[Home[c]] = c
    <3>1. c # a /\ apc[c] \in Holding
      BY <2>1
    <3>2. alock[Home[c]] = c
      BY <3>1 DEF LockInv
    <3>3. Home[c] \in Workspace
      BY FederationAssumption
    <3> QED
      BY <3>1, <3>2, <3>3
  <2>2. \A c \in Alpha, w \in Workspace : alock'[w] = c => c # a /\ alock[w] = c
    OBVIOUS
  <2> QED
    BY <2>1, <2>2 DEF LockInv
<1>2. RowInv'
  BY DEF RowInv
<1>3. PreyInv'
  BY DEF PreyInv
<1>4. GroupInv'
  <2> SUFFICES ASSUME NEW b \in Alpha, group'[b] = "alive", b \notin lost' PROVE Owned(b)'
    BY DEF GroupInv
  <2>1. group[b] = "alive" /\ b \notin lost /\ Owned(b) /\ b # prey[a]
    BY DEF GroupInv
  <2>2. CASE b = a
    BY <2>1, <2>2 DEF Owned
  <2>3. CASE b # a
    <3>1. apc'[b] = apc[b]
      BY <2>3
    <3>2. \A c \in Alpha : apc[c] = "kill" /\ prey[c] = b => apc'[c] = "kill" /\ prey'[c] = b
      BY <2>1
    <3> QED
      BY <2>1, <3>1, <3>2 DEF Owned
  <2> QED
    BY <2>2, <2>3
<1> QED
  BY <1>1, <1>2, <1>3, <1>4

\* The commands keep it: they start alphas and kill one that is not ready in
\* time, and leave locks, rows and groups to them (reconcileAlpha, spawnAlpha).
LEMMA CommandKeeps ==
  ASSUME HostInv, NEW z \in Zordon, Command(z) \/ Fail(z) \/ ReadyTimeout(z)
  PROVE  LockInv' /\ RowInv' /\ PreyInv' /\ GroupInv'
<1>1. CASE SpawnAlpha(z)
  <2> USE DEF HostInv, TypeOK, Holding, SpawnAlpha, hostVars
  <2>1. LockInv' /\ RowInv'
    BY <1>1 DEF LockInv, RowInv
  <2>2. PreyInv'
    BY <1>1 DEF PreyInv
  <2>3. GroupInv'
    BY <1>1 DEF GroupInv, Owned
  <2> QED
    BY <2>1, <2>2, <2>3
<1>2. CASE ReadyTimeout(z)
  <2>1. PICK a \in Alpha : Up(a) /\ Killed(a)
    BY <1>2 DEF ReadyTimeout
  <2> QED
    BY <1>2, <2>1, KilledKeeps DEF ReadyTimeout
<1>3. CASE TakeLock(z) \/ Adopt(z) \/ Recompute(z) \/ StopOld(z) \/ SocketGone(z) \/ Drained(z)
  BY <1>3, HostInvKept
  DEF TakeLock, Adopt, Recompute, StopOld, SocketGone, Drained, alphaVars, hostVars
<1>4. CASE Ready(z) \/ Push(z) \/ Answered(z) \/ EndClean(z) \/ Leave(z) \/ Fail(z)
  BY <1>4, HostInvKept
  DEF Ready, Push, Answered, EndClean, Leave, Fail, alphaVars, hostVars
<1> QED
  BY <1>1, <1>2, <1>3, <1>4 DEF Command

\* The alphas keep it: they own what they started, drop a row only to kill its
\* group, and touch rows under alpha.lock (serveAlpha, ReapByFsHash).
LEMMA AlphaKeeps ==
  ASSUME HostInv, NEW a \in Alpha,
         Boot(a) \/ Serve(a) \/ Koniec(a) \/ Stop(a) \/ Crash(a) \/ TommyReaps(a)
  PROVE  LockInv' /\ RowInv' /\ PreyInv' /\ GroupInv'
<1> USE FederationAssumption DEF HostInv, TypeOK, Holding
<1>1. CASE LockAlpha(a)
  <2>1. LockInv'
    BY <1>1 DEF LockAlpha, AlphaAt, LockInv
  <2>2. RowInv'
    BY <1>1 DEF LockAlpha, AlphaAt, RowInv, LockInv
  <2>3. PreyInv'
    BY <1>1 DEF LockAlpha, AlphaAt, PreyInv, RowInv
  <2>4. GroupInv'
    BY <1>1 DEF LockAlpha, AlphaAt, GroupInv, Owned, PreyInv, RowInv, LockInv
  <2> QED
    BY <2>1, <2>2, <2>3, <2>4
<1>2. CASE LockAborts(a)
  <2>1. LockInv'
    BY <1>2 DEF LockAborts, AlphaAt, hostVars, LockInv
  <2>2. RowInv'
    BY <1>2 DEF LockAborts, AlphaAt, hostVars, RowInv, LockInv
  <2>3. PreyInv'
    BY <1>2 DEF LockAborts, AlphaAt, hostVars, PreyInv, RowInv
  <2>4. GroupInv'
    BY <1>2 DEF LockAborts, AlphaAt, hostVars, GroupInv, Owned, PreyInv, RowInv, LockInv
  <2> QED
    BY <2>1, <2>2, <2>3, <2>4
<1>3. CASE DropRows(a)
  <2>1. LockInv'
    BY <1>3 DEF DropRows, AlphaAt, LockInv
  <2>2. RowInv'
    BY <1>3 DEF DropRows, AlphaAt, RowInv, LockInv
  <2>3. PreyInv'
    BY <1>3 DEF DropRows, AlphaAt, PreyInv, RowInv
  <2>4. GroupInv'
    BY <1>3 DEF DropRows, AlphaAt, GroupInv, Owned, PreyInv, RowInv, LockInv
  <2> QED
    BY <2>1, <2>2, <2>3, <2>4
<1>4. CASE KillOrphans(a)
  <2>1. LockInv'
    BY <1>4 DEF KillOrphans, AlphaAt, LockInv
  <2>2. RowInv'
    BY <1>4 DEF KillOrphans, AlphaAt, RowInv, LockInv
  <2>3. PreyInv'
    BY <1>4 DEF KillOrphans, AlphaAt, PreyInv, RowInv
  <2>4. GroupInv'
    BY <1>4 DEF KillOrphans, AlphaAt, GroupInv, Owned, PreyInv, RowInv, LockInv
  <2> QED
    BY <2>1, <2>2, <2>3, <2>4
<1>5. CASE Bind(a)
  <2>1. CASE sock[Home[a]] = Nobody
    <3>1. apc' = [apc EXCEPT ![a] = "serving"]
      BY <1>5, <2>1 DEF Bind, AlphaAt
    <3> QED
      BY <1>5, <2>1, <3>1 DEF Bind, LockInv, RowInv, PreyInv, GroupInv, Owned
  <2>2. CASE sock[Home[a]] # Nobody
    <3>1. apc' = [apc EXCEPT ![a] = "gone"] /\ alock' = Free(alock, a)
      BY <1>5, <2>2 DEF Bind, AlphaAt
    <3>2. LockInv'
      BY <3>1 DEF LockInv, Free
    <3>3. RowInv' /\ PreyInv' /\ GroupInv'
      BY <1>5, <3>1 DEF Bind, RowInv, PreyInv, GroupInv, Owned
    <3> QED
      BY <3>2, <3>3
  <2> QED
    BY <2>1, <2>2
<1>6. CASE SpawnServices(a)
  <2>1. LockInv'
    BY <1>6 DEF SpawnServices, WorkTo, LockInv
  <2>2. RowInv'
    BY <1>6 DEF SpawnServices, WorkTo, RowInv, LockInv
  <2>3. PreyInv'
    BY <1>6 DEF SpawnServices, WorkTo, PreyInv, RowInv
  <2>4. GroupInv'
    BY <1>6 DEF SpawnServices, WorkTo, GroupInv, Owned, PreyInv, RowInv, LockInv
  <2> QED
    BY <2>1, <2>2, <2>3, <2>4
<1>7. CASE Register(a)
  <2>1. CASE row' = row
    BY <1>7, <2>1, HostInvKept DEF Register
  <2>2. CASE row' = [row EXCEPT ![Home[a]] = a]
    <3>1. LockInv' /\ PreyInv'
      BY <1>7 DEF Register, LockInv, PreyInv
    <3>2. RowInv'
      BY <1>7, <2>2 DEF Register, WorkTo, RowInv, LockInv
    <3>3. \A b \in Alpha : apc[b] = "crashed" /\ row[Home[b]] = b => row'[Home[b]] = b
      BY <1>7, <2>2 DEF Register, WorkTo, RowInv
    <3>4. GroupInv'
      BY <1>7, <3>3 DEF Register, GroupInv, Owned
    <3> QED
      BY <3>1, <3>2, <3>4
  <2> QED
    BY <1>7, <2>1, <2>2 DEF Register
<1>8. CASE CloseListener(a)
  <2>1. LockInv'
    BY <1>8 DEF CloseListener, AlphaAt, LockInv
  <2>2. RowInv'
    BY <1>8 DEF CloseListener, AlphaAt, RowInv, LockInv
  <2>3. PreyInv'
    BY <1>8 DEF CloseListener, AlphaAt, PreyInv, RowInv
  <2>4. GroupInv'
    BY <1>8 DEF CloseListener, AlphaAt, GroupInv, Owned, PreyInv, RowInv, LockInv
  <2> QED
    BY <2>1, <2>2, <2>3, <2>4
<1>9. CASE ShutdownAll(a)
  <2>1. LockInv'
    BY <1>9 DEF ShutdownAll, AlphaAt, Free, LockInv
  <2>2. RowInv'
    BY <1>9 DEF ShutdownAll, AlphaAt, Free, RowInv, LockInv
  <2>3. PreyInv'
    BY <1>9 DEF ShutdownAll, AlphaAt, Free, PreyInv, RowInv
  <2>4. GroupInv'
    BY <1>9 DEF ShutdownAll, AlphaAt, Free, GroupInv, Owned, PreyInv, RowInv, LockInv
  <2> QED
    BY <2>1, <2>2, <2>3, <2>4
<1>10. CASE Exit(a)
  <2>1. LockInv'
    BY <1>10 DEF Exit, AlphaAt, Free, LockInv
  <2>2. RowInv'
    BY <1>10 DEF Exit, AlphaAt, Free, RowInv, LockInv
  <2>3. PreyInv'
    BY <1>10 DEF Exit, AlphaAt, Free, PreyInv, RowInv
  <2>4. GroupInv'
    BY <1>10 DEF Exit, AlphaAt, Free, GroupInv, Owned, PreyInv, RowInv, LockInv
  <2> QED
    BY <2>1, <2>2, <2>3, <2>4
<1>11. CASE TommyReaps(a)
  <2>1. LockInv'
    BY <1>11 DEF TommyReaps, alphaVars, LockInv
  <2>2. RowInv'
    BY <1>11 DEF TommyReaps, alphaVars, RowInv, LockInv
  <2>3. PreyInv'
    BY <1>11 DEF TommyReaps, alphaVars, PreyInv, RowInv
  <2>4. GroupInv'
    BY <1>11 DEF TommyReaps, alphaVars, GroupInv, Owned, PreyInv, RowInv, LockInv
  <2> QED
    BY <2>1, <2>2, <2>3, <2>4
<1>12. CASE Crash(a)
  BY <1>12, KilledKeeps DEF Crash
<1>13. CASE Commit(a) \/ Koniec(a)
  BY <1>13, HostInvKept DEF Commit, Koniec, hostVars
<1> QED
  BY <1>1, <1>2, <1>3, <1>4, <1>5, <1>6, <1>7, <1>8, <1>9, <1>10, <1>11, <1>12, <1>13
  DEF Boot, Serve, Stop

\* Every step of the system keeps the invariant.
LEMMA HostInvStep == HostInv /\ [Next]_vars => HostInv'
<1> SUFFICES ASSUME HostInv, [Next]_vars PROVE (LockInv /\ RowInv /\ PreyInv /\ GroupInv)'
  BY TypeStep DEF HostInv
<1>1. CASE UNCHANGED vars
  BY <1>1, HostInvKept DEF vars
<1> QED
  BY <1>1, CommandKeeps, AlphaKeeps DEF Next

\* An alpha serves only while it holds the lock, so that the owner of another
\* group of its workspace can be neither an alpha nor its reaper nor its row.
LEMMA OwnersApart == HostInv => NoTwoGenerations
<1> SUFFICES ASSUME HostInv, NEW a \in Alpha, NEW b \in Alpha, apc[a] = "serving", a # b,
                    Home[a] = Home[b], group[b] = "alive", b \notin lost
             PROVE  FALSE
  BY DEF NoTwoGenerations
<1> USE FederationAssumption DEF HostInv, TypeOK, Holding
<1>1. alock[Home[a]] = a /\ row[Home[a]] \in {Nobody, a}
  BY DEF LockInv, RowInv
<1>2. Owned(b)
  BY DEF GroupInv
<1>3. CASE apc[b] \in {"serving", "draining"}
  BY <1>1, <1>3 DEF LockInv
<1>4. CASE row[Home[b]] = b
  BY <1>1, <1>4
<1>5. CASE \E c \in Alpha : apc[c] = "kill" /\ prey[c] = b
  BY <1>1, <1>5 DEF LockInv, PreyInv
<1> QED
  BY <1>2, <1>3, <1>4, <1>5 DEF Owned

------------------------------------------------------------------------------
\* The listener of a serving alpha is on its socket, and it closes only once
\* the alpha has been told to stop.
SockInv ==
  /\ \A a \in Alpha : apc[a] = "serving" => sock[Home[a]] = a
  /\ \A a \in Alpha : apc[a] \in {"draining", "stopped"} => koniec[a]

\* Between the spawn and the answer a command's alpha is one of its level, and
\* a READY alpha serves until it is killed or told to stop.
Ended(a) == koniec[a] \/ apc[a] = "crashed"
Served(a) == apc[a] = "serving" \/ Ended(a)
OwnAlpha(z) ==
  /\ zpc[z] \in {"ready", "push", "stream"} => mine[z] \in Alpha /\ Home[mine[z]] = At(z)
  /\ zpc[z] = "push" => Served(mine[z])
  /\ zpc[z] = "stream" => peer[z] = mine[z] \/ Ended(mine[z])

\* ReachesItsOwn, strengthened.
OwnInv == TypeOK /\ SockInv /\ \A z \in Zordon : OwnAlpha(z)

\* What a command knows of its alpha outlives a step that keeps its place
\* (every step of somebody else).
LEMMA BystanderKept ==
  ASSUME OwnInv, NEW z \in Zordon,
         UNCHANGED <<zpc[z], level[z], mine[z], peer[z]>>,
         \A a \in Alpha : (Served(a) => Served(a)') /\ (Ended(a) => Ended(a)')
  PROVE  OwnAlpha(z)'
  BY DEF OwnInv, OwnAlpha, Ended, Served, At

\* OwnInv holds of a host with no alpha (Init).
LEMMA OwnInvInit == Init => OwnInv
<1> SUFFICES ASSUME Init PROVE SockInv /\ \A z \in Zordon : OwnAlpha(z)
  BY TypeInit DEF OwnInv
<1> QED
  BY DEF Init, SockInv, OwnAlpha

\* Every step of an alpha keeps it: it closes its listener only when told, and
\* none takes the socket of another (control.Listen, serveAlpha).
LEMMA AlphaKeepsOwn ==
  ASSUME OwnInv, NEW a \in Alpha,
         Boot(a) \/ Serve(a) \/ Koniec(a) \/ Stop(a) \/ Crash(a) \/ TommyReaps(a)
  PROVE  SockInv' /\ \A y \in Zordon : OwnAlpha(y)'
<1> USE FederationAssumption DEF OwnInv, TypeOK
<1>1. SockInv' /\ \A b \in Alpha : (Served(b) => Served(b)') /\ (Ended(b) => Ended(b)')
  <2> USE DEF SockInv, Served, Ended
  <2>1. CASE LockAlpha(a)
    BY <2>1 DEF LockAlpha, AlphaAt
  <2>2. CASE LockAborts(a)
    BY <2>2 DEF LockAborts, AlphaAt, hostVars
  <2>3. CASE DropRows(a)
    BY <2>3 DEF DropRows, AlphaAt
  <2>4. CASE KillOrphans(a)
    BY <2>4 DEF KillOrphans, AlphaAt
  <2>5. CASE Bind(a)
    BY <2>5 DEF Bind, AlphaAt
  <2>6. CASE SpawnServices(a) \/ Register(a) \/ Commit(a)
    BY <2>6 DEF SpawnServices, Register, Commit, hostVars
  <2>7. CASE Koniec(a)
    BY <2>7 DEF Koniec, hostVars
  <2>8. CASE CloseListener(a)
    BY <2>8 DEF CloseListener, AlphaAt, Free
  <2>9. CASE ShutdownAll(a)
    BY <2>9 DEF ShutdownAll, AlphaAt
  <2>10. CASE Exit(a)
    BY <2>10 DEF Exit, AlphaAt
  <2>11. CASE Crash(a)
    BY <2>11 DEF Crash, Killed, AlphaAt, Free
  <2>12. CASE TommyReaps(a)
    BY <2>12 DEF TommyReaps, alphaVars
  <2> QED
    BY <2>1, <2>2, <2>3, <2>4, <2>5, <2>6, <2>7, <2>8, <2>9, <2>10, <2>11, <2>12
    DEF Boot, Serve, Stop
<1>2. UNCHANGED zordonVars
  BY DEF Boot, Serve, Stop, LockAlpha, LockAborts, DropRows, KillOrphans, Bind, SpawnServices,
         Register, Commit, Koniec, CloseListener, ShutdownAll, Exit, Crash, TommyReaps
<1> QED
  BY <1>1, <1>2, BystanderKept DEF zordonVars

\* Every step of a command keeps it: READY comes from the alpha it spawned, and
\* the request follows while nobody else can have the socket (pushConfigure).
LEMMA CommandKeepsOwn ==
  ASSUME OwnInv, NEW z \in Zordon, Command(z) \/ Fail(z) \/ ReadyTimeout(z)
  PROVE  SockInv' /\ \A y \in Zordon : OwnAlpha(y)'
<1> USE FederationAssumption DEF OwnInv, TypeOK
<1>1. SockInv' /\ \A b \in Alpha : (Served(b) => Served(b)') /\ (Ended(b) => Ended(b)')
  <2> USE DEF SockInv, Served, Ended
  <2>1. CASE ReadyTimeout(z)
    <3>1. PICK a \in Alpha : Up(a) /\ Killed(a)
      BY <2>1 DEF ReadyTimeout
    <3> QED
      BY <2>1, <3>1 DEF ReadyTimeout, Killed, AlphaAt, Free
  <2>2. CASE SpawnAlpha(z)
    BY <2>2 DEF SpawnAlpha, hostVars
  <2>3. CASE StopOld(z) \/ EndClean(z)
    BY <2>3 DEF StopOld, EndClean, Tell, hostVars
  <2>4. CASE UNCHANGED <<apc, koniec, sock>>
    BY <2>4
  <2> QED
    BY <2>1, <2>2, <2>3, <2>4
    DEF Command, TakeLock, Adopt, Recompute, SocketGone, Drained, Ready, Push, Answered, Leave,
        Fail, alphaVars, hostVars
<1>2. \A y \in Zordon \ {z} : UNCHANGED <<zpc[y], level[y], mine[y], peer[y]>>
  <2>1. CASE Advance(z)
    BY <2>1
    DEF Command, TakeLock, Adopt, Recompute, StopOld, SocketGone, Drained, SpawnAlpha,
       Ready, Push, Answered, EndClean, Leave, Fail, ReadyTimeout, Advance, Exits, GoTo
  <2>2. CASE ~Advance(z)
    BY <2>2
    DEF Command, TakeLock, Adopt, Recompute, StopOld, SocketGone, Drained, SpawnAlpha,
       Ready, Push, Answered, EndClean, Leave, Fail, ReadyTimeout, Exits, GoTo
  <2> QED
    BY <2>1, <2>2
<1>3. OwnAlpha(z)'
  <2>1. CASE SpawnAlpha(z)
    BY <2>1 DEF SpawnAlpha, GoTo, At, OwnAlpha
  <2>2. CASE Ready(z)
    BY <2>2 DEF Ready, GoTo, At, OwnAlpha, SockInv, Served, Ended, alphaVars
  <2>3. CASE Push(z)
    BY <2>3 DEF Push, GoTo, At, OwnAlpha, SockInv, Served, Ended
  <2>4. CASE zpc'[z] \notin {"ready", "push", "stream"}
    BY <2>4 DEF OwnAlpha
  <2> QED
    BY <2>1, <2>2, <2>3, <2>4
    DEF Command, TakeLock, Adopt, Recompute, StopOld, SocketGone, Drained, Answered, EndClean,
        Leave, Fail, ReadyTimeout, Advance, Exits, GoTo
<1>4. ASSUME NEW y \in Zordon PROVE OwnAlpha(y)'
  <2>1. CASE y = z
    BY <1>3, <2>1
  <2>2. CASE y # z
    BY <1>1, <1>2, <2>2, BystanderKept
  <2> QED
    BY <2>1, <2>2
<1> QED
  BY <1>1, <1>4

\* Every step of the system keeps the invariant.
LEMMA OwnInvStep == OwnInv /\ [Next]_vars => OwnInv'
<1> SUFFICES ASSUME OwnInv, [Next]_vars PROVE (SockInv /\ \A z \in Zordon : OwnAlpha(z))'
  BY TypeStep DEF OwnInv
<1>1. CASE UNCHANGED vars
  BY <1>1 DEF vars, OwnInv, SockInv, OwnAlpha, Served, Ended, At
<1> QED
  BY <1>1, AlphaKeepsOwn, CommandKeepsOwn DEF Next

------------------------------------------------------------------------------
\* Whoever is on a socket serves that workspace; an alpha that has not served
\* has no hash.
ListenerInv ==
  /\ \A a \in Alpha, w \in Workspace : sock[w] = a => Home[a] = w /\ apc[a] = "serving"
  /\ \A a \in Alpha : apc[a] \in {"unborn", "lock", "reap", "kill", "bind"} => conf[a] = Nobody

\* A command holds the lock of its level; what listens there while it is about
\* to stop it has drifted.
Locked(z) ==
  \/ zpc[z] \in {"shutdown", "socket", "drain", "spawn", "ready", "push", "stream",
                 "finish", "leave"}
  \/ zpc[z] = "query" /\ z \notin Cleaner
Drifted(z) ==
  zpc[z] = "shutdown" /\ ~IsLeaf(z) /\ sock[At(z)] # Nobody => conf[sock[At(z)]] # Want[z][At(z)]

DriftInv ==
  /\ TypeOK /\ ListenerInv
  /\ \A z \in Zordon : (Locked(z) => zlock[At(z)] = z) /\ Drifted(z)

\* DriftInv holds of a host with no alpha (Init).
LEMMA DriftInvInit == Init => DriftInv
<1> SUFFICES ASSUME Init
             PROVE  ListenerInv /\ \A z \in Zordon : (Locked(z) => zlock[At(z)] = z) /\ Drifted(z)
  BY TypeInit DEF DriftInv
<1> QED
  BY FederationAssumption DEF Init, ListenerInv, Locked, Drifted

\* A command that is not moved keeps its lock, and its drift while the sockets
\* lose listeners or gain alphas nobody has configured.
LEMMA DriftKept ==
  ASSUME DriftInv, NEW z \in Zordon, UNCHANGED <<zpc[z], level[z]>>,
         \A w \in Workspace : zlock[w] = z => zlock'[w] = z,
         sock'[At(z)] # Nobody => \/ conf'[sock'[At(z)]] = Nobody
                                 \/ /\ sock'[At(z)] = sock[At(z)]
                                    /\ Locked(z) => conf'[sock[At(z)]] = conf[sock[At(z)]]
  PROVE  (Locked(z)' => zlock'[At(z)'] = z) /\ Drifted(z)'
<1>1. At(z)' = At(z) /\ (IsLeaf(z)' <=> IsLeaf(z)) /\ (Locked(z)' <=> Locked(z))
  BY DEF At, IsLeaf, Locked
<1>2. At(z) \in Workspace /\ Want[z][At(z)] # Nobody
  BY AtWorkspace, FederationAssumption DEF DriftInv
<1>3. Locked(z)' => zlock'[At(z)'] = z
  BY <1>1, <1>2 DEF DriftInv
<1>4. Drifted(z)'
  <2> SUFFICES ASSUME zpc[z] = "shutdown", ~IsLeaf(z), sock'[At(z)] # Nobody
               PROVE  conf'[sock'[At(z)]] # Want[z][At(z)]
    BY <1>1 DEF Drifted
  <2>1. Drifted(z) /\ Locked(z)
    BY DEF DriftInv, Locked
  <2> QED
    BY <1>2, <2>1 DEF Drifted
<1> QED
  BY <1>3, <1>4

\* Every step of an alpha keeps it (control.Listen, serveAlpha).
LEMMA AlphaKeepsDrift ==
  ASSUME DriftInv, NEW a \in Alpha,
         Boot(a) \/ Serve(a) \/ Koniec(a) \/ Stop(a) \/ Crash(a) \/ TommyReaps(a)
  PROVE  ListenerInv' /\ \A z \in Zordon : (Locked(z)' => zlock'[At(z)'] = z) /\ Drifted(z)'
<1> USE FederationAssumption DEF DriftInv, TypeOK
<1>1. /\ ListenerInv'
      /\ \A w \in Workspace : sock'[w] = Nobody \/ sock'[w] = sock[w] \/ conf[sock'[w]] = Nobody
  <2> USE DEF ListenerInv
  <2>1. CASE LockAlpha(a)
    BY <2>1 DEF LockAlpha, AlphaAt
  <2>2. CASE LockAborts(a)
    BY <2>2 DEF LockAborts, AlphaAt, hostVars
  <2>3. CASE DropRows(a)
    BY <2>3 DEF DropRows, AlphaAt
  <2>4. CASE KillOrphans(a)
    BY <2>4 DEF KillOrphans, AlphaAt
  <2>5. CASE Bind(a)
    BY <2>5 DEF Bind, AlphaAt
  <2>6. CASE SpawnServices(a) \/ Register(a) \/ Commit(a)
    BY <2>6 DEF SpawnServices, Register, Commit, hostVars
  <2>7. CASE Koniec(a)
    BY <2>7 DEF Koniec, hostVars
  <2>8. CASE CloseListener(a)
    BY <2>8 DEF CloseListener, AlphaAt, Free
  <2>9. CASE ShutdownAll(a)
    BY <2>9 DEF ShutdownAll, AlphaAt
  <2>10. CASE Exit(a)
    BY <2>10 DEF Exit, AlphaAt
  <2>11. CASE Crash(a)
    BY <2>11 DEF Crash, Killed, AlphaAt, Free
  <2>12. CASE TommyReaps(a)
    BY <2>12 DEF TommyReaps, alphaVars
  <2> QED
    BY <2>1, <2>2, <2>3, <2>4, <2>5, <2>6, <2>7, <2>8, <2>9, <2>10, <2>11, <2>12
    DEF Boot, Serve, Stop
<1>2. UNCHANGED <<zordonVars, conf>>
  BY DEF Boot, Serve, Stop, LockAlpha, LockAborts, DropRows, KillOrphans, Bind, SpawnServices,
         Register, Commit, Koniec, CloseListener, ShutdownAll, Exit, Crash, TommyReaps, alphaVars
<1>3. \A z \in Zordon : At(z) \in Workspace
  BY AtWorkspace
<1> QED
  BY <1>1, <1>2, <1>3, DriftKept DEF zordonVars

\* Every step of a command keeps it: only who holds the lock of a level
\* configures its alpha (TryLockZordon, resolveLevel).
LEMMA CommandKeepsDrift ==
  ASSUME DriftInv, NEW z \in Zordon, Command(z) \/ Fail(z) \/ ReadyTimeout(z)
  PROVE  ListenerInv' /\ \A y \in Zordon : (Locked(y)' => zlock'[At(y)'] = y) /\ Drifted(y)'
<1> USE FederationAssumption DEF DriftInv, TypeOK
<1>1. At(z) \in Workspace
  BY AtWorkspace
<1>2. /\ ListenerInv'
      /\ \A w \in Workspace : sock'[w] = Nobody \/ sock'[w] = sock[w]
  <2> USE DEF ListenerInv
  <2>1. CASE ReadyTimeout(z)
    <3>1. PICK a \in Alpha : Up(a) /\ Killed(a)
      BY <2>1 DEF ReadyTimeout
    <3> QED
      BY <2>1, <3>1 DEF ReadyTimeout, Killed, AlphaAt, Free
  <2>2. CASE SpawnAlpha(z)
    BY <2>2 DEF SpawnAlpha, hostVars
  <2>3. CASE Push(z)
    BY <1>1, <2>3 DEF Push, hostVars
  <2>4. CASE UNCHANGED <<apc, sock, conf>>
    BY <2>4
  <2> QED
    BY <2>1, <2>2, <2>3, <2>4
    DEF Command, TakeLock, Adopt, Recompute, StopOld, SocketGone, Drained, Ready, Answered,
        EndClean, Leave, Fail, alphaVars, hostVars
<1>3. ASSUME NEW y \in Zordon, y # z
      PROVE  UNCHANGED <<zpc[y], level[y]>> /\ \A w \in Workspace : zlock[w] = y => zlock'[w] = y
  <2>1. CASE Advance(z)
    BY <1>3, <2>1
    DEF Command, TakeLock, Adopt, Recompute, StopOld, SocketGone, Drained, SpawnAlpha,
       Ready, Push, Answered, EndClean, Leave, Fail, ReadyTimeout, Advance, Exits, GoTo
  <2>2. CASE ~Advance(z)
    BY <1>3, <2>2
    DEF Command, TakeLock, Adopt, Recompute, StopOld, SocketGone, Drained, SpawnAlpha,
       Ready, Push, Answered, EndClean, Leave, Fail, ReadyTimeout, Exits, GoTo
  <2> QED
    BY <2>1, <2>2
<1>4. ASSUME NEW y \in Zordon, y # z
      PROVE  (Locked(y)' => zlock'[At(y)'] = y) /\ Drifted(y)'
  <2>1. At(y) \in Workspace
    BY AtWorkspace
  <2>2. Locked(y) /\ sock[At(y)] # Nobody => conf'[sock[At(y)]] = conf[sock[At(y)]]
    <3>1. CASE Push(z)
      <4> SUFFICES ASSUME Locked(y), sock[At(y)] # Nobody PROVE sock[At(y)] # sock[At(z)]
        BY <1>1, <2>1, <3>1 DEF Push
      <4>1. zlock[At(z)] = z /\ zlock[At(y)] = y
        BY <3>1 DEF Push, Locked
      <4> QED
        BY <1>1, <1>4, <2>1, <4>1 DEF ListenerInv
    <3>2. CASE UNCHANGED conf
      BY <3>2
    <3> QED
      BY <3>1, <3>2
    DEF Command, TakeLock, Adopt, Recompute, StopOld, SocketGone, Drained, SpawnAlpha,
       Ready, Push, Answered, EndClean, Leave, Fail, ReadyTimeout, alphaVars
  <2>3. sock'[At(y)] = Nobody \/ sock'[At(y)] = sock[At(y)]
    BY <1>2, <2>1
  <2> QED
    BY <1>3, <1>4, <2>2, <2>3, DriftKept
<1>5. Locked(z)' => zlock'[At(z)'] = z
  <2>1. CASE TakeLock(z)
    BY <1>1, <2>1 DEF TakeLock, At
  <2>2. CASE Adopt(z) \/ (Answered(z) /\ Advance(z))
    BY <2>2 DEF Adopt, Advance, Exits, GoTo, Locked
  <2>3. CASE Recompute(z) \/ StopOld(z) \/ SocketGone(z) \/ Drained(z) \/ SpawnAlpha(z)
    BY <2>3 DEF Recompute, StopOld, SocketGone, Drained, SpawnAlpha, GoTo, Locked, At
  <2>4. CASE Ready(z) \/ Push(z) \/ EndClean(z) \/ (Answered(z) /\ ~Advance(z))
    BY <2>4 DEF Ready, Push, EndClean, Answered, GoTo, Locked, At
  <2>5. CASE Leave(z) \/ Fail(z) \/ ReadyTimeout(z)
    BY <2>5 DEF Leave, Fail, ReadyTimeout, Exits, GoTo, Locked
  <2> QED
    BY <2>1, <2>2, <2>3, <2>4, <2>5 DEF Command
<1>6. Drifted(z)'
  <2>1. CASE Recompute(z)
    BY <1>1, <2>1 DEF Recompute, Answering, Reusable, Drifted, GoTo, At, IsLeaf, alphaVars, hostVars
  <2>2. CASE zpc'[z] # "shutdown"
    BY <2>2 DEF Drifted
  <2> QED
    BY <2>1, <2>2
    DEF Command, TakeLock, Adopt, Recompute, StopOld, SocketGone, Drained, SpawnAlpha,
       Ready, Push, Answered, EndClean, Leave, Fail, ReadyTimeout, Advance, Exits, GoTo
<1> QED
  BY <1>2, <1>4, <1>5, <1>6

\* Every step of the system keeps the invariant.
LEMMA DriftInvStep == DriftInv /\ [Next]_vars => DriftInv'
<1> SUFFICES ASSUME DriftInv, [Next]_vars
             PROVE  /\ ListenerInv'
                    /\ \A z \in Zordon : (Locked(z)' => zlock'[At(z)'] = z) /\ Drifted(z)'
  BY TypeStep DEF DriftInv
<1>1. CASE UNCHANGED vars
  BY <1>1 DEF vars, DriftInv, ListenerInv, Locked, Drifted, At, IsLeaf
<1> QED
  BY <1>1, AlphaKeepsDrift, CommandKeepsDrift DEF Next

------------------------------------------------------------------------------
\* The state of a host stays well typed (every command and handler).
THEOREM FederationTyped == Spec => []TypeOK
<1>1. Init => TypeOK
  BY TypeInit
<1>2. TypeOK /\ [Next]_vars => TypeOK'
  BY TypeStep
<1> QED
  BY <1>1, <1>2, PTL DEF Spec

\* NoTwoGenerations for every host: alpha.lock, the order of the reaping before
\* Listen, and rows that outlive their alpha keep the generations apart
\* (serveAlpha, ReapByFsHash, shutdownAll).
THEOREM GenerationsApart == Spec => []NoTwoGenerations
<1>1. Init => HostInv
  BY HostInvInit
<1>2. HostInv /\ [Next]_vars => HostInv'
  BY HostInvStep
<1>3. HostInv => NoTwoGenerations
  BY OwnersApart
<1> QED
  BY <1>1, <1>2, <1>3, PTL DEF Spec

\* ReachesItsOwn for every host: READY on a pipe of its own, the socket a serving
\* alpha keeps, and its stop only when told (spawnAlpha, pushConfigure).
THEOREM OwnReached == Spec => []ReachesItsOwn
<1>1. Init => OwnInv
  BY OwnInvInit
<1>2. OwnInv /\ [Next]_vars => OwnInv'
  BY OwnInvStep
<1>3. OwnInv => ReachesItsOwn
  BY DEF OwnInv, OwnAlpha, Ended, ReachesItsOwn
<1> QED
  BY <1>1, <1>2, <1>3, PTL DEF Spec

\* ParentsKept for every host: what the lock guards between resolveLevel's reading
\* and reconcileAlpha's OpShutdown is who can be configured there.
THEOREM ParentsStay == Spec => ParentsKept
<1>1. Init => DriftInv
  BY DriftInvInit
<1>2. DriftInv /\ [Next]_vars => DriftInv'
  BY DriftInvStep
<1>3. DriftInv => [\A z \in Zordon :
        zpc[z] = "shutdown" /\ zpc'[z] = "socket" /\ ~IsLeaf(z) /\ sock[At(z)] # Nobody
          => conf[sock[At(z)]] # Want[z][At(z)]]_vars
  BY DEF DriftInv, Drifted
<1> QED
  BY <1>1, <1>2, <1>3, PTL DEF Spec, ParentsKept
==============================================================================
