--------------------------- MODULE LifelineProofs ---------------------------
(***************************************************************************)
(* Proofs about Lifeline: a detector's verdict is sound, a stop is final,  *)
(* and the daemon names the reason it ends for; and about Groups: what     *)
(* alpha reports as over is over.                                          *)
(***************************************************************************)
EXTENDS Lifeline, Groups, TLAPS

\* What a stop that has gone so far has established.  An owner leaves only
\* after the answer, the answer only after the reader has been joined.
StopOrder ==
  /\ owner = "left" => handler = "answered"
  /\ handler \in {"released", "answered"} => stop = "over"
  /\ stop = "over" => reader \in {"absent", "over"}
  /\ reader = "absent" => stop \notin {"close", "join"}

\* A read that returned without a stop, and the verdict after it, is a death.
ReadSound ==
  /\ reader = "failed" => Flagged \/ owner = "died"
  /\ reader = "dying" => owner = "died"

\* The pipe leg: NoFalseEOF, strengthened.
PipeInv == TypeOK /\ StopOrder /\ ReadSound /\ NoFalseEOF

\* The flag is set before the context is cancelled, and the first cause stays.
CauseInv ==
  /\ TypeOK
  /\ forward = "cancel" \/ ticker = "cancel" \/ cause = "death" => tripped
  /\ verdict = "signal" => cause = "signal"

------------------------------------------------------------------------------
\* Every step of the owner, the body, the stop and the detectors keeps the
\* state well typed, and without a pipe there is no forwarding goroutine (arm).
LEMMA TypeStep == TypeOK /\ [Next]_vars => TypeOK'
<1> SUFFICES ASSUME TypeOK, [Next]_vars PROVE TypeOK'
  OBVIOUS
<1> USE DEF TypeOK, LegPc, daemon, legs
<1>1. CASE OwnerDies \/ OwnerLeaves \/ Signal
  BY <1>1 DEF OwnerDies, OwnerLeaves, Signal
<1>2. CASE Stopping
  BY <1>2 DEF Stopping, CloseDone, SetStopped, ClosePipe, JoinReader
<1>3. CASE Release \/ Answer \/ Return
  BY <1>3 DEF Release, Answer, Return
<1>4. CASE Koniec
  BY <1>4 DEF Koniec
<1>5. CASE ReadReturns \/ LoadStopped \/ CloseDied
  BY <1>5 DEF ReadReturns, LoadStopped, CloseDied
<1>6. CASE Forward
  BY <1>6 DEF Forward
<1>7. CASE Tick
  BY <1>7 DEF Tick
<1>8. CASE Fire
  BY <1>8 DEF Fire, Trip
<1>9. CASE Cancel
  BY <1>9 DEF Cancel
<1>10. CASE UNCHANGED vars
  BY <1>10 DEF vars
<1> QED
  BY <1>1, <1>2, <1>3, <1>4, <1>5, <1>6, <1>7, <1>8, <1>9, <1>10
  DEF Next, Body, Detect

\* The initial state is well typed (arm).
LEMMA TypeInit == Init => TypeOK
  BY DEF Init, TypeOK, LegPc

------------------------------------------------------------------------------
\* The armed lifeline satisfies the invariant of the pipe leg (arm).
LEMMA PipeInvInit == Init => PipeInv
  BY TypeInit DEF Init, PipeInv, StopOrder, ReadSound, NoFalseEOF

\* Every step preserves it: Stop sets the flag, closes, and joins, in this
\* order, and Release has returned before EventDone (Watcher.Stop, Watcher.run).
LEMMA PipeInvStep == PipeInv /\ [Next]_vars => PipeInv'
<1> SUFFICES ASSUME PipeInv, [Next]_vars PROVE (StopOrder /\ ReadSound /\ NoFalseEOF)'
  BY TypeStep DEF PipeInv
<1> USE DEF PipeInv, TypeOK, LegPc, StopOrder, ReadSound, NoFalseEOF, Flagged, daemon, legs
<1>1. CASE OwnerDies
  BY <1>1 DEF OwnerDies
<1>2. CASE OwnerLeaves
  BY <1>2 DEF OwnerLeaves
<1>3. CASE Signal
  BY <1>3 DEF Signal
<1>4. CASE Stopping
  <2>1. CASE CloseDone
    BY <2>1 DEF CloseDone
  <2>2. CASE SetStopped
    BY <2>2 DEF SetStopped
  <2>3. CASE ClosePipe
    BY <2>3 DEF ClosePipe
  <2>4. CASE JoinReader
    BY <2>4 DEF JoinReader
  <2> QED
    BY <1>4, <2>1, <2>2, <2>3, <2>4 DEF Stopping
<1>5. CASE Body
  <2>1. CASE Release
    BY <2>1 DEF Release
  <2>2. CASE Answer
    BY <2>2 DEF Answer
  <2>3. CASE Koniec
    BY <2>3 DEF Koniec
  <2>4. CASE Return
    BY <2>4 DEF Return
  <2> QED
    BY <1>5, <2>1, <2>2, <2>3, <2>4 DEF Body
<1>6. CASE Detect
  <2>1. CASE ReadReturns
    BY <2>1 DEF ReadReturns, Gone, PipeClosed
  <2>2. CASE LoadStopped
    BY <2>2 DEF LoadStopped
  <2>3. CASE CloseDied
    BY <2>3 DEF CloseDied
  <2>4. CASE Forward
    BY <2>4 DEF Forward
  <2>5. CASE Tick
    BY <2>5 DEF Tick
  <2>6. CASE Fire
    BY <2>6 DEF Fire
  <2>7. CASE Cancel
    BY <2>7 DEF Cancel
  <2> QED
    BY <1>6, <2>1, <2>2, <2>3, <2>4, <2>5, <2>6, <2>7 DEF Detect
<1>7. CASE UNCHANGED vars
  BY <1>7 DEF vars
<1> QED
  BY <1>1, <1>2, <1>3, <1>4, <1>5, <1>6, <1>7 DEF Next

\* The invariant of the pipe leg holds of the specification (Watcher).
LEMMA PipeInvAlways == Spec => []PipeInv
<1>1. Init => PipeInv
  BY PipeInvInit
<1>2. PipeInv /\ [Next]_vars => PipeInv'
  BY PipeInvStep
<1> QED
  BY <1>1, <1>2, PTL DEF Spec

\* The pipe never reports a death that Stop itself caused, nor the exit of an
\* owner that has been answered (Watcher.run, handleConfigure's commit).
THEOREM VerdictSound == Spec => []NoFalseEOF
<1>1. PipeInv => NoFalseEOF
  BY DEF PipeInv
<1> QED
  BY <1>1, PipeInvAlways, PTL

\* A stop that has returned is not followed by a verdict: the goroutine that
\* could give one has been joined (Watcher.Stop).
THEOREM StopIsFinal == Spec => StopSettles
<1>1. PipeInv /\ [Next]_vars => [stop = "over" => UNCHANGED died]_vars
  <2> SUFFICES ASSUME PipeInv, Next, stop = "over" PROVE UNCHANGED died
    OBVIOUS
  <2>1. ~CloseDied
    BY DEF PipeInv, StopOrder, CloseDied
  <2>2. CASE Detect
    BY <2>1, <2>2 DEF Detect, ReadReturns, LoadStopped, Forward, Tick, Fire, Cancel
  <2>3. CASE OwnerDies \/ OwnerLeaves \/ Signal
    BY <2>3 DEF OwnerDies, OwnerLeaves, Signal, legs
  <2>4. CASE Stopping
    BY <2>4 DEF Stopping, CloseDone, SetStopped, ClosePipe, JoinReader, legs
  <2>5. CASE Body
    BY <2>5 DEF Body, Release, Answer, Koniec, Return, legs
  <2>6. CASE UNCHANGED vars
    BY <2>6 DEF vars
  <2> QED
    BY <2>2, <2>3, <2>4, <2>5, <2>6 DEF Next
<1> QED
  BY <1>1, PipeInvAlways, PTL DEF Spec, StopSettles

------------------------------------------------------------------------------
\* Every step keeps the flag ahead of the context (fire), and a verdict of
\* "signal" to a context that a signal cancelled (serveAlpha).
LEMMA CauseInvStep == CauseInv /\ [Next]_vars => CauseInv'
<1> SUFFICES ASSUME CauseInv, [Next]_vars PROVE CauseInv'
  OBVIOUS
<1> USE TypeStep DEF CauseInv, TypeOK, LegPc, daemon, legs
<1>1. CASE OwnerDies \/ OwnerLeaves \/ Signal
  BY <1>1 DEF OwnerDies, OwnerLeaves, Signal
<1>2. CASE Stopping
  BY <1>2 DEF Stopping, CloseDone, SetStopped, ClosePipe, JoinReader
<1>3. CASE Release \/ Answer \/ Return
  BY <1>3 DEF Release, Answer, Return
<1>4. CASE Koniec
  BY <1>4 DEF Koniec
<1>5. CASE ReadReturns \/ LoadStopped \/ CloseDied
  BY <1>5 DEF ReadReturns, LoadStopped, CloseDied
<1>6. CASE Forward
  BY <1>6 DEF Forward
<1>7. CASE Tick
  BY <1>7 DEF Tick
<1>8. CASE Fire
  BY <1>8 DEF Fire, Trip
<1>9. CASE Cancel
  BY <1>9 DEF Cancel
<1>10. CASE UNCHANGED vars
  BY <1>10 DEF vars
<1> QED
  BY <1>1, <1>2, <1>3, <1>4, <1>5, <1>6, <1>7, <1>8, <1>9, <1>10
  DEF Next, Body, Detect

\* A daemon whose context the death of its owner cancelled never takes it for
\* a signal (serveAlpha's use of Fired).
THEOREM DeathNamed == Spec => []DeathIsNamed
<1>1. Init => CauseInv
  BY TypeInit DEF Init, CauseInv
<1>2. CauseInv /\ [Next]_vars => CauseInv'
  BY CauseInvStep
<1>3. CauseInv => DeathIsNamed
  BY DEF CauseInv, DeathIsNamed
<1> QED
  BY <1>1, <1>2, <1>3, PTL DEF Spec

------------------------------------------------------------------------------
\* The lifeline's state stays well typed (arm, Watcher, serveAlpha).
THEOREM LifelineTyped == Spec => []TypeOK
<1> QED
  BY TypeInit, TypeStep, PTL DEF Spec

------------------------------------------------------------------------------
(* Groups, for all thresholds of the probe.                                 *)

(* Only a service has a tommy. *)
Unwrapped == kind # "service" => tommy = "absent"

(* Nothing runs before alpha starts it, and no service before its tommy is
   up. *)
NotYet ==
  /\ alpha = "start" => service = "none" /\ tommy \in {"none", "absent"}
  /\ tommy \in {"none", "booting"} => service = "none"

(* tommy is the last to go, unless it is killed. *)
LastToGo == tommy = "gone" /\ "tommy" \notin killed => service # "alive"

(* alpha is done with a command that it could not start, or whose leader is
   gone, and neither comes back. *)
NeverStarted == service = "none" /\ tommy \in {"none", "absent"}
OverInv == alpha = "over" => LeaderGone \/ NeverStarted

LeaderInv == Unwrapped /\ NotYet /\ LastToGo /\ OverInv

USE DEF Unwrapped, NotYet, LastToGo, OverInv, NeverStarted, LeaderInv, LeaderGone

(* A signal to the group starts nothing and revives nobody. *)
LEMMA TermKeeps ==
  ASSUME LeaderInv, TermGroup
  PROVE  /\ service' = service
         /\ tommy' = tommy \/ (tommy = "booting" /\ tommy' = "gone")
  BY DEF TermGroup

LEMMA KillKeeps ==
  ASSUME LeaderInv, KillGroup
  PROVE  /\ service' # "alive"
         /\ service' = "none" <=> service = "none"
         /\ service = "gone" => service' = "gone"
         /\ tommy \in {"none", "absent"} => tommy' = tommy
         /\ tommy \notin {"none", "absent"} => tommy' = "gone"
  BY DEF KillGroup, Killed

LEMMA LeaderInit == GroupInit => LeaderInv
  BY DEF GroupInit

(* alpha's steps *)
LEMMA SuperviseKeeps ==
  ASSUME LeaderInv, Supervise
  PROVE  LeaderInv'
<1>1. CASE StartWrapped \/ StartBare \/ StartShell \/ StartStep \/ StartFails
  BY <1>1 DEF StartWrapped, StartBare, StartShell, StartStep, StartFails, members, world
<1>2. CASE Register \/ ReportsReady
  BY <1>2 DEF Register, ReportsReady, members, world
<1>3. CASE ReadinessFails \/ Stop
  BY <1>3, TermKeeps DEF ReadinessFails, Stop, world
<1>4. CASE ExitsByItself \/ Waited
  BY <1>4 DEF ExitsByItself, Waited, Over, members, world
<1>5. CASE GraceOver
  BY <1>5, KillKeeps DEF GraceOver, world
<1> QED
  BY <1>1, <1>2, <1>3, <1>4, <1>5 DEF Supervise

(* The probe touches no process. *)
LEMMA ProbeKeeps ==
  ASSUME LeaderInv, Probe \/ Sticks \/ LetsGo
  PROVE  LeaderInv'
<1>1. UNCHANGED <<kind, alpha, tommy, service, killed>>
  BY DEF Probe, Attempt, Cancelled, Succeeds, Fails, Sticks, LetsGo, Won, Missed, Probes, members, world
<1> QED
  BY <1>1

(* tommy's steps *)
LEMMA TommyKeeps ==
  ASSUME LeaderInv, Tommy
  PROVE  LeaderInv'
<1>1. CASE Boots \/ BootFails \/ Propagates \/ WindsDown \/ Reaped
  BY <1>1 DEF Boots, BootFails, Propagates, WindsDown, Reaped, Tommys, world
<1>2. CASE ReapKills
  BY <1>2, KillKeeps DEF ReapKills, Tommys, world
<1> QED
  BY <1>1, <1>2 DEF Tommy

(* The next alpha, the processes themselves, and whoever kills. *)
LEMMA WorldKeeps ==
  ASSUME LeaderInv, Happens
  PROVE  LeaderInv'
<1>1. CASE Sticks \/ LetsGo
  BY <1>1, ProbeKeeps
<1>2. CASE HeirReads \/ HeirDies
  BY <1>2 DEF HeirReads, HeirDies, Heir, members
<1>3. CASE HeirTerms
  BY <1>3, TermKeeps DEF HeirTerms, Heir
<1>4. CASE HeirKills
  BY <1>4, KillKeeps DEF HeirKills, Heir
<1>5. CASE Asked \/ ServiceExits \/ Forks \/ HelperExits
  BY <1>5 DEF Asked, ServiceExits, Forks, HelperExits, members, world
<1>6. CASE KillAlpha \/ KillTommy
  BY <1>6 DEF KillAlpha, KillTommy, members
<1> QED
  BY <1>1, <1>2, <1>3, <1>4, <1>5, <1>6 DEF Happens

LEMMA LeaderStep == LeaderInv /\ [GroupNext]_groupVars => LeaderInv'
<1> SUFFICES ASSUME LeaderInv, [GroupNext]_groupVars PROVE LeaderInv'
  OBVIOUS
<1>1. CASE UNCHANGED groupVars
  BY <1>1 DEF groupVars
<1> QED
  BY <1>1, SuperviseKeeps, ProbeKeeps, TommyKeeps, WorldKeeps DEF GroupNext

(* What alpha reports as over is over: bringupAndSupervise returns, and drops
   the registry row, when tommy has exited, and by then tommy's service has
   too, however the group's signals, alpha's grace, tommy's own and the exits
   of the processes cross, unless tommy is killed. *)
THEOREM LeaderIsRight == GroupSpec => []LeaderSpeaks
<1>1. LeaderInv => LeaderSpeaks
  BY DEF LeaderSpeaks
<1> QED
  BY <1>1, LeaderInit, LeaderStep, PTL DEF GroupSpec
===============================================================================
