-------------------------------- MODULE Groups --------------------------------
(***************************************************************************)
(* One command that alpha runs in a process group of its own, and whoever  *)
(* watches and ends that group: alpha's goroutine (bringupAndSupervise     *)
(* from its cmd.Start on, runShell, newPrepareRunner of cmd/alpha/main.go) *)
(* with the readiness probe (internal/probe), tommy, which leads the group *)
(* of a service (cmd/tommy, internal/daemon), and the next alpha's         *)
(* registry.ReapByFsHash.                                                  *)
(*                                                                         *)
(* SIGTERM asks and SIGKILL ends: a process may go at any time of its own, *)
(* and nothing but a SIGKILL makes it.  The grace and the period of the    *)
(* probe are timers that may expire at any time.                           *)
(***************************************************************************)
EXTENDS Naturals

CONSTANTS
  Successes,  \* success_threshold
  Failures    \* failure_threshold

VARIABLES
  kind,     \* "service", or a "shell" (a provision's snippet) or a "step" of a build
  alpha,    \* where its goroutine is, or "dead" when alpha was killed
  probe,    \* the readiness probe, and how many attempts went well and ill in a row
  stopped,  \* the entity is stopped: its stopCh, alpha's shutdownCh, its context
  tommy,    \* "absent" where the command runs unwrapped
  told,     \* tommy caught a signal
  service,  \* the command itself
  helper,   \* a process it forked
  row,      \* the registry's row for the group
  heir,     \* the next alpha's reaper
  killed    \* who was killed, of "alpha" and "tommy"

groupVars == <<kind, alpha, probe, stopped, tommy, told, service, helper, row, heir, killed>>

members == <<tommy, told, service, helper>>
world == <<kind, stopped, heir, killed>>

GroupInit ==
  /\ kind \in {"service", "shell", "step"}
  /\ probe \in {[kind |-> k, at |-> "off", wins |-> 0, fails |-> 0] :
                  k \in IF kind = "service" THEN {"none", "net", "exec"} ELSE {"none"}}
  /\ tommy \in IF kind = "service" THEN {"none", "absent"} ELSE {"absent"}
  /\ alpha = "start" /\ stopped = FALSE /\ told = FALSE
  /\ service = "none" /\ helper = "none"
  /\ row = FALSE /\ heir = "none" /\ killed = {}

(* alpha waits for the process it started, which leads the group. *)
LeaderGone == IF tommy = "absent" THEN service = "gone" ELSE tommy = "gone"

(* kill(-pgid): tommy catches what asks it to end, once it is up. *)
TermGroup ==
  /\ told' = (told \/ tommy \in {"waiting", "winding"})
  /\ tommy' = IF tommy = "booting" THEN "gone" ELSE tommy
  /\ UNCHANGED <<service, helper>>
Killed(p) == IF p \in {"none", "absent"} THEN p ELSE "gone"
KillGroup ==
  /\ tommy' = Killed(tommy) /\ service' = Killed(service) /\ helper' = Killed(helper)
  /\ UNCHANGED told

-----------------------------------------------------------------------------
(* alpha's goroutine *)

StartWrapped ==
  /\ alpha = "start" /\ kind = "service" /\ tommy = "none"
  /\ alpha' = "register" /\ tommy' = "booting"
  /\ UNCHANGED <<probe, told, service, helper, row, world>>

StartBare ==
  /\ alpha = "start" /\ kind = "service" /\ tommy = "absent"
  /\ alpha' = "register" /\ service' = "alive"
  /\ UNCHANGED <<probe, tommy, told, helper, row, world>>

(* A snippet and a step have no row, no probe and no tommy. *)
StartShell ==
  /\ alpha = "start" /\ kind = "shell"
  /\ alpha' = "up" /\ service' = "alive"
  /\ UNCHANGED <<probe, tommy, told, helper, row, world>>
StartStep ==
  /\ alpha = "start" /\ kind = "step"
  /\ alpha' = "up" /\ service' = "alive"
  /\ UNCHANGED <<probe, tommy, told, helper, row, world>>

StartFails ==
  /\ alpha = "start"
  /\ alpha' = "over"
  /\ UNCHANGED <<probe, members, row, world>>

(* The row may fail to be written; the service goes on without. *)
Register ==
  /\ alpha = "register"
  /\ alpha' = "race" /\ probe' = [probe EXCEPT !.at = "pause"]
  /\ row' \in BOOLEAN
  /\ UNCHANGED <<members, world>>

(* The deferred clean-up, of which the row's removal may fail. *)
Over ==
  /\ alpha' = "over"
  /\ row' \in {FALSE, row}
  /\ UNCHANGED <<probe, world>>

ReportsReady ==
  /\ alpha = "race" /\ probe.at = "passed"
  /\ alpha' = "up"
  /\ UNCHANGED <<probe, members, row, world>>
ReadinessFails ==
  /\ alpha = "race" /\ probe.at \in {"failed", "cancelled"}
  /\ alpha' = "term" /\ TermGroup
  /\ UNCHANGED <<probe, row, world>>
ExitsByItself ==
  /\ alpha \in {"race", "up"} /\ LeaderGone
  /\ Over /\ UNCHANGED members

(* SIGTERM to the group, the grace, SIGKILL. *)
Stop ==
  /\ alpha = "up" /\ stopped
  /\ alpha' = "term" /\ TermGroup
  /\ UNCHANGED <<probe, row, world>>
(* Mutant: a second SIGTERM when the grace is over. *)
AskAgain ==
  /\ alpha = "term"
  /\ alpha' = "kill" /\ TermGroup
  /\ UNCHANGED <<probe, row, world>>
GraceOver ==
  /\ alpha = "term"
  /\ alpha' = "kill" /\ KillGroup
  /\ UNCHANGED <<probe, row, world>>
Waited ==
  /\ alpha \in {"term", "kill"} /\ LeaderGone
  /\ Over /\ UNCHANGED members

-----------------------------------------------------------------------------
(* probe.Wait in a goroutine of its own; without a probe, a timer. *)

Probing(at) == alpha \notin {"start", "over", "dead"} /\ probe.at = at
Probes(p) == probe' = p /\ UNCHANGED <<alpha, members, row, world>>

(* The initial delay, or the period, is over; an attempt under a cancelled
   context can only fail. *)
Attempt ==
  /\ Probing("pause")
  /\ Probes([probe EXCEPT !.at = IF probe.kind = "none" THEN "passed" ELSE IF stopped THEN "doomed" ELSE "try"])
Cancelled ==
  /\ Probing("pause") /\ stopped
  /\ Probes([probe EXCEPT !.at = "cancelled"])
Won == Probes([probe EXCEPT !.at = IF probe.wins + 1 >= Successes THEN "passed" ELSE "pause",
                            !.wins = @ + 1, !.fails = 0])
Succeeds == Probing("try") /\ Won
Missed == Probes([probe EXCEPT !.at = IF probe.fails + 1 >= Failures THEN "failed" ELSE "pause",
                               !.fails = @ + 1, !.wins = 0])
Fails == (Probing("try") \/ Probing("doomed")) /\ Missed

(* CombinedOutput of an exec probe returns when its output is closed: the
   timeout kills the command, not what the command left behind.  When that
   lets go the attempt has failed, unless the command had ended well and its
   context was cancelled before the timeout. *)
Sticks ==
  /\ Probing("try") /\ probe.kind = "exec"
  /\ Probes([probe EXCEPT !.at = "stuck"])
LetsGo == Probing("stuck") /\ (Missed \/ (stopped /\ Won))

-----------------------------------------------------------------------------
(* tommy *)

Tommys == UNCHANGED <<alpha, probe, row, world>>

(* Its signals are caught and its lifeline is armed before it starts the
   service. *)
Boots ==
  /\ tommy = "booting"
  /\ tommy' = "waiting" /\ service' = "alive"
  /\ UNCHANGED <<told, helper>> /\ Tommys
BootFails ==
  /\ tommy = "booting"
  /\ tommy' = "gone"
  /\ UNCHANGED <<told, service, helper>> /\ Tommys
Propagates ==
  /\ tommy = "waiting" /\ service = "gone"
  /\ tommy' = "gone"
  /\ UNCHANGED <<told, service, helper>> /\ Tommys

(* Mutant: tommy has no pipe and no parent to watch. *)
Signalled == told
(* The end of its context: a signal, or alpha's death. *)
ContextOver == told \/ alpha = "dead"
WindsDown ==
  /\ tommy = "waiting" /\ ContextOver
  /\ tommy' = "winding" /\ told' = TRUE
  /\ UNCHANGED <<service, helper>> /\ Tommys

(* ReapGroup *)
(* Mutant: tommy leaves as soon as the group got its SIGTERM. *)
ReapedAtOnce ==
  /\ tommy = "winding"
  /\ tommy' = "gone"
  /\ UNCHANGED <<told, service, helper>> /\ Tommys
Reaped ==
  /\ tommy = "winding" /\ service = "gone"
  /\ tommy' = "gone"
  /\ UNCHANGED <<told, service, helper>> /\ Tommys
ReapKills ==
  /\ tommy = "winding"
  /\ KillGroup /\ Tommys

-----------------------------------------------------------------------------
(* ReapByFsHash of the next alpha: the rows go first. *)

Heir == UNCHANGED <<alpha, probe, kind, stopped, killed>>
GroupAlive == service = "alive" \/ helper = "alive" \/ tommy \in {"booting", "waiting", "winding"}
HeirReads ==
  /\ alpha \in {"over", "dead"} /\ kind = "service" /\ heir = "none"
  /\ heir' = IF row THEN "found" ELSE "done"
  /\ row' = FALSE
  /\ Heir /\ UNCHANGED members
HeirTerms ==
  /\ heir = "found"
  /\ heir' = IF GroupAlive THEN "grace" ELSE "done"
  /\ TermGroup
  /\ Heir /\ UNCHANGED row
HeirKills ==
  /\ heir = "grace"
  /\ heir' = "done"
  /\ KillGroup
  /\ Heir /\ UNCHANGED row
HeirDies ==
  /\ heir \in {"found", "grace"}
  /\ heir' = "done"
  /\ Heir /\ UNCHANGED <<members, row>>

-----------------------------------------------------------------------------
(* The rest of the world. *)

Asked ==
  /\ ~stopped /\ stopped' = TRUE
  /\ UNCHANGED <<kind, alpha, probe, members, row, heir, killed>>
ServiceExits ==
  /\ service = "alive" /\ service' = "gone"
  /\ UNCHANGED <<alpha, probe, tommy, told, helper, row, world>>
Forks ==
  /\ service = "alive" /\ helper = "none" /\ helper' = "alive"
  /\ UNCHANGED <<alpha, probe, tommy, told, service, row, world>>
HelperExits ==
  /\ helper = "alive" /\ helper' = "gone"
  /\ UNCHANGED <<alpha, probe, tommy, told, service, row, world>>
KillAlpha ==
  /\ alpha # "dead"
  /\ alpha' = "dead" /\ killed' = killed \cup {"alpha"}
  /\ UNCHANGED <<kind, probe, stopped, members, row, heir>>
KillTommy ==
  /\ tommy \in {"booting", "waiting", "winding"}
  /\ tommy' = "gone" /\ killed' = killed \cup {"tommy"}
  /\ UNCHANGED <<kind, alpha, probe, stopped, told, service, helper, row, heir>>

Supervise ==
  \/ StartWrapped \/ StartBare \/ StartShell \/ StartStep \/ StartFails \/ Register
  \/ ReportsReady \/ ReadinessFails \/ ExitsByItself \/ Stop \/ GraceOver \/ Waited
Probe == Attempt \/ Cancelled \/ Succeeds \/ Fails
Tommy == Boots \/ BootFails \/ Propagates \/ WindsDown \/ Reaped \/ ReapKills
Happens ==
  \/ Sticks \/ LetsGo \/ HeirReads \/ HeirTerms \/ HeirKills \/ HeirDies
  \/ Asked \/ ServiceExits \/ Forks \/ HelperExits \/ KillAlpha \/ KillTommy

GroupNext == Supervise \/ Probe \/ Tommy \/ Happens
GroupSpec == GroupInit /\ [][GroupNext]_groupVars

(* The goroutines of alpha and tommy run and their timers expire; nothing is
   asked of the processes they watch. *)
GroupFairness == WF_groupVars(Supervise) /\ WF_groupVars(Probe) /\ WF_groupVars(Tommy)
GroupFairSpec == GroupSpec /\ GroupFairness

-----------------------------------------------------------------------------
(* Properties *)

(* What alpha reports as over is over: it sees tommy alone, and tommy ends
   only after its service, however signals, exits and deaths cross, unless
   tommy itself is killed. *)
LeaderSpeaks == alpha = "over" /\ "tommy" \notin killed => service # "alive"

(* tommy's job: when alpha was killed, whatever it was about to do, the
   service ends, and no next alpha is needed for it. *)
DeadAlphaReaped ==
  alpha = "dead" /\ tommy # "absent" ~> service # "alive" \/ "tommy" \in killed

(* A stop ends the command, whatever it does with SIGTERM and wherever its
   bringup was, but for a probe whose output stays open for ever. *)
StopEnds == stopped ~> alpha \in {"over", "dead"} \/ [](probe.at = "stuck")

(* alphasfile.md:591 gives every probe a timeout; a stop ends any command. *)
StopAlwaysEnds == stopped ~> alpha \in {"over", "dead"}

(* tommy/main.go:21: when tommy is SIGKILLed, the service is still in the
   registry-tracked group, so the next boot's reaper covers it. *)
StillTracked ==
  [][row /\ alpha # "over" /\ alpha' = "over" /\ service = "alive" => row']_groupVars

(* reap.go:10, main.go:242: the group is ended, the service plus what it
   forked. *)
GroupGoes == alpha = "over" => helper # "alive"
=============================================================================
