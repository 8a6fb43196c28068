------------------------------- MODULE Sources -------------------------------
(***************************************************************************)
(* Where a service's code comes from: the primary repository, and what     *)
(* stands at a workspace's checkout: a worktree of the primary when the    *)
(* service is picked there, a detached clone when it is not.               *)
(* internal/source/source.go as prepareWorkspace of cmd/alpha/main.go and  *)
(* cmd/zordon/workspace.go use it.                                         *)
(*                                                                         *)
(* Every git command is a step of its own: the process may be killed, or   *)
(* its context cancelled, after each.                                      *)
(***************************************************************************)
EXTENDS Naturals, FiniteSets

CONSTANTS
  Workspaces,  \* each prepares the service at a checkout of its own
  Refs,        \* the refs a clone may be asked for
  OwnBranch,   \* OwnBranch[w]: zordon/<ws>/<svc>
  Other,       \* what a tree is on when it is on no branch of zordon's
  None,
  MaxKills,    \* bound: processes killed
  MaxActs      \* bound: what people do to the trees

(* No ref, and no verdict of inspectDest or Clone, is the absence of one. *)
SourcesAssumption == None \notin Refs \cup {"canonical", "foreign", "empty", "interrupted", "cloned"}

VARIABLES
  primary,     \* the bare clone: "absent", "shallow", "begun", "whole"
  tree,        \* tree[w]: what stands at w's checkout
  registered,  \* registered[w]: the primary's record of a worktree there
  elsewhere,   \* the branches checked out in some other directory
  job,         \* job[w]: what the process preparing w is about to run
  kills, acts

sourceVars == <<primary, tree, registered, elsewhere, job, kills, acts>>

(* A tree: of the primary or not, on a branch or at a ref, with its files
   there or not, with Clone's sentinel or not, with somebody's work or not. *)
Nothing == [kind |-> "nothing", on |-> None, files |-> FALSE, sentinel |-> None, work |-> FALSE]
NoJob == [at |-> "idle", ref |-> None, found |-> None]

SourcesInit ==
  /\ primary \in {"absent", "shallow", "whole"}
  /\ tree = [w \in Workspaces |-> Nothing]
  /\ registered = [w \in Workspaces |-> "no"]
  /\ elsewhere = {}
  /\ job = [w \in Workspaces |-> NoJob]
  /\ kills = 0 /\ acts = 0

AtStep(w, step) == job[w].at = step
GoOn(w, step) == job' = [job EXCEPT ![w].at = step]
JobEnds(w, outcome) == GoOn(w, outcome)
Grows(w, t) == tree' = [tree EXCEPT ![w] = t]
Records(w, r) == registered' = [registered EXCEPT ![w] = r]

People == UNCHANGED <<kills, acts>>
OnlyJob == UNCHANGED <<primary, tree, registered, elsewhere>> /\ People

(* prepareWorkspace: an Editable service gets a worktree, any other a clone
   at the commit the lock holds, or its ref. *)
PrepareWorktree(w) ==
  /\ AtStep(w, "idle")
  /\ GoOn(w, "ensure")
  /\ OnlyJob

PrepareClone(w) ==
  /\ AtStep(w, "idle")
  /\ \E r \in Refs : job' = [job EXCEPT ![w] = [@ EXCEPT !.at = "compare", !.ref = r]]
  /\ OnlyJob

-----------------------------------------------------------------------------
(* Ensure.  Nothing serializes the processes of two workspaces here. *)

(* A bare of an older zordon is wiped, and with it every registration. *)
WipeShallow(w) ==
  /\ AtStep(w, "ensure") /\ primary = "shallow"
  /\ primary' = "absent"
  /\ registered' = [v \in Workspaces |-> "no"]
  /\ elsewhere' = {}
  /\ UNCHANGED <<tree, job>> /\ People

CloneBegins(w) ==
  /\ AtStep(w, "ensure") /\ primary = "absent"
  /\ primary' = "begun" /\ GoOn(w, "clone")
  /\ UNCHANGED <<tree, registered, elsewhere>> /\ People

CloneFinishes(w) ==
  /\ AtStep(w, "clone")
  /\ primary' = "whole" /\ GoOn(w, "inspect")
  /\ UNCHANGED <<tree, registered, elsewhere>> /\ People

(* A fetch into a bare another clone has begun, or left, may fail. *)
Fetch(w) ==
  /\ AtStep(w, "ensure") /\ primary \in {"begun", "whole"}
  /\ primary' = "whole" /\ GoOn(w, "inspect")
  /\ UNCHANGED <<tree, registered, elsewhere>> /\ People

GitFails(w) ==
  /\ job[w].at \in {"ensure", "clone", "add", "checkout", "unlock", "cloning", "detach"}
  /\ JobEnds(w, "failed")
  /\ OnlyJob

-----------------------------------------------------------------------------
(* AddWorktree *)

(* inspectDest: the admin dir a tree's .git leads to must be the primary's. *)
Empty(w) == tree[w].kind = "nothing"
Owned(w) == tree[w].kind = "worktree" /\ registered[w] # "no"
Canonical(w) == Owned(w) /\ registered[w] = "unlocked" /\ tree[w].on = OwnBranch[w]
Interrupted(w) == Owned(w) /\ registered[w] = "locked"
(* Mutant: whatever is not canonical is rebuilt. *)
Rebuilt(w) == ~Canonical(w)
Rebuild(w) == Empty(w) \/ Interrupted(w)

ReuseWorktree(w) ==
  /\ AtStep(w, "inspect")
  /\ Canonical(w)
  /\ job' = [job EXCEPT ![w].at = "done", ![w].found = "canonical"]
  /\ OnlyJob

RespectForeign(w) ==
  /\ AtStep(w, "inspect")
  /\ ~Canonical(w) /\ ~Rebuild(w)
  /\ job' = [job EXCEPT ![w].at = "done", ![w].found = "foreign"]
  /\ OnlyJob

(* The branch is registered here, elsewhere or nowhere. *)
InspectEmpty(w) ==
  /\ AtStep(w, "inspect")
  /\ Rebuild(w)
  /\ job' = [job EXCEPT ![w].found = IF Interrupted(w) THEN "interrupted" ELSE "empty",
                        ![w].at = IF registered[w] # "no" THEN "reclaim"
                                  ELSE IF OwnBranch[w] \in elsewhere THEN "prune" ELSE "add"]
  /\ OnlyJob

ReclaimUnlock(w) ==
  /\ AtStep(w, "reclaim")
  /\ Records(w, "unlocked") /\ GoOn(w, "remove")
  /\ UNCHANGED <<primary, tree, elsewhere>> /\ People

(* worktree remove --force of a tree that is gone fails; prune follows. *)
ReclaimRemove(w) ==
  /\ AtStep(w, "remove")
  /\ IF tree[w].kind = "worktree" THEN Grows(w, Nothing) /\ Records(w, "no")
     ELSE UNCHANGED <<tree, registered>>
  /\ GoOn(w, "prune")
  /\ UNCHANGED <<primary, elsewhere>> /\ People

(* prune drops what is unlocked and gone; what is left is a live worktree. *)
Pruned(gone) ==
  [v \in Workspaces |->
     IF registered[v] = "unlocked" /\ (v \in gone \/ tree[v].kind # "worktree") THEN "no"
     ELSE registered[v]]
Prune(w) ==
  /\ AtStep(w, "prune")
  /\ registered' = Pruned({})
  /\ GoOn(w, IF OwnBranch[w] \in elsewhere THEN "failed" ELSE "add")
  /\ UNCHANGED <<primary, tree, elsewhere>> /\ People

(* worktree add --lock --no-checkout --force -B. *)
Add(w) ==
  /\ AtStep(w, "add")
  /\ Grows(w, [Nothing EXCEPT !.kind = "worktree", !.on = OwnBranch[w]])
  /\ Records(w, "locked") /\ GoOn(w, "checkout")
  /\ UNCHANGED <<primary, elsewhere>> /\ People

CheckoutBranch(w) ==
  /\ AtStep(w, "checkout")
  /\ Grows(w, [tree[w] EXCEPT !.files = TRUE, !.on = OwnBranch[w]]) /\ GoOn(w, "unlock")
  /\ UNCHANGED <<primary, registered, elsewhere>> /\ People

Unlock(w) ==
  /\ AtStep(w, "unlock")
  /\ Records(w, "unlocked") /\ JobEnds(w, "done")
  /\ UNCHANGED <<primary, tree, elsewhere>> /\ People

-----------------------------------------------------------------------------
(* Clone *)

ReuseClone(w) ==
  /\ AtStep(w, "compare")
  /\ tree[w].sentinel = job[w].ref
  /\ job' = [job EXCEPT ![w].at = "done", ![w].found = "cloned"]
  /\ OnlyJob

(* clearStaleCheckout: deregister, then remove.  A locked worktree is not
   removed by git, but its tree is. *)
ClearStale(w) ==
  /\ AtStep(w, "compare")
  /\ tree[w].sentinel # job[w].ref
  /\ Grows(w, Nothing)
  /\ registered' = IF primary = "absent" THEN registered ELSE Pruned({w})
  /\ GoOn(w, "cloning")
  /\ UNCHANGED <<primary, elsewhere>> /\ People

(* Mutant: the sentinel is written with the clone. *)
EarlySentinel(w) ==
  /\ AtStep(w, "cloning")
  /\ Grows(w, [Nothing EXCEPT !.kind = "clone", !.sentinel = job[w].ref])
  /\ GoOn(w, "detach")
  /\ UNCHANGED <<primary, registered, elsewhere>> /\ People

(* git clone --no-checkout, checkout --detach, and the sentinel last. *)
CloneTree(w) ==
  /\ AtStep(w, "cloning")
  /\ Grows(w, [Nothing EXCEPT !.kind = "clone"])
  /\ GoOn(w, "detach")
  /\ UNCHANGED <<primary, registered, elsewhere>> /\ People

Detach(w) ==
  /\ AtStep(w, "detach")
  /\ Grows(w, [tree[w] EXCEPT !.files = TRUE, !.on = job[w].ref]) /\ GoOn(w, "sentinel")
  /\ UNCHANGED <<primary, registered, elsewhere>> /\ People

WriteSentinel(w) ==
  /\ AtStep(w, "sentinel")
  /\ Grows(w, [tree[w] EXCEPT !.sentinel = job[w].ref]) /\ JobEnds(w, "done")
  /\ UNCHANGED <<primary, registered, elsewhere>> /\ People

-----------------------------------------------------------------------------
(* zordon workspace rm, and service rm. *)

Rests(w) == job[w].at \in {"idle", "done", "failed"}
Acts == acts < MaxActs /\ acts' = acts + 1 /\ UNCHANGED <<primary, job, kills>>

WorkspaceRm(w) ==
  /\ Rests(w) /\ Acts
  /\ tree[w] # Nothing /\ Grows(w, Nothing)
  /\ UNCHANGED <<registered, elsewhere>>

RemoveWorktree(w) ==
  /\ Rests(w) /\ Acts
  /\ tree[w] # Nothing /\ Grows(w, Nothing)
  /\ IF Owned(w) /\ registered[w] = "unlocked" THEN Records(w, "no") ELSE UNCHANGED registered
  /\ UNCHANGED elsewhere

(* What a developer does in the trees. *)
Edits(w) ==
  /\ Rests(w) /\ Acts
  /\ tree[w].files /\ ~tree[w].work /\ Grows(w, [tree[w] EXCEPT !.work = TRUE])
  /\ UNCHANGED <<registered, elsewhere>>
Switches(w) ==
  /\ Rests(w) /\ Acts
  /\ tree[w].files /\ Grows(w, [tree[w] EXCEPT !.on = Other])
  /\ UNCHANGED <<registered, elsewhere>>
PutsPlainFiles(w) ==
  /\ Rests(w) /\ Acts
  /\ tree[w] = Nothing /\ Grows(w, [Nothing EXCEPT !.kind = "plain", !.files = TRUE, !.work = TRUE])
  /\ UNCHANGED <<registered, elsewhere>>
ChecksOutElsewhere(w) ==
  /\ Rests(w) /\ Acts
  /\ primary = "whole" /\ registered[w] = "no" /\ elsewhere' = elsewhere \cup {OwnBranch[w]}
  /\ UNCHANGED <<tree, registered>>

StartAgain(w) ==
  /\ job[w].at \in {"done", "failed"}
  /\ job' = [job EXCEPT ![w] = NoJob]
  /\ OnlyJob

(* SIGKILL, or the cancelled context of a service that is stopped: the next
   git command never starts. *)
GitKilled(w) ==
  /\ ~Rests(w) /\ kills < MaxKills
  /\ kills' = kills + 1
  /\ GoOn(w, "failed")
  /\ UNCHANGED <<primary, tree, registered, elsewhere, acts>>

Prepare(w) ==
  \/ PrepareWorktree(w) \/ PrepareClone(w)
  \/ WipeShallow(w) \/ CloneBegins(w) \/ CloneFinishes(w) \/ Fetch(w) \/ GitFails(w)
  \/ ReuseWorktree(w) \/ RespectForeign(w) \/ InspectEmpty(w) \/ ReclaimUnlock(w)
  \/ ReclaimRemove(w) \/ Prune(w) \/ Add(w) \/ CheckoutBranch(w) \/ Unlock(w)
  \/ ReuseClone(w) \/ ClearStale(w) \/ CloneTree(w) \/ Detach(w) \/ WriteSentinel(w)
Happens(w) ==
  \/ WorkspaceRm(w) \/ RemoveWorktree(w) \/ Edits(w) \/ Switches(w) \/ PutsPlainFiles(w)
  \/ ChecksOutElsewhere(w) \/ StartAgain(w) \/ GitKilled(w)

SourcesNext == \E w \in Workspaces : Prepare(w) \/ Happens(w)
SourcesSpec == SourcesInit /\ [][SourcesNext]_sourceVars

-----------------------------------------------------------------------------
(* Properties *)

(* A clone is reused only when its files are those of the ref asked for,
   wherever the process that made it was killed; somebody may have switched
   it since. *)
ReusedCloneIsWhole ==
  [][\A w \in Workspaces :
       job[w].found # "cloned" /\ job'[w].found = "cloned" =>
         tree[w].files /\ tree[w].on \in {job[w].ref, Other}]_sourceVars

(* Preparing a picked service throws nobody's work away, but that of one who
   worked in a tree no start had finished. *)
WorkRespected ==
  [][\A w \in Workspaces :
       tree[w].work /\ ~tree'[w].work =>
         Rests(w) \/ job[w].found = "interrupted" \/ job[w].ref # None]_sourceVars

(* source.go:253: AddWorktree clears the lock only on a finished checkout, so
   what is reused silently is one. *)
ReusedWorktreeIsWhole ==
  [][\A w \in Workspaces :
       job[w].found # "canonical" /\ job'[w].found = "canonical" => tree[w].files]_sourceVars
=============================================================================
