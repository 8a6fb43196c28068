---------------------------- MODULE SourcesProofs ----------------------------
(***************************************************************************)
(* What a checkout is worth after kills and people, for any number of      *)
(* workspaces, refs, kills and acts.                                       *)
(***************************************************************************)
EXTENDS Sources, TLAPS

Names == Refs \cup {OwnBranch[w] : w \in Workspaces} \cup {Other, None}
Found == {"canonical", "foreign", "empty", "interrupted", "cloned"}
Steps ==
  {"idle", "ensure", "clone", "inspect", "reclaim", "remove", "prune", "add", "checkout",
   "unlock", "compare", "cloning", "detach", "sentinel", "done", "failed"}

Trees ==
  [kind : {"nothing", "worktree", "clone", "plain"}, on : Names, files : BOOLEAN,
   sentinel : Refs \cup {None}, work : BOOLEAN]

SourcesTyped ==
  /\ tree \in [Workspaces -> Trees]
  /\ job \in [Workspaces -> [at : Steps, ref : Refs \cup {None}, found : Found \cup {None}]]

(* What stands at a checkout, and what the process there is about to run: the
   sentinel is written last, over the files of its ref; a tree is given up
   only when there is nothing in it or no start had finished it. *)
CheckoutInv(w) ==
  /\ tree[w].kind = "nothing" => ~tree[w].files /\ ~tree[w].work
  /\ tree[w].sentinel # None => tree[w].files /\ tree[w].on \in {tree[w].sentinel, Other}
  /\ job[w].at \in {"compare", "cloning", "detach", "sentinel"} => job[w].ref \in Refs
  /\ job[w].at = "sentinel" => tree[w].files /\ tree[w].on = job[w].ref
  /\ job[w].at \in {"checkout", "detach"} => tree[w].sentinel = None /\ tree[w].kind # "nothing"
  /\ job[w].at \in {"reclaim", "remove", "prune", "add"} =>
       job[w].found = "interrupted" \/ ~tree[w].work

SourcesInv == SourcesTyped /\ \A w \in Workspaces : CheckoutInv(w)

(* A step of one workspace leaves the checkouts and processes of the others
   alone, whatever it does to the primary they share. *)
LEMMA OneCheckout ==
  ASSUME SourcesTyped, NEW w \in Workspaces, Prepare(w) \/ Happens(w)
  PROVE  /\ job' = [job EXCEPT ![w] = job'[w]]
         /\ tree' = [tree EXCEPT ![w] = tree'[w]]
<1> USE DEF SourcesTyped, GoOn, JobEnds, Grows, OnlyJob, Acts
<1>1. CASE \/ PrepareWorktree(w) \/ PrepareClone(w) \/ WipeShallow(w) \/ CloneBegins(w)
           \/ CloneFinishes(w) \/ Fetch(w) \/ GitFails(w)
  BY <1>1 DEF PrepareWorktree, PrepareClone, WipeShallow, CloneBegins, CloneFinishes, Fetch, GitFails
<1>2. CASE \/ ReuseWorktree(w) \/ RespectForeign(w) \/ InspectEmpty(w) \/ ReclaimUnlock(w)
           \/ ReclaimRemove(w) \/ Prune(w) \/ Add(w) \/ CheckoutBranch(w) \/ Unlock(w)
  BY <1>2 DEF ReuseWorktree, RespectForeign, InspectEmpty, ReclaimUnlock, ReclaimRemove, Prune,
              Add, CheckoutBranch, Unlock
<1>3. CASE ReuseClone(w) \/ ClearStale(w) \/ CloneTree(w) \/ Detach(w) \/ WriteSentinel(w)
  BY <1>3 DEF ReuseClone, ClearStale, CloneTree, Detach, WriteSentinel
<1>4. CASE Happens(w)
  BY <1>4 DEF Happens, WorkspaceRm, RemoveWorktree, Edits, Switches, PutsPlainFiles,
              ChecksOutElsewhere, StartAgain, GitKilled
<1> QED
  BY <1>1, <1>2, <1>3, <1>4 DEF Prepare

(* A place with nothing at it. *)
LEMMA NothingTyped ==
  /\ Nothing \in Trees
  /\ Nothing.kind = "nothing" /\ ~Nothing.files /\ ~Nothing.work /\ Nothing.sentinel = None
  BY DEF Nothing, Names, Trees

(* What git or a person grows at a checkout stands there. *)
LEMMA Stands ==
  ASSUME SourcesTyped, NEW w \in Workspaces, NEW t \in Trees, Grows(w, t)
  PROVE  tree' \in [Workspaces -> Trees] /\ tree'[w] = t
  BY DEF SourcesTyped, Grows

(* A tree that gets files of its own keeps what it was. *)
LEMMA Filled ==
  ASSUME NEW t \in Trees, NEW on \in Names
  PROVE  LET u == [t EXCEPT !.files = TRUE, !.on = on]
         IN  /\ u \in Trees
             /\ u.kind = t.kind /\ u.files /\ u.on = on
             /\ u.sentinel = t.sentinel /\ u.work = t.work
  BY DEF Trees

(* A process that goes on to its next step keeps its ref and its verdict. *)
LEMMA GoesOn ==
  ASSUME SourcesTyped, NEW w \in Workspaces, NEW step \in Steps, GoOn(w, step)
  PROVE  /\ job' \in [Workspaces -> [at : Steps, ref : Refs \cup {None}, found : Found \cup {None}]]
         /\ job'[w].at = step /\ job'[w].ref = job[w].ref /\ job'[w].found = job[w].found
  BY DEF SourcesTyped, GoOn

(* A process at a step that asks nothing of the tree, over a tree that stays. *)
LEMMA JobMoves ==
  ASSUME SourcesInv, NEW w \in Workspaces, tree' = tree,
         job'[w].at \notin {"sentinel", "checkout", "cloning", "detach", "reclaim", "remove", "prune", "add"},
         job'[w].at = "compare" => job'[w].ref \in Refs
  PROVE  CheckoutInv(w)'
<1>1. CheckoutInv(w)
  BY DEF SourcesInv
<1> QED
  BY <1>1 DEF CheckoutInv

(* Such a process goes on, or ends; so does one that was about to give a tree
   up and is about to still. *)
LEMMA StepMoves ==
  ASSUME SourcesInv, NEW w \in Workspaces, NEW step \in Steps, tree' = tree, GoOn(w, step),
         \/ step \notin {"sentinel", "checkout", "compare", "cloning", "detach",
                         "reclaim", "remove", "prune", "add"}
         \/ step \in {"remove", "prune", "add"} /\ job[w].at \in {"reclaim", "remove", "prune"}
  PROVE  SourcesTyped' /\ CheckoutInv(w)'
<1>1. SourcesTyped /\ CheckoutInv(w)
  BY DEF SourcesInv
<1>2. /\ job' \in [Workspaces -> [at : Steps, ref : Refs \cup {None}, found : Found \cup {None}]]
      /\ job'[w].at = step /\ job'[w].ref = job[w].ref /\ job'[w].found = job[w].found
  BY <1>1, GoesOn
<1>3. SourcesTyped'
  BY <1>1, <1>2 DEF SourcesTyped
<1>4. CheckoutInv(w)'
  BY <1>1, <1>2 DEF CheckoutInv
<1> QED
  BY <1>3, <1>4

LEMMA OnlyStep ==
  ASSUME NEW w \in Workspaces,
         \/ PrepareWorktree(w) \/ CloneBegins(w) \/ CloneFinishes(w) \/ Fetch(w) \/ GitFails(w)
         \/ Unlock(w) \/ GitKilled(w)
  PROVE  /\ tree' = tree
         /\ \E step \in {"ensure", "clone", "inspect", "failed", "done"} : GoOn(w, step)
  BY DEF PrepareWorktree, CloneBegins, CloneFinishes, Fetch, GitFails, Unlock, GitKilled, OnlyJob, JobEnds

(* A process whose step leaves the tree alone and asks nothing of it. *)
LEMMA OnlyMoves ==
  ASSUME SourcesInv, NEW w \in Workspaces,
         \/ PrepareWorktree(w) \/ CloneBegins(w) \/ CloneFinishes(w) \/ Fetch(w) \/ GitFails(w)
         \/ Unlock(w) \/ GitKilled(w)
  PROVE  SourcesTyped' /\ CheckoutInv(w)'
<1>1. PICK step \in {"ensure", "clone", "inspect", "failed", "done"} : GoOn(w, step)
  BY OnlyStep
<1>2. tree' = tree
  BY OnlyStep
<1>3. /\ step \in Steps
      /\ step \notin {"sentinel", "checkout", "compare", "cloning", "detach",
                      "reclaim", "remove", "prune", "add"}
  BY <1>1 DEF Steps
<1> QED
  BY <1>1, <1>2, <1>3, StepMoves

(* The two steps of AddWorktree that clear the primary's records alone. *)
LEMMA ClearsRecords ==
  ASSUME SourcesInv, NEW w \in Workspaces, ReclaimUnlock(w) \/ Prune(w)
  PROVE  SourcesTyped' /\ CheckoutInv(w)'
<1>1. /\ tree' = tree /\ job[w].at \in {"reclaim", "prune"}
      /\ GoOn(w, "remove") \/ GoOn(w, "failed") \/ GoOn(w, "add")
  BY DEF ReclaimUnlock, Prune, AtStep
<1>2. {"remove", "failed", "add"} \subseteq Steps
  BY DEF Steps
<1> QED
  BY <1>1, <1>2, StepMoves

(* prepareWorkspace's clone, and a worktree that is left as it stands. *)
LEMMA TreeStands ==
  ASSUME SourcesInv, NEW w \in Workspaces, PrepareClone(w) \/ ReuseWorktree(w) \/ RespectForeign(w)
  PROVE  SourcesTyped' /\ CheckoutInv(w)'
<1>1. job \in [Workspaces -> [at : Steps, ref : Refs \cup {None}, found : Found \cup {None}]]
  BY DEF SourcesInv, SourcesTyped
<1>2. tree' = tree
  BY DEF PrepareClone, ReuseWorktree, RespectForeign, OnlyJob
<1>3. {"compare", "done"} \subseteq Steps /\ {"canonical", "foreign"} \subseteq Found
  BY DEF Steps, Found
<1>4. CASE PrepareClone(w)
  <2>1. PICK r \in Refs : job' = [job EXCEPT ![w] = [@ EXCEPT !.at = "compare", !.ref = r]]
    BY <1>4 DEF PrepareClone
  <2>2. job'[w].at = "compare" /\ job'[w].ref = r
    BY <1>1, <2>1
  <2>3. job' \in [Workspaces -> [at : Steps, ref : Refs \cup {None}, found : Found \cup {None}]]
    BY <1>1, <1>3, <2>1
  <2>4. SourcesTyped'
    BY <1>2, <2>3 DEF SourcesInv, SourcesTyped
  <2> QED
    BY <1>2, <2>2, <2>4, JobMoves
<1>5. CASE ReuseWorktree(w) \/ RespectForeign(w)
  <2>1. PICK found \in {"canonical", "foreign"} : job' = [job EXCEPT ![w].at = "done", ![w].found = found]
    BY <1>5 DEF ReuseWorktree, RespectForeign
  <2>2. job'[w].at = "done"
    BY <1>1, <2>1
  <2>3. job' \in [Workspaces -> [at : Steps, ref : Refs \cup {None}, found : Found \cup {None}]]
    BY <1>1, <1>3, <2>1
  <2>4. SourcesTyped'
    BY <1>2, <2>3 DEF SourcesInv, SourcesTyped
  <2> QED
    BY <1>2, <2>2, <2>4, JobMoves
<1> QED
  BY <1>4, <1>5

(* prepareWorkspace and Ensure *)
LEMMA EnsureKeeps ==
  ASSUME SourcesInv, NEW w \in Workspaces,
         \/ PrepareWorktree(w) \/ PrepareClone(w) \/ WipeShallow(w) \/ CloneBegins(w)
         \/ CloneFinishes(w) \/ Fetch(w) \/ GitFails(w)
  PROVE  SourcesTyped' /\ CheckoutInv(w)'
<1> USE DEF SourcesInv, SourcesTyped, CheckoutInv, Trees, Steps, AtStep, GoOn, JobEnds, OnlyJob
<1>1. CASE PrepareWorktree(w)
  BY <1>1, OnlyMoves
<1>2. CASE PrepareClone(w)
  BY <1>2, TreeStands
<1>3. CASE WipeShallow(w)
  BY <1>3 DEF WipeShallow
<1>4. CASE CloneBegins(w) \/ CloneFinishes(w) \/ Fetch(w) \/ GitFails(w)
  BY <1>4, OnlyMoves
<1> QED
  BY <1>1, <1>2, <1>3, <1>4

(* The checkout of the worktree's own branch. *)
LEMMA CheckoutKeeps ==
  ASSUME SourcesInv, NEW w \in Workspaces, CheckoutBranch(w)
  PROVE  SourcesTyped' /\ CheckoutInv(w)'
<1> DEFINE t == [tree[w] EXCEPT !.files = TRUE, !.on = OwnBranch[w]]
<1>1. SourcesTyped /\ CheckoutInv(w) /\ tree[w] \in Trees
  BY DEF SourcesInv, SourcesTyped
<1>2. OwnBranch[w] \in Names /\ "unlock" \in Steps
  BY DEF Names, Steps
<1>3. t \in Trees /\ t.kind = tree[w].kind /\ t.files /\ t.sentinel = tree[w].sentinel
  BY <1>1, <1>2, Filled
<1>4. job[w].at = "checkout" /\ Grows(w, t) /\ GoOn(w, "unlock")
  BY DEF CheckoutBranch, AtStep
<1>5. tree[w].sentinel = None /\ tree[w].kind # "nothing"
  BY <1>1, <1>4 DEF CheckoutInv
<1> HIDE DEF t
<1>6. tree' \in [Workspaces -> Trees] /\ tree'[w] = t
  BY <1>1, <1>3, <1>4, Stands
<1>7. /\ job' \in [Workspaces -> [at : Steps, ref : Refs \cup {None}, found : Found \cup {None}]]
      /\ job'[w].at = "unlock"
  BY <1>1, <1>2, <1>4, GoesOn
<1>8. SourcesTyped'
  BY <1>6, <1>7 DEF SourcesTyped
<1>9. CheckoutInv(w)'
  BY <1>3, <1>5, <1>6, <1>7 DEF CheckoutInv
<1> QED
  BY <1>8, <1>9

(* A tree just grown, of one kind and with nothing in it. *)
LEMMA GrowsBare ==
  ASSUME SourcesInv, NEW w \in Workspaces, NEW t \in Trees, Grows(w, t),
         ~t.files, ~t.work, t.sentinel = None,
         NEW step \in {"checkout", "cloning", "detach"}, GoOn(w, step),
         step \in {"checkout", "detach"} => t.kind # "nothing",
         step \in {"cloning", "detach"} => job[w].ref \in Refs
  PROVE  SourcesTyped' /\ CheckoutInv(w)'
<1>1. SourcesTyped /\ step \in Steps
  BY DEF SourcesInv, Steps
<1>2. tree' \in [Workspaces -> Trees] /\ tree'[w] = t
  BY <1>1, Stands
<1>3. /\ job' \in [Workspaces -> [at : Steps, ref : Refs \cup {None}, found : Found \cup {None}]]
      /\ job'[w].at = step /\ job'[w].ref = job[w].ref
  BY <1>1, GoesOn
<1>4. SourcesTyped'
  BY <1>2, <1>3 DEF SourcesTyped
<1>5. CheckoutInv(w)'
  BY <1>2, <1>3 DEF CheckoutInv
<1> QED
  BY <1>4, <1>5

LEMMA BareWorktree ==
  ASSUME NEW on \in Names
  PROVE  LET t == [Nothing EXCEPT !.kind = "worktree", !.on = on]
         IN  t \in Trees /\ t.kind = "worktree" /\ ~t.files /\ ~t.work /\ t.sentinel = None
  BY DEF Nothing, Trees

LEMMA BareClone ==
  LET t == [Nothing EXCEPT !.kind = "clone"]
  IN  t \in Trees /\ t.kind = "clone" /\ ~t.files /\ ~t.work /\ t.sentinel = None
  BY DEF Nothing, Names, Trees

(* The worktree that is added, and what a clone begins with. *)
LEMMA BareKeeps ==
  ASSUME SourcesInv, NEW w \in Workspaces, Add(w) \/ ClearStale(w) \/ CloneTree(w)
  PROVE  SourcesTyped' /\ CheckoutInv(w)'
<1>1. CheckoutInv(w) /\ OwnBranch[w] \in Names
  BY DEF SourcesInv, Names
<1>2. CASE Add(w)
  <2> DEFINE t == [Nothing EXCEPT !.kind = "worktree", !.on = OwnBranch[w]]
  <2>1. Grows(w, t) /\ GoOn(w, "checkout")
    BY <1>2 DEF Add
  <2>2. t \in Trees /\ t.kind = "worktree" /\ ~t.files /\ ~t.work /\ t.sentinel = None
    BY <1>1, BareWorktree
  <2> HIDE DEF t
  <2> QED
    BY <2>1, <2>2, GrowsBare
<1>3. CASE ClearStale(w)
  <2>1. job[w].at = "compare" /\ Grows(w, Nothing) /\ GoOn(w, "cloning")
    BY <1>3 DEF ClearStale, AtStep
  <2>2. job[w].ref \in Refs
    BY <1>1, <2>1 DEF CheckoutInv
  <2> QED
    BY <2>1, <2>2, NothingTyped, GrowsBare
<1>4. CASE CloneTree(w)
  <2> DEFINE t == [Nothing EXCEPT !.kind = "clone"]
  <2>1. job[w].at = "cloning" /\ Grows(w, t) /\ GoOn(w, "detach")
    BY <1>4 DEF CloneTree, AtStep
  <2>2. job[w].ref \in Refs
    BY <1>1, <2>1 DEF CheckoutInv
  <2>3. t \in Trees /\ t.kind = "clone" /\ ~t.files /\ ~t.work /\ t.sentinel = None
    BY BareClone
  <2> HIDE DEF t
  <2> QED
    BY <2>1, <2>2, <2>3, GrowsBare
<1> QED
  BY <1>2, <1>3, <1>4

(* The detached checkout of a clone's ref. *)
LEMMA DetachKeeps ==
  ASSUME SourcesInv, NEW w \in Workspaces, Detach(w)
  PROVE  SourcesTyped' /\ CheckoutInv(w)'
<1> DEFINE t == [tree[w] EXCEPT !.files = TRUE, !.on = job[w].ref]
<1>1. SourcesTyped /\ CheckoutInv(w) /\ tree[w] \in Trees
  BY DEF SourcesInv, SourcesTyped
<1>2. job[w].at = "detach" /\ Grows(w, t) /\ GoOn(w, "sentinel")
  BY DEF Detach, AtStep
<1>3. job[w].ref \in Refs /\ tree[w].sentinel = None /\ tree[w].kind # "nothing"
  BY <1>1, <1>2 DEF CheckoutInv
<1>4. job[w].ref \in Names /\ "sentinel" \in Steps
  BY <1>3 DEF Names, Steps
<1>5. /\ t \in Trees /\ t.kind = tree[w].kind /\ t.files /\ t.on = job[w].ref
      /\ t.sentinel = tree[w].sentinel
  BY <1>1, <1>4, Filled
<1> HIDE DEF t
<1>6. tree' \in [Workspaces -> Trees] /\ tree'[w] = t
  BY <1>1, <1>2, <1>5, Stands
<1>7. /\ job' \in [Workspaces -> [at : Steps, ref : Refs \cup {None}, found : Found \cup {None}]]
      /\ job'[w].at = "sentinel" /\ job'[w].ref = job[w].ref
  BY <1>1, <1>2, <1>4, GoesOn
<1>8. SourcesTyped'
  BY <1>6, <1>7 DEF SourcesTyped
<1>9. CheckoutInv(w)'
  BY <1>3, <1>5, <1>6, <1>7 DEF CheckoutInv
<1> QED
  BY <1>8, <1>9

(* AddWorktree: it comes to reclaim or add only over an empty place or an
   interrupted worktree. *)
LEMMA AddWorktreeKeeps ==
  ASSUME SourcesInv, NEW w \in Workspaces,
         \/ ReuseWorktree(w) \/ RespectForeign(w) \/ InspectEmpty(w) \/ ReclaimUnlock(w)
         \/ ReclaimRemove(w) \/ Prune(w) \/ Add(w) \/ CheckoutBranch(w) \/ Unlock(w)
  PROVE  SourcesTyped' /\ CheckoutInv(w)'
<1> USE DEF SourcesInv, SourcesTyped, CheckoutInv, Trees, Steps, Found, AtStep, GoOn, JobEnds, OnlyJob, Grows
<1>1. CASE ReuseWorktree(w) \/ RespectForeign(w)
  BY <1>1, TreeStands
<1>2. CASE InspectEmpty(w)
  BY <1>2 DEF InspectEmpty, Rebuild, Empty
<1>3. CASE ReclaimUnlock(w) \/ Prune(w)
  BY <1>3, ClearsRecords
<1>7. CASE Unlock(w)
  BY <1>7, OnlyMoves
<1>4. CASE ReclaimRemove(w)
  <2>1. job' = [job EXCEPT ![w].at = "prune"] /\ job[w].at = "remove"
    BY <1>4 DEF ReclaimRemove
  <2>2. job' \in [Workspaces -> [at : Steps, ref : Refs \cup {None}, found : Found \cup {None}]]
    BY <2>1
  <2>3. CASE tree[w].kind = "worktree"
    <3>1. tree' \in [Workspaces -> Trees] /\ tree'[w] = Nothing
      BY <1>4, <2>3, NothingTyped, Stands DEF ReclaimRemove
    <3> QED
      BY <2>1, <2>2, <3>1, NothingTyped
  <2>4. CASE tree[w].kind # "worktree"
    <3>1. tree' = tree
      BY <1>4, <2>4 DEF ReclaimRemove
    <3> QED
      BY <2>1, <2>2, <3>1
  <2> QED
    BY <2>3, <2>4
<1>5. CASE Add(w)
  BY <1>5, BareKeeps
<1>6. CASE CheckoutBranch(w)
  BY <1>6, CheckoutKeeps
<1> QED
  BY <1>1, <1>2, <1>3, <1>4, <1>5, <1>6, <1>7

(* The sentinel, over the files of the ref. *)
LEMMA SentinelKeeps ==
  ASSUME SourcesInv, NEW w \in Workspaces, WriteSentinel(w)
  PROVE  SourcesTyped' /\ CheckoutInv(w)'
<1> DEFINE t == [tree[w] EXCEPT !.sentinel = job[w].ref]
<1>1. SourcesTyped /\ CheckoutInv(w) /\ tree[w] \in Trees /\ "done" \in Steps
  BY DEF SourcesInv, SourcesTyped, Steps
<1>2. job[w].at = "sentinel" /\ Grows(w, t) /\ GoOn(w, "done")
  BY DEF WriteSentinel, AtStep, JobEnds
<1>3. job[w].ref \in Refs /\ tree[w].files /\ tree[w].on = job[w].ref /\ tree[w].kind # "nothing"
  BY <1>1, <1>2 DEF CheckoutInv
<1>4. /\ t \in Trees /\ t.kind = tree[w].kind /\ t.files /\ t.on = t.sentinel /\ t.work = tree[w].work
  BY <1>1, <1>3 DEF Trees
<1> HIDE DEF t
<1>5. tree' \in [Workspaces -> Trees] /\ tree'[w] = t
  BY <1>1, <1>2, <1>4, Stands
<1>6. /\ job' \in [Workspaces -> [at : Steps, ref : Refs \cup {None}, found : Found \cup {None}]]
      /\ job'[w].at = "done"
  BY <1>1, <1>2, GoesOn
<1>7. SourcesTyped'
  BY <1>5, <1>6 DEF SourcesTyped
<1>8. CheckoutInv(w)'
  BY <1>3, <1>4, <1>5, <1>6 DEF CheckoutInv
<1> QED
  BY <1>7, <1>8

(* A clone that is reused. *)
LEMMA ReuseCloneKeeps ==
  ASSUME SourcesInv, NEW w \in Workspaces, ReuseClone(w)
  PROVE  SourcesTyped' /\ CheckoutInv(w)'
<1>1. /\ tree' = tree /\ job' = [job EXCEPT ![w].at = "done", ![w].found = "cloned"]
  BY DEF ReuseClone, OnlyJob
<1>2. job \in [Workspaces -> [at : Steps, ref : Refs \cup {None}, found : Found \cup {None}]]
  BY DEF SourcesInv, SourcesTyped
<1>3. "done" \in Steps /\ "cloned" \in Found
  BY DEF Steps, Found
<1>4. /\ job' \in [Workspaces -> [at : Steps, ref : Refs \cup {None}, found : Found \cup {None}]]
      /\ job'[w].at = "done"
  BY <1>1, <1>2, <1>3
<1>5. SourcesTyped'
  BY <1>1, <1>4 DEF SourcesInv, SourcesTyped
<1> QED
  BY <1>1, <1>4, <1>5, JobMoves

(* Clone: the sentinel goes over a finished checkout. *)
LEMMA CloneKeeps ==
  ASSUME SourcesInv, NEW w \in Workspaces,
         ReuseClone(w) \/ ClearStale(w) \/ CloneTree(w) \/ Detach(w) \/ WriteSentinel(w)
  PROVE  SourcesTyped' /\ CheckoutInv(w)'
BY ReuseCloneKeeps, BareKeeps, DetachKeeps, SentinelKeeps

(* What people leave where no process works. *)
LEMMA PeopleLeave ==
  ASSUME SourcesInv, NEW w \in Workspaces, Rests(w), job' = job, NEW t \in Trees, Grows(w, t),
         t.kind = "nothing" => ~t.files /\ ~t.work,
         t.sentinel # None => t.files /\ t.on \in {t.sentinel, Other}
  PROVE  SourcesTyped' /\ CheckoutInv(w)'
<1>1. SourcesTyped /\ job[w].at \in {"idle", "done", "failed"}
  BY DEF SourcesInv, Rests
<1>2. tree' \in [Workspaces -> Trees] /\ tree'[w] = t
  BY <1>1, Stands
<1>3. SourcesTyped'
  BY <1>1, <1>2 DEF SourcesTyped
<1>4. CheckoutInv(w)'
  BY <1>1, <1>2 DEF CheckoutInv
<1> QED
  BY <1>3, <1>4

(* Somebody's own files, at a place with nothing at it. *)
LEMMA PlainTyped ==
  LET t == [Nothing EXCEPT !.kind = "plain", !.files = TRUE, !.work = TRUE]
  IN  t \in Trees /\ t.kind = "plain" /\ t.sentinel = None
  BY DEF Nothing, Names, Trees

(* People touch a checkout only while no process works there; a kill stops
   the process and leaves the tree. *)
LEMMA HappensKeeps ==
  ASSUME SourcesInv, NEW w \in Workspaces, Happens(w)
  PROVE  SourcesTyped' /\ CheckoutInv(w)'
<1>1. CheckoutInv(w) /\ tree[w] \in Trees
  BY DEF SourcesInv, SourcesTyped
<1>2. CASE WorkspaceRm(w) \/ RemoveWorktree(w)
  <2>1. Rests(w) /\ job' = job /\ Grows(w, Nothing)
    BY <1>2 DEF WorkspaceRm, RemoveWorktree, Acts
  <2> QED
    BY <2>1, NothingTyped, PeopleLeave
<1>3. CASE Edits(w)
  <2> DEFINE t == [tree[w] EXCEPT !.work = TRUE]
  <2>1. Rests(w) /\ job' = job /\ Grows(w, t) /\ tree[w].files
    BY <1>3 DEF Edits, Acts
  <2>2. t \in Trees /\ t.files /\ t.kind = tree[w].kind /\ t.sentinel = tree[w].sentinel /\ t.on = tree[w].on
    BY <1>1, <2>1 DEF Trees
  <2>3. /\ t.kind # "nothing"
        /\ t.sentinel # None => t.files /\ t.on \in {t.sentinel, Other}
    BY <1>1, <2>1, <2>2 DEF CheckoutInv
  <2> HIDE DEF t
  <2> QED
    BY <2>1, <2>2, <2>3, PeopleLeave
<1>4. CASE Switches(w)
  <2> DEFINE t == [tree[w] EXCEPT !.on = Other]
  <2>1. Rests(w) /\ job' = job /\ Grows(w, t) /\ tree[w].files
    BY <1>4 DEF Switches, Acts
  <2>2. Other \in Names
    BY DEF Names
  <2>3. t \in Trees /\ t.files /\ t.kind = tree[w].kind /\ t.on = Other
    BY <1>1, <2>1, <2>2 DEF Trees
  <2>4. t.kind # "nothing"
    BY <1>1, <2>1, <2>3 DEF CheckoutInv
  <2> HIDE DEF t
  <2> QED
    BY <2>1, <2>3, <2>4, PeopleLeave
<1>5. CASE PutsPlainFiles(w)
  <2> DEFINE t == [Nothing EXCEPT !.kind = "plain", !.files = TRUE, !.work = TRUE]
  <2>1. Rests(w) /\ job' = job /\ Grows(w, t)
    BY <1>5 DEF PutsPlainFiles, Acts
  <2>2. t \in Trees /\ t.kind = "plain" /\ t.sentinel = None
    BY PlainTyped
  <2> HIDE DEF t
  <2> QED
    BY <2>1, <2>2, PeopleLeave
<1>6. CASE ChecksOutElsewhere(w)
  BY <1>1, <1>6 DEF ChecksOutElsewhere, Acts, SourcesInv, SourcesTyped, CheckoutInv
<1>7. CASE StartAgain(w)
  <2>1. tree' = tree /\ job' = [job EXCEPT ![w] = NoJob]
    BY <1>7 DEF StartAgain, OnlyJob
  <2>2. NoJob \in [at : Steps, ref : Refs \cup {None}, found : Found \cup {None}] /\ NoJob.at = "idle"
    BY DEF NoJob, Steps
  <2>3. SourcesTyped' /\ job'[w] = NoJob
    BY <2>1, <2>2 DEF SourcesInv, SourcesTyped
  <2> QED
    BY <2>1, <2>2, <2>3, JobMoves
<1>8. CASE GitKilled(w)
  BY <1>8, OnlyMoves
<1> QED
  BY <1>2, <1>3, <1>4, <1>5, <1>6, <1>7, <1>8 DEF Happens

LEMMA SourcesInvInit == SourcesInit => SourcesInv
  BY NothingTyped DEF SourcesInit, SourcesInv, SourcesTyped, CheckoutInv, Nothing, NoJob, Steps

(* The invariant is inductive. *)
LEMMA SourcesStep == SourcesInv /\ [SourcesNext]_sourceVars => SourcesInv'
<1> SUFFICES ASSUME SourcesInv, [SourcesNext]_sourceVars PROVE SourcesInv'
  OBVIOUS
<1>1. CASE UNCHANGED sourceVars
  BY <1>1 DEF sourceVars, SourcesInv, SourcesTyped, CheckoutInv
<1>2. ASSUME NEW w \in Workspaces, Prepare(w) \/ Happens(w)
      PROVE  SourcesInv'
  <2>1. SourcesTyped' /\ CheckoutInv(w)'
    BY <1>2, EnsureKeeps, AddWorktreeKeeps, CloneKeeps, HappensKeeps DEF Prepare
  <2>2. \A v \in Workspaces \ {w} : job'[v] = job[v] /\ tree'[v] = tree[v]
    BY <1>2, OneCheckout DEF SourcesInv, SourcesTyped
  <2>3. \A v \in Workspaces \ {w} : CheckoutInv(v)'
    BY <2>2 DEF SourcesInv, CheckoutInv
  <2> QED
    BY <2>1, <2>3 DEF SourcesInv
<1> QED
  BY <1>1, <1>2 DEF SourcesNext

LEMMA SourcesInvariant == SourcesSpec => []SourcesInv
  BY SourcesInvInit, SourcesStep, PTL DEF SourcesSpec

-----------------------------------------------------------------------------
(* What a clone is reused for. *)

(* Only Clone's own comparison calls a tree a clone to reuse. *)
LEMMA ReuseCompares ==
  ASSUME SourcesAssumption, SourcesInv, NEW w \in Workspaces, Prepare(w) \/ Happens(w),
         job[w].found # "cloned", job'[w].found = "cloned"
  PROVE  ReuseClone(w)
<1> USE DEF SourcesInv, SourcesTyped, GoOn, JobEnds, OnlyJob, Acts
<1>1. CASE \/ PrepareWorktree(w) \/ WipeShallow(w) \/ CloneBegins(w) \/ CloneFinishes(w)
           \/ Fetch(w) \/ GitFails(w)
  BY <1>1 DEF PrepareWorktree, WipeShallow, CloneBegins, CloneFinishes, Fetch, GitFails
<1>2. CASE PrepareClone(w)
  BY <1>2 DEF PrepareClone
<1>3. CASE ReuseWorktree(w) \/ RespectForeign(w) \/ InspectEmpty(w)
  BY <1>3 DEF ReuseWorktree, RespectForeign, InspectEmpty
<1>4. CASE \/ ReclaimUnlock(w) \/ ReclaimRemove(w) \/ Prune(w) \/ Add(w) \/ CheckoutBranch(w)
           \/ Unlock(w)
  BY <1>4 DEF ReclaimUnlock, ReclaimRemove, Prune, Add, CheckoutBranch, Unlock
<1>5. CASE ClearStale(w) \/ CloneTree(w) \/ Detach(w) \/ WriteSentinel(w)
  BY <1>5 DEF ClearStale, CloneTree, Detach, WriteSentinel
<1>6. CASE StartAgain(w)
  BY <1>6 DEF StartAgain, NoJob, SourcesAssumption
<1>7. CASE \/ WorkspaceRm(w) \/ RemoveWorktree(w) \/ Edits(w) \/ Switches(w) \/ PutsPlainFiles(w)
           \/ ChecksOutElsewhere(w) \/ GitKilled(w)
  BY <1>7 DEF WorkspaceRm, RemoveWorktree, Edits, Switches, PutsPlainFiles, ChecksOutElsewhere, GitKilled
<1> QED
  BY <1>1, <1>2, <1>3, <1>4, <1>5, <1>6, <1>7 DEF Prepare, Happens

(* source.go:517: the sentinel stands inside a finished clone alone; a
   clone that carries it is reused, and then its files are that ref's,
   wherever the process that made it was killed. *)
THEOREM ClonesAreWhole == SourcesAssumption => (SourcesSpec => ReusedCloneIsWhole)
<1> SUFFICES ASSUME SourcesAssumption PROVE SourcesSpec => ReusedCloneIsWhole
  OBVIOUS
<1>1. ASSUME SourcesInv, [SourcesNext]_sourceVars, NEW w \in Workspaces,
             job[w].found # "cloned", job'[w].found = "cloned"
      PROVE  tree[w].files /\ tree[w].on \in {job[w].ref, Other}
  <2>1. PICK v \in Workspaces : Prepare(v) \/ Happens(v)
    BY <1>1 DEF SourcesNext, sourceVars
  <2>2. v = w
    BY <1>1, <2>1, OneCheckout DEF SourcesInv, SourcesTyped
  <2>3. ReuseClone(w)
    BY <1>1, <2>1, <2>2, ReuseCompares
  <2>4. job[w].at = "compare" /\ tree[w].sentinel = job[w].ref
    BY <2>3 DEF ReuseClone, AtStep
  <2>5. job[w].ref \in Refs /\ job[w].ref # None
    BY <1>1, <2>4 DEF SourcesInv, CheckoutInv, SourcesAssumption
  <2> QED
    BY <1>1, <2>4, <2>5 DEF SourcesInv, CheckoutInv
<1>2. SourcesInv /\ [SourcesNext]_sourceVars =>
        [\A w \in Workspaces : job[w].found # "cloned" /\ job'[w].found = "cloned" =>
           tree[w].files /\ tree[w].on \in {job[w].ref, Other}]_sourceVars
  BY <1>1
<1> QED
  BY <1>2, SourcesInvariant, PTL DEF SourcesSpec, ReusedCloneIsWhole

-----------------------------------------------------------------------------
(* Whose work is thrown away. *)

(* The steps that grow another tree where one stood, and when they may. *)
LEMMA WorkLost ==
  ASSUME SourcesAssumption, SourcesInv, NEW w \in Workspaces, Prepare(w) \/ Happens(w),
         tree[w].work, ~tree'[w].work
  PROVE  Rests(w) \/ job[w].found = "interrupted" \/ job[w].ref # None
<1> USE DEF SourcesInv, SourcesTyped, CheckoutInv, Trees, AtStep, OnlyJob, Grows
<1>1. CASE \/ PrepareWorktree(w) \/ PrepareClone(w) \/ WipeShallow(w) \/ CloneBegins(w)
           \/ CloneFinishes(w) \/ Fetch(w) \/ GitFails(w)
  BY <1>1 DEF PrepareWorktree, PrepareClone, WipeShallow, CloneBegins, CloneFinishes, Fetch, GitFails
<1>2. CASE \/ ReuseWorktree(w) \/ RespectForeign(w) \/ InspectEmpty(w) \/ ReclaimUnlock(w)
           \/ Prune(w) \/ Unlock(w)
  BY <1>2 DEF ReuseWorktree, RespectForeign, InspectEmpty, ReclaimUnlock, Prune, Unlock
<1>3. CASE ReclaimRemove(w) \/ Add(w)
  BY <1>3 DEF ReclaimRemove, Add
<1>4. CASE CheckoutBranch(w)
  BY <1>4 DEF CheckoutBranch
<1>5. CASE ReuseClone(w) \/ ClearStale(w) \/ CloneTree(w) \/ Detach(w) \/ WriteSentinel(w)
  <2>1. job[w].at \in {"compare", "cloning", "detach", "sentinel"}
    BY <1>5 DEF ReuseClone, ClearStale, CloneTree, Detach, WriteSentinel
  <2> QED
    BY <2>1 DEF SourcesAssumption
<1>6. CASE \/ WorkspaceRm(w) \/ RemoveWorktree(w) \/ Edits(w) \/ Switches(w) \/ PutsPlainFiles(w)
           \/ ChecksOutElsewhere(w)
  BY <1>6 DEF WorkspaceRm, RemoveWorktree, Edits, Switches, PutsPlainFiles, ChecksOutElsewhere
<1>7. CASE StartAgain(w) \/ GitKilled(w)
  BY <1>7 DEF StartAgain, GitKilled
<1> QED
  BY <1>1, <1>2, <1>3, <1>4, <1>5, <1>6, <1>7 DEF Prepare, Happens

(* Preparing a picked service throws nobody's work away: a tree with work in
   it is given up by people, or by a start that found it interrupted, or by
   one that wants a clone there. *)
THEOREM WorkIsRespected == SourcesAssumption => (SourcesSpec => WorkRespected)
<1> SUFFICES ASSUME SourcesAssumption PROVE SourcesSpec => WorkRespected
  OBVIOUS
<1>1. ASSUME SourcesInv, [SourcesNext]_sourceVars, NEW w \in Workspaces, tree[w].work, ~tree'[w].work
      PROVE  Rests(w) \/ job[w].found = "interrupted" \/ job[w].ref # None
  <2>1. PICK v \in Workspaces : Prepare(v) \/ Happens(v)
    BY <1>1 DEF SourcesNext, sourceVars
  <2>2. v = w
    BY <1>1, <2>1, OneCheckout DEF SourcesInv, SourcesTyped
  <2> QED
    BY <1>1, <2>1, <2>2, WorkLost
<1>2. SourcesInv /\ [SourcesNext]_sourceVars =>
        [\A w \in Workspaces : tree[w].work /\ ~tree'[w].work =>
           Rests(w) \/ job[w].found = "interrupted" \/ job[w].ref # None]_sourceVars
  BY <1>1
<1> QED
  BY <1>2, SourcesInvariant, PTL DEF SourcesSpec, WorkRespected
==============================================================================
