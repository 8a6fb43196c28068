----------------------------- MODULE Evaluation -----------------------------
(***************************************************************************)
(* How one level's manifest becomes the services an alpha is sent: the     *)
(* parts of the unit merged (parts.go), Plan and Compute of                *)
(* internal/alphasfile/eval.go, newGraph and topoSort of dag.go, and       *)
(* resolveWorkspaceBranches of workspace.go.                               *)
(*                                                                         *)
(* A producer is a field other expressions read: the vars, arguments and   *)
(* env of a service, each of its files, the inputs and outputs of a        *)
(* package and the values ("part"s) imports pass to an input.  A reference *)
(* is the producer it leads to and how it is written: by "name", by        *)
(* "index" (self.file["x"]) or within a "whole" object (self.file,         *)
(* service.go.api).  What a value is does not matter, except that it may   *)
(* be null or not fit its field.                                           *)
(***************************************************************************)
EXTENDS Naturals, Sequences, FiniteSets

CONSTANTS
  Entries,  \* the manifests: a unit, its services' blocks, its producers
  Lexical   \* every producer, in the order of their ids

VARIABLES
  given,    \* the manifest
  stage,    \* what LoadState, Plan or Compute does next, or how they ended
  states,   \* svcState: where prepareServices found each service's code
  free,     \* topoSort's ready
  waits,    \* topoSort's indeg
  order,    \* topoSort's out
  computed, \* how many producers of order Compute has evaluated
  unseen,   \* what each evaluation met that was not evaluated yet
  resolved  \* resolvedServices

evalVars == <<given, stage, states, free, waits, order, computed, unseen, resolved>>

SetOf(s) == {s[i] : i \in DOMAIN s}
Rank(n) == CHOOSE i \in DOMAIN Lexical : Lexical[i] = n
FirstOf(ns) == CHOOSE n \in ns : \A m \in ns : Rank(n) <= Rank(m)

-----------------------------------------------------------------------------
(* The unit: an Alphasfile and its parts *)

(* mergeRoot: toolchain pins and the workspace block are declared once. *)
UnitClashes ==
  LET u == given.unit
  IN \E i, j \in DOMAIN u : /\ i < j
                            /\ \/ u[i].pins \cap u[j].pins # {}
                               \/ "unset" \notin {u[i].branch, u[j].branch}

Pins == given.parentPins \cup UNION {p.pins : p \in SetOf(given.unit)}
Branch ==
  IF \E p \in SetOf(given.unit) : p.branch # "unset"
  THEN (CHOOSE p \in SetOf(given.unit) : p.branch # "unset").branch ELSE "unset"

(* Compute: an env key of the level is set by one of its parts. *)
EnvSetTwice ==
  LET u == given.unit IN \E i, j \in DOMAIN u : i # j /\ u[i].env \cap u[j].env # {}

Merge ==
  /\ stage = "merge"
  /\ stage' = IF UnitClashes THEN "refused" ELSE "plan"
  /\ UNCHANGED <<given, states, free, waits, order, computed, unseen, resolved>>

-----------------------------------------------------------------------------
(* Plan *)

Producer(of, kind, name) == [of |-> of, kind |-> kind, name |-> name]

(* newGraph: a service always has its vars, arguments and env. *)
ProducersOf(e) ==
  DOMAIN e.reads
  \cup UNION {{Producer(s, k, "") : k \in {"vars", "arguments", "env"}} : s \in SetOf(e.services)}
Producers == ProducersOf(given)

(* A manifest is finite; what an import passes is a value of its own. *)
EvaluationAssumption ==
  /\ Lexical \in Seq(SetOf(Lexical))
  /\ \A e \in Entries :
       /\ ProducersOf(e) \subseteq SetOf(Lexical)
       /\ e.services \in Seq(SetOf(e.services))
       /\ \A n \in DOMAIN e.parts : e.parts[n] \subseteq DOMAIN e.reads \ {n}
       /\ IsFiniteSet(e.twice)

ReadsOf(n) == IF n \in DOMAIN given.reads THEN given.reads[n] ELSE {}
Gives(n) == IF n \in DOMAIN given.gives THEN given.gives[n] ELSE "value"
PartsOf(n) == IF n \in DOMAIN given.parts THEN given.parts[n] ELSE {}

(* producerNodeFromTrav and outputNodeFromTrav: only a reference that names
   the producer is an edge, and only to another producer of this manifest. *)
Named(refs) == {r.to : r \in {q \in refs : q.by = "name"}}
(* Mutant: an input does not wait for what the imports pass to it. *)
NamedOnly(n) == (Named(ReadsOf(n)) \cap Producers) \ {n}
Deps(n) == ((Named(ReadsOf(n)) \cap Producers) \ {n}) \cup PartsOf(n)

(* prepareServices: a local checkout is used unless it is missing and git{}
   stands in for it; in place where the workspace has no checkout of its own. *)
(* Mutant: git{} never stands in. *)
Preferred(b) ==
  LET path == b.src = "path"
  IN [path |-> path,
      missing |-> FALSE,
      checkout |-> IF path /\ ~b.owned THEN "user"
                   ELSE IF path \/ b.git = "url" THEN "zordon" ELSE "none"]
Prepared(b) ==
  LET standsIn == b.src = "path" /\ b.git = "url" /\ ~b.there
      path == b.src = "path" /\ ~standsIn
  IN [path |-> path,
      missing |-> standsIn,
      checkout |-> IF path /\ ~b.owned THEN "user"
                   ELSE IF path \/ b.git = "url" THEN "zordon" ELSE "none"]

DeclaredTwice == Cardinality(SetOf(given.services)) # Len(given.services)

Plan ==
  /\ stage = "plan"
  /\ IF DeclaredTwice
     THEN /\ stage' = "refused"
          /\ UNCHANGED <<states, free, waits>>
     ELSE /\ states' = [s \in SetOf(given.services) |-> Prepared(given.block[s])]
          /\ waits' = [n \in Producers |-> Cardinality(Deps(n))]
          /\ free' = {n \in Producers : Deps(n) = {}}
          /\ stage' = "sort"
  /\ UNCHANGED <<given, order, computed, unseen, resolved>>

(* topoSort: the lexically first producer that waits for nothing. *)
Sort ==
  /\ stage = "sort" /\ free # {}
  /\ LET n == FirstOf(free)
         freed == {m \in Producers : n \in Deps(m)}
     IN /\ order' = Append(order, n)
        /\ waits' = [m \in Producers |-> IF m \in freed THEN waits[m] - 1 ELSE waits[m]]
        /\ free' = (free \ {n}) \cup {m \in freed : waits[m] = 1}
  /\ UNCHANGED <<given, stage, states, computed, unseen, resolved>>

(* A file declared twice is two nodes under one id. *)
Sorted ==
  /\ stage = "sort" /\ free = {}
  /\ stage' = IF Len(order) # Cardinality(Producers) + Cardinality(given.twice)
              THEN "cycle" ELSE "compute"
  /\ UNCHANGED <<given, states, free, waits, order, computed, unseen, resolved>>

-----------------------------------------------------------------------------
(* Compute *)

Evaluated == {order[i] : i \in 1..computed}

(* What the expressions of n find: services hold empty vars, arguments and
   env from the start and the parent's are all there; a file, an input or an
   output does not exist before it is evaluated. *)
NotThere(r) ==
  /\ r.by # "whole"
  /\ r.to \notin Evaluated \cup given.inherited
  /\ r.to \notin Producers \/ r.to.kind \in {"file", "input", "output"}

(* evalInput: what the imports pass is joined in a map and is one value
   otherwise; the default is evaluated when all of it is null, and may itself
   be null, but with none the input is required. *)
Values(n) == {p \in PartsOf(n) : Gives(p) = "value"}
InputFails(n) ==
  \/ \E p \in PartsOf(n) : Gives(p) = "misfit"
  \/ Cardinality(Values(n)) > 1 /\ n \notin given.maps
  \/ Values(n) = {} /\ (Gives(n) \in {"misfit", "missing"} \/ \E r \in ReadsOf(n) : NotThere(r))

Fails(n) ==
  CASE n.kind = "input" -> InputFails(n)
    [] n.kind = "part" -> \E r \in ReadsOf(n) : NotThere(r)
    [] OTHER -> Gives(n) = "misfit" \/ \E r \in ReadsOf(n) : NotThere(r)

(* evalPart, evalOutput, evalInput and evalProducerNode: the next producer. *)
Evaluate ==
  /\ stage = "compute" /\ computed < Len(order)
  /\ LET n == order[computed + 1]
         met == ReadsOf(n) \cup {[to |-> p, by |-> "name"] : p \in PartsOf(n)}
     IN /\ unseen' = unseen \cup
                     {[at |-> n, to |-> r.to, by |-> r.by] :
                        r \in {q \in met : q.to \in Producers \ Evaluated}}
        /\ IF Fails(n) THEN /\ stage' = "refused"
                            /\ UNCHANGED computed
                       ELSE /\ computed' = computed + 1
                            /\ UNCHANGED stage
  /\ UNCHANGED <<given, states, free, waits, order, resolved>>

(* evalProvisionArgs and the provisions of finishService.  A cmd is a snippet
   (<<>>) or leads to the provision at an index of a service. *)
BadProvision(s, i) ==
  LET p == given.block[s].provisions[i]
      isRef == p.cmd # <<>>
  IN \/ isRef /\ (p.cmd = <<s, i>> \/ p.checks \/ p.arguments)
     \/ p.never /\ (p.after \/ p.detached)
     \/ p.arguments /\ ~p.never

(* A service pkg has a coordinate and a command and nothing of a build. *)
BadPkg(b) ==
  \/ b.src # "none" \/ b.git # "none" \/ b.crate # "none" \/ b.bin \/ b.features
  \/ b.debugger # "off"
  \/ ~b.cmd
  \/ b.package = "none"

IsInstall(b) ==
  \/ b.toolchain = "go" /\ b.package = "string"
  \/ b.toolchain = "rust" /\ b.crate = "good"

BadInstall(b) ==
  \/ b.toolchain # "rust" /\ (b.crate # "none" \/ b.features)
  \/ b.toolchain = "go" /\ b.package = "object"
  \/ b.toolchain # "go" /\ b.package # "none"
  \/ b.crate = "bad"

(* The mode of a service: installed, from git or from a checkout. *)
BadSource(b, st) ==
  \/ b.git = "nourl"
  \/ b.src # "none" /\ b.git = "none" /\ ~st.path
  \/ IsInstall(b) /\ (b.git = "url" \/ b.src # "none")
  \/ ~IsInstall(b) /\ b.git # "url" /\ ~st.path

(* evalDebugger *)
BadDebugger(b) ==
  b.debugger # "off" /\ (b.toolchain # "go" \/ (b.debugger = "wraps" /\ b.cmd))

ServiceRefused(s) ==
  LET b == given.block[s]
  IN \/ \E r \in b.sinks : NotThere(r)
     \/ \E i \in DOMAIN b.provisions : BadProvision(s, i)
     \/ IF b.toolchain = "pkg" THEN BadPkg(b)
        ELSE BadInstall(b) \/ BadSource(b, states[s]) \/ BadDebugger(b)

(* toolchainKeyFor: the component's own pin, else the entrypoint's. *)
ToolchainKeyFor(b) ==
  IF <<b.module, b.toolchain>> \in Pins THEN <<b.module, b.toolchain>>
  ELSE IF <<"", b.toolchain>> \in Pins THEN <<"", b.toolchain>> ELSE <<>>

Service(s) ==
  LET b == given.block[s]
      st == states[s]
      built == b.toolchain # "pkg"
  IN [id |-> s,
      key |-> IF built THEN ToolchainKeyFor(b) ELSE <<>>,
      install |-> ~built \/ IsInstall(b),
      git |-> b.git = "url",
      src |-> st.path,
      inPlace |-> built /\ st.path /\ ~b.owned,
      editable |-> built /\ b.owned]

FinishService ==
  /\ stage = "compute" /\ computed = Len(order) /\ Len(resolved) < Len(given.services)
  /\ LET s == given.services[Len(resolved) + 1]
     IN IF ServiceRefused(s)
        THEN stage' = "refused" /\ UNCHANGED resolved
        ELSE resolved' = Append(resolved, Service(s)) /\ UNCHANGED stage
  /\ UNCHANGED <<given, states, free, waits, order, computed, unseen>>

(* injectDebuggerTools *)
DebuggerWithoutPin ==
  \E i \in DOMAIN resolved :
    given.block[resolved[i].id].debugger # "off" /\ resolved[i].key = <<>>

(* validateProvisionArgRefs *)
ArgumentsByReference ==
  \E s \in SetOf(given.services) : \E i \in DOMAIN given.block[s].provisions :
    LET c == given.block[s].provisions[i].cmd
    IN /\ c # <<>> /\ c[1] \in SetOf(given.services)
       /\ given.block[c[1]].provisions[c[2]].arguments

(* resolveWorkspaceBranches: rendered by display name, for the services that
   can have a checkout. *)
Rendered == {given.block[resolved[i].id].display :
               i \in {j \in DOMAIN resolved : resolved[j].git \/ resolved[j].src}}
BranchesClash ==
  \/ Branch = "invalid" /\ Rendered # {}
  \/ Branch = "constant" /\ Cardinality(Rendered) > 1

Assemble ==
  /\ stage = "compute" /\ computed = Len(order) /\ Len(resolved) = Len(given.services)
  /\ stage' = IF EnvSetTwice \/ DebuggerWithoutPin \/ ArgumentsByReference \/ BranchesClash
              THEN "refused" ELSE "resolved"
  /\ UNCHANGED <<given, states, free, waits, order, computed, unseen, resolved>>

EvalInit ==
  /\ given \in Entries
  /\ stage = "merge" /\ states = <<>> /\ free = {} /\ waits = <<>>
  /\ order = <<>> /\ computed = 0 /\ unseen = {} /\ resolved = <<>>
EvalNext == Merge \/ Plan \/ Sort \/ Sorted \/ Evaluate \/ FinishService \/ Assemble
EvalSpec == EvalInit /\ [][EvalNext]_evalVars

-----------------------------------------------------------------------------
(* Every value a producer names was final when the producer was evaluated,  *)
(* and Plan gives up, before anything is evaluated, only on producers that  *)
(* really wait for each other: newGraph and topoSort against what the       *)
(* evaluation in Compute reads.                                             *)
WaitingRing(ns) ==
  \A n \in ns : \E m \in ns \ {n} : m \in Named(ReadsOf(n)) \cup PartsOf(n)
Ordered ==
  /\ \A u \in unseen : u.by = "name" => u.to = u.at
  /\ stage = "cycle" =>
       /\ computed = 0
       /\ given.twice # {} \/ \E ns \in SUBSET Producers : ns # {} /\ WaitingRing(ns)
  /\ stage = "compute" /\ computed = 0 =>
       ~\E ns \in SUBSET Producers : ns # {} /\ WaitingRing(ns)

(* A service has one source, and the checkout prepareServices showed to its *)
(* expressions is the one finishService tells alpha to use: none when it is *)
(* installed, the user's own tree in place, or zordon's; and the user's is  *)
(* used without being there only when nothing else was named.               *)
OneSource ==
  \A i \in DOMAIN resolved :
    LET p == resolved[i]
        b == given.block[p.id]
    IN /\ p.install <=> states[p.id].checkout = "none"
       /\ p.install <=> ~p.git /\ ~p.src
       /\ p.inPlace <=> states[p.id].checkout = "user"
       /\ p.inPlace => b.there \/ b.git # "url"

(* What docs/alphasfile.md promises of names: no two services own the same  *)
(* checkout (violated by one name under two toolchains).                    *)
OneCheckoutEach ==
  stage = "resolved" =>
    \A s, t \in SetOf(given.services) :
      ~ /\ s # t
        /\ states[s].checkout = "zordon" /\ states[t].checkout = "zordon"
        /\ given.block[s].display = given.block[t].display

(* Nothing is read before it is final, however it is written (violated by   *)
(* references newGraph has no edge for).                                    *)
NothingReadEarly == \A u \in unseen : u.to = u.at
=============================================================================
