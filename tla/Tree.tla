-------------------------------- MODULE Tree --------------------------------
(***************************************************************************)
(* How an entrypoint Alphasfile and the packages it imports become one     *)
(* stack: Tree.load and finish of internal/alphasfile/tree.go,             *)
(* resolvePackages of package.go, packageToolchains, checkGated and        *)
(* checkVisibility.                                                        *)
(*                                                                         *)
(* A package is instantiated under a name, a path of labels: <<"pg">>, or  *)
(* <<"billing", "pg">> for one isolated under its importer.  The entry-    *)
(* point is the empty path.  A scope is an owner and one of its            *)
(* components, or Top.  Directories, labels, features, inputs and          *)
(* toolchains are opaque.  The calls of load, follow and                   *)
(* applyRulesToLoaded, which are recursive, are frames of a stack.         *)
(***************************************************************************)
EXTENDS Naturals, Sequences, FiniteSets, SequencesExt

CONSTANTS
  Dirs,        \* the directories that hold a package
  Label,       \* Label[d]: the label of the package block in d
  Repo,        \* Repo[d]: the remote repository d is a checkout of, or None
  Scalars,     \* the inputs that are not maps
  MapInputs,   \* and those that are
  Required,    \* those of the two that have no default
  Entrypoints, \* the import sequences the entrypoint may have
  Manifests,   \* Manifests[d]: what the package block in d may be: imports, the
               \* features and inputs it declares, its toolchain or None, and
               \* the references its services make to packages
  StackLimit,  \* bound: the calls a goroutine's stack holds
  None, Top

(***************************************************************************)
(* An import block: the scope's component it stands in, the directory, the *)
(* name it is known by there (its alias or the label), the condition of    *)
(* enabled (None, or a feature and the value it must have), the features   *)
(* and inputs it passes, and its packages rules: a key, which is a path,   *)
(* and either the local name of an imported package or settings.           *)
(***************************************************************************)
Inputs == Scalars \cup MapInputs

(* What parses is a sequence of import blocks of directories there are. *)
AreImports(blocks) ==
  /\ blocks \in Seq(ToSet(blocks))
  /\ \A b \in ToSet(blocks) : b # None /\ b.dir \in Dirs /\ b.rules \in Seq(ToSet(b.rules))
TreeAssumption ==
  /\ \A blocks \in Entrypoints : AreImports(blocks)
  /\ \A d \in Dirs : \A m \in Manifests[d] : AreImports(m.imports)

Entry == <<>>

VARIABLES
  phase,     \* what LoadTreeWith is doing
  manifest,  \* the package blocks read so far, by directory
  calls,     \* the calls of load and applyRulesToLoaded in progress
  packages,  \* t.packages: the instances, by name
  links,     \* t.links, in the order they were appended
  used,      \* the rules some import has matched
  pending,   \* instances resolvePackages has not resolved
  active,    \* those it found to be part of the stack
  needs,     \* the imports in the stack of each resolved instance
  features,  \* the features it runs with
  args,      \* the values passed to each of its inputs, in order
  toolchain  \* packageToolchains' result so far

vars == <<phase, manifest, calls, packages, links, used, pending, active,
          needs, features, args, toolchain>>

loading == <<manifest, calls, packages, links, used>>
resolving == <<pending, active, needs, features, args>>

Final == {"ready", "refused", "panicked", "exhausted"}
Names == DOMAIN packages
Declared(n) == manifest[packages[n].dir].declares

-----------------------------------------------------------------------------
(* Loading *)

(* resolveTargetPackage: the instance a packages rule names, in the scope of
   the import or the scope around it. *)
TargetOf(owner, comp, name) ==
  LET known(c) == {i \in DOMAIN links : /\ links[i].owner = owner /\ links[i].comp = c
                                        /\ links[i].local = name}
  IN IF known(comp) # {} THEN links[Min(known(comp))].pkg
     ELSE IF known(Top) # {} THEN links[Min(known(Top))].pkg ELSE None

(* parsePackageRules: the rules of an import, each with an identity of its
   own, since copies of a rule share the mark that it was used.  No two
   imports of an owner are followed with as many links. *)
ParseRules(owner, block) ==
  [i \in DOMAIN block.rules |->
     [id     |-> <<owner, Len(links), i>>,
      key    |-> block.rules[i].key,
      set    |-> block.rules[i].set,
      target |-> IF block.rules[i].target = None THEN None
                 ELSE TargetOf(owner, block.comp, block.rules[i].target)]]

RulesParse(owner, block) ==
  \A i \in DOMAIN block.rules :
    block.rules[i].target # None => TargetOf(owner, block.comp, block.rules[i].target) # None

(* Those of a sequence that are kept, in their order. *)
Those(all, keep) ==
  LET first[n \in 0..Len(all)] ==
        IF n = 0 THEN <<>>
        ELSE IF all[n] \in keep THEN Append(first[n - 1], all[n]) ELSE first[n - 1]
  IN first[Len(all)]

(* What a package's rules say of one of its imports: those that name it,
   those that name something below it, and the binds handed on to everything
   below. *)
Naming(rules, local) == Those(rules, {r \in ToSet(rules) : r.key = <<local>>})
Below(rules, local) ==
  LET deeper == Those(rules, {r \in ToSet(rules) : Len(r.key) > 1 /\ Head(r.key) = local})
  IN [i \in DOMAIN deeper |-> [deeper[i] EXCEPT !.key = Tail(@)]]
Inherited(rules, local) ==
  Those(rules, {r \in ToSet(rules) : Len(r.key) = 1 /\ r.key # <<local>> /\ r.target # None})

Binds(rules) == Those(rules, {r \in ToSet(rules) : r.target # None})
Injections(rules) == Those(rules, {r \in ToSet(rules) : r.set # None})
SetsOf(rules) == [i \in DOMAIN rules |-> rules[i].set]
IdsOf(rules) == {rules[i].id : i \in DOMAIN rules}

(* hasTargetedRule. *)
Targeted(rules) == \E i \in DOMAIN rules : rules[i].set # None \/ Len(rules[i].key) > 1

(* sameRemoteRepo: two checkouts of one repository. *)
SameRemoteRepo(d, e) == d # e /\ Repo[d] # None /\ Repo[d] = Repo[e]

(* orderImportBlocks: imports without packages rules, then those other rules
   name as a target, then the rest. *)
OrderImports(blocks) ==
  LET plain == {b \in ToSet(blocks) : b.rules = <<>>}
      named == {b \in ToSet(blocks) :
                  \E o \in ToSet(blocks) : \E i \in DOMAIN o.rules : o.rules[i].target = b.local}
  IN Those(blocks, plain) \o Those(blocks, named \ plain)
     \o Those(blocks, ToSet(blocks) \ (named \cup plain))

(* follow visits the imports of the top scope, then those of the components. *)
Imports(blocks) ==
  OrderImports(Those(blocks, {b \in ToSet(blocks) : b.comp = Top}))
  \o OrderImports(Those(blocks, {b \in ToSet(blocks) : b.comp # Top}))

LoadCall(owner, blocks) == [load |-> TRUE, pkg |-> owner, todo |-> Imports(blocks), pend |-> None]
ApplyCall(name, rules) == [load |-> FALSE, pkg |-> name, rules |-> rules, at |-> 0]

NewInstance(d, injected, rules) ==
  [dir |-> d, entry |-> FALSE, set |-> None, injected |-> injected, rules |-> rules]

Init ==
  /\ phase = "start"
  /\ manifest = <<>> /\ calls = <<>> /\ packages = <<>> /\ links = <<>> /\ used = {}
  /\ pending = {} /\ active = {} /\ needs = <<>> /\ features = <<>> /\ args = <<>> /\ toolchain = <<>>

Refuse == phase' = "refused" /\ UNCHANGED <<loading, resolving, toolchain>>

(* load of an entrypoint that is a level of its own. *)
LoadEntrypoint ==
  /\ phase = "start"
  /\ phase' = "load"
  /\ \E blocks \in Entrypoints : calls' = <<LoadCall(Entry, blocks)>>
  /\ UNCHANGED <<manifest, packages, links, used, resolving, toolchain>>

(* adopt of an entrypoint that is a package's file: the package runs alone. *)
LoadAlone ==
  /\ phase = "start"
  /\ phase' = "load"
  /\ \E d \in Dirs : \E m \in Manifests[d] :
       /\ manifest' = [e \in {d} |-> m]
       /\ packages' = [n \in {<<Label[d]>>} |->
                         [NewInstance(d, <<>>, <<>>) EXCEPT !.entry = TRUE]]
       /\ links' = <<[owner |-> Entry, comp |-> Top, pkg |-> <<Label[d]>>,
                      local |-> Label[d], bound |-> FALSE, block |-> None]>>
       /\ calls' = <<LoadCall(<<Label[d]>>, m.imports)>>
  /\ UNCHANGED <<used, resolving, toolchain>>

(* load, follow and applyRulesToLoaded descend until the stack is full. *)
Call == Last(calls)
Room == Len(calls) < StackLimit
Running == phase = "load" /\ calls # <<>> /\ Room
Following == Running /\ Call.load
Exhausted ==
  /\ phase = "load" /\ ~Room
  /\ phase' = "exhausted" /\ UNCHANGED <<loading, resolving, toolchain>>

Importing == Following /\ Call.pend = None /\ Call.todo # <<>>
Block == Head(Call.todo)
Own == ParseRules(Call.pkg, Block)
Rules == IF Call.pkg = Entry THEN <<>> ELSE packages[Call.pkg].rules
Hits == Naming(Rules, Block.local)
ChildRules == Below(Rules, Block.local) \o Own \o Inherited(Rules, Block.local)

(* The frame of a call that waits for the one it is about to make. *)
Waiting(name, bound) ==
  [Call EXCEPT !.todo = Tail(@),
               !.pend = [block |-> Block, own |-> IdsOf(Own), pkg |-> name, bound |-> bound]]
Push(name, bound, more) == calls' = Front(calls) \o <<Waiting(name, bound)>> \o more

(* checkImportAttrs: a condition needs a feature of the importing package.  And
   a rule that names a package nobody imported. *)
ConditionAllowed == Block.on # None => Call.pkg # Entry /\ Declared(Call.pkg) \ Inputs # {}
BadImport ==
  /\ Importing
  /\ ~(ConditionAllowed /\ RulesParse(Call.pkg, Block))
  /\ Refuse

(* followBoundPackage, for a path that is not local, and followPackage's first
   case for one that is.  Both follow the target of the first rule that binds
   the import and hand it the rules of its block; the first passes over the
   other rules that name the import.  (It knows an import without an alias by
   the end of its path, which stands for the label here.) *)
FollowBound ==
  /\ Importing
  /\ ConditionAllowed /\ RulesParse(Call.pkg, Block)
  /\ Binds(Hits) # <<>>
  /\ LET target == Binds(Hits)[1].target
     IN Push(target, TRUE, IF Own = <<>> THEN <<>> ELSE <<ApplyCall(target, Own)>>)
  /\ used' = used \cup IdsOf(IF Repo[Block.dir] = None THEN Hits ELSE Binds(Hits))
  /\ UNCHANGED <<phase, manifest, packages, links, resolving, toolchain>>

(* The name followPackage instantiates the package under. *)
InstanceName ==
  LET bare == <<Block.local>>
      nested == Append(Call.pkg, Block.local)
      d == Block.dir
  IN IF /\ Call.pkg # Entry
        /\ \/ Injections(Hits) # <<>>
           \/ Targeted(ChildRules) /\ bare \in Names
           \/ /\ bare \in Names
              /\ Label[packages[bare].dir] = Label[d]
              /\ SameRemoteRepo(packages[bare].dir, d)
     THEN nested ELSE bare

FollowUnbound ==
  Importing /\ ConditionAllowed /\ RulesParse(Call.pkg, Block) /\ Binds(Hits) = <<>>

NameTaken ==
  /\ FollowUnbound
  /\ InstanceName \in Names /\ packages[InstanceName].dir # Block.dir
  /\ Refuse

FollowLoaded ==
  /\ FollowUnbound
  /\ InstanceName \in Names /\ packages[InstanceName].dir = Block.dir
  /\ packages' = [packages EXCEPT ![InstanceName].injected = @ \o SetsOf(Injections(Hits))]
  /\ Push(InstanceName, FALSE,
          IF ChildRules = <<>> THEN <<>> ELSE <<ApplyCall(InstanceName, ChildRules)>>)
  /\ used' = used \cup IdsOf(Hits)
  /\ UNCHANGED <<phase, manifest, links, resolving, toolchain>>

(* readAndDecode, adopt and the descent of loadDecoded into its imports. *)
FollowNew ==
  /\ FollowUnbound
  /\ InstanceName \notin Names
  /\ \E m \in IF Block.dir \in DOMAIN manifest THEN {manifest[Block.dir]}
              ELSE Manifests[Block.dir] :
       /\ manifest' = [d \in DOMAIN manifest \cup {Block.dir} |->
                         IF d = Block.dir THEN m ELSE manifest[d]]
       /\ Push(InstanceName, FALSE, <<LoadCall(InstanceName, m.imports)>>)
  /\ packages' = [n \in Names \cup {InstanceName} |->
                    IF n \in Names THEN packages[n]
                    ELSE NewInstance(Block.dir, SetsOf(Injections(Hits)), ChildRules)]
  /\ used' = used \cup IdsOf(Hits)
  /\ UNCHANGED <<phase, links, resolving, toolchain>>

(* passedSettings, and sameSettings of two imports at the entrypoint's top. *)
Passed(b) == [features |-> b.features, inputs |-> b.inputs]
Disagrees(p, b) == p.set # None /\ p.set # Passed(b)

(* The end of followPackage: every rule of the import has matched, an import
   at the entrypoint's top level configures the package, the link is there. *)
LinkUp ==
  /\ Following /\ Call.pend # None
  /\ LET w == Call.pend
         b == w.block
         atTop == Call.pkg = Entry /\ b.comp = Top
         p == packages[w.pkg]
     IN IF ~(w.own \subseteq used) \/ (atTop /\ Disagrees(p, b)) THEN Refuse
        ELSE /\ links' = Append(links, [owner |-> Call.pkg, comp |-> b.comp, pkg |-> w.pkg,
                                        local |-> b.local, bound |-> w.bound, block |-> b])
             /\ packages' = IF atTop /\ p.set = None
                            THEN [packages EXCEPT ![w.pkg].entry = TRUE, ![w.pkg].set = Passed(b)]
                            ELSE packages
             /\ calls' = Front(calls) \o <<[Call EXCEPT !.pend = None]>>
             /\ UNCHANGED <<phase, manifest, used, resolving, toolchain>>

LoadReturns ==
  /\ Following /\ Call.pend = None /\ Call.todo = <<>>
  /\ calls' = Front(calls)
  /\ phase' = IF Len(calls) = 1 THEN "resolve" ELSE phase
  /\ pending' = IF Len(calls) = 1 THEN Names ELSE pending
  /\ UNCHANGED <<manifest, packages, links, used, active, needs, features, args, toolchain>>

(* One link of applyRulesToLoaded's loop, which has come as far as Call.at,
   and its call for what lies below. *)
LinksLeft == {i \in DOMAIN links : links[i].owner = Call.pkg /\ i > Call.at}
(* Mutant: what names something below an import is applied where it stands. *)
CallAgain(leads, sub) == IF sub = <<>> THEN <<>> ELSE <<ApplyCall(Call.pkg, sub)>>
Descend(leads, sub) == IF sub = <<>> THEN <<>> ELSE <<ApplyCall(leads, sub)>>

ApplyToLink ==
  /\ Running /\ ~Call.load
  /\ LinksLeft # {}
  /\ LET i == Min(LinksLeft)
         l == links[i]
         hits == Naming(Call.rules, l.local)
         binds == {k \in DOMAIN hits : hits[k].target # None}
         bindAt == Min(binds)
         leads == IF binds = {} THEN l.pkg ELSE hits[bindAt].target
         into(n) == {k \in DOMAIN hits : /\ hits[k].set # None
                                         /\ n = IF binds # {} /\ bindAt <= k THEN leads ELSE l.pkg}
         sub == Below(Call.rules, l.local) \o Inherited(Call.rules, l.local)
     IN /\ links' = [links EXCEPT ![i].pkg = leads, ![i].bound = @ \/ binds # {}]
        /\ packages' = [n \in Names |->
             [packages[n] EXCEPT !.injected =
                Reverse(SetsOf([k \in 1..Cardinality(into(n)) |->
                                  hits[SetToSortSeq(into(n), <)[k]]])) \o @]]
        /\ used' = used \cup IdsOf(hits)
        /\ calls' = Front(calls) \o <<[Call EXCEPT !.at = i]>>
                    \o Descend(leads, sub)
  /\ UNCHANGED <<phase, manifest, resolving, toolchain>>

ApplyReturns ==
  /\ Running /\ ~Call.load
  /\ LinksLeft = {}
  /\ calls' = Front(calls)
  /\ UNCHANGED <<phase, manifest, packages, links, used, resolving, toolchain>>

-----------------------------------------------------------------------------
(* Resolving *)

Condition(i) == IF links[i].block = None THEN None ELSE links[i].block.on
Unconditional(i) == links[i].block # None /\ Condition(i) = None

(* evalEnabled fails on a feature the package does not declare. *)
Misnamed(i) == Condition(i) # None /\ Condition(i).feature \notin Declared(links[i].owner)
LinkOn(i) ==
  Condition(i) # None =>
    (Condition(i).feature \in features[links[i].owner]) = Condition(i).value

(* The packages reached from the entrypoint, and from some others, over the
   links kept: the least set closed under them. *)
Reach(from, keep) ==
  LET closed == {s \in SUBSET Names : /\ from \subseteq s
                                      /\ \A i \in keep : links[i].owner \in s \cup {Entry} => links[i].pkg \in s}
  IN {n \in Names : \A s \in closed : n \in s}

(* Mutant: an import with enabled makes a package sure, too. *)
MaybeActive == Reach({n \in Names : packages[n].entry}, DOMAIN links)

(* surelyActive.  Every scope outside packages is the entrypoint's, and in
   the stack: plainActive. *)
Sure == Reach({n \in Names : packages[n].entry}, {i \in DOMAIN links : Unconditional(i)})

ImportersDone(p) ==
  \A i \in DOMAIN links :
    /\ links[i].pkg = p
    /\ links[i].owner \in pending \ {p}
    => links[i].owner \in Sure /\ Unconditional(i)

(* needsOf.  Counting looks at the features of an importer that is there. *)
AtTop(i) == links[i].owner = Entry /\ links[i].comp = Top
Importers(p) ==
  {i \in DOMAIN links : /\ links[i].pkg = p /\ links[i].block # None /\ ~AtTop(i)
                        /\ links[i].owner # p
                        /\ links[i].owner \in {Entry} \cup active \cup Sure}
(* Mutant: a need is recorded for imports that are off, too. *)
AllNeeds(p) == Importers(p)
Needs(p) == {i \in Importers(p) : LinkOn(i)}
PassedBy(i) == [features |-> links[i].block.features, inputs |-> links[i].block.inputs]

(* The scopes are visited by name, each one's links in order. *)
NeedOrders(p) ==
  {s \in SetToSeqs(Needs(p)) : \A a, b \in DOMAIN s : a < b =>
     LET same(x, y) == links[s[x]].owner = links[s[y]].owner /\ links[s[x]].comp = links[s[y]].comp
     IN /\ same(a, b) => s[a] < s[b]
        /\ \A c \in a..b : same(a, b) => same(a, c)}

(* checkDeclared. *)
Takes(p, set) == set.features \cup set.inputs \subseteq Declared(p)

(* addArgs, addInjectedArgs and addNeedArgs: a scalar somebody set is left
   alone when skip says so. *)
AddArgs(a, inputs, from, skip) ==
  [k \in Inputs |-> IF k \in inputs /\ ~(skip /\ k \in Scalars /\ a[k] # <<>>)
                    THEN Append(a[k], from) ELSE a[k]]
NoArgs == [k \in Inputs |-> <<>>]
WithInjected(a, p) ==
  FoldLeftDomain(LAMBDA b, n : AddArgs(b, packages[p].injected[n].inputs, <<"injected", n>>, TRUE),
                 a, packages[p].injected)
WithNeeds(a, p, order) ==
  FoldLeft(LAMBDA b, i : AddArgs(b, links[i].block.inputs, <<"import", i>>,
                                 links[i].bound \/ packages[p].injected # <<>>), a, order)
InjectedFeatures(p) == UNION {s.features : s \in ToSet(packages[p].injected)}

Resolvable(p) ==
  /\ phase = "resolve"
  /\ p \in pending
  /\ packages[p].entry \/ ImportersDone(p)

(* Something resolvePackage refuses: what is passed is not declared. *)
Undeclared(p) ==
  \/ packages[p].set # None /\ ~Takes(p, packages[p].set)
  \/ \E s \in ToSet(packages[p].injected) : ~Takes(p, s)
  \/ ~packages[p].entry /\ \E i \in Importers(p) : Misnamed(i) \/ (LinkOn(i) /\ ~Takes(p, PassedBy(i)))

ResolveFails(p) == Resolvable(p) /\ Undeclared(p) /\ Refuse

Put(f, p, v) == [n \in DOMAIN f \cup {p} |-> IF n = p THEN v ELSE f[n]]
Resolved(p, on, fs, a, order) ==
  /\ pending' = pending \ {p}
  /\ active' = IF on THEN active \cup {p} ELSE active
  /\ features' = Put(features, p, fs)
  /\ args' = Put(args, p, a)
  /\ needs' = Put(needs, p, order)
  /\ UNCHANGED <<phase, loading, toolchain>>

ResolveEntry(p) ==
  /\ Resolvable(p) /\ ~Undeclared(p) /\ packages[p].entry
  /\ LET set == IF packages[p].set = None THEN [features |-> {}, inputs |-> {}] ELSE packages[p].set
     IN Resolved(p, TRUE, set.features \cup InjectedFeatures(p),
                 WithInjected(AddArgs(NoArgs, set.inputs, <<"set", 0>>, FALSE), p), <<>>)

ResolveIdle(p) ==
  /\ Resolvable(p) /\ ~Undeclared(p) /\ ~packages[p].entry
  /\ Needs(p) = {} /\ packages[p].injected = <<>>
  /\ Resolved(p, FALSE, {}, NoArgs, <<>>)

ResolveImported(p) ==
  /\ Resolvable(p) /\ ~Undeclared(p) /\ ~packages[p].entry
  /\ ~(Needs(p) = {} /\ packages[p].injected = <<>>)
  /\ \E order \in NeedOrders(p) :
       Resolved(p, TRUE, InjectedFeatures(p) \cup UNION {links[i].block.features : i \in Needs(p)},
                WithNeeds(WithInjected(NoArgs, p), p, order), order)

(* Mutant: a round that resolves nothing is followed by another. *)
GoRound == FALSE

NoProgress ==
  /\ phase = "resolve" /\ pending # {}
  /\ \A p \in pending : ~packages[p].entry /\ ~ImportersDone(p)
  /\ Refuse

(* The packages the entrypoint configures must run with what their other
   importers need, and take their inputs too. *)
Satisfied(p) ==
  \A i \in Importers(p) :
    /\ ~Misnamed(i)
    /\ LinkOn(i) => Takes(p, PassedBy(i)) /\ links[i].block.features \subseteq features[p]

Configured == {p \in Names : packages[p].entry}
Unsatisfied ==
  /\ phase = "resolve" /\ pending = {}
  /\ \E p \in Configured : ~Satisfied(p)
  /\ Refuse

Satisfy ==
  /\ phase = "resolve" /\ pending = {}
  /\ \A p \in Configured : Satisfied(p)
  /\ \E order \in [Configured -> UNION {NeedOrders(p) : p \in Configured}] :
       /\ \A p \in Configured : order[p] \in NeedOrders(p)
       /\ needs' = [p \in Names |-> IF p \in Configured THEN order[p] ELSE needs[p]]
       /\ args' = [p \in Names |-> IF p \in Configured THEN WithNeeds(args[p], p, order[p])
                                   ELSE args[p]]
  /\ phase' = "check"
  /\ UNCHANGED <<loading, pending, active, features, toolchain>>

(* checkRequired.  Its message about a package other packages import names
   the first of those imports, which an injected one may not have. *)
Missing(p) == \E k \in Required \cap Declared(p) : args[p][k] = <<>>
Nameless(p) == packages[p].set = None /\ ~packages[p].entry /\ needs[p] = <<>>

InputMissing ==
  /\ phase = "check"
  /\ \E p \in active : Missing(p) /\ ~Nameless(p)
  /\ Refuse

InputMissingPanics ==
  /\ phase = "check"
  /\ \E p \in active : Missing(p) /\ Nameless(p)
  /\ phase' = "panicked" /\ UNCHANGED <<loading, resolving, toolchain>>

-----------------------------------------------------------------------------
(* The stack *)

(* linked: what a scope sees of its imports, by local name; a later import of
   a name replaces an earlier one. *)
Seen(owner, comp, local) ==
  {i \in DOMAIN links : /\ links[i].owner = owner /\ links[i].comp = comp
                        /\ links[i].local = local /\ LinkOn(i)}
Visible == {i \in DOMAIN links : LinkOn(i) /\ \A j \in
              Seen(links[i].owner, links[i].comp, links[i].local) : j <= i}

(* t.active: the packages the entrypoint reaches over imports that are on. *)
Stack == Reach({}, Visible)

FixScopes ==
  /\ phase = "check"
  /\ \A p \in active : ~Missing(p)
  /\ phase' = IF \E i \in DOMAIN links : Misnamed(i) THEN "refused" ELSE "toolchains"
  /\ toolchain' = [p \in {q \in active : manifest[packages[q].dir].toolchain # None} |->
                     manifest[packages[p].dir].toolchain]
  /\ UNCHANGED <<loading, resolving>>

(* Mutant: a toolchain of its own does not keep the importers' away. *)
FollowsAlways(p) == p \in active
(* packageToolchains: what the importers of a package run with. *)
Follows(p) == p \in active /\ manifest[packages[p].dir].toolchain = None
Offered(p) == {toolchain[links[i].owner] : i \in
                 {j \in ToSet(needs[p]) : links[j].owner \in DOMAIN toolchain}}
Adopts(p) == Follows(p) /\ Cardinality(Offered(p)) = 1
             /\ (p \in DOMAIN toolchain => toolchain[p] \notin Offered(p))
Torn(p) == Follows(p) /\ Cardinality(Offered(p)) > 1

ToolchainsDiffer ==
  /\ phase = "toolchains"
  /\ \E p \in Names : Torn(p)
  /\ Refuse

AdoptToolchain(p) ==
  /\ phase = "toolchains"
  /\ Adopts(p)
  /\ toolchain' = Put(toolchain, p, CHOOSE c \in Offered(p) : TRUE)
  /\ UNCHANGED <<phase, loading, resolving>>

(* resolvePackageRef and packageVisible: a name is looked up in the component,
   then in its package, and read as an instance's own name when neither
   imports it. *)
Shown(owner, comp, local) ==
  LET own == Seen(owner, comp, local) \cap Visible
      around == Seen(owner, Top, local) \cap Visible
  IN IF own # {} THEN own ELSE around
Resolve(owner, comp, local) ==
  LET s == Shown(owner, comp, local)
  IN IF s # {} THEN links[CHOOSE i \in s : TRUE].pkg ELSE <<local>>

(* The references of the components in the stack, each from a block that may
   be switched off itself. *)
Kept(r, fs) == r.on # None => (r.on.feature \in fs) = r.on.value
References ==
  UNION {{<<p, r>> : r \in {q \in manifest[packages[p].dir].refs : Kept(q, features[p])}} : p \in Stack}

(* packageVisible.  checkGated refuses a reference to an import some enabled
   switched off, with a word about it, and checkVisibility any other to an
   instance the scope does not import. *)
Hidden(p, r) == /\ Resolve(p, r.comp, r.local) \in Names
                /\ Shown(p, r.comp, r.local) = {}
SwitchedOff(p, r) == \E i \in DOMAIN links : /\ links[i].owner = p /\ links[i].comp \in {r.comp, Top}
                                             /\ links[i].local = r.local /\ ~LinkOn(i)
Gated(p, r) == SwitchedOff(p, r) /\ Hidden(p, r)

Settled == phase = "toolchains" /\ \A p \in Names : ~Torn(p) /\ ~Adopts(p)

ReferenceGated ==
  /\ Settled
  /\ \E x \in References : Gated(x[1], x[2])
  /\ Refuse

ReferenceHidden ==
  /\ Settled
  /\ \A x \in References : ~Gated(x[1], x[2])
  /\ \E x \in References : Hidden(x[1], x[2])
  /\ Refuse

Finish ==
  /\ Settled
  /\ \A x \in References : ~Hidden(x[1], x[2])
  /\ phase' = "ready"
  /\ UNCHANGED <<loading, resolving, toolchain>>

Done == phase \in Final /\ UNCHANGED vars

Load ==
  \/ LoadEntrypoint \/ LoadAlone
  \/ BadImport \/ FollowBound \/ NameTaken \/ FollowLoaded \/ FollowNew
  \/ LinkUp \/ LoadReturns \/ ApplyToLink \/ ApplyReturns \/ Exhausted

Settle ==
  \/ \E p \in pending : ResolveFails(p) \/ ResolveEntry(p) \/ ResolveIdle(p) \/ ResolveImported(p)
  \/ NoProgress \/ Unsatisfied \/ Satisfy \/ InputMissing \/ InputMissingPanics
  \/ FixScopes \/ ToolchainsDiffer \/ ReferenceGated \/ ReferenceHidden \/ Finish
  \/ \E p \in active : AdoptToolchain(p)

Next == Load \/ Settle \/ Done

Spec == Init /\ [][Next]_vars
FairSpec == Spec /\ WF_vars(Load \/ Settle)
-----------------------------------------------------------------------------
(* Properties *)

(* Every instance named, linked, resolved or pinned is one that was loaded. *)
TypeOK ==
  /\ phase \in {"start", "load", "resolve", "check", "toolchains"} \cup Final
  /\ DOMAIN manifest \subseteq Dirs
  /\ \A n \in Names : /\ packages[n].dir \in DOMAIN manifest
                       /\ \A r \in ToSet(packages[n].rules) : (r.target = None) # (r.set = None)
  /\ \A l \in ToSet(links) : l.pkg \in Names /\ l.owner \in Names \cup {Entry}
  /\ pending \cup active \subseteq Names
  /\ DOMAIN features = DOMAIN args /\ DOMAIN needs = DOMAIN args
  /\ DOMAIN args \subseteq Names \ pending
  /\ DOMAIN toolchain \subseteq active

(* What resolvePackages decided one package at a time, some of it before the
   importers it counted were resolved, is what the finished stack says: an
   instance runs with the features injected into it and those passed by the
   imports that are on in the instances that run, no more and no fewer; one
   the entrypoint imports runs with what the entrypoint says, and that covers
   every importer. *)
Counting(p) == {i \in DOMAIN links :
                  /\ links[i].pkg = p /\ links[i].block # None /\ ~AtTop(i) /\ links[i].owner # p
                  /\ links[i].owner \in active \cup {Entry} /\ LinkOn(i)}
FeaturesExact ==
  phase \in {"toolchains", "ready"} =>
    \A p \in Names :
      LET passed == UNION {links[i].block.features : i \in Counting(p)}
      IN IF p \in Configured
         THEN passed \subseteq features[p]
         ELSE features[p] = InjectedFeatures(p) \cup passed

(* The instances resolvePackages found active are those reached over imports
   that are on, from the entrypoint and from those that injected settings keep
   alive.  That is the stack finish computes, too, unless a scope imports two
   instances under one name: the first is settled and not in the stack. *)
On == {i \in DOMAIN links : LinkOn(i)}
NamesApart ==
  \A i, j \in On : /\ links[i].owner = links[j].owner /\ links[i].comp = links[j].comp
                   /\ links[i].local = links[j].local
                   => links[i].pkg = links[j].pkg
StackAgrees ==
  phase \in {"toolchains", "ready"} =>
    LET alive == {p \in Names : packages[p].injected # <<>>}
    IN /\ Stack \subseteq active
       /\ active = Reach(alive, On)
       /\ NamesApart => active = Reach(alive, Visible)

(* Loading descends without end only where packages import each other: load
   and applyRulesToLoaded walk the imports, of which there are finitely many,
   but they remember nothing of where they have been. *)
Leads(d) ==
  {b.dir : b \in UNION {ToSet(manifest[e].imports) : e \in {d} \cap DOMAIN manifest}}
  \cup {packages[l.pkg].dir : l \in {k \in ToSet(links) : k.owner # Entry /\ packages[k.owner].dir = d}}
OnCycle(d) == \A s \in SUBSET Dirs :
  Leads(d) \subseteq s /\ (\A e \in s : Leads(e) \subseteq s) => d \in s
ExhaustedOnlyByCycles == phase = "exhausted" => \E d \in Dirs : OnCycle(d)

(* A missing input is an error that names the import to fix. *)
NeverPanics == phase # "panicked"

(* The toolchain a package adopts is never taken back, however its importers
   come by theirs: packageToolchains settles in one pass over each package. *)
ToolchainSetOnce ==
  [][\A p \in DOMAIN toolchain : p \in DOMAIN toolchain' /\ toolchain'[p] = toolchain[p]]_vars

(* Every load comes to an end, whatever imports what: the packages are
   configured, or an error says why not. *)
LoadEnds == <>(phase \in Final)

(* docs/alphasfile.md:246: packages that import each other resolve in any
   order when none of those imports has enabled. *)
CyclesLoad == phase # "exhausted"

(* tree.go:947: "linked adds every module and package the scope imports to
   vis", unless the import is switched off. *)
EveryImportLinked ==
  phase \in {"toolchains", "ready"} =>
    \A i \in On : \E j \in Visible :
      /\ links[j].owner = links[i].owner /\ links[j].comp = links[i].comp
      /\ links[j].pkg = links[i].pkg

(* docs/alphasfile.md:184: settings a rule injects isolate the package under
   its importer. *)
InjectionIsolates ==
  \A p \in Names : packages[p].injected # <<>> => Len(p) > 1
=============================================================================
