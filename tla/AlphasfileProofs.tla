--------------------------- MODULE AlphasfileProofs ---------------------------
(***************************************************************************)
(* Proofs about what becomes of Alphasfiles: the packages' toolchains      *)
(* (Tree), the chain a start stands on (Levels), and the order and the     *)
(* sources of one evaluation (Evaluation).                                 *)
(***************************************************************************)
EXTENDS Tree, Evaluation, Levels, FiniteSetTheorems, WellFoundedInduction, TLAPS

------------------------------------------------------------------------------
(* Tree: toolchains are settled last, and each for good.                    *)

\* Who runs with a toolchain that is not of its own runs with one that an
\* importer has.
ToolchainInv ==
  /\ phase \notin {"toolchains"} \cup Final => toolchain = <<>>
  /\ \A p \in DOMAIN toolchain : Follows(p) => toolchain[p] \in Offered(p)

\* Loading and resolving settle no toolchain.
LEMMA LoadLeavesToolchains ==
  ASSUME Load
  PROVE  phase \in {"start", "load"} /\ UNCHANGED toolchain
  BY DEF Load, LoadEntrypoint, LoadAlone, BadImport, FollowBound, NameTaken, FollowLoaded, FollowNew,
         FollowUnbound, LinkUp, LoadReturns, ApplyToLink, ApplyReturns, Exhausted, Importing, Following,
         Running, Refuse

LEMMA ResolveLeavesToolchains ==
  ASSUME \/ \E p \in pending : ResolveFails(p) \/ ResolveEntry(p) \/ ResolveIdle(p) \/ ResolveImported(p)
         \/ NoProgress \/ Unsatisfied \/ Satisfy \/ InputMissing \/ InputMissingPanics
  PROVE  phase \in {"resolve", "check"} /\ UNCHANGED toolchain
  BY DEF ResolveFails, ResolveEntry, ResolveIdle, ResolveImported, Resolvable, Resolved,
         NoProgress, Unsatisfied, Satisfy, InputMissing, InputMissingPanics, Refuse

LEMMA NoToolchainYet ==
  ASSUME toolchain' = <<>>
  PROVE  ToolchainInv'
  BY DEF ToolchainInv

\* Whatever leaves the stack as it is leaves what is offered as it is.
LEMMA ToolchainStays ==
  ASSUME ToolchainInv, phase' \in {"toolchains"} \cup Final, UNCHANGED <<loading, resolving, toolchain>>
  PROVE  ToolchainInv' /\ \A p \in DOMAIN toolchain : p \in DOMAIN toolchain' /\ toolchain'[p] = toolchain[p]
<1>1. \A p : Follows(p)' = Follows(p)
  BY DEF Follows, loading, resolving
<1>2. \A p : Offered(p)' = Offered(p)
  BY DEF Offered, loading, resolving
<1> QED
  BY <1>1, <1>2 DEF ToolchainInv

\* FixScopes takes those that have one of their own.
LEMMA OwnToolchains ==
  ASSUME FixScopes
  PROVE  ToolchainInv'
  BY DEF FixScopes, ToolchainInv, Follows, Final, resolving, loading

\* An adopted toolchain is new, and takes nothing away from what others are
\* offered.
LEMMA AdoptedForGood ==
  ASSUME ToolchainInv, NEW p \in active, AdoptToolchain(p)
  PROVE  ToolchainInv' /\ \A q \in DOMAIN toolchain : q \in DOMAIN toolchain' /\ toolchain'[q] = toolchain[q]
<1>1. p \notin DOMAIN toolchain
  BY DEF AdoptToolchain, Adopts, ToolchainInv
<1>2. /\ DOMAIN toolchain' = DOMAIN toolchain \cup {p}
      /\ \A q \in DOMAIN toolchain : toolchain'[q] = toolchain[q]
  BY <1>1 DEF AdoptToolchain, Put
<1>3. toolchain'[p] \in Offered(p)
  <2>1. Offered(p) # {}
    BY FS_EmptySet DEF AdoptToolchain, Adopts
  <2>2. toolchain'[p] = CHOOSE c \in Offered(p) : TRUE
    BY DEF AdoptToolchain, Put
  <2> QED
    BY <2>1, <2>2
<1>4. \A q : Offered(q) \subseteq Offered(q)'
  BY <1>2 DEF AdoptToolchain, Offered, loading, resolving
<1>5. \A q : Follows(q)' = Follows(q)
  BY DEF AdoptToolchain, Follows, loading, resolving
<1> QED
  BY <1>2, <1>3, <1>4, <1>5 DEF ToolchainInv, AdoptToolchain

LEMMA ToolchainStep ==
  ASSUME ToolchainInv, Next
  PROVE  ToolchainInv' /\ \A p \in DOMAIN toolchain : p \in DOMAIN toolchain' /\ toolchain'[p] = toolchain[p]
<1>1. CASE Load
  BY <1>1, LoadLeavesToolchains, NoToolchainYet DEF ToolchainInv, Final
<1>2. CASE \/ \E p \in pending : ResolveFails(p) \/ ResolveEntry(p) \/ ResolveIdle(p) \/ ResolveImported(p)
           \/ NoProgress \/ Unsatisfied \/ Satisfy \/ InputMissing \/ InputMissingPanics
  BY <1>2, ResolveLeavesToolchains, NoToolchainYet DEF ToolchainInv, Final
<1>3. CASE FixScopes
  <2>1. toolchain = <<>>
    BY <1>3 DEF FixScopes, ToolchainInv, Final
  <2> QED
    BY <1>3, <2>1, OwnToolchains
<1>4. CASE ToolchainsDiffer \/ ReferenceGated \/ ReferenceHidden \/ Finish \/ Done
  BY <1>4, ToolchainStays
  DEF ToolchainsDiffer, ReferenceGated, ReferenceHidden, Finish, Done, Settled, Refuse, vars, loading,
      resolving, Final
<1>5. CASE \E p \in active : AdoptToolchain(p)
  BY <1>5, AdoptedForGood
<1> QED
  BY <1>1, <1>2, <1>3, <1>4, <1>5 DEF Next, Settle

\* packageToolchains passes over the packages until nothing changes, and a
\* package that has adopted a toolchain is looked at again with every pass:
\* whatever its importers adopt later, whichever cycles they form, the
\* toolchain it was given first is among those it is offered, so it keeps it.
THEOREM ToolchainsAreKept == Spec => ToolchainSetOnce
<1>1. Init => ToolchainInv
  BY DEF Init, ToolchainInv
<1>2. ToolchainInv /\ [Next]_vars => ToolchainInv'
  <2>1. CASE UNCHANGED vars
    <3>1. \A p : Follows(p)' = Follows(p)
      BY <2>1 DEF Follows, vars
    <3>2. \A p : Offered(p)' = Offered(p)
      BY <2>1 DEF Offered, vars
    <3> QED
      BY <2>1, <3>1, <3>2 DEF ToolchainInv, vars
  <2> QED
    BY <2>1, ToolchainStep
<1>3. ToolchainInv /\ [Next]_vars
      => [\A p \in DOMAIN toolchain : p \in DOMAIN toolchain' /\ toolchain'[p] = toolchain[p]]_vars
  BY ToolchainStep
<1> QED
  BY <1>1, <1>2, <1>3, PTL DEF Spec, ToolchainSetOnce

------------------------------------------------------------------------------
(* Tree: sequences, and what is kept of them.                               *)

\* The least of a set of numbers.
LEMMA MinLeast ==
  ASSUME NEW S \in SUBSET Nat, S # {}
  PROVE  Min(S) \in S /\ \A n \in S : Min(S) <= n
<1>1. PICK m \in S : \A n \in S : <<n, m>> \notin OpToRel(<, Nat)
  BY WFMin, NatLessThanWellFounded, Zenon
<1>2. \A n \in S : ~(n < m)
  BY <1>1, Zenon DEF OpToRel
<1>3. \A n \in S : m <= n
  <2>1. \A n \in S : n \in Nat /\ m \in Nat
    OBVIOUS
  <2> QED
    BY <1>2, <2>1
<1> QED
  BY <1>3 DEF Min

\* A sequence is one of its own elements.
LEMMA OfItsOwn ==
  ASSUME NEW U, NEW s \in Seq(U)
  PROVE  s \in Seq(ToSet(s)) /\ ToSet(s) \subseteq U
<1>1. DOMAIN s = 1 .. Len(s) /\ Len(s) \in Nat /\ \A i \in 1 .. Len(s) : s[i] \in U
  OBVIOUS
<1>2. \A i \in 1 .. Len(s) : s[i] \in ToSet(s)
  BY <1>1 DEF ToSet
<1>3. s \in [1 .. Len(s) -> ToSet(s)]
  <2> HIDE DEF ToSet
  <2>1. s = [i \in 1 .. Len(s) |-> s[i]]
    BY <1>1
  <2> QED
    BY <1>2, <2>1
<1>4. s \in Seq(ToSet(s))
  BY <1>1, <1>3
<1> QED
  BY <1>1, <1>4 DEF ToSet

\* One sequence after another.
LEMMA CatSet ==
  ASSUME NEW s, NEW t, s \in Seq(ToSet(s)), t \in Seq(ToSet(t))
  PROVE  /\ s \o t \in Seq(ToSet(s \o t))
         /\ ToSet(s \o t) \subseteq ToSet(s) \cup ToSet(t)
<1> DEFINE U == ToSet(s) \cup ToSet(t)
<1>1. s \in Seq(U) /\ t \in Seq(U)
  BY DEF ToSet
<1> HIDE DEF U
<1>2. s \o t \in Seq(U)
  BY <1>1
<1> QED
  BY <1>2, OfItsOwn DEF U

\* Those keeps elements of the sequence, and of those only what is to be kept.
LEMMA ThoseKept ==
  ASSUME NEW all, all \in Seq(ToSet(all)), NEW keep
  PROVE  /\ Those(all, keep) \in Seq(ToSet(Those(all, keep)))
         /\ ToSet(Those(all, keep)) \subseteq ToSet(all) \cap keep
<1> DEFINE K == ToSet(all) \cap keep
           step(f, n) == IF n = 0 THEN <<>>
                         ELSE IF all[n] \in keep THEN Append(f[n - 1], all[n]) ELSE f[n - 1]
           Unfolds(m) == {f \in [0 .. m -> Seq(K)] : \A n \in 0 .. m : f[n] = step(f, n)}
<1>1. Len(all) \in Nat /\ DOMAIN all = 1 .. Len(all) /\ \A n \in 1 .. Len(all) : all[n] \in ToSet(all)
  BY DEF ToSet
<1>2. ASSUME NEW m \in 0 .. Len(all), NEW f \in [0 .. m -> Seq(K)], NEW n \in 0 .. Len(all), n <= m + 1
      PROVE  step(f, n) \in Seq(K)
  <2>1. CASE n = 0
    BY <2>1
  <2>2. CASE n # 0
    <3>1. n - 1 \in 0 .. m /\ f[n - 1] \in Seq(K) /\ n \in 1 .. Len(all)
      BY <1>1, <1>2, <2>2
    <3>2. all[n] \in keep => Append(f[n - 1], all[n]) \in Seq(K)
      BY <1>1, <3>1
    <3> QED
      BY <2>2, <3>1, <3>2
  <2> QED
    BY <2>1, <2>2
<1>3. \A m \in 0 .. Len(all) : Unfolds(m) # {}
  <2> DEFINE bad == {m \in 0 .. Len(all) : Unfolds(m) = {}}
  <2> SUFFICES ASSUME bad # {} PROVE FALSE
    OBVIOUS
  <2>1. bad \in SUBSET Nat
    BY <1>1
  <2>2. PICK m \in bad : \A n \in bad : m <= n
    BY <2>1, MinLeast
  <2>3. CASE m = 0
    <3> DEFINE f == [n \in 0 .. 0 |-> <<>>]
    <3>1. f \in [0 .. 0 -> Seq(K)] /\ \A n \in 0 .. 0 : f[n] = step(f, n)
      OBVIOUS
    <3> QED
      BY <2>3, <3>1
  <2>4. CASE m # 0
    <3>1. m - 1 \in 0 .. Len(all) /\ m \in 0 .. Len(all) /\ ~(m <= m - 1) /\ (m - 1) + 1 = m
      <4>1. m \in 0 .. Len(all)
        OBVIOUS
      <4> HIDE DEF bad
      <4> QED
        BY <1>1, <2>4, <4>1
    <3>2. PICK f \in [0 .. m - 1 -> Seq(K)] : \A n \in 0 .. m - 1 : f[n] = step(f, n)
      <4>1. m - 1 \notin bad
        <5> HIDE DEF bad
        <5> QED
          BY <2>2, <3>1
      <4>2. Unfolds(m - 1) # {}
        <5> HIDE DEF Unfolds
        <5> QED
          BY <3>1, <4>1
      <4> QED
        BY <4>2
    <3> DEFINE g == [n \in 0 .. m |-> IF n = m THEN step(f, m) ELSE f[n]]
    <3>3. step(f, m) \in Seq(K)
      <4>1. m - 1 \in 0 .. Len(all) /\ m \in 0 .. Len(all) /\ m <= (m - 1) + 1
        BY <3>1
      <4> HIDE DEF step, K, bad
      <4> QED
        BY <1>2, <3>2, <4>1
    <3>4. g \in [0 .. m -> Seq(K)]
      BY <1>1, <3>1, <3>2, <3>3
    <3>5. ASSUME NEW n \in 0 .. m PROVE g[n] = step(g, n)
      <4>1. n # 0 => n - 1 \in 0 .. m - 1 /\ g[n - 1] = f[n - 1]
        BY <1>1, <3>1
      <4>2. step(g, n) = step(f, n)
        BY <4>1
      <4>3. CASE n = m
        BY <4>2, <4>3
      <4>4. CASE n # m
        <5>1. n \in 0 .. m - 1 /\ f[n] = step(f, n)
          <6>1. n \in 0 .. m - 1
            <7> HIDE DEF step, K, bad
            <7> QED
              BY <1>1, <3>1, <4>4
          <6> QED
            BY <3>2, <6>1
        <5> QED
          BY <4>2, <4>4, <5>1
      <4> QED
        BY <4>3, <4>4
    <3>6. g \in Unfolds(m)
      BY <3>4, <3>5
    <3> QED
      BY <2>2, <3>6
  <2> QED
    BY <2>3, <2>4
<1> DEFINE first == CHOOSE f : f = [n \in 0 .. Len(all) |-> step(f, n)]
<1>4. first = [n \in 0 .. Len(all) |-> step(first, n)]
  <2>1. PICK f \in [0 .. Len(all) -> Seq(K)] : \A n \in 0 .. Len(all) : f[n] = step(f, n)
    <3>1. Unfolds(Len(all)) # {}
      <4> HIDE DEF Unfolds
      <4> QED
        BY <1>1, <1>3
    <3> QED
      BY <3>1
  <2>2. f = [n \in 0 .. Len(all) |-> step(f, n)]
    BY <2>1
  <2> QED
    BY <2>2
<1>5. Those(all, keep) = first[Len(all)]
  BY DEF Those
<1>6. \A n \in 0 .. Len(all) : first[n] \in Seq(K)
  <2> DEFINE bad == {n \in 0 .. Len(all) : first[n] \notin Seq(K)}
  <2> HIDE DEF first
  <2> SUFFICES ASSUME bad # {} PROVE FALSE
    OBVIOUS
  <2>1. bad \in SUBSET Nat
    BY <1>1
  <2>2. PICK n \in bad : \A m \in bad : n <= m
    BY <2>1, MinLeast
  <2>3. n # 0
    BY <1>1, <1>4, <2>2
  <2>4. n - 1 \in 0 .. Len(all) /\ first[n - 1] \in Seq(K) /\ n \in 1 .. Len(all)
    BY <1>1, <2>2, <2>3
  <2>5. all[n] \in keep => Append(first[n - 1], all[n]) \in Seq(K)
    BY <1>1, <2>4
  <2>6. first[n] = step(first, n)
    BY <1>4, <2>4
  <2> QED
    BY <2>2, <2>3, <2>4, <2>5, <2>6
<1>7. Those(all, keep) \in Seq(K)
  BY <1>1, <1>5, <1>6
<1> HIDE DEF K
<1> QED
  BY <1>7, OfItsOwn DEF K

------------------------------------------------------------------------------
(* Tree: what loading leaves.                                               *)

\* The rules of an import, and the calls in progress, lead to instances that
\* are there.
RulesLead(rules, names) ==
  /\ rules \in Seq(ToSet(rules))
  /\ \A r \in ToSet(rules) :
       DOMAIN r = {"id", "key", "set", "target"} /\ r.target \in names \cup {None}

FrameInv(c, names) ==
  IF c.load
  THEN /\ DOMAIN c = {"load", "pkg", "todo", "pend"}
       /\ c.pkg \in names \cup {Entry}
       /\ AreImports(c.todo)
       /\ c.pend # None => /\ c.pend.pkg \in names /\ c.pend.block # None
                           /\ c.pkg = Entry => c.pend.block.on = None
  ELSE /\ DOMAIN c = {"load", "pkg", "rules", "at"}
       /\ c.pkg \in names
       /\ RulesLead(c.rules, names)

CallsInv ==
  /\ \A d \in DOMAIN manifest : AreImports(manifest[d].imports)
  /\ calls \in Seq(ToSet(calls))
  /\ \A c \in ToSet(calls) : FrameInv(c, Names)

\* An instance has a name of its own, and settings only from the entrypoint.
PackagesInv ==
  \A n \in Names :
    /\ n \in Seq(ToSet(n)) /\ n # Entry
    /\ DOMAIN packages[n] = {"dir", "entry", "set", "injected", "rules"}
    /\ RulesLead(packages[n].rules, Names)
    /\ packages[n].set # None => packages[n].entry

\* Every import leads to an instance; the entrypoint's are never conditional,
\* and those at its top level configure what they lead to.
LinkInv(i) ==
  /\ DOMAIN links[i] = {"owner", "comp", "pkg", "local", "bound", "block"}
  /\ links[i].owner \in Names \cup {Entry} /\ links[i].pkg \in Names
  /\ links[i].owner = Entry => Condition(i) = None
  /\ links[i].block = None => AtTop(i)
  /\ AtTop(i) => packages[links[i].pkg].entry

LoadedInv ==
  /\ PackagesInv
  /\ links \in Seq(ToSet(links))
  /\ \A i \in DOMAIN links : LinkInv(i)
  /\ \A p \in Names : packages[p].entry =>
       \E i \in DOMAIN links : links[i].owner = Entry /\ links[i].pkg = p

LoadInv == LoadedInv /\ CallsInv

\* One more instance leaves the rules and the calls as they are.
LEMMA MoreNames ==
  ASSUME NEW names, NEW more, names \subseteq more
  PROVE  /\ \A rules : RulesLead(rules, names) => RulesLead(rules, more)
         /\ \A c : FrameInv(c, names) => FrameInv(c, more)
<1>1. ASSUME NEW rules, RulesLead(rules, names) PROVE RulesLead(rules, more)
  BY <1>1 DEF RulesLead
<1>2. ASSUME NEW c, FrameInv(c, names) PROVE FrameInv(c, more)
  BY <1>1, <1>2 DEF FrameInv
<1> QED
  BY <1>1, <1>2

LEMMA NoRules ==
  ASSUME NEW names
  PROVE  RulesLead(<<>>, names)
BY DEF RulesLead, ToSet

LEMMA CatRules ==
  ASSUME NEW names, NEW s, NEW t, RulesLead(s, names), RulesLead(t, names)
  PROVE  RulesLead(s \o t, names)
BY CatSet DEF RulesLead

LEMMA ThoseRules ==
  ASSUME NEW names, NEW rules, RulesLead(rules, names), NEW keep
  PROVE  RulesLead(Those(rules, keep), names)
BY ThoseKept DEF RulesLead

LEMMA BelowRules ==
  ASSUME NEW names, NEW rules, RulesLead(rules, names), NEW local
  PROVE  RulesLead(Below(rules, local), names)
<1> DEFINE deeper == Those(rules, {r \in ToSet(rules) : Len(r.key) > 1 /\ Head(r.key) = local})
           shorter(i) == [deeper[i] EXCEPT !.key = Tail(@)]
           below == [i \in DOMAIN deeper |-> shorter(i)]
<1>1. RulesLead(deeper, names)
  BY ThoseRules
<1>2. below = Below(rules, local)
  BY DEF Below
<1> HIDE DEF deeper
<1>3. DOMAIN deeper = 1 .. Len(deeper) /\ Len(deeper) \in Nat /\ \A i \in DOMAIN deeper : deeper[i] \in ToSet(deeper)
  BY <1>1 DEF RulesLead, ToSet
<1>4. ASSUME NEW i \in DOMAIN deeper
      PROVE  DOMAIN shorter(i) = {"id", "key", "set", "target"} /\ shorter(i).target \in names \cup {None}
  BY <1>1, <1>3 DEF RulesLead
<1> HIDE DEF shorter
<1>5. below \in Seq({shorter(i) : i \in DOMAIN deeper})
  BY <1>3
<1>6. below \in Seq(ToSet(below)) /\ ToSet(below) \subseteq {shorter(i) : i \in DOMAIN deeper}
  BY <1>5, OfItsOwn
<1> HIDE DEF below
<1> QED
  BY <1>2, <1>4, <1>6 DEF RulesLead

\* What a rule names in the scope of an import is an instance that is there.
LEMMA TargetsThere ==
  ASSUME LoadedInv, NEW owner, NEW comp, NEW name
  PROVE  TargetOf(owner, comp, name) \in Names \cup {None}
<1> DEFINE known(c) == {i \in DOMAIN links : links[i].owner = owner /\ links[i].comp = c /\ links[i].local = name}
<1>1. ASSUME NEW c, known(c) # {} PROVE links[Min(known(c))].pkg \in Names
  <2>1. DOMAIN links = 1 .. Len(links) /\ Len(links) \in Nat
    BY DEF LoadedInv
  <2>2. known(c) \in SUBSET Nat
    BY <2>1
  <2>3. Min(known(c)) \in known(c)
    BY <1>1, <2>2, MinLeast
  <2> QED
    BY <2>3 DEF LoadedInv, LinkInv
<1> QED
  BY <1>1 DEF TargetOf

LEMMA OwnRules ==
  ASSUME LoadedInv, NEW owner, NEW block, block.rules \in Seq(ToSet(block.rules))
  PROVE  RulesLead(ParseRules(owner, block), Names)
<1> DEFINE target(i) == IF block.rules[i].target = None THEN None
                        ELSE TargetOf(owner, block.comp, block.rules[i].target)
           rule(i) == [id     |-> <<owner, Len(links), i>>,
                       key    |-> block.rules[i].key,
                       set    |-> block.rules[i].set,
                       target |-> target(i)]
           own == [i \in DOMAIN block.rules |-> rule(i)]
<1>1. own = ParseRules(owner, block)
  BY DEF ParseRules
<1>2. \A i : target(i) \in Names \cup {None}
  BY TargetsThere
<1> HIDE DEF target
<1>3. \A i : DOMAIN rule(i) = {"id", "key", "set", "target"} /\ rule(i).target = target(i)
  OBVIOUS
<1> HIDE DEF rule
<1>4. DOMAIN block.rules = 1 .. Len(block.rules) /\ Len(block.rules) \in Nat
  OBVIOUS
<1>5. own \in Seq({rule(i) : i \in DOMAIN block.rules})
  BY <1>4
<1>6. own \in Seq(ToSet(own)) /\ ToSet(own) \subseteq {rule(i) : i \in DOMAIN block.rules}
  BY <1>5, OfItsOwn
<1> HIDE DEF own
<1> QED
  BY <1>1, <1>2, <1>3, <1>6 DEF RulesLead

\* The imports, put in order, are imports still.
LEMMA InOrder ==
  ASSUME NEW blocks, AreImports(blocks)
  PROVE  AreImports(Imports(blocks))
<1>1. ASSUME NEW s, AreImports(s), NEW keep PROVE AreImports(Those(s, keep))
  BY <1>1, ThoseKept DEF AreImports
<1>2. ASSUME NEW s, AreImports(s), NEW t, AreImports(t) PROVE AreImports(s \o t)
  BY <1>2, CatSet DEF AreImports
<1>3. ASSUME NEW s, AreImports(s) PROVE AreImports(OrderImports(s))
  <2> DEFINE plain == {b \in ToSet(s) : b.rules = <<>>}
             named == {b \in ToSet(s) :
                         \E o \in ToSet(s) : \E i \in DOMAIN o.rules : o.rules[i].target = b.local}
  <2>1. OrderImports(s) = Those(s, plain) \o Those(s, named \ plain) \o Those(s, ToSet(s) \ (named \cup plain))
    BY DEF OrderImports
  <2> HIDE DEF plain, named
  <2>2. AreImports(Those(s, plain) \o Those(s, named \ plain))
    BY <1>1, <1>2, <1>3
  <2> QED
    BY <1>1, <1>2, <1>3, <2>1, <2>2
<1> DEFINE top == {b \in ToSet(blocks) : b.comp = Top}
           rest == {b \in ToSet(blocks) : b.comp # Top}
<1>4. Imports(blocks) = OrderImports(Those(blocks, top)) \o OrderImports(Those(blocks, rest))
  BY DEF Imports
<1> HIDE DEF top, rest
<1>5. AreImports(OrderImports(Those(blocks, top))) /\ AreImports(OrderImports(Those(blocks, rest)))
  BY <1>1, <1>3
<1> QED
  BY <1>2, <1>4, <1>5

LEMMA LoadCallInv ==
  ASSUME NEW names, NEW owner \in names \cup {Entry}, NEW blocks, AreImports(blocks)
  PROVE  FrameInv(LoadCall(owner, blocks), names)
<1>1. AreImports(Imports(blocks))
  BY InOrder
<1> QED
  BY <1>1 DEF LoadCall, FrameInv

LEMMA ApplyCallInv ==
  ASSUME NEW names, NEW name \in names, NEW rules, RulesLead(rules, names)
  PROVE  FrameInv(ApplyCall(name, rules), names)
BY DEF ApplyCall, FrameInv

\* The call that is running is one of those in progress.
LEMMA InCall ==
  ASSUME CallsInv, calls # <<>>
  PROVE  /\ FrameInv(Call, Names)
         /\ Front(calls) \in Seq(ToSet(calls))
<1>1. Len(calls) \in Nat \ {0} /\ DOMAIN calls = 1 .. Len(calls)
  BY DEF CallsInv
<1>2. Call \in ToSet(calls)
  BY <1>1 DEF Call, Last, ToSet
<1>3. Front(calls) \in Seq(ToSet(calls))
  BY <1>1 DEF Front, CallsInv
<1> QED
  BY <1>2, <1>3 DEF CallsInv

\* The running call waits for another, or returns.
LEMMA CallsKept ==
  ASSUME CallsInv, calls # <<>>, Names \subseteq Names',
         \A d \in DOMAIN manifest' : AreImports(manifest'[d].imports),
         \/ calls' = Front(calls)
         \/ \E top : calls' = Front(calls) \o <<top>> \o <<>> /\ FrameInv(top, Names')
         \/ \E top, new : /\ calls' = Front(calls) \o <<top>> \o <<new>>
                          /\ FrameInv(top, Names') /\ FrameInv(new, Names')
  PROVE  CallsInv'
<1>1. Front(calls) \in Seq(ToSet(calls))
  BY InCall
<1>2. \A c \in ToSet(calls) : FrameInv(c, Names')
  BY MoreNames DEF CallsInv
<1>3. ASSUME NEW U, calls' \in Seq(U), \A c \in U : FrameInv(c, Names') PROVE CallsInv'
  <2>1. calls' \in Seq(ToSet(calls')) /\ ToSet(calls') \subseteq U
    BY <1>3, OfItsOwn
  <2>2. \A c \in ToSet(calls') : FrameInv(c, Names')
    BY <1>3, <2>1
  <2> QED
    BY <2>1, <2>2 DEF CallsInv
<1>4. CASE calls' = Front(calls)
  BY <1>1, <1>2, <1>3, <1>4
<1>5. ASSUME NEW top, calls' = Front(calls) \o <<top>> \o <<>>, FrameInv(top, Names') PROVE CallsInv'
  <2> DEFINE U == ToSet(calls) \cup {top}
  <2>1. Front(calls) \in Seq(U) /\ <<top>> \in Seq(U) /\ <<>> \in Seq(U)
    BY <1>1
  <2>2. calls' \in Seq(U)
    <3> HIDE DEF U
    <3> QED
      BY <1>5, <2>1
  <2> QED
    BY <1>2, <1>3, <1>5, <2>2
<1>6. ASSUME NEW top, NEW new, calls' = Front(calls) \o <<top>> \o <<new>>,
             FrameInv(top, Names'), FrameInv(new, Names')
      PROVE  CallsInv'
  <2> DEFINE U == ToSet(calls) \cup {top, new}
  <2>1. Front(calls) \in Seq(U) /\ <<top>> \in Seq(U) /\ <<new>> \in Seq(U)
    BY <1>1
  <2>2. calls' \in Seq(U)
    <3> HIDE DEF U
    <3> QED
      BY <1>6, <2>1
  <2> QED
    BY <1>2, <1>3, <1>6, <2>2
<1> QED
  BY <1>4, <1>5, <1>6

\* Where neither instances nor imports change, loading has left the same.
LEMMA LoadedStays ==
  ASSUME LoadedInv, UNCHANGED <<packages, links>>
  PROVE  LoadedInv'
<1>1. \A i : LinkInv(i)' = LinkInv(i)
  BY DEF LinkInv, Condition, AtTop, Names
<1>2. PackagesInv'
  BY DEF LoadedInv, PackagesInv, Names
<1> QED
  BY <1>1, <1>2 DEF LoadedInv, Names

LEMMA CallsStay ==
  ASSUME CallsInv, UNCHANGED <<manifest, calls>>, Names \subseteq Names'
  PROVE  CallsInv'
BY MoreNames DEF CallsInv

LEMMA EntrypointLoads ==
  ASSUME TreeAssumption, LoadInv, LoadEntrypoint
  PROVE  LoadInv'
<1>1. LoadedInv'
  BY LoadedStays DEF LoadInv, LoadEntrypoint
<1>2. PICK blocks \in Entrypoints : calls' = <<LoadCall(Entry, blocks)>>
  BY DEF LoadEntrypoint
<1>3. FrameInv(LoadCall(Entry, blocks), Names')
  BY LoadCallInv DEF TreeAssumption
<1> DEFINE U == {LoadCall(Entry, blocks)}
<1>4. calls' \in Seq(ToSet(calls')) /\ ToSet(calls') \subseteq U
  <2>1. calls' \in Seq(U)
    BY <1>2
  <2> HIDE DEF U
  <2> QED
    BY <2>1, OfItsOwn
<1>5. CallsInv'
  BY <1>3, <1>4 DEF CallsInv, LoadInv, LoadEntrypoint
<1> QED
  BY <1>1, <1>5 DEF LoadInv

LEMMA AloneLoads ==
  ASSUME TreeAssumption, LoadAlone
  PROVE  LoadInv'
<1>0. PICK d \in Dirs : \E m \in Manifests[d] :
        /\ manifest' = [e \in {d} |-> m]
        /\ packages' = [n \in {<<Label[d]>>} |->
                          [NewInstance(d, <<>>, <<>>) EXCEPT !.entry = TRUE]]
        /\ links' = <<[owner |-> Entry, comp |-> Top, pkg |-> <<Label[d]>>,
                       local |-> Label[d], bound |-> FALSE, block |-> None]>>
        /\ calls' = <<LoadCall(<<Label[d]>>, m.imports)>>
  BY DEF LoadAlone
<1>1. PICK m \in Manifests[d] :
        /\ manifest' = [e \in {d} |-> m]
        /\ packages' = [n \in {<<Label[d]>>} |->
                          [NewInstance(d, <<>>, <<>>) EXCEPT !.entry = TRUE]]
        /\ links' = <<[owner |-> Entry, comp |-> Top, pkg |-> <<Label[d]>>,
                       local |-> Label[d], bound |-> FALSE, block |-> None]>>
        /\ calls' = <<LoadCall(<<Label[d]>>, m.imports)>>
  BY <1>0
<1> DEFINE name == <<Label[d]>>
           alone == [NewInstance(d, <<>>, <<>>) EXCEPT !.entry = TRUE]
           link == [owner |-> Entry, comp |-> Top, pkg |-> name,
                    local |-> Label[d], bound |-> FALSE, block |-> None]
<1>2. Names' = {name} /\ packages'[name] = alone
  BY <1>1 DEF Names
<1>3. /\ DOMAIN alone = {"dir", "entry", "set", "injected", "rules"}
      /\ alone.rules = <<>> /\ alone.entry = TRUE
  BY DEF NewInstance
<1>4. name \in Seq(ToSet(name)) /\ name # Entry
  BY DEF ToSet, Entry
<1>5. PackagesInv'
  <2> HIDE DEF name, alone
  <2> QED
    BY <1>2, <1>3, <1>4, NoRules DEF PackagesInv
<1>6. links' \in Seq(ToSet(links')) /\ DOMAIN links' = {1} /\ links'[1] = link
  <2>1. links' = <<link>>
    BY <1>1
  <2> HIDE DEF link
  <2>2. links' \in Seq({link})
    BY <2>1
  <2>3. DOMAIN links' = {1} /\ links'[1] = link
    BY <2>1
  <2> QED
    BY <2>2, <2>3, OfItsOwn
<1>7. LinkInv(1)'
  BY <1>2, <1>3, <1>6 DEF LinkInv, Condition, AtTop
<1>8. LoadedInv'
  BY <1>2, <1>5, <1>6, <1>7 DEF LoadedInv
<1>9. CallsInv'
  <2> DEFINE call == LoadCall(name, m.imports)
  <2>1. AreImports(m.imports)
    BY DEF TreeAssumption
  <2>2. FrameInv(call, Names')
    BY <1>2, <2>1, LoadCallInv
  <2>3. calls' \in Seq({call})
    BY <1>1
  <2> HIDE DEF call
  <2>4. calls' \in Seq(ToSet(calls')) /\ ToSet(calls') \subseteq {call}
    BY <2>3, OfItsOwn
  <2>5. \A e \in DOMAIN manifest' : manifest'[e] = m
    BY <1>1
  <2> QED
    BY <2>1, <2>2, <2>4, <2>5 DEF CallsInv
<1> QED
  BY <1>8, <1>9 DEF LoadInv

\* The import being followed, and the rules that bear on it.
LEMMA FollowedImport ==
  ASSUME TreeAssumption, LoadInv, Importing
  PROVE  /\ calls # <<>> /\ FrameInv(Call, Names) /\ Call.load
         /\ Call.pkg \in Names \cup {Entry}
         /\ Block # None /\ Block.dir \in Dirs
         /\ RulesLead(Own, Names) /\ RulesLead(Rules, Names)
         /\ RulesLead(Hits, Names) /\ RulesLead(ChildRules, Names)
<1>1. calls # <<>> /\ Call.load /\ Call.todo # <<>>
  BY DEF Importing, Following, Running
<1>2. FrameInv(Call, Names)
  BY <1>1, InCall DEF LoadInv
<1>3. Call.pkg \in Names \cup {Entry} /\ AreImports(Call.todo)
  BY <1>1, <1>2 DEF FrameInv
<1>4. Block \in ToSet(Call.todo)
  BY <1>1, <1>3 DEF AreImports, Block, ToSet
<1>5. Block # None /\ Block.dir \in Dirs /\ Block.rules \in Seq(ToSet(Block.rules))
  BY <1>3, <1>4 DEF AreImports
<1>6. RulesLead(Own, Names)
  BY <1>5, OwnRules DEF LoadInv, Own
<1>7. RulesLead(Rules, Names)
  BY <1>3, NoRules DEF Rules, LoadInv, LoadedInv, PackagesInv
<1>8. RulesLead(Hits, Names)
  BY <1>7, ThoseRules DEF Hits, Naming
<1>9. RulesLead(ChildRules, Names)
  <2>1. RulesLead(Below(Rules, Block.local), Names) /\ RulesLead(Inherited(Rules, Block.local), Names)
    BY <1>7, ThoseRules, BelowRules DEF Inherited
  <2> QED
    BY <1>6, <2>1, CatRules DEF ChildRules
<1> QED
  BY <1>1, <1>2, <1>3, <1>5, <1>6, <1>7, <1>8, <1>9

LEMMA TailImports ==
  ASSUME NEW todo, AreImports(todo), todo # <<>>
  PROVE  AreImports(Tail(todo))
<1> DEFINE U == ToSet(todo)
<1>1. todo \in Seq(U)
  BY DEF AreImports
<1> HIDE DEF U
<1>2. Tail(todo) \in Seq(U)
  BY <1>1
<1> QED
  BY <1>2, OfItsOwn DEF AreImports, U

\* The frame that waits for an instance to be loaded.
LEMMA WaitingInv ==
  ASSUME TreeAssumption, LoadInv, Importing, ConditionAllowed,
         NEW names, Names \subseteq names, NEW name \in names, NEW bound
  PROVE  FrameInv(Waiting(name, bound), names)
<1>1. FrameInv(Call, names) /\ Call.load
  BY FollowedImport, MoreNames
<1> DEFINE pend == [block |-> Block, own |-> IdsOf(Own), pkg |-> name, bound |-> bound]
           top == [Call EXCEPT !.todo = Tail(@), !.pend = pend]
<1>2. /\ pend.pkg = name /\ pend.block = Block
  OBVIOUS
<1>3. Call.pkg = Entry => Block.on = None
  BY DEF ConditionAllowed
<1>4. AreImports(Tail(Call.todo))
  <2>1. AreImports(Call.todo) /\ Call.todo # <<>>
    BY <1>1 DEF FrameInv, Importing
  <2> QED
    BY <2>1, TailImports
<1> HIDE DEF pend
<1>5. /\ DOMAIN top = {"load", "pkg", "todo", "pend"} /\ top.load = Call.load
      /\ top.pkg = Call.pkg /\ top.todo = Tail(Call.todo) /\ top.pend = pend
  BY <1>1 DEF FrameInv
<1> HIDE DEF top
<1>6. FrameInv(top, names)
  BY <1>1, <1>2, <1>3, <1>4, <1>5, FollowedImport DEF FrameInv
<1> QED
  BY <1>6 DEF Waiting, top, pend

\* Loading on: instances are added, or given more to be injected.
LEMMA LoadedGrows ==
  ASSUME LoadedInv, links' = links, Names \subseteq Names',
         \A n \in Names : /\ DOMAIN packages'[n] = DOMAIN packages[n]
                          /\ packages'[n].rules = packages[n].rules
                          /\ packages'[n].set = packages[n].set
                          /\ packages'[n].entry = packages[n].entry,
         \A n \in Names' \ Names : /\ n \in Seq(ToSet(n)) /\ n # Entry
                                   /\ DOMAIN packages'[n] = {"dir", "entry", "set", "injected", "rules"}
                                   /\ RulesLead(packages'[n].rules, Names')
                                   /\ packages'[n].set = None /\ packages'[n].entry = FALSE
  PROVE  LoadedInv'
<1>1. PackagesInv'
  <2> SUFFICES ASSUME NEW n \in Names'
               PROVE  /\ n \in Seq(ToSet(n)) /\ n # Entry
                      /\ DOMAIN packages'[n] = {"dir", "entry", "set", "injected", "rules"}
                      /\ RulesLead(packages'[n].rules, Names')
                      /\ packages'[n].set # None => packages'[n].entry
    BY DEF PackagesInv
  <2>1. CASE n \in Names
    BY <2>1, MoreNames DEF LoadedInv, PackagesInv
  <2>2. CASE n \notin Names
    BY <2>2
  <2> QED
    BY <2>1, <2>2
<1>2. ASSUME NEW i \in DOMAIN links PROVE LinkInv(i)'
  <2>1. LinkInv(i)
    BY DEF LoadedInv
  <2> QED
    BY <2>1 DEF LinkInv, Condition, AtTop
<1>3. ASSUME NEW p \in Names', packages'[p].entry
      PROVE  \E i \in DOMAIN links' : links'[i].owner = Entry /\ links'[i].pkg = p
  <2>1. p \in Names /\ packages[p].entry
    BY <1>3
  <2> QED
    BY <2>1 DEF LoadedInv
<1> QED
  BY <1>1, <1>2, <1>3 DEF LoadedInv

LEMMA BoundFollowed ==
  ASSUME TreeAssumption, LoadInv, FollowBound
  PROVE  LoadInv'
<1> DEFINE target == Binds(Hits)[1].target
           more == IF Own = <<>> THEN <<>> ELSE <<ApplyCall(target, Own)>>
<1>1. /\ Importing /\ ConditionAllowed /\ UNCHANGED <<packages, links, manifest>> /\ Binds(Hits) # <<>>
      /\ calls' = Front(calls) \o <<Waiting(target, TRUE)>> \o more
  BY DEF FollowBound, Push
<1>2. target \in Names
  <2>1. RulesLead(Binds(Hits), Names) /\ ToSet(Binds(Hits)) \subseteq {r \in ToSet(Hits) : r.target # None}
    BY <1>1, FollowedImport, ThoseRules, ThoseKept DEF Binds, RulesLead
  <2>2. Binds(Hits)[1] \in ToSet(Binds(Hits))
    BY <1>1, <2>1 DEF RulesLead, ToSet
  <2> QED
    BY <2>1, <2>2 DEF RulesLead
<1>3. LoadedInv'
  BY <1>1, LoadedStays DEF LoadInv
<1>4. Names' = Names /\ calls # <<>>
  BY <1>1, FollowedImport DEF Names
<1>5. FrameInv(Waiting(target, TRUE), Names) /\ FrameInv(ApplyCall(target, Own), Names)
  BY <1>1, <1>2, FollowedImport, WaitingInv, ApplyCallInv
<1>6. \A d \in DOMAIN manifest' : AreImports(manifest'[d].imports)
  BY <1>1 DEF LoadInv, CallsInv
<1> HIDE DEF target
<1>7. CallsInv'
  BY <1>1, <1>4, <1>5, <1>6, CallsKept DEF LoadInv
<1> QED
  BY <1>3, <1>7 DEF LoadInv

\* A package is instantiated under its label, alone or below its importer.
LEMMA InstanceNamed ==
  ASSUME TreeAssumption, LoadInv, Importing
  PROVE  InstanceName \in Seq(ToSet(InstanceName)) /\ InstanceName # Entry
<1>1. CASE InstanceName = <<Block.local>>
  BY <1>1 DEF ToSet, Entry
<1>2. CASE Call.pkg # Entry /\ InstanceName = Append(Call.pkg, Block.local)
  <2> DEFINE U == ToSet(Call.pkg) \cup {Block.local}
             n == Append(Call.pkg, Block.local)
  <2>1. Call.pkg \in Seq(ToSet(Call.pkg))
    BY <1>2, FollowedImport DEF LoadInv, LoadedInv, PackagesInv
  <2>2. Call.pkg \in Seq(U) /\ Block.local \in U
    BY <2>1, OfItsOwn
  <2> HIDE DEF U
  <2>3. n \in Seq(U) /\ n # <<>>
    BY <2>2
  <2>4. InstanceName = n
    BY <1>2
  <2> HIDE DEF n
  <2>5. n \in Seq(ToSet(n))
    BY <2>3, OfItsOwn
  <2> QED
    BY <2>3, <2>4, <2>5 DEF Entry
<1> QED
  BY <1>1, <1>2 DEF InstanceName

LEMMA LoadedFollowed ==
  ASSUME TreeAssumption, LoadInv, FollowLoaded
  PROVE  LoadInv'
<1> DEFINE more == IF ChildRules = <<>> THEN <<>> ELSE <<ApplyCall(InstanceName, ChildRules)>>
<1>1. /\ Importing /\ ConditionAllowed /\ UNCHANGED <<links, manifest>> /\ InstanceName \in Names
      /\ packages' = [packages EXCEPT ![InstanceName].injected = @ \o SetsOf(Injections(Hits))]
      /\ calls' = Front(calls) \o <<Waiting(InstanceName, FALSE)>> \o more
  BY DEF FollowLoaded, FollowUnbound, Push
<1>2. /\ Names' = Names
      /\ \A n \in Names : /\ DOMAIN packages'[n] = DOMAIN packages[n]
                          /\ packages'[n].rules = packages[n].rules
                          /\ packages'[n].set = packages[n].set
                          /\ packages'[n].entry = packages[n].entry
  BY <1>1 DEF Names, LoadInv, LoadedInv, PackagesInv
<1>3. LoadedInv'
  BY <1>1, <1>2, LoadedGrows DEF LoadInv
<1>4. calls # <<>>
  BY <1>1, FollowedImport
<1>5. FrameInv(Waiting(InstanceName, FALSE), Names) /\ FrameInv(ApplyCall(InstanceName, ChildRules), Names)
  BY <1>1, FollowedImport, WaitingInv, ApplyCallInv
<1>6. \A d \in DOMAIN manifest' : AreImports(manifest'[d].imports)
  BY <1>1 DEF LoadInv, CallsInv
<1>7. CallsInv'
  BY <1>1, <1>2, <1>4, <1>5, <1>6, CallsKept DEF LoadInv
<1> QED
  BY <1>3, <1>7 DEF LoadInv

LEMMA NewFollowed ==
  ASSUME TreeAssumption, LoadInv, FollowNew
  PROVE  LoadInv'
<1> DEFINE new == NewInstance(Block.dir, SetsOf(Injections(Hits)), ChildRules)
           name == InstanceName
<1>0. PICK m \in IF Block.dir \in DOMAIN manifest THEN {manifest[Block.dir]} ELSE Manifests[Block.dir] :
        /\ manifest' = [d \in DOMAIN manifest \cup {Block.dir} |-> IF d = Block.dir THEN m ELSE manifest[d]]
        /\ calls' = Front(calls) \o <<Waiting(name, FALSE)>> \o <<LoadCall(name, m.imports)>>
  BY DEF FollowNew, Push
<1>1. /\ Importing /\ ConditionAllowed /\ links' = links /\ name \notin Names
      /\ packages' = [n \in Names \cup {name} |-> IF n \in Names THEN packages[n] ELSE new]
  BY DEF FollowNew, FollowUnbound
<1>2. AreImports(m.imports)
  BY <1>0, <1>1, FollowedImport DEF TreeAssumption, LoadInv, CallsInv
<1>3. Names' = Names \cup {name} /\ packages'[name] = new /\ \A n \in Names : packages'[n] = packages[n]
  BY <1>1 DEF Names
<1>4. /\ DOMAIN new = {"dir", "entry", "set", "injected", "rules"}
      /\ new.set = None /\ new.entry = FALSE /\ new.rules = ChildRules
  BY DEF NewInstance
<1>5. RulesLead(ChildRules, Names')
  BY <1>1, <1>3, FollowedImport, MoreNames
<1>6. name \in Seq(ToSet(name)) /\ name # Entry
  BY <1>1, InstanceNamed
<1> HIDE DEF new, name
<1>7. LoadedInv'
  BY <1>1, <1>3, <1>4, <1>5, <1>6, LoadedGrows DEF LoadInv
<1>8. calls # <<>>
  BY <1>1, FollowedImport
<1>9. FrameInv(Waiting(name, FALSE), Names') /\ FrameInv(LoadCall(name, m.imports), Names')
  BY <1>1, <1>2, <1>3, WaitingInv, LoadCallInv
<1>10. \A d \in DOMAIN manifest' : AreImports(manifest'[d].imports)
  BY <1>0, <1>2 DEF LoadInv, CallsInv
<1>11. CallsInv'
  BY <1>0, <1>3, <1>8, <1>9, <1>10, CallsKept DEF LoadInv
<1> QED
  BY <1>7, <1>11 DEF LoadInv

LEMMA LinkedUp ==
  ASSUME LoadInv, LinkUp
  PROVE  LoadInv'
<1> DEFINE w == Call.pend
           b == w.block
           top == Call.pkg = Entry /\ b.comp = Top
           new == [owner |-> Call.pkg, comp |-> b.comp, pkg |-> w.pkg,
                   local |-> b.local, bound |-> w.bound, block |-> b]
           rest == [Call EXCEPT !.pend = None]
<1>1. calls # <<>> /\ Call.load /\ w # None
  BY DEF LinkUp, Following, Running
<1>2. FrameInv(Call, Names)
  BY <1>1, InCall DEF LoadInv
<1>3. /\ Call.pkg \in Names \cup {Entry} /\ w.pkg \in Names /\ b # None
      /\ Call.pkg = Entry => b.on = None
  BY <1>1, <1>2 DEF FrameInv
<1>4. CASE Refuse
  BY <1>4, LoadedStays, CallsStay DEF LoadInv, Refuse, loading, Names
<1>5. CASE ~Refuse
  <2>1. /\ links' = Append(links, new)
        /\ packages' = IF top /\ packages[w.pkg].set = None
                       THEN [packages EXCEPT ![w.pkg].entry = TRUE, ![w.pkg].set = Passed(b)]
                       ELSE packages
        /\ calls' = Front(calls) \o <<rest>>
        /\ manifest' = manifest
    BY <1>5 DEF LinkUp
  <2>2. /\ DOMAIN new = {"owner", "comp", "pkg", "local", "bound", "block"}
        /\ new.owner = Call.pkg /\ new.comp = b.comp /\ new.pkg = w.pkg /\ new.block = b
    OBVIOUS
  <2>3. /\ Names' = Names
        /\ \A n \in Names : /\ DOMAIN packages'[n] = DOMAIN packages[n]
                            /\ packages'[n].rules = packages[n].rules
                            /\ packages[n].entry => packages'[n].entry
                            /\ packages'[n].set # None => packages'[n].entry
                            /\ packages'[n].entry => packages[n].entry \/ (top /\ n = w.pkg)
        /\ top => packages'[w.pkg].entry
    <3>1. CASE top /\ packages[w.pkg].set = None
      <4>1. packages' = [packages EXCEPT ![w.pkg] = [packages[w.pkg] EXCEPT !.entry = TRUE, !.set = Passed(b)]]
        BY <2>1, <3>1
      <4> DEFINE p == [packages[w.pkg] EXCEPT !.entry = TRUE, !.set = Passed(b)]
      <4>2. DOMAIN packages[w.pkg] = {"dir", "entry", "set", "injected", "rules"}
        BY <1>3 DEF LoadInv, LoadedInv, PackagesInv
      <4>3. DOMAIN p = DOMAIN packages[w.pkg] /\ p.rules = packages[w.pkg].rules /\ p.entry = TRUE
        BY <4>2
      <4> HIDE DEF p
      <4>4. packages' = [packages EXCEPT ![w.pkg] = p]
        BY <4>1 DEF p
      <4>5. Names' = Names /\ packages'[w.pkg] = p /\ \A n \in Names \ {w.pkg} : packages'[n] = packages[n]
        BY <1>3, <4>4 DEF Names
      <4>6. \A n \in Names : packages[n].set # None => packages[n].entry
        BY DEF LoadInv, LoadedInv, PackagesInv
      <4> HIDE DEF w, top
      <4> QED
        BY <3>1, <4>3, <4>5, <4>6
    <3>2. CASE ~(top /\ packages[w.pkg].set = None)
      <4>1. packages' = packages
        BY <2>1, <3>2
      <4>2. \A n \in Names : packages[n].set # None => packages[n].entry
        BY DEF LoadInv, LoadedInv, PackagesInv
      <4> HIDE DEF w, top
      <4> QED
        BY <1>3, <3>2, <4>1, <4>2 DEF Names
    <3> QED
      BY <3>1, <3>2
  <2>4. /\ links' \in Seq(ToSet(links')) /\ DOMAIN links' = 1 .. Len(links) + 1
        /\ Len(links) \in Nat /\ DOMAIN links = 1 .. Len(links)
        /\ \A i \in DOMAIN links : links'[i] = links[i]
        /\ links'[Len(links) + 1] = new
    <3> DEFINE U == ToSet(links) \cup {new}
    <3>1. links \in Seq(ToSet(links))
      BY DEF LoadInv, LoadedInv
    <3> HIDE DEF new
    <3>2. links \in Seq(U) /\ new \in U
      BY <3>1, OfItsOwn
    <3> HIDE DEF U
    <3>3. Append(links, new) \in Seq(U)
      BY <3>2
    <3>4. links' \in Seq(ToSet(links'))
      BY <2>1, <3>3, OfItsOwn
    <3> QED
      BY <2>1, <3>2, <3>4
  <2> HIDE DEF w, new
  <2>5. PackagesInv'
    BY <2>3 DEF PackagesInv, LoadInv, LoadedInv
  <2>6. ASSUME NEW i \in DOMAIN links' PROVE LinkInv(i)'
    <3>1. CASE i \in DOMAIN links
      <4>1. LinkInv(i) /\ links'[i] = links[i]
        BY <2>4, <3>1 DEF LoadInv, LoadedInv
      <4> QED
        BY <2>3, <4>1 DEF LinkInv, Condition, AtTop
    <3>2. CASE i = Len(links) + 1
      <4>1. links'[i] = new
        BY <2>4, <3>2
      <4> QED
        BY <1>3, <2>2, <2>3, <4>1 DEF LinkInv, Condition, AtTop
    <3> QED
      BY <2>4, <3>1, <3>2
  <2>7. ASSUME NEW p \in Names, packages'[p].entry
        PROVE  \E i \in DOMAIN links' : links'[i].owner = Entry /\ links'[i].pkg = p
    <3>1. CASE packages[p].entry
      <4>1. PICK i \in DOMAIN links : links[i].owner = Entry /\ links[i].pkg = p
        BY <3>1 DEF LoadInv, LoadedInv
      <4> QED
        BY <2>4, <4>1
    <3>2. CASE top /\ p = w.pkg
      <4>1. Len(links) + 1 \in DOMAIN links'
        BY <2>4
      <4> QED
        BY <2>2, <2>4, <3>2, <4>1
    <3> QED
      BY <2>3, <2>7, <3>1, <3>2
  <2>8. LoadedInv'
    BY <2>3, <2>4, <2>5, <2>6, <2>7 DEF LoadedInv
  <2>9. FrameInv(rest, Names)
    <3>1. /\ DOMAIN rest = {"load", "pkg", "todo", "pend"} /\ rest.load = Call.load
          /\ rest.pkg = Call.pkg /\ rest.todo = Call.todo /\ rest.pend = None
      BY <1>1, <1>2 DEF FrameInv
    <3> HIDE DEF rest
    <3> QED
      BY <1>1, <1>2, <3>1 DEF FrameInv
  <2>10. calls' = Front(calls) \o <<rest>> \o <<>>
    <3> HIDE DEF rest
    <3>1. Front(calls) \o <<rest>> \in Seq(ToSet(calls) \cup {rest})
      <4>1. Front(calls) \in Seq(ToSet(calls) \cup {rest})
        BY <1>1, InCall DEF LoadInv
      <4> QED
        BY <4>1
    <3> QED
      BY <2>1, <3>1
  <2>11. CallsInv'
    BY <1>1, <2>1, <2>3, <2>9, <2>10, CallsKept DEF LoadInv, CallsInv
  <2> QED
    BY <2>8, <2>11 DEF LoadInv
<1> QED
  BY <1>4, <1>5

LEMMA CallReturns ==
  ASSUME LoadInv, LoadReturns \/ ApplyReturns
  PROVE  LoadInv'
<1>1. calls # <<>> /\ calls' = Front(calls) /\ UNCHANGED <<packages, links, manifest>>
  BY DEF LoadReturns, ApplyReturns, Following, Running
<1>2. LoadedInv'
  BY <1>1, LoadedStays DEF LoadInv
<1>3. Names' = Names
  BY <1>1 DEF Names
<1>4. CallsInv'
  BY <1>1, <1>3, CallsKept DEF LoadInv, CallsInv
<1> QED
  BY <1>2, <1>4 DEF LoadInv

LEMMA RulesApplied ==
  ASSUME LoadInv, ApplyToLink
  PROVE  LoadInv'
<1> DEFINE i == Min(LinksLeft)
           l == links[i]
           hits == Naming(Call.rules, l.local)
           binds == {k \in DOMAIN hits : hits[k].target # None}
           bindAt == Min(binds)
           leads == IF binds = {} THEN l.pkg ELSE hits[bindAt].target
           into(n) == {k \in DOMAIN hits : /\ hits[k].set # None
                                           /\ n = IF binds # {} /\ bindAt <= k THEN leads ELSE l.pkg}
           sub == Below(Call.rules, l.local) \o Inherited(Call.rules, l.local)
           more(n) == Reverse(SetsOf([k \in 1..Cardinality(into(n)) |-> hits[SetToSortSeq(into(n), <)[k]]]))
           rest == [Call EXCEPT !.at = i]
<1>1. /\ calls # <<>> /\ ~Call.load /\ LinksLeft # {}
      /\ links' = [links EXCEPT ![i].pkg = leads, ![i].bound = @ \/ binds # {}]
      /\ packages' = [n \in Names |-> [packages[n] EXCEPT !.injected = more(n) \o @]]
      /\ calls' = Front(calls) \o <<rest>> \o Descend(leads, sub)
      /\ manifest' = manifest
  BY DEF ApplyToLink, Running
<1>2. /\ FrameInv(Call, Names) /\ Call.pkg \in Names /\ RulesLead(Call.rules, Names)
      /\ Call.pkg # Entry
  BY <1>1, InCall DEF LoadInv, FrameInv, LoadedInv, PackagesInv
<1>3. i \in DOMAIN links /\ l.owner = Call.pkg
  <2>1. DOMAIN links = 1 .. Len(links) /\ Len(links) \in Nat
    BY DEF LoadInv, LoadedInv
  <2>2. LinksLeft \in SUBSET Nat
    BY <2>1 DEF LinksLeft
  <2>3. i \in LinksLeft
    BY <1>1, <2>2, MinLeast
  <2> HIDE DEF i
  <2> QED
    BY <2>3 DEF LinksLeft
<1>4. RulesLead(hits, Names) /\ RulesLead(sub, Names)
  BY <1>2, ThoseRules, BelowRules, CatRules DEF Naming, Inherited
<1>5. leads \in Names
  <2>1. l.pkg \in Names
    BY <1>3 DEF LoadInv, LoadedInv, LinkInv
  <2>2. CASE binds # {}
    <3> HIDE DEF hits
    <3>1. DOMAIN hits = 1 .. Len(hits) /\ Len(hits) \in Nat
      BY <1>4 DEF RulesLead
    <3>2. bindAt \in binds
      <4>1. binds \in SUBSET Nat
        BY <3>1
      <4> HIDE DEF binds
      <4> QED
        BY <2>2, <4>1, MinLeast
    <3>3. hits[bindAt] \in ToSet(hits) /\ hits[bindAt].target # None
      BY <3>2 DEF ToSet
    <3> QED
      BY <1>4, <2>2, <3>3 DEF RulesLead
  <2> QED
    BY <2>1, <2>2
<1> HIDE DEF more
<1>6. /\ Names' = Names
      /\ \A n \in Names : /\ DOMAIN packages'[n] = DOMAIN packages[n]
                          /\ packages'[n].rules = packages[n].rules
                          /\ packages'[n].set = packages[n].set
                          /\ packages'[n].entry = packages[n].entry
  BY <1>1 DEF Names, LoadInv, LoadedInv, PackagesInv
<1> HIDE DEF leads, sub
<1>7. /\ DOMAIN links' = DOMAIN links
      /\ \A j \in DOMAIN links \ {i} : links'[j] = links[j]
      /\ links'[i] = [l EXCEPT !.pkg = leads, !.bound = @ \/ binds # {}]
  <2> HIDE DEF binds, i
  <2> QED
    BY <1>1, <1>3
<1>8. DOMAIN l = {"owner", "comp", "pkg", "local", "bound", "block"}
  BY <1>3 DEF LoadInv, LoadedInv, LinkInv
<1>9. /\ DOMAIN links'[i] = DOMAIN l /\ links'[i].owner = l.owner /\ links'[i].comp = l.comp
      /\ links'[i].block = l.block /\ links'[i].pkg = leads
  <2> HIDE DEF binds, l
  <2> QED
    BY <1>7, <1>8
<1>10. links' \in Seq(ToSet(links'))
  <2>1. DOMAIN links' = 1 .. Len(links) /\ Len(links) \in Nat
    BY <1>7 DEF LoadInv, LoadedInv
  <2>2. links' = [j \in DOMAIN links' |-> links'[j]]
    <3> HIDE DEF i, binds
    <3> QED
      BY <1>1
  <2>3. \A j \in DOMAIN links' : links'[j] \in ToSet(links')
    BY DEF ToSet
  <2> QED
    BY <2>1, <2>2, <2>3
<1>11. ASSUME NEW j \in DOMAIN links' PROVE LinkInv(j)'
  <2>1. LinkInv(j)
    BY <1>7 DEF LoadInv, LoadedInv
  <2>2. CASE j = i
    <3> HIDE DEF i
    <3> QED
      BY <1>2, <1>3, <1>5, <1>6, <1>8, <1>9, <2>1, <2>2 DEF LinkInv, Condition, AtTop
  <2>3. CASE j # i
    <3>1. links'[j] = links[j]
      BY <1>7, <2>3
    <3> QED
      BY <1>6, <2>1, <3>1 DEF LinkInv, Condition, AtTop
  <2> QED
    BY <2>2, <2>3
<1>12. ASSUME NEW p \in Names, packages'[p].entry
       PROVE  \E j \in DOMAIN links' : links'[j].owner = Entry /\ links'[j].pkg = p
  <2>1. PICK j \in DOMAIN links : links[j].owner = Entry /\ links[j].pkg = p
    BY <1>6, <1>12 DEF LoadInv, LoadedInv
  <2>2. j # i
    BY <1>2, <1>3, <2>1
  <2> QED
    BY <1>7, <2>1, <2>2
<1>13. PackagesInv'
  BY <1>6 DEF LoadInv, LoadedInv, PackagesInv
<1>14. LoadedInv'
  BY <1>6, <1>10, <1>11, <1>12, <1>13 DEF LoadedInv
<1>15. FrameInv(rest, Names)
  <2>1. /\ DOMAIN rest = {"load", "pkg", "rules", "at"} /\ rest.load = Call.load
        /\ rest.pkg = Call.pkg /\ rest.rules = Call.rules
    BY <1>1, <1>2 DEF FrameInv
  <2> HIDE DEF rest
  <2> QED
    BY <1>1, <1>2, <2>1 DEF FrameInv
<1>16. FrameInv(ApplyCall(leads, sub), Names)
  BY <1>4, <1>5, ApplyCallInv
<1>17. CallsInv'
  <2>1. Descend(leads, sub) \in {<<>>, <<ApplyCall(leads, sub)>>}
    BY DEF Descend
  <2>2. \A d \in DOMAIN manifest' : AreImports(manifest'[d].imports)
    BY <1>1 DEF LoadInv, CallsInv
  <2> HIDE DEF rest
  <2> QED
    BY <1>1, <1>6, <1>15, <1>16, <2>1, <2>2, CallsKept DEF LoadInv
<1> QED
  BY <1>14, <1>17 DEF LoadInv

\* Nothing is resolved while loading goes on, and nothing is loaded after.
LEMMA LoadStep ==
  ASSUME TreeAssumption, LoadInv, [Next]_vars
  PROVE  LoadInv'
<1>1. CASE \/ BadImport \/ NameTaken \/ Exhausted \/ Settle \/ Done \/ UNCHANGED vars
  <2>1. UNCHANGED loading
    BY <1>1 DEF BadImport, NameTaken, Exhausted, Settle, Done, Refuse, vars, loading, ResolveFails,
                ResolveEntry, ResolveIdle, ResolveImported, Resolved, NoProgress, Unsatisfied, Satisfy,
                InputMissing, InputMissingPanics, FixScopes, ToolchainsDiffer, ReferenceGated,
                ReferenceHidden, Finish, AdoptToolchain
  <2> QED
    BY <2>1, LoadedStays, CallsStay DEF LoadInv, loading, Names
<1> QED
  BY <1>1, EntrypointLoads, AloneLoads, BoundFollowed, LoadedFollowed, NewFollowed, LinkedUp, CallReturns,
     RulesApplied DEF Next, Load

LEMMA LoadStart == Init => LoadInv
<1> SUFFICES ASSUME Init PROVE LoadInv
  OBVIOUS
<1>1. packages = <<>> /\ links = <<>> /\ calls = <<>> /\ manifest = <<>>
  BY DEF Init
<1>2. LoadedInv
  BY <1>1 DEF LoadedInv, PackagesInv, Names
<1>3. CallsInv
  BY <1>1 DEF CallsInv, ToSet
<1> QED
  BY <1>2, <1>3 DEF LoadInv

------------------------------------------------------------------------------
(* Tree: what resolving decides, one instance at a time, is what the        *)
(* finished stack says.                                                     *)

\* The least set of instances closed under the links kept.
LEMMA ReachIsLeast ==
  ASSUME LoadedInv, NEW from, from \subseteq Names, NEW keep, keep \subseteq DOMAIN links
  PROVE  /\ Reach(from, keep) \subseteq Names /\ from \subseteq Reach(from, keep)
         /\ \A i \in keep : links[i].owner \in Reach(from, keep) \cup {Entry}
                            => links[i].pkg \in Reach(from, keep)
         /\ \A s \in SUBSET Names :
              /\ from \subseteq s
              /\ \A i \in keep : links[i].owner \in s \cup {Entry} => links[i].pkg \in s
              => Reach(from, keep) \subseteq s
<1> DEFINE closed == {s \in SUBSET Names :
                        /\ from \subseteq s
                        /\ \A i \in keep : links[i].owner \in s \cup {Entry} => links[i].pkg \in s}
<1>1. Reach(from, keep) = {n \in Names : \A s \in closed : n \in s}
  BY DEF Reach
<1>2. \A i \in keep : links[i].pkg \in Names
  BY DEF LoadedInv, LinkInv
<1>3. ASSUME NEW i \in keep, links[i].owner \in Reach(from, keep) \cup {Entry}
      PROVE  links[i].pkg \in Reach(from, keep)
  <2>1. ASSUME NEW s \in closed PROVE links[i].pkg \in s
    BY <1>1, <1>3
  <2> HIDE DEF closed
  <2> QED
    BY <1>1, <1>2, <2>1
<1> QED
  BY <1>1, <1>3

\* What is reached and is no start is reached from something else.
LEMMA ReachedFrom ==
  ASSUME LoadedInv, NEW from, from \subseteq Names, NEW keep, keep \subseteq DOMAIN links,
         NEW p \in Reach(from, keep), p \notin from
  PROVE  \E i \in keep : /\ links[i].pkg = p /\ links[i].owner # p
                         /\ links[i].owner \in Reach(from, keep) \cup {Entry}
<1> SUFFICES ASSUME \A i \in keep : links[i].pkg = p /\ links[i].owner # p
                                    => links[i].owner \notin Reach(from, keep) \cup {Entry}
             PROVE  FALSE
  OBVIOUS
<1> DEFINE s == Reach(from, keep) \ {p}
<1>1. s \in SUBSET Names /\ from \subseteq s
  BY ReachIsLeast
<1>2. \A i \in keep : links[i].owner \in s \cup {Entry} => links[i].pkg \in s
  <2> SUFFICES ASSUME NEW i \in keep, links[i].owner \in s \cup {Entry} PROVE links[i].pkg \in s
    OBVIOUS
  <2>1. links[i].pkg \in Reach(from, keep)
    BY ReachIsLeast
  <2>2. links[i].owner # p
    <3>1. p # Entry
      BY ReachIsLeast DEF LoadedInv, PackagesInv
    <3> QED
      BY <3>1
  <2> QED
    BY <2>1, <2>2
<1>3. Reach(from, keep) \subseteq s
  <2> HIDE DEF s
  <2> QED
    BY <1>1, <1>2, ReachIsLeast
<1> QED
  BY <1>3

LEMMA ReachGrows ==
  ASSUME LoadedInv, NEW from, from \subseteq Names, NEW more, more \subseteq Names, from \subseteq more,
         NEW keep, NEW all, all \subseteq DOMAIN links, keep \subseteq all
  PROVE  Reach(from, keep) \subseteq Reach(more, all)
<1> DEFINE s == Reach(more, all)
<1>1. s \in SUBSET Names /\ from \subseteq s /\ \A i \in keep : links[i].owner \in s \cup {Entry} => links[i].pkg \in s
  BY ReachIsLeast
<1> HIDE DEF s
<1>2. keep \subseteq DOMAIN links
  OBVIOUS
<1>3. Reach(from, keep) \subseteq s
  BY <1>1, <1>2, ReachIsLeast
<1> QED
  BY <1>3 DEF s

\* What the imports that count pass to an instance, and the imports that are
\* known to be on before all instances are resolved.
PassedFeatures(p) == UNION {links[i].block.features : i \in Needs(p)}
Alive == {p \in Names : packages[p].injected # <<>>}
OnNow == {i \in DOMAIN links : IF links[i].owner \in pending THEN Unconditional(i) ELSE LinkOn(i)}

\* A resolved instance runs, and runs with what it does, by the imports that
\* count: none of them can change any more.
DecidedInv(p) ==
  IF p \in Configured
  THEN p \in active
  ELSE /\ ImportersDone(p)
       /\ features[p] = InjectedFeatures(p) \cup PassedFeatures(p)
       /\ p \in active <=> Needs(p) # {} \/ packages[p].injected # <<>>

Resolving == phase \in {"resolve", "check", "toolchains", "ready"}
ResolveInv ==
  /\ phase \in {"start", "load"} => features = <<>> /\ active = {}
  /\ Resolving => /\ pending \subseteq Names /\ active \subseteq Names \ pending
                  /\ DOMAIN features = Names \ pending
                  /\ \A p \in Names \ pending : DecidedInv(p)
                  /\ active \subseteq Reach(Alive, OnNow)
  /\ phase \in {"check", "toolchains", "ready"} =>
       /\ pending = {}
       /\ \A p \in Configured : PassedFeatures(p) \subseteq features[p]

\* Who imports whom is settled when resolving begins.
LEMMA GraphStays ==
  ASSUME UNCHANGED <<packages, links>>
  PROVE  /\ Names' = Names /\ Sure' = Sure /\ Configured' = Configured /\ Alive' = Alive
         /\ \A i : /\ Unconditional(i)' = Unconditional(i) /\ AtTop(i)' = AtTop(i)
                   /\ Condition(i)' = Condition(i)
         /\ \A p : InjectedFeatures(p)' = InjectedFeatures(p)
         /\ \A from, keep : Reach(from, keep)' = Reach(from, keep)
<1>1. Names' = Names /\ Configured' = Configured /\ Alive' = Alive
  BY DEF Names, Configured, Alive
<1>2. \A i : /\ Unconditional(i)' = Unconditional(i) /\ AtTop(i)' = AtTop(i)
             /\ Condition(i)' = Condition(i)
  BY DEF Unconditional, AtTop, Condition
<1>3. \A p : InjectedFeatures(p)' = InjectedFeatures(p)
  BY DEF InjectedFeatures
<1>4. \A from, keep : Reach(from, keep)' = Reach(from, keep)
  BY DEF Reach, Names
<1>5. Sure' = Sure
  BY DEF Sure, Reach, Names, Unconditional, Condition
<1> QED
  BY <1>1, <1>2, <1>3, <1>4, <1>5

\* What leaves the instances and what was decided alone.
LEMMA ResolveStays ==
  ASSUME ResolveInv, UNCHANGED <<packages, links, pending, active, features>>, Resolving,
         phase' = "check" => pending = {} /\ \A p \in Configured : PassedFeatures(p) \subseteq features[p],
         phase' \in {"toolchains", "ready"} => phase \in {"check", "toolchains", "ready"},
         phase' \notin {"start", "load"}
  PROVE  ResolveInv'
<1>1. \A i : LinkOn(i)' = LinkOn(i)
  BY GraphStays DEF LinkOn
<1>2. \A p : Needs(p)' = Needs(p)
  BY <1>1, GraphStays DEF Needs, Importers
<1>3. \A p : PassedFeatures(p)' = PassedFeatures(p)
  BY <1>2 DEF PassedFeatures
<1>4. \A p : ImportersDone(p)' = ImportersDone(p)
  BY GraphStays DEF ImportersDone
<1>5. ASSUME NEW p, DecidedInv(p) PROVE DecidedInv(p)'
  <2>1. CASE p \in Configured
    BY <1>5, <2>1, GraphStays, Zenon DEF DecidedInv
  <2>2. CASE p \notin Configured
    <3>1. /\ ImportersDone(p)
          /\ features[p] = InjectedFeatures(p) \cup PassedFeatures(p)
          /\ p \in active <=> Needs(p) # {} \/ packages[p].injected # <<>>
      BY <1>5, <2>2, Zenon DEF DecidedInv
    <3>2. ImportersDone(p)'
      BY <1>4, <3>1, Zenon
    <3>3. p \notin Configured'
      BY <2>2, GraphStays
    <3> QED
      BY <1>2, <1>3, <3>1, <3>2, <3>3, GraphStays DEF DecidedInv
  <2> QED
    BY <2>1, <2>2
<1>6. OnNow' = OnNow
  BY <1>1, GraphStays DEF OnNow
<1>7. Reach(Alive, OnNow)' = Reach(Alive, OnNow)
  BY <1>6 DEF Alive, Reach, Names
<1> QED
  BY <1>3, <1>5, <1>7, GraphStays DEF ResolveInv, Resolving

\* The entrypoint's imports are on, and what is surely active is reached.
LEMMA SureReached ==
  ASSUME LoadedInv, pending \subseteq Names
  PROVE  /\ Alive \subseteq Names /\ OnNow \subseteq DOMAIN links
         /\ Configured \subseteq Reach(Alive, OnNow)
         /\ Sure \subseteq Reach(Alive, OnNow)
<1>1. Alive \subseteq Names /\ OnNow \subseteq DOMAIN links
  BY DEF Alive, OnNow
<1>2. ASSUME NEW p \in Configured PROVE p \in Reach(Alive, OnNow)
  <2>1. PICK i \in DOMAIN links : links[i].owner = Entry /\ links[i].pkg = p
    BY DEF Configured, LoadedInv
  <2>2. Condition(i) = None /\ Entry \notin pending
    BY <2>1 DEF LoadedInv, LinkInv, PackagesInv
  <2>3. i \in OnNow
    BY <2>1, <2>2 DEF OnNow, LinkOn
  <2> QED
    BY <1>1, <2>1, <2>3, ReachIsLeast
<1>3. \A i \in DOMAIN links : Unconditional(i) => i \in OnNow
  BY DEF OnNow, LinkOn, Unconditional
<1> DEFINE s == Reach(Alive, OnNow)
           keep == {i \in DOMAIN links : Unconditional(i)}
<1>4. s \in SUBSET Names /\ \A i \in keep : links[i].owner \in s \cup {Entry} => links[i].pkg \in s
  BY <1>1, <1>3, ReachIsLeast
<1>5. Sure = Reach(Configured, keep)
  BY DEF Sure, Configured
<1>6. Configured \subseteq s /\ Configured \subseteq Names /\ keep \subseteq DOMAIN links
  BY <1>2 DEF Configured
<1> HIDE DEF s, keep
<1>7. Sure \subseteq s
  BY <1>4, <1>5, <1>6, ReachIsLeast
<1> QED
  BY <1>1, <1>2, <1>7 DEF s

\* Whether an import is on is known once its owner is resolved.
LEMMA OnStays ==
  ASSUME LoadedInv, ResolveInv, Resolving, NEW p \in pending, UNCHANGED <<packages, links>>,
         \A n \in Names \ pending : features'[n] = features[n],
         NEW i \in DOMAIN links, links[i].owner \notin pending \/ Unconditional(i)
  PROVE  LinkOn(i)' <=> LinkOn(i)
<1>1. CASE Condition(i) = None
  BY <1>1, GraphStays DEF LinkOn
<1>2. CASE Condition(i) # None
  <2>1. links[i].owner \in Names \ pending
    BY <1>2 DEF Unconditional, LoadedInv, LinkInv
  <2>2. features'[links[i].owner] = features[links[i].owner]
    BY <2>1
  <2> QED
    BY <2>2, GraphStays DEF LinkOn
<1> QED
  BY <1>1, <1>2

\* An import that counts for an instance whose importers are done goes on
\* counting, and no other begins to.
LEMMA NeedsKept ==
  ASSUME LoadedInv, ResolveInv, Resolving, NEW p \in pending, UNCHANGED <<packages, links>>,
         pending' = pending \ {p}, active \subseteq active', active' \subseteq active \cup {p},
         \A n \in Names \ pending : features'[n] = features[n],
         NEW q, ImportersDone(q), q = p \/ q \notin pending
  PROVE  /\ ImportersDone(q)'
         /\ Needs(q)' = Needs(q)
         /\ PassedFeatures(q)' = PassedFeatures(q)
<1>1. ImportersDone(q)'
  BY GraphStays DEF ImportersDone
<1>2. \A i \in DOMAIN links : links[i].pkg = q /\ links[i].owner # q /\ links[i].owner \in pending
                              => links[i].owner \in Sure /\ Unconditional(i)
  BY DEF ImportersDone
<1>3. Importers(q)' = Importers(q)
  <2>1. ASSUME NEW i \in DOMAIN links, links[i].pkg = q, links[i].owner # q
        PROVE  links[i].owner \in ({Entry} \cup active' \cup Sure') <=> links[i].owner \in {Entry} \cup active \cup Sure
    BY <1>2, <2>1, GraphStays
  <2> QED
    BY <2>1, GraphStays DEF Importers
<1>4. ASSUME NEW i \in Importers(q) PROVE LinkOn(i)' <=> LinkOn(i)
  <2>1. i \in DOMAIN links /\ links[i].pkg = q /\ links[i].owner # q
    BY DEF Importers
  <2>2. links[i].owner \notin pending \/ Unconditional(i)
    BY <1>2, <2>1
  <2> QED
    BY <2>1, <2>2, OnStays
<1>5. Needs(q)' = Needs(q)
  BY <1>3, <1>4 DEF Needs
<1>6. PassedFeatures(q)' = PassedFeatures(q)
  BY <1>5 DEF PassedFeatures
<1> QED
  BY <1>1, <1>5, <1>6

\* An instance that is resolved joins those that are decided.
LEMMA ResolvedKeeps ==
  ASSUME LoadedInv, ResolveInv, phase = "resolve", NEW p \in pending,
         NEW on \in BOOLEAN, NEW fs, NEW a, NEW by, Resolved(p, on, fs, a, by),
         p \in Configured => on,
         p \notin Configured =>
           /\ ImportersDone(p)
           /\ fs = InjectedFeatures(p) \cup PassedFeatures(p)
           /\ on <=> Needs(p) # {} \/ packages[p].injected # <<>>
  PROVE  ResolveInv'
<1>1. /\ phase' = "resolve" /\ UNCHANGED <<packages, links>> /\ Resolving /\ Resolving'
      /\ pending' = pending \ {p}
      /\ active' = IF on THEN active \cup {p} ELSE active
      /\ features' = Put(features, p, fs)
  BY DEF Resolved, loading, Resolving
<1>2. /\ pending \subseteq Names /\ active \subseteq Names \ pending
      /\ DOMAIN features = Names \ pending
      /\ \A q \in Names \ pending : DecidedInv(q)
      /\ active \subseteq Reach(Alive, OnNow)
  BY <1>1 DEF ResolveInv
<1>3. /\ DOMAIN features' = Names' \ pending' /\ features'[p] = fs
      /\ \A n \in Names \ pending : features'[n] = features[n]
  BY <1>1, <1>2, GraphStays DEF Put
<1>4. active \subseteq active' /\ active' \subseteq active \cup {p} /\ (p \in active' <=> on)
  BY <1>1, <1>2
<1>5. ASSUME NEW q \in Names' \ pending' PROVE DecidedInv(q)'
  <2>1. q \in Names /\ (q = p \/ q \notin pending)
    BY <1>1, GraphStays
  <2>2. q \in Configured' <=> q \in Configured
    BY <1>1, GraphStays
  <2>3. CASE q \in Configured
    <3>1. q \in active'
      BY <1>2, <1>4, <2>1, <2>3 DEF DecidedInv
    <3> QED
      BY <2>2, <2>3, <3>1 DEF DecidedInv
  <2>4. CASE q \notin Configured
    <3>1. ImportersDone(q)
      BY <1>2, <2>1, <2>4 DEF DecidedInv
    <3>2. /\ ImportersDone(q)' /\ Needs(q)' = Needs(q) /\ PassedFeatures(q)' = PassedFeatures(q)
      BY <1>1, <1>3, <1>4, <2>1, <3>1, NeedsKept
    <3>3. features'[q] = InjectedFeatures(q) \cup PassedFeatures(q)
      BY <1>2, <1>3, <2>1, <2>4 DEF DecidedInv
    <3>4. q \in active' <=> Needs(q) # {} \/ packages[q].injected # <<>>
      BY <1>2, <1>4, <2>1, <2>4 DEF DecidedInv
    <3>5. InjectedFeatures(q)' = InjectedFeatures(q) /\ packages' = packages
      BY <1>1, GraphStays
    <3> QED
      BY <2>2, <2>4, <3>2, <3>3, <3>4, <3>5 DEF DecidedInv
  <2> QED
    BY <2>3, <2>4
<1>6. OnNow \subseteq OnNow'
  <2>1. ASSUME NEW i \in OnNow PROVE i \in OnNow'
    <3>1. i \in DOMAIN links
      BY DEF OnNow
    <3>2. CASE links[i].owner \in pending
      <4>1. Unconditional(i)
        BY <3>2 DEF OnNow
      <4>2. Unconditional(i)' /\ LinkOn(i)'
        BY <1>1, <4>1, GraphStays DEF Unconditional, LinkOn
      <4> QED
        BY <1>1, <3>1, <4>2 DEF OnNow
    <3>3. CASE links[i].owner \notin pending
      <4>1. LinkOn(i)'
        BY <1>1, <1>3, <3>1, <3>3, OnStays DEF OnNow
      <4> QED
        BY <1>1, <3>1, <3>3, <4>1 DEF OnNow
    <3> QED
      BY <3>2, <3>3
  <2> QED
    BY <2>1
<1> DEFINE now == OnNow'
           reached == Reach(Alive, now)
<1>7. Reach(Alive, OnNow)' = reached
  BY <1>1 DEF Reach, Names, Alive
<1>8. Alive \subseteq Names /\ OnNow \subseteq DOMAIN links /\ now \subseteq DOMAIN links
  BY <1>1 DEF Alive, OnNow
<1> HIDE DEF now
<1>9. Reach(Alive, OnNow) \subseteq reached
  BY <1>6, <1>8, ReachGrows DEF now
<1>10. ASSUME on PROVE p \in reached
  <2>1. CASE p \in Configured
    BY <1>2, <1>9, <2>1, SureReached
  <2>2. CASE p \notin Configured /\ packages[p].injected # <<>>
    <3>1. p \in Alive
      BY <1>2, <2>2 DEF Alive
    <3> QED
      BY <1>8, <3>1, ReachIsLeast
  <2>3. CASE p \notin Configured /\ Needs(p) # {}
    <3>1. PICK i \in Needs(p) : TRUE
      BY <2>3
    <3>2. i \in DOMAIN links /\ LinkOn(i) /\ links[i].pkg = p /\ links[i].owner # p
          /\ links[i].owner \in {Entry} \cup active \cup Sure
      BY <3>1 DEF Needs, Importers
    <3>3. links[i].owner \notin pending \/ Unconditional(i)
      BY <2>3, <3>2 DEF ImportersDone
    <3>4. i \in OnNow
      <4>1. CASE links[i].owner \in pending
        BY <3>2, <3>3, <4>1 DEF OnNow
      <4>2. CASE links[i].owner \notin pending
        BY <3>2, <4>2 DEF OnNow
      <4> QED
        BY <4>1, <4>2
    <3>5. links[i].owner \in Reach(Alive, OnNow) \cup {Entry}
      BY <1>2, <3>2, SureReached
    <3>6. p \in Reach(Alive, OnNow)
      BY <1>8, <3>2, <3>4, <3>5, ReachIsLeast
    <3> QED
      BY <1>9, <3>6
  <2> QED
    BY <1>10, <2>1, <2>2, <2>3
<1>11. active' \subseteq Reach(Alive, OnNow)'
  BY <1>1, <1>2, <1>7, <1>9, <1>10
<1>12. pending' \subseteq Names' /\ active' \subseteq Names' \ pending'
  BY <1>1, <1>2, <1>4, GraphStays
<1> QED
  BY <1>1, <1>3, <1>5, <1>11, <1>12 DEF ResolveInv

LEMMA EntryResolved ==
  ASSUME LoadedInv, ResolveInv, NEW p \in pending, ResolveEntry(p)
  PROVE  ResolveInv'
<1>1. phase = "resolve" /\ p \in Configured
  <2>1. p \in Names /\ packages[p].entry /\ phase = "resolve"
    BY DEF ResolveEntry, Resolvable, ResolveInv, Resolving
  <2> QED
    BY <2>1 DEF Configured
<1>2. PICK fs, a : Resolved(p, TRUE, fs, a, <<>>)
  BY DEF ResolveEntry
<1> QED
  BY <1>1, <1>2, ResolvedKeeps

\* An instance nobody needs and nothing is injected into does not run.
LEMMA IdleResolved ==
  ASSUME LoadedInv, ResolveInv, NEW p \in pending, ResolveIdle(p)
  PROVE  ResolveInv'
<1>1. phase = "resolve" /\ p \notin Configured /\ ImportersDone(p)
  BY DEF ResolveIdle, Resolvable, Configured
<1>2. Needs(p) = {} /\ packages[p].injected = <<>> /\ Resolved(p, FALSE, {}, NoArgs, <<>>)
  BY DEF ResolveIdle
<1>3. {} = InjectedFeatures(p) \cup PassedFeatures(p)
  BY <1>2 DEF InjectedFeatures, PassedFeatures, ToSet
<1> QED
  BY <1>1, <1>2, <1>3, ResolvedKeeps

LEMMA ImportedResolved ==
  ASSUME LoadedInv, ResolveInv, NEW p \in pending, ResolveImported(p)
  PROVE  ResolveInv'
<1>1. phase = "resolve" /\ p \notin Configured /\ ImportersDone(p)
  BY DEF ResolveImported, Resolvable, Configured
<1>2. ~(Needs(p) = {} /\ packages[p].injected = <<>>)
  BY DEF ResolveImported
<1>3. PICK by : Resolved(p, TRUE, InjectedFeatures(p) \cup PassedFeatures(p), WithNeeds(WithInjected(NoArgs, p), p, by), by)
  BY DEF ResolveImported, PassedFeatures
<1> QED
  BY <1>1, <1>2, <1>3, ResolvedKeeps

\* What Satisfied checks of an importer that counts is what it passes.
LEMMA SatisfiedPassed ==
  ASSUME NEW p, Satisfied(p)
  PROVE  PassedFeatures(p) \subseteq features[p]
<1>1. \A i \in Needs(p) : links[i].block.features \subseteq features[p]
  BY DEF Satisfied, Needs
<1> QED
  BY <1>1 DEF PassedFeatures

LEMMA SatisfyKeeps ==
  ASSUME ResolveInv, Satisfy
  PROVE  ResolveInv'
<1>1. /\ phase = "resolve" /\ pending = {} /\ phase' = "check"
      /\ \A p \in Configured : Satisfied(p)
      /\ UNCHANGED <<packages, links, pending, active, features>>
  BY DEF Satisfy, loading
<1>2. \A p \in Configured : PassedFeatures(p) \subseteq features[p]
  BY <1>1, SatisfiedPassed
<1> QED
  BY <1>1, <1>2, ResolveStays DEF Resolving

LEMMA ResolveStep ==
  ASSUME LoadInv, ResolveInv, [Next]_vars
  PROVE  ResolveInv'
<1>1. CASE \/ BadImport \/ NameTaken \/ Exhausted \/ NoProgress \/ Unsatisfied \/ InputMissing
           \/ InputMissingPanics \/ ToolchainsDiffer \/ ReferenceGated \/ ReferenceHidden
           \/ \E p \in pending : ResolveFails(p)
  <2>1. phase' \in {"refused", "panicked", "exhausted"}
    BY <1>1 DEF BadImport, NameTaken, Exhausted, Refuse, ResolveFails, NoProgress, Unsatisfied,
                InputMissing, InputMissingPanics, ToolchainsDiffer, ReferenceGated, ReferenceHidden
  <2> QED
    BY <2>1 DEF ResolveInv, Resolving
<1>2. CASE \/ LoadEntrypoint \/ LoadAlone \/ FollowBound \/ FollowLoaded \/ FollowNew \/ LinkUp
           \/ ApplyToLink \/ ApplyReturns
  <2>1. phase \in {"start", "load"} /\ phase' \in {"load", "refused"} /\ UNCHANGED <<active, features>>
    BY <1>2 DEF LoadEntrypoint, LoadAlone, FollowBound, FollowUnbound, FollowLoaded, FollowNew, LinkUp,
                ApplyToLink, ApplyReturns, Importing, Following, Running, Refuse, resolving
  <2> QED
    BY <2>1 DEF ResolveInv, Resolving
<1>3. CASE LoadReturns
  <2>1. phase = "load" /\ UNCHANGED <<active, features, packages, links>> /\ phase' \in {"load", "resolve"}
    BY <1>3 DEF LoadReturns, Following, Running
  <2>2. features = <<>> /\ active = {}
    BY <2>1 DEF ResolveInv
  <2>3. CASE phase' = "load"
    BY <2>1, <2>2, <2>3 DEF ResolveInv, Resolving
  <2>4. CASE phase' = "resolve"
    <3>1. pending' = Names /\ Names' = Names
      BY <1>3, <2>1, <2>4 DEF LoadReturns, Names
    <3>2. features' = <<>> /\ active' = {} /\ DOMAIN features' = {}
      BY <2>1, <2>2
    <3> QED
      BY <2>4, <3>1, <3>2 DEF ResolveInv, Resolving
  <2> QED
    BY <2>1, <2>3, <2>4
<1>4. CASE \E p \in pending : ResolveEntry(p) \/ ResolveIdle(p) \/ ResolveImported(p)
  BY <1>4, EntryResolved, IdleResolved, ImportedResolved DEF LoadInv
<1>5. CASE Satisfy
  BY <1>5, SatisfyKeeps
<1>6. CASE FixScopes \/ Finish \/ \E p \in active : AdoptToolchain(p)
  <2>1. /\ phase \in {"check", "toolchains"} /\ phase' \in {"toolchains", "refused", "ready"}
        /\ UNCHANGED <<packages, links, pending, active, features>>
    BY <1>6 DEF FixScopes, Finish, Settled, AdoptToolchain, loading, resolving
  <2>2. CASE phase' = "refused"
    BY <2>2 DEF ResolveInv, Resolving
  <2>3. CASE phase' # "refused"
    BY <2>1, <2>3, ResolveStays DEF Resolving
  <2> QED
    BY <2>2, <2>3
<1>7. CASE Done \/ UNCHANGED vars
  <2>1. UNCHANGED <<phase, packages, links, pending, active, features>>
    BY <1>7 DEF Done, vars
  <2>2. CASE Resolving
    <3>1. phase = "check" => pending = {} /\ \A p \in Configured : PassedFeatures(p) \subseteq features[p]
      BY DEF ResolveInv
    <3> QED
      BY <2>1, <2>2, <3>1, ResolveStays DEF Resolving
  <2>3. CASE ~Resolving
    BY <2>1, <2>3 DEF ResolveInv, Resolving
  <2> QED
    BY <2>2, <2>3
<1> QED
  BY <1>1, <1>2, <1>3, <1>4, <1>5, <1>6, <1>7 DEF Next, Load, Settle

LEMMA ResolveStart == Init => ResolveInv
BY DEF Init, ResolveInv, Resolving

\* Once all instances are resolved, the active ones are closed under the
\* imports that are on, and everything that is surely active is among them.
LEMMA ActiveClosed ==
  ASSUME LoadedInv, ResolveInv, Resolving, pending = {}
  PROVE  /\ Configured \cup Alive \subseteq active
         /\ \A i \in DOMAIN links : LinkOn(i) /\ links[i].owner \in active \cup {Entry} => links[i].pkg \in active
         /\ Sure \subseteq active
<1>1. active \subseteq Names /\ \A p \in Names : DecidedInv(p)
  BY DEF ResolveInv
<1>2. ASSUME NEW p \in Configured \cup Alive PROVE p \in active
  BY <1>1, <1>2 DEF DecidedInv, Configured, Alive
<1>3. ASSUME NEW i \in DOMAIN links, LinkOn(i), links[i].owner \in active \cup {Entry}
      PROVE  links[i].pkg \in active
  <2> DEFINE q == links[i].pkg
  <2>1. LinkInv(i) /\ q \in Names /\ DecidedInv(q)
    BY <1>1 DEF LoadedInv, LinkInv
  <2>2. CASE q \in Configured \/ links[i].owner = q
    BY <1>2, <1>3, <2>1, <2>2 DEF LoadedInv, PackagesInv
  <2>3. CASE q \notin Configured /\ links[i].owner # q
    <3>1. ~AtTop(i) /\ links[i].block # None
      BY <2>1, <2>3 DEF LinkInv, Configured
    <3>2. i \in Needs(q)
      BY <1>3, <2>3, <3>1 DEF Needs, Importers
    <3> QED
      BY <2>1, <2>3, <3>2 DEF DecidedInv
  <2> QED
    BY <2>2, <2>3
<1>4. Sure \subseteq active
  <2> DEFINE keep == {i \in DOMAIN links : Unconditional(i)}
  <2>1. Sure = Reach(Configured, keep)
    BY DEF Sure, Configured
  <2>2. \A i \in keep : LinkOn(i)
    BY DEF Unconditional, LinkOn
  <2>3. Configured \subseteq active /\ Configured \subseteq Names /\ keep \subseteq DOMAIN links
    BY <1>2 DEF Configured
  <2>4. \A i \in keep : links[i].owner \in active \cup {Entry} => links[i].pkg \in active
    BY <1>3, <2>2, <2>3
  <2> HIDE DEF keep
  <2> QED
    BY <1>1, <2>1, <2>3, <2>4, ReachIsLeast
<1> QED
  BY <1>2, <1>3, <1>4

LEMMA TreeInvariant == TreeAssumption => (Spec => [](LoadInv /\ ResolveInv))
<1> SUFFICES ASSUME TreeAssumption PROVE Spec => [](LoadInv /\ ResolveInv)
  OBVIOUS
<1>1. Init => LoadInv /\ ResolveInv
  BY LoadStart, ResolveStart
<1>2. LoadInv /\ ResolveInv /\ [Next]_vars => (LoadInv /\ ResolveInv)'
  BY LoadStep, ResolveStep
<1> QED
  BY <1>1, <1>2, PTL DEF Spec

\* An instance runs with the features injected into it and those the imports
\* that are on pass to it, though resolvePackages decided on each before it
\* knew all that import it.
THEOREM InstancesRunAsImported == TreeAssumption => (Spec => []FeaturesExact)
<1>1. LoadInv /\ ResolveInv => FeaturesExact
  <2> SUFFICES ASSUME LoadInv, ResolveInv, phase \in {"toolchains", "ready"}, NEW p \in Names
               PROVE  IF p \in Configured
                      THEN UNION {links[i].block.features : i \in Counting(p)} \subseteq features[p]
                      ELSE features[p] = InjectedFeatures(p) \cup UNION {links[i].block.features : i \in Counting(p)}
    BY Zenon DEF FeaturesExact
  <2>1. Resolving /\ pending = {} /\ \A q \in Configured : PassedFeatures(q) \subseteq features[q]
    BY DEF ResolveInv, Resolving
  <2>2. Sure \subseteq active
    BY <2>1, ActiveClosed DEF LoadInv
  <2>3. Counting(p) = Needs(p)
    BY <2>2 DEF Counting, Needs, Importers
  <2>4. PassedFeatures(p) = UNION {links[i].block.features : i \in Counting(p)}
    BY <2>3 DEF PassedFeatures
  <2>5. DecidedInv(p)
    BY <2>1 DEF ResolveInv
  <2> QED
    BY <2>1, <2>4, <2>5 DEF DecidedInv
<1> QED
  BY <1>1, TreeInvariant, PTL

\* The last import of a name a scope sees is there.
LEMMA LastSeen ==
  ASSUME NEW n \in Nat, NEW S \in SUBSET (1 .. n), S # {}
  PROVE  \E j \in S : \A k \in S : k <= j
<1> DEFINE T == {n - k : k \in S}
<1>1. \A k \in S : k \in Nat /\ k <= n
  OBVIOUS
<1>2. \A k \in Nat : k <= n => n - k \in Nat
  OBVIOUS
<1>3. T \in SUBSET Nat
  BY <1>1, <1>2
<1>4. T # {}
  OBVIOUS
<1>5. PICK t \in T : \A u \in T : t <= u
  <2> HIDE DEF T
  <2> QED
    BY <1>3, <1>4, MinLeast
<1>6. PICK j \in S : t = n - j
  OBVIOUS
<1>7. ASSUME NEW k \in S PROVE k <= j
  <2>1. n - k \in T
    OBVIOUS
  <2>2. n - j <= n - k
    <3> HIDE DEF T
    <3> QED
      BY <1>5, <1>6, <2>1
  <2>3. k \in Nat /\ j \in Nat
    BY <1>1
  <2> HIDE DEF T
  <2> QED
    BY <2>2, <2>3
<1> QED
  BY <1>7

\* The active instances are those reached from the entrypoint and from those
\* that injected settings keep alive, and the stack is of active ones.
THEOREM StackIsWhatRuns == TreeAssumption => (Spec => []StackAgrees)
<1>1. LoadInv /\ ResolveInv => StackAgrees
  <2> SUFFICES ASSUME LoadInv, ResolveInv, phase \in {"toolchains", "ready"}
               PROVE  /\ Stack \subseteq active
                      /\ active = Reach(Alive, On)
                      /\ NamesApart => active = Reach(Alive, Visible)
    BY DEF StackAgrees, Alive
  <2>1. Resolving /\ pending = {} /\ LoadedInv
    BY DEF ResolveInv, Resolving, LoadInv
  <2>2. Visible \subseteq On /\ On \subseteq DOMAIN links /\ Alive \subseteq Names
    BY DEF Visible, On, Alive
  <2>3. OnNow = On
    BY <2>1 DEF OnNow, On
  <2>4. active \subseteq Reach(Alive, On) /\ active \subseteq Names
    BY <2>1, <2>3 DEF ResolveInv
  <2>5. Reach(Alive, On) \subseteq active
    <3>1. Alive \subseteq active /\ \A i \in On : links[i].owner \in active \cup {Entry} => links[i].pkg \in active
      BY <2>1, ActiveClosed DEF On
    <3> QED
      BY <2>1, <2>2, <2>4, <3>1, ReachIsLeast
  <2>6. Stack \subseteq Reach(Alive, On)
    BY <2>1, <2>2, ReachGrows DEF Stack
  <2>7. Reach(Alive, Visible) \subseteq Reach(Alive, On)
    BY <2>1, <2>2, ReachGrows
  <2>8. ASSUME NamesApart PROVE Reach(Alive, On) \subseteq Reach(Alive, Visible)
    <3> DEFINE s == Reach(Alive, Visible)
    <3>1. /\ s \subseteq Names /\ Alive \subseteq s
          /\ \A i \in Visible : links[i].owner \in s \cup {Entry} => links[i].pkg \in s
      BY <2>1, <2>2, ReachIsLeast
    <3> HIDE DEF s
    <3>2. ASSUME NEW i \in On, links[i].owner \in s \cup {Entry} PROVE links[i].pkg \in s
      <4> DEFINE seen == Seen(links[i].owner, links[i].comp, links[i].local)
      <4>1. DOMAIN links = 1 .. Len(links) /\ Len(links) \in Nat
        BY <2>1 DEF LoadedInv
      <4>2. seen \in SUBSET (1 .. Len(links)) /\ i \in seen
        BY <4>1 DEF Seen, On
      <4>3. PICK j \in seen : \A k \in seen : k <= j
        <5> HIDE DEF seen
        <5> QED
          BY <4>1, <4>2, LastSeen
      <4>4. /\ j \in On /\ links[j].owner = links[i].owner /\ links[j].comp = links[i].comp
            /\ links[j].local = links[i].local
        BY DEF Seen, On
      <4>5. j \in Visible
        BY <4>3, <4>4 DEF Visible, On
      <4>6. links[j].pkg = links[i].pkg
        BY <2>8, <4>4 DEF NamesApart
      <4> QED
        BY <3>1, <3>2, <4>4, <4>5, <4>6
    <3>3. Reach(Alive, On) \subseteq s
      BY <2>1, <2>2, <3>1, <3>2, ReachIsLeast
    <3> QED
      BY <3>3 DEF s
  <2> QED
    BY <2>4, <2>5, <2>6, <2>7, <2>8
<1> QED
  BY <1>1, TreeInvariant, PTL

------------------------------------------------------------------------------
(* Levels: a start stands on the chain it walked.                           *)

\* The shape of a command, and where each kind of command may be.
CommandShape(c) ==
  /\ DOMAIN c = {"at", "run", "level", "trees", "parents", "live", "hash", "block"}
  /\ c.run \in Runs /\ c.level \in 1 .. c.run.leaf
  /\ c.run.op = "start" => c.at \in {"read", "lock", "pull", "hash", "query", "pin", "stop", "configure"}
  /\ c.run.op = "clean" => c.at \in {"read", "hash", "query", "lock", "clean", "cleaned"}
  /\ c.run.op = "look" => c.at \in {"read", "query"}
  /\ c.at = "read" => c.level = 1 /\ c.parents = <<>>
  /\ c.run.op = "clean" /\ c.at \in {"lock", "clean", "cleaned"} => c.level = c.run.leaf

\* The facts of every level above the one it is at.
PassedAll(c) ==
  c.run.op # "look" => c.parents \in Seq(SetOf(c.parents)) /\ Len(c.parents) = c.level - 1

\* A level is resolved against the parents it will be configured with.
HashCovers(c) ==
  \/ c.at \in {"pin", "stop", "configure", "clean"}
  \/ c.at = "query" /\ c.run.op # "look"
  \/ c.at = "lock" /\ c.run.op = "clean"
  => c.hash[3] = Services(c.parents)

\* From the lock to the end, nobody else holds the slot.
HoldsHere(t) ==
  \/ cmd[t].at \in {"pull", "pin", "stop", "configure", "clean", "cleaned"}
  \/ cmd[t].at \in {"hash", "query"} /\ cmd[t].run.op = "start"
  => locked[Here(t)] = t

\* A start holds every level it passed, and what still runs there is what it
\* passed on, standing on what it passed on of the levels above.
PassedOn(parents, l, serving) ==
  serving # Absent =>
    /\ serving.block.services = parents[l].services
    /\ \A k \in 1 .. l - 1 : serving.parents[k].services = parents[k].services
StandsOn(t) ==
  cmd[t].run.op = "start" =>
    \A l \in 1 .. cmd[t].level - 1 :
      locked[<<l, "main">>] = t /\ PassedOn(cmd[t].parents, l, alphas[<<l, "main">>])

CommandInv(t) ==
  cmd[t] # NoCommand =>
    CommandShape(cmd[t]) /\ PassedAll(cmd[t]) /\ HashCovers(cmd[t]) /\ HoldsHere(t) /\ StandsOn(t)

\* A running alpha is known by a hash that covers the parents it was given.
ServingInv(s) == alphas[s] # Absent => alphas[s].hash[3] = Services(alphas[s].parents)

LevelsTyped ==
  /\ DOMAIN cmd = Terminals
  /\ DOMAIN alphas = Slots
  /\ DOMAIN locked = Slots

LevelsInv ==
  /\ LevelsTyped
  /\ \A s \in Slots : ServingInv(s)
  /\ \A t \in Terminals : CommandInv(t)

\* Where a command is, and where it has been.
LEMMA Places ==
  ASSUME LevelsAssumption, NEW c, CommandShape(c)
  PROVE  /\ c.level \in Levels /\ Slot(c.run, c.level) \in Slots
         /\ \A l \in 1 .. c.level : l \in Levels /\ <<l, "main">> \in Slots
         /\ c.level # c.run.leaf => Slot(c.run, c.level) = <<c.level, "main">>
         /\ \A l \in 1 .. c.level - 1 : <<l, "main">> # Slot(c.run, c.level)
<1>1. c.run.leaf \in 1 .. Depth /\ Depth \in Nat /\ c.level \in 1 .. c.run.leaf
  BY DEF LevelsAssumption, CommandShape, Levels
<1>2. c.level \in Levels /\ \A l \in 1 .. c.level : l \in Levels
  BY <1>1 DEF Levels
<1>3. \A l \in Levels : <<l, "main">> \in Slots
  BY DEF Slots
<1>4. c.level = c.run.leaf => <<c.level, c.run.ws>> \in Slots
  BY DEF Slots, CommandShape
<1> QED
  BY <1>1, <1>2, <1>3, <1>4 DEF Slot

\* The facts of one level more.
LEMMA PassedMore ==
  ASSUME NEW s, s \in Seq(SetOf(s)), NEW e
  PROVE  /\ Append(s, e) \in Seq(SetOf(Append(s, e)))
         /\ Len(Append(s, e)) = Len(s) + 1
         /\ \A i \in 1 .. Len(s) : Append(s, e)[i] = s[i]
         /\ Append(s, e)[Len(s) + 1] = e
<1>1. s \in Seq(SetOf(s) \cup {e})
  BY DEF SetOf
<1>2. /\ Append(s, e) \in Seq(SetOf(s) \cup {e})
      /\ Len(Append(s, e)) = Len(s) + 1
      /\ \A i \in 1 .. Len(s) : Append(s, e)[i] = s[i]
      /\ Append(s, e)[Len(s) + 1] = e
  BY <1>1
<1>3. Append(s, e) \in Seq(SetOf(Append(s, e)))
  BY <1>2 DEF SetOf
<1> QED
  BY <1>2, <1>3

\* Two accumulations that say the same of the services.
LEMMA SameServices ==
  ASSUME NEW p, NEW q, q \in Seq(SetOf(q)), Services(p) = Services(q)
  PROVE  \A k \in 1 .. Len(q) : p[k].services = q[k].services
<1>1. DOMAIN p = DOMAIN q /\ DOMAIN q = 1 .. Len(q)
  BY DEF Services
<1> QED
  BY <1>1 DEF Services

\* Who keeps its place and its locks keeps what it stands on, if nothing but
\* an end comes to the alphas it holds.
LEMMA StandsStill ==
  ASSUME LevelsAssumption, LevelsInv, NEW u \in Terminals, cmd'[u] = cmd[u],
         \A s \in Slots : locked[s] = u => locked'[s] = u /\ alphas'[s] \in {alphas[s], Absent}
  PROVE  CommandInv(u)'
<1> SUFFICES ASSUME cmd[u] # NoCommand PROVE CommandInv(u)'
  BY DEF CommandInv
<1>1. CommandInv(u) /\ CommandShape(cmd[u])
  BY DEF LevelsInv, CommandInv
<1>2. /\ Here(u) \in Slots /\ Here(u)' = Here(u)
      /\ \A l \in 1 .. cmd[u].level : <<l, "main">> \in Slots
      /\ cmd[u].level \in Nat
  BY <1>1, Places DEF Here, Levels
<1>3. CommandShape(cmd[u])' /\ PassedAll(cmd[u])' /\ HashCovers(cmd[u])'
  BY <1>1 DEF CommandInv, CommandShape, PassedAll, HashCovers
<1>4. HoldsHere(u)'
  BY <1>1, <1>2 DEF CommandInv, HoldsHere
<1>5. StandsOn(u)'
  <2> SUFFICES ASSUME cmd[u].run.op = "start", NEW l \in 1 .. cmd[u].level - 1
               PROVE  locked'[<<l, "main">>] = u /\ PassedOn(cmd[u].parents, l, alphas'[<<l, "main">>])
    BY DEF StandsOn
  <2>1. locked[<<l, "main">>] = u /\ PassedOn(cmd[u].parents, l, alphas[<<l, "main">>])
    BY <1>1 DEF CommandInv, StandsOn
  <2>2. <<l, "main">> \in Slots
    BY <1>2
  <2> QED
    BY <2>1, <2>2 DEF PassedOn
<1> QED
  BY <1>3, <1>4, <1>5 DEF CommandInv

\* What the command at t may do to everybody else: take a lock that is free,
\* give back its own, end an alpha, and serve where it holds the lock.
OnlyItsOwn(t) ==
  /\ LevelsTyped'
  /\ \A u \in Terminals \ {t} : cmd'[u] = cmd[u]
  /\ \A s \in Slots : locked[s] \notin {t, Absent} => locked'[s] = locked[s]
  /\ \A s \in Slots : \/ alphas'[s] \in {alphas[s], Absent}
                      \/ locked[s] = t /\ alphas'[s].hash[3] = Services(alphas'[s].parents)

LEMMA OwnStepKeeps ==
  ASSUME LevelsAssumption, LevelsInv, NEW t \in Terminals, OnlyItsOwn(t), CommandInv(t)'
  PROVE  LevelsInv'
<1>1. \A s \in Slots : ServingInv(s)'
  BY DEF LevelsInv, ServingInv, OnlyItsOwn
<1>2. ASSUME NEW u \in Terminals, u # t PROVE CommandInv(u)'
  <2>1. cmd'[u] = cmd[u]
    BY <1>2 DEF OnlyItsOwn
  <2>2. ASSUME NEW s \in Slots, locked[s] = u
        PROVE  locked'[s] = u /\ alphas'[s] \in {alphas[s], Absent}
    BY <1>2, <2>2 DEF OnlyItsOwn, LevelsAssumption
  <2> QED
    BY <2>1, <2>2, StandsStill
<1> QED
  BY <1>1, <1>2 DEF LevelsInv, OnlyItsOwn

\* A command that stays at its level.
LEMMA StaysHere ==
  ASSUME LevelsAssumption, LevelsInv, NEW t \in Terminals, cmd[t] # NoCommand,
         CommandShape(cmd'[t]), HashCovers(cmd'[t]), HoldsHere(t)',
         cmd'[t].run = cmd[t].run, cmd'[t].level = cmd[t].level, cmd'[t].parents = cmd[t].parents,
         \A s \in Slots : locked[s] = t => locked'[s] = t,
         \A s \in Slots : s # Here(t) => alphas'[s] = alphas[s]
  PROVE  CommandInv(t)'
<1>1. CommandInv(t) /\ CommandShape(cmd[t])
  BY DEF LevelsInv, CommandInv
<1>2. PassedAll(cmd'[t])
  BY <1>1 DEF CommandInv, PassedAll
<1>3. StandsOn(t)'
  <2> SUFFICES ASSUME cmd[t].run.op = "start", NEW l \in 1 .. cmd[t].level - 1
               PROVE  locked'[<<l, "main">>] = t /\ PassedOn(cmd[t].parents, l, alphas'[<<l, "main">>])
    BY DEF StandsOn
  <2>1. locked[<<l, "main">>] = t /\ PassedOn(cmd[t].parents, l, alphas[<<l, "main">>])
    BY <1>1 DEF CommandInv, StandsOn
  <2>2. <<l, "main">> \in Slots /\ <<l, "main">> # Here(t)
    BY <1>1, Places DEF Here, Levels
  <2> QED
    BY <2>1, <2>2
<1> QED
  BY <1>2, <1>3 DEF CommandInv

\* A command that goes on to the next level.
LEMMA WalksOn ==
  ASSUME LevelsAssumption, LevelsInv, NEW t \in Terminals, cmd[t] # NoCommand, cmd[t].at = "query" \/ cmd[t].at = "configure",
         NEW block, NEW live, DescendTo(t, cmd[t], block, live),
         \A s \in Slots : s # Here(t) => alphas'[s] = alphas[s],
         cmd[t].run.op = "start" =>
           /\ locked[Here(t)] = t
           /\ alphas'[Here(t)].block.services = block.services
           /\ Services(alphas'[Here(t)].parents) = Services(cmd[t].parents)
  PROVE  CommandInv(t)'
<1> DEFINE c == cmd[t]
           on == [c EXCEPT !.at = FirstStep(c.run), !.level = @ + 1,
                           !.parents = Append(@, block), !.live = Append(@, live)]
<1>1. DOMAIN cmd = Terminals /\ CommandInv(t) /\ CommandShape(c)
  BY DEF LevelsInv, CommandInv, LevelsTyped
<1>2. CASE c.level = c.run.leaf
  BY <1>1, <1>2 DEF DescendTo, CommandEnds, PutCommand, CommandInv
<1>3. CASE c.level # c.run.leaf
  <2>1. cmd'[t] = on /\ locked' = locked
    BY <1>1, <1>3 DEF DescendTo, PutCommand
  <2>2. /\ on.at = FirstStep(c.run) /\ on.run = c.run /\ on.level = c.level + 1
        /\ on.parents = Append(c.parents, block) /\ on.hash = c.hash
    BY <1>1 DEF CommandShape
  <2>3. c.run.leaf \in Nat /\ c.level \in Nat /\ c.level + 1 \in 1 .. c.run.leaf /\ c.run \in Runs
    BY <1>1, <1>3 DEF CommandShape, LevelsAssumption, Levels
  <2>4. CommandShape(on)
    <3>1. DOMAIN on = DOMAIN c
      OBVIOUS
    <3>2. /\ c.run.op \in {"start", "clean", "look"}
          /\ on.at \in {"lock", "hash", "query"}
          /\ on.at = "lock" <=> c.run.op = "start"
          /\ on.at = "hash" <=> c.run.op = "clean"
      BY <2>2, <2>3 DEF FirstStep, LevelsAssumption
    <3> QED
      BY <1>1, <2>2, <2>3, <3>1, <3>2 DEF CommandShape
  <2>5. HashCovers(on) /\ HoldsHere(t)'
    BY <2>1, <2>2, <2>3 DEF FirstStep, HashCovers, HoldsHere, LevelsAssumption
  <2>6. PassedAll(on)
    <3> SUFFICES ASSUME c.run.op # "look"
                 PROVE  /\ Append(c.parents, block) \in Seq(SetOf(Append(c.parents, block)))
                        /\ Len(Append(c.parents, block)) = c.level
      BY <2>2, <2>3 DEF PassedAll
    <3>1. c.parents \in Seq(SetOf(c.parents)) /\ Len(c.parents) = c.level - 1
      BY <1>1 DEF CommandInv, PassedAll
    <3> QED
      BY <2>3, <3>1, PassedMore
  <2>7. StandsOn(t)'
    <3> HIDE DEF on
    <3> SUFFICES ASSUME c.run.op = "start", NEW l \in 1 .. c.level
                 PROVE  /\ locked[<<l, "main">>] = t
                        /\ PassedOn(Append(c.parents, block), l, alphas'[<<l, "main">>])
      <4>1. on.level - 1 = c.level
        BY <2>2, <2>3
      <4> QED
        BY <2>1, <2>2, <4>1 DEF StandsOn
    <3>1. /\ c.parents \in Seq(SetOf(c.parents)) /\ Len(c.parents) = c.level - 1
          /\ \A k \in 1 .. c.level - 1 : Append(c.parents, block)[k] = c.parents[k]
          /\ Append(c.parents, block)[c.level] = block
      <4>1. c.parents \in Seq(SetOf(c.parents)) /\ Len(c.parents) = c.level - 1
        BY <1>1 DEF CommandInv, PassedAll
      <4>2. Len(c.parents) + 1 = c.level
        BY <2>3, <4>1
      <4>3. /\ \A k \in 1 .. Len(c.parents) : Append(c.parents, block)[k] = c.parents[k]
            /\ Append(c.parents, block)[Len(c.parents) + 1] = block
        BY <4>1, PassedMore
      <4> QED
        BY <4>1, <4>2, <4>3
    <3>2. CASE l = c.level
      <4>1. <<l, "main">> = Here(t)
        BY <1>1, <1>3, <3>2, Places DEF Here
      <4>2. \A k \in 1 .. l - 1 : alphas'[Here(t)].parents[k].services = c.parents[k].services
        BY <3>1, <3>2, SameServices
      <4> QED
        BY <2>3, <3>1, <3>2, <4>1, <4>2 DEF PassedOn
    <3>3. CASE l \in 1 .. c.level - 1
      <4>1. locked[<<l, "main">>] = t /\ PassedOn(c.parents, l, alphas[<<l, "main">>])
        BY <1>1, <3>3 DEF CommandInv, StandsOn
      <4>2. <<l, "main">> \in Slots /\ <<l, "main">> # Here(t)
        BY <1>1, <3>3, Places DEF Here, Levels
      <4>3. \A k \in 1 .. l : Append(c.parents, block)[k] = c.parents[k]
        BY <2>3, <3>1, <3>3
      <4>4. l \in 1 .. l /\ \A k \in 1 .. l - 1 : k \in 1 .. l
        BY <2>3, <3>3
      <4> QED
        BY <4>1, <4>2, <4>3, <4>4 DEF PassedOn
    <3> QED
      BY <2>3, <3>2, <3>3
  <2> QED
    BY <2>1, <2>4, <2>5, <2>6, <2>7 DEF CommandInv
<1> QED
  BY <1>2, <1>3
\* What a command under way can count on.
LEMMA UnderWay ==
  ASSUME LevelsAssumption, LevelsInv, NEW t \in Terminals, cmd[t] # NoCommand
  PROVE  /\ DOMAIN cmd = Terminals /\ DOMAIN alphas = Slots /\ DOMAIN locked = Slots
         /\ CommandShape(cmd[t]) /\ PassedAll(cmd[t]) /\ HashCovers(cmd[t]) /\ HoldsHere(t) /\ StandsOn(t)
         /\ Here(t) \in Slots /\ cmd[t].run.op \in {"start", "clean", "look"}
  BY Places DEF LevelsInv, LevelsTyped, CommandInv, Here, LevelsAssumption, CommandShape

LEMMA BeginRunKeeps ==
  ASSUME LevelsAssumption, LevelsInv, NEW t \in Terminals, NEW r \in Runs, BeginRun(t, r)
  PROVE  LevelsInv'
<1>1. OnlyItsOwn(t)
  BY DEF BeginRun, PutCommand, OnlyItsOwn, LevelsInv, LevelsTyped
<1> DEFINE c == [at |-> "read", run |-> r, level |-> 1, trees |-> <<>>, parents |-> <<>>,
                 live |-> <<>>, hash |-> Absent, block |-> Absent]
<1>2. cmd'[t] = c
  BY DEF BeginRun, PutCommand, LevelsInv, LevelsTyped
<1>3. CommandShape(c)
  BY DEF CommandShape, LevelsAssumption, Levels
<1>4. PassedAll(c) /\ HashCovers(c) /\ HoldsHere(t)'
  BY <1>2 DEF PassedAll, HashCovers, HoldsHere
<1>5. StandsOn(t)'
  BY <1>2 DEF StandsOn
<1> QED
  BY <1>1, <1>2, <1>3, <1>4, <1>5, OwnStepKeeps DEF CommandInv

LEMMA ReadKeeps ==
  ASSUME LevelsAssumption, LevelsInv, NEW t \in Terminals, Read(t)
  PROVE  LevelsInv'
<1>1. cmd[t] # NoCommand
  BY DEF Read, NoCommand
<1>2. OnlyItsOwn(t)
  BY DEF Read, PutCommand, OnlyItsOwn, LevelsInv, LevelsTyped
<1>3. PICK trees, at : /\ cmd'[t] = [cmd[t] EXCEPT !.trees = trees, !.at = at]
                       /\ at \in {"read", FirstStep(cmd[t].run)}
  BY <1>1, UnderWay DEF Read, PutCommand
<1>4. CommandShape(cmd'[t])
  BY <1>1, <1>3, UnderWay DEF CommandShape, Read, FirstStep
<1>5. HashCovers(cmd'[t]) /\ HoldsHere(t)'
  BY <1>1, <1>3, UnderWay DEF HashCovers, HoldsHere, FirstStep, CommandShape
<1>6. CommandInv(t)'
  BY <1>1, <1>3, <1>4, <1>5, StaysHere, UnderWay DEF Read, CommandShape
<1> QED
  BY <1>2, <1>6, OwnStepKeeps

\* To another step at the same level.
LEMMA ToKeeps ==
  ASSUME LevelsAssumption, LevelsInv, NEW t \in Terminals, cmd[t] # NoCommand, NEW at, To(t, at)
  PROVE  /\ cmd'[t] = [cmd[t] EXCEPT !.at = at]
         /\ DOMAIN cmd' = Terminals /\ \A u \in Terminals \ {t} : cmd'[u] = cmd[u]
         /\ cmd'[t].at = at /\ cmd'[t].run = cmd[t].run /\ cmd'[t].level = cmd[t].level
         /\ cmd'[t].parents = cmd[t].parents /\ cmd'[t].hash = cmd[t].hash
         /\ DOMAIN cmd'[t] = DOMAIN cmd[t] /\ Here(t)' = Here(t)
<1>1. cmd'[t] = [cmd[t] EXCEPT !.at = at]
  BY UnderWay DEF To, PutCommand
<1>2. /\ DOMAIN cmd' = Terminals /\ \A u \in Terminals \ {t} : cmd'[u] = cmd[u]
  BY UnderWay DEF To, PutCommand
<1> QED
  BY <1>1, <1>2, UnderWay DEF CommandShape, Here

LEMMA LockKeeps ==
  ASSUME LevelsAssumption, LevelsInv, NEW t \in Terminals, Lock(t)
  PROVE  LevelsInv'
<1>1. cmd[t] # NoCommand
  BY DEF Lock, NoCommand
<1> DEFINE at == IF cmd[t].run.op = "start" THEN "pull" ELSE "clean"
<1>2. OnlyItsOwn(t)
  BY <1>1, ToKeeps DEF Lock, OnlyItsOwn, LevelsInv, LevelsTyped
<1>3. CommandShape(cmd'[t]) /\ HashCovers(cmd'[t]) /\ HoldsHere(t)'
  <2>1. /\ cmd'[t].at = at /\ cmd'[t].run = cmd[t].run /\ cmd'[t].level = cmd[t].level
        /\ cmd'[t].parents = cmd[t].parents /\ cmd'[t].hash = cmd[t].hash
        /\ DOMAIN cmd'[t] = DOMAIN cmd[t] /\ Here(t)' = Here(t)
    BY <1>1, ToKeeps DEF Lock
  <2>2. \/ cmd[t].run.op = "start" /\ at = "pull"
        \/ cmd[t].run.op = "clean" /\ at = "clean" /\ cmd[t].level = cmd[t].run.leaf
    BY <1>1, UnderWay DEF Lock, CommandShape
  <2>3. cmd[t].run.op = "clean" => cmd[t].hash[3] = Services(cmd[t].parents)
    BY <1>1, UnderWay DEF Lock, HashCovers
  <2>4. CommandShape(cmd'[t])
    BY <1>1, <2>1, <2>2, UnderWay DEF CommandShape
  <2>5. HashCovers(cmd'[t])
    BY <2>1, <2>2, <2>3 DEF HashCovers
  <2>6. HoldsHere(t)'
    BY <1>1, <2>1, UnderWay DEF Lock, HoldsHere
  <2> QED
    BY <2>4, <2>5, <2>6
<1>4. CommandInv(t)'
  BY <1>1, <1>3, ToKeeps, StaysHere, UnderWay DEF Lock
<1> QED
  BY <1>2, <1>4, OwnStepKeeps
LEMMA PullKeeps ==
  ASSUME LevelsAssumption, LevelsInv, NEW t \in Terminals, Pull(t)
  PROVE  LevelsInv'
<1>1. cmd[t] # NoCommand /\ cmd[t].at = "pull"
  BY DEF Pull, NoCommand
<1>2. UNCHANGED <<alphas, locked>>
  BY DEF Pull
<1>3. /\ cmd'[t].at = "hash" /\ cmd'[t].run = cmd[t].run /\ cmd'[t].level = cmd[t].level
      /\ cmd'[t].parents = cmd[t].parents /\ cmd'[t].hash = cmd[t].hash
      /\ DOMAIN cmd'[t] = DOMAIN cmd[t]
      /\ DOMAIN cmd' = Terminals /\ \A u \in Terminals \ {t} : cmd'[u] = cmd[u]
  <2>1. CASE To(t, "hash")
    BY <1>1, <2>1, ToKeeps
  <2>2. CASE ~To(t, "hash")
    <3>1. PICK trees : cmd' = [cmd EXCEPT ![t] = [cmd[t] EXCEPT !.at = "hash", !.trees = trees]]
      BY <2>2 DEF Pull, PutCommand
    <3> DEFINE rest == [cmd[t] EXCEPT !.at = "hash", !.trees = trees]
    <3>2. /\ rest.at = "hash" /\ rest.run = cmd[t].run /\ rest.level = cmd[t].level
          /\ rest.parents = cmd[t].parents /\ rest.hash = cmd[t].hash /\ DOMAIN rest = DOMAIN cmd[t]
      BY <1>1, UnderWay DEF CommandShape
    <3> QED
      BY <1>1, <3>1, <3>2, UnderWay
  <2> QED
    BY <2>1, <2>2
<1>4. OnlyItsOwn(t)
  BY <1>2, <1>3 DEF OnlyItsOwn, LevelsInv, LevelsTyped
<1>5. CommandShape(cmd'[t])
  BY <1>1, <1>3, UnderWay DEF CommandShape
<1>6. HashCovers(cmd'[t]) /\ HoldsHere(t)'
  BY <1>1, <1>2, <1>3, UnderWay DEF HashCovers, HoldsHere, Here
<1>7. CommandInv(t)'
  BY <1>1, <1>2, <1>3, <1>5, <1>6, StaysHere
<1> QED
  BY <1>4, <1>7, OwnStepKeeps

\* The hash covers the parents the level is resolved against.
LEMMA HashLevelKeeps ==
  ASSUME LevelsAssumption, LevelsInv, NEW t \in Terminals, HashLevel(t)
  PROVE  LevelsInv'
<1> DEFINE c == cmd[t]
           hash == ConfigHash(c.trees[c.level], lockfile[c.level], c.parents)
           new == [c EXCEPT !.at = "query", !.hash = hash]
<1>1. c # NoCommand /\ c.at = "hash"
  BY DEF HashLevel, NoCommand
<1>2. UNCHANGED <<alphas, locked>> /\ cmd' = [cmd EXCEPT ![t] = new]
  BY DEF HashLevel, PutCommand
<1>3. hash[3] = Services(c.parents)
  BY DEF ConfigHash
<1> HIDE DEF hash
<1>4. /\ new.at = "query" /\ new.hash = hash /\ new.run = c.run /\ new.level = c.level
      /\ new.parents = c.parents /\ DOMAIN new = DOMAIN c
  BY <1>1, UnderWay DEF CommandShape
<1> HIDE DEF new
<1>5. cmd'[t] = new /\ DOMAIN cmd' = Terminals /\ \A u \in Terminals \ {t} : cmd'[u] = cmd[u]
  BY <1>1, <1>2, UnderWay
<1>6. OnlyItsOwn(t)
  BY <1>2, <1>5 DEF OnlyItsOwn, LevelsInv, LevelsTyped
<1>7. CommandShape(new)
  BY <1>1, <1>4, UnderWay DEF CommandShape
<1>8. HashCovers(new)
  BY <1>3, <1>4 DEF HashCovers
<1>9. HoldsHere(t)'
  BY <1>1, <1>2, <1>4, <1>5, UnderWay DEF HoldsHere, Here
<1>10. CommandInv(t)'
  BY <1>1, <1>2, <1>4, <1>5, <1>7, <1>8, <1>9, StaysHere
<1> QED
  BY <1>6, <1>10, OwnStepKeeps

LEMMA PinLevelKeeps ==
  ASSUME LevelsAssumption, LevelsInv, NEW t \in Terminals, PinLevel(t)
  PROVE  LevelsInv'
<1>1. cmd[t] # NoCommand /\ cmd[t].at = "pin"
  BY DEF PinLevel, NoCommand
<1>2. UNCHANGED <<alphas, locked>>
  BY DEF PinLevel
<1>3. /\ cmd'[t].at = "stop" /\ cmd'[t].run = cmd[t].run /\ cmd'[t].level = cmd[t].level
      /\ cmd'[t].parents = cmd[t].parents /\ cmd'[t].hash = cmd[t].hash
      /\ DOMAIN cmd'[t] = DOMAIN cmd[t]
      /\ DOMAIN cmd' = Terminals /\ \A u \in Terminals \ {t} : cmd'[u] = cmd[u]
  <2>1. CASE To(t, "stop")
    BY <1>1, <2>1, ToKeeps
  <2>2. CASE ~To(t, "stop")
    <3>1. PICK block : cmd' = [cmd EXCEPT ![t] = [cmd[t] EXCEPT !.at = "stop", !.block = block]]
      BY <2>2 DEF PinLevel, PutCommand
    <3> DEFINE rest == [cmd[t] EXCEPT !.at = "stop", !.block = block]
    <3>2. /\ rest.at = "stop" /\ rest.run = cmd[t].run /\ rest.level = cmd[t].level
          /\ rest.parents = cmd[t].parents /\ rest.hash = cmd[t].hash /\ DOMAIN rest = DOMAIN cmd[t]
      BY <1>1, UnderWay DEF CommandShape
    <3> QED
      BY <1>1, <3>1, <3>2, UnderWay
  <2> QED
    BY <2>1, <2>2
<1>4. OnlyItsOwn(t)
  BY <1>2, <1>3 DEF OnlyItsOwn, LevelsInv, LevelsTyped
<1>5. CommandShape(cmd'[t])
  BY <1>1, <1>3, UnderWay DEF CommandShape
<1>6. HashCovers(cmd'[t]) /\ HoldsHere(t)'
  BY <1>1, <1>2, <1>3, UnderWay DEF HashCovers, HoldsHere, Here
<1>7. CommandInv(t)'
  BY <1>1, <1>2, <1>3, <1>5, <1>6, StaysHere
<1> QED
  BY <1>4, <1>7, OwnStepKeeps

LEMMA StopOldKeeps ==
  ASSUME LevelsAssumption, LevelsInv, NEW t \in Terminals, StopOld(t)
  PROVE  LevelsInv'
<1>1. cmd[t] # NoCommand /\ cmd[t].at = "stop" /\ To(t, "configure")
  BY DEF StopOld, NoCommand
<1>2. /\ locked' = locked /\ DOMAIN alphas' = Slots /\ alphas'[Here(t)] = Absent
      /\ \A s \in Slots : s # Here(t) => alphas'[s] = alphas[s]
  BY <1>1, UnderWay DEF StopOld
<1>3. OnlyItsOwn(t)
  BY <1>1, <1>2, ToKeeps DEF OnlyItsOwn, LevelsInv, LevelsTyped
<1>4. CommandShape(cmd'[t])
  <2>1. /\ cmd'[t].at = "configure" /\ cmd'[t].run = cmd[t].run /\ cmd'[t].level = cmd[t].level
        /\ DOMAIN cmd'[t] = DOMAIN cmd[t]
    BY <1>1, ToKeeps
  <2> QED
    BY <1>1, <2>1, UnderWay DEF CommandShape
<1>5. HashCovers(cmd'[t]) /\ HoldsHere(t)'
  BY <1>1, <1>2, ToKeeps, UnderWay DEF HashCovers, HoldsHere
<1>6. CommandInv(t)'
  BY <1>1, <1>2, <1>4, <1>5, ToKeeps, StaysHere
<1> QED
  BY <1>3, <1>6, OwnStepKeeps

\* cleanLeaf's alpha serves the leaf under the hash it was resolved to.
LEMMA CleanLeafKeeps ==
  ASSUME LevelsAssumption, LevelsInv, NEW t \in Terminals, CleanLeaf(t)
  PROVE  LevelsInv'
<1>1. cmd[t] # NoCommand /\ cmd[t].at = "clean" /\ To(t, "cleaned")
  BY DEF CleanLeaf, NoCommand
<1>2. /\ locked' = locked /\ DOMAIN alphas' = Slots
      /\ alphas'[Here(t)] = [hash |-> cmd[t].hash, block |-> cmd[t].block, parents |-> cmd[t].parents]
      /\ \A s \in Slots : s # Here(t) => alphas'[s] = alphas[s]
  BY <1>1, UnderWay DEF CleanLeaf
<1>3. locked[Here(t)] = t /\ cmd[t].hash[3] = Services(cmd[t].parents)
  BY <1>1, UnderWay DEF HoldsHere, HashCovers
<1>4. OnlyItsOwn(t)
  <2>1. \A s \in Slots : \/ alphas'[s] = alphas[s]
                         \/ locked[s] = t /\ alphas'[s].hash[3] = Services(alphas'[s].parents)
    BY <1>2, <1>3
  <2>2. LevelsTyped' /\ \A u \in Terminals \ {t} : cmd'[u] = cmd[u]
    BY <1>1, <1>2, ToKeeps DEF LevelsInv, LevelsTyped
  <2> QED
    BY <1>2, <2>1, <2>2 DEF OnlyItsOwn
<1>5. CommandShape(cmd'[t])
  <2>1. cmd[t].run.op = "clean" /\ cmd[t].level = cmd[t].run.leaf
    BY <1>1, UnderWay DEF CommandShape
  <2>2. /\ cmd'[t].at = "cleaned" /\ cmd'[t].run = cmd[t].run /\ cmd'[t].level = cmd[t].level
        /\ DOMAIN cmd'[t] = DOMAIN cmd[t]
    BY <1>1, ToKeeps
  <2> QED
    BY <1>1, <2>1, <2>2, UnderWay DEF CommandShape
<1>6. HashCovers(cmd'[t]) /\ HoldsHere(t)'
  BY <1>1, <1>2, <1>3, ToKeeps DEF HashCovers, HoldsHere
<1>7. CommandInv(t)'
  BY <1>1, <1>2, <1>5, <1>6, ToKeeps, StaysHere
<1> QED
  BY <1>4, <1>7, OwnStepKeeps

\* An end gives back the command's own locks.
LEMMA EndGivesBack ==
  ASSUME LevelsAssumption, LevelsInv, NEW t \in Terminals, CommandEnds(t)
  PROVE  /\ CommandInv(t)'
         /\ DOMAIN cmd' = Terminals /\ \A u \in Terminals \ {t} : cmd'[u] = cmd[u]
         /\ DOMAIN locked' = Slots
         /\ \A s \in Slots : locked[s] \notin {t, Absent} => locked'[s] = locked[s]
  BY DEF CommandEnds, PutCommand, CommandInv, LevelsInv, LevelsTyped

LEMMA CommandFailsKeeps ==
  ASSUME LevelsAssumption, LevelsInv, NEW t \in Terminals, CommandFails(t) \/ CleanEnds(t)
  PROVE  LevelsInv'
<1>1. CommandEnds(t) /\ cmd[t] # NoCommand
  BY DEF CommandFails, CleanEnds, NoCommand
<1>2. DOMAIN alphas' = Slots /\ \A s \in Slots : alphas'[s] \in {alphas[s], Absent}
  BY <1>1, UnderWay DEF CommandFails, CleanEnds
<1>3. OnlyItsOwn(t)
  BY <1>1, <1>2, EndGivesBack DEF OnlyItsOwn, LevelsTyped
<1> QED
  BY <1>1, <1>3, EndGivesBack, OwnStepKeeps

LEMMA DescentGivesBack ==
  ASSUME LevelsAssumption, LevelsInv, NEW t \in Terminals, cmd[t] # NoCommand, NEW block, NEW live,
         DescendTo(t, cmd[t], block, live)
  PROVE  /\ DOMAIN cmd' = Terminals /\ \A u \in Terminals \ {t} : cmd'[u] = cmd[u]
         /\ DOMAIN locked' = Slots
         /\ \A s \in Slots : locked[s] \notin {t, Absent} => locked'[s] = locked[s]
  BY EndGivesBack DEF DescendTo, PutCommand, LevelsInv, LevelsTyped

\* A parent is adopted by the hash it serves under, which covers the services
\* it was resolved against.
LEMMA ReuseKeeps ==
  ASSUME LevelsAssumption, LevelsInv, NEW t \in Terminals, Reuse(t)
  PROVE  LevelsInv'
<1>1. /\ cmd[t] # NoCommand /\ cmd[t].at = "query" /\ alphas' = alphas
      /\ DescendTo(t, cmd[t], alphas[Here(t)].block, TRUE)
  <2>1. cmd[t] # NoCommand
    BY DEF Reuse, NoCommand
  <2> QED
    BY <2>1 DEF Reuse
<1>2. OnlyItsOwn(t)
  BY <1>1, DescentGivesBack DEF OnlyItsOwn, LevelsInv, LevelsTyped
<1>3. Services(alphas[Here(t)].parents) = Services(cmd[t].parents)
  <2>1. alphas[Here(t)].hash[3] = Services(cmd[t].parents) /\ alphas[Here(t)] # Absent
    BY <1>1, UnderWay DEF Reuse, CanReuse, HashCovers
  <2> QED
    BY <1>1, <2>1, UnderWay DEF LevelsInv, ServingInv
<1>4. cmd[t].run.op = "start" => locked[Here(t)] = t
  BY <1>1, UnderWay DEF HoldsHere
<1>5. CommandInv(t)'
  BY <1>1, <1>3, <1>4, WalksOn
<1> QED
  BY <1>2, <1>5, OwnStepKeeps
\* A level that is resolved afresh is resolved against the parents it has.
LEMMA ResolveLevelKeeps ==
  ASSUME LevelsAssumption, LevelsInv, NEW t \in Terminals, ResolveLevel(t)
  PROVE  LevelsInv'
<1> DEFINE c == cmd[t]
           at == IF c.run.op = "start" THEN "pin" ELSE "lock"
<1>1. c # NoCommand /\ c.at = "query" /\ c.run.op # "look"
  BY DEF ResolveLevel, NoCommand
<1>2. alphas' = alphas
  BY DEF ResolveLevel
<1>3. PICK b : IF c.run.op = "clean" /\ ~AtLeaf(t)
               THEN DescendTo(t, c, b, FALSE)
               ELSE /\ PutCommand(t, [c EXCEPT !.at = at, !.block = PickedBlock(c, b)])
                    /\ UNCHANGED locked
  BY DEF ResolveLevel
<1>4. CASE c.run.op = "clean" /\ ~AtLeaf(t)
  <2>1. DescendTo(t, c, b, FALSE)
    BY <1>3, <1>4
  <2>2. OnlyItsOwn(t)
    BY <1>1, <1>2, <2>1, DescentGivesBack DEF OnlyItsOwn, LevelsInv, LevelsTyped
  <2>3. CommandInv(t)'
    BY <1>1, <1>2, <1>4, <2>1, WalksOn
  <2> QED
    BY <2>2, <2>3, OwnStepKeeps
<1>5. CASE ~(c.run.op = "clean" /\ ~AtLeaf(t))
  <2> DEFINE new == [c EXCEPT !.at = at, !.block = PickedBlock(c, b)]
  <2>1. cmd' = [cmd EXCEPT ![t] = new] /\ locked' = locked
    BY <1>3, <1>5 DEF PutCommand
  <2>2. /\ new.at = at /\ new.hash = c.hash /\ new.run = c.run /\ new.level = c.level
        /\ new.parents = c.parents /\ DOMAIN new = DOMAIN c
    BY <1>1, UnderWay DEF CommandShape
  <2>3. cmd'[t] = new /\ DOMAIN cmd' = Terminals /\ \A u \in Terminals \ {t} : cmd'[u] = cmd[u]
    BY <1>1, <2>1, UnderWay
  <2> HIDE DEF new
  <2>4. c.hash[3] = Services(c.parents)
    BY <1>1, UnderWay DEF HashCovers
  <2>5. \/ c.run.op = "start" /\ at = "pin"
        \/ c.run.op = "clean" /\ at = "lock" /\ c.level = c.run.leaf
    BY <1>1, <1>5, UnderWay DEF AtLeaf
  <2> HIDE DEF at
  <2>6. OnlyItsOwn(t)
    BY <1>2, <2>1, <2>3 DEF OnlyItsOwn, LevelsInv, LevelsTyped
  <2>7. CommandShape(new)
    BY <1>1, <2>2, <2>5, UnderWay DEF CommandShape
  <2>8. HashCovers(new)
    BY <2>2, <2>4 DEF HashCovers
  <2>9. HoldsHere(t)'
    BY <1>1, <2>1, <2>2, <2>3, <2>5, UnderWay DEF HoldsHere, Here
  <2>10. CommandInv(t)'
    BY <1>1, <1>2, <2>1, <2>2, <2>3, <2>7, <2>8, <2>9, StaysHere
  <2> QED
    BY <2>6, <2>10, OwnStepKeeps
<1> QED
  BY <1>4, <1>5

\* The alpha a start configures stands on what it was handed.
LEMMA ConfigureAlphaKeeps ==
  ASSUME LevelsAssumption, LevelsInv, NEW t \in Terminals, ConfigureAlpha(t)
  PROVE  LevelsInv'
<1>1. cmd[t] # NoCommand
  BY DEF ConfigureAlpha, NoCommand
<1>2. cmd[t].at = "configure" /\ DescendTo(t, cmd[t], cmd[t].block, TRUE)
  BY DEF ConfigureAlpha
<1>3. /\ DOMAIN alphas' = Slots
      /\ alphas'[Here(t)] = [hash |-> cmd[t].hash, block |-> cmd[t].block, parents |-> cmd[t].parents]
      /\ \A s \in Slots : s # Here(t) => alphas'[s] = alphas[s]
  BY <1>1, UnderWay DEF ConfigureAlpha
<1>4. locked[Here(t)] = t /\ cmd[t].hash[3] = Services(cmd[t].parents)
  BY <1>1, <1>2, UnderWay DEF HoldsHere, HashCovers
<1>5. OnlyItsOwn(t)
  <2>1. \A s \in Slots : \/ alphas'[s] = alphas[s]
                         \/ locked[s] = t /\ alphas'[s].hash[3] = Services(alphas'[s].parents)
    BY <1>3, <1>4
  <2>2. LevelsTyped'
    BY <1>1, <1>2, <1>3, DescentGivesBack DEF LevelsTyped
  <2> QED
    BY <1>1, <1>2, <2>1, <2>2, DescentGivesBack DEF OnlyItsOwn
<1>6. CommandInv(t)'
  <2>1. /\ alphas'[Here(t)].block.services = cmd[t].block.services
        /\ Services(alphas'[Here(t)].parents) = Services(cmd[t].parents)
    BY <1>3
  <2> QED
    BY <1>1, <1>2, <1>3, <1>4, <2>1, WalksOn
<1> QED
  BY <1>5, <1>6, OwnStepKeeps

LEMMA LookKeeps ==
  ASSUME LevelsAssumption, LevelsInv, NEW t \in Terminals, Look(t)
  PROVE  LevelsInv'
<1>1. cmd[t] # NoCommand /\ cmd[t].at = "query" /\ cmd[t].run.op = "look" /\ alphas' = alphas
  <2>1. cmd[t] # NoCommand
    BY DEF Look, NoCommand
  <2> QED
    BY <2>1 DEF Look
<1> DEFINE skip == [cmd[t] EXCEPT !.level = @ + 1]
<1>2. CASE \E block, live : DescendTo(t, cmd[t], block, live)
  <2>1. PICK block, live : DescendTo(t, cmd[t], block, live)
    BY <1>2
  <2>2. OnlyItsOwn(t)
    BY <1>1, <2>1, DescentGivesBack DEF OnlyItsOwn, LevelsInv, LevelsTyped
  <2>3. CommandInv(t)'
    BY <1>1, <2>1, WalksOn
  <2> QED
    BY <2>2, <2>3, OwnStepKeeps
<1>3. CASE ~AtLeaf(t) /\ PutCommand(t, skip) /\ UNCHANGED locked
  <2>1. /\ cmd'[t] = skip /\ DOMAIN cmd' = Terminals /\ \A u \in Terminals \ {t} : cmd'[u] = cmd[u]
    BY <1>1, <1>3, UnderWay DEF PutCommand
  <2>2. /\ skip.at = "query" /\ skip.run = cmd[t].run /\ skip.level = cmd[t].level + 1
        /\ DOMAIN skip = DOMAIN cmd[t]
    BY <1>1, UnderWay DEF CommandShape
  <2> HIDE DEF skip
  <2>3. OnlyItsOwn(t)
    BY <1>1, <1>3, <2>1 DEF OnlyItsOwn, LevelsInv, LevelsTyped
  <2>4. skip.level \in 1 .. skip.run.leaf
    BY <1>1, <1>3, <2>2, UnderWay DEF CommandShape, AtLeaf, LevelsAssumption, Levels
  <2>5. CommandShape(skip)
    BY <1>1, <2>2, <2>4, UnderWay DEF CommandShape
  <2>6. PassedAll(skip) /\ HashCovers(skip) /\ HoldsHere(t)' /\ StandsOn(t)'
    BY <1>1, <2>1, <2>2 DEF PassedAll, HashCovers, HoldsHere, StandsOn
  <2> QED
    BY <2>1, <2>3, <2>5, <2>6, OwnStepKeeps DEF CommandInv
<1> QED
  BY <1>2, <1>3 DEF Look

\* Edits touch no alpha; an alpha that goes leaves one less to agree with.
LEMMA WorldKeeps ==
  ASSUME LevelsAssumption, LevelsInv,
         \/ \E l \in Levels : \E n \in DOMAIN Texts[l] : Edit(l, n)
         \/ \E s \in Slots : AlphaGone(s)
         \/ UNCHANGED levelsVars
  PROVE  LevelsInv'
<1>1. /\ UNCHANGED <<cmd, locked>> /\ DOMAIN alphas' = Slots
      /\ \A s \in Slots : alphas'[s] \in {alphas[s], Absent}
  BY DEF Edit, AlphaGone, levelsVars, LevelsInv, LevelsTyped
<1>2. LevelsTyped' /\ \A s \in Slots : ServingInv(s)'
  BY <1>1 DEF LevelsInv, LevelsTyped, ServingInv
<1>3. \A t \in Terminals : CommandInv(t)'
  BY <1>1, StandsStill
<1> QED
  BY <1>2, <1>3 DEF LevelsInv

LEMMA LevelsStep == LevelsAssumption /\ LevelsInv /\ [LevelsNext]_levelsVars => LevelsInv'
<1> SUFFICES ASSUME LevelsAssumption, LevelsInv, [LevelsNext]_levelsVars PROVE LevelsInv'
  OBVIOUS
<1>1. ASSUME NEW t \in Terminals, Command(t) PROVE LevelsInv'
  BY <1>1, BeginRunKeeps, ReadKeeps, LockKeeps, PullKeeps, HashLevelKeeps, ReuseKeeps,
     ResolveLevelKeeps, PinLevelKeeps,     StopOldKeeps, ConfigureAlphaKeeps, CleanLeafKeeps, LookKeeps, CommandFailsKeeps
  DEF Command
<1> QED
  BY <1>1, WorldKeeps DEF LevelsNext

\* A start stands on the chain it walked: until it is over, every alpha of a
\* level it passed was resolved against the services the alphas above it
\* serve.  It holds the zordon.lock of every level it passed, alphas are put
\* in place under that lock alone, and the hash a parent is adopted by covers
\* the services of the levels above it; so it does not matter who else
\* starts, cleans, edits or stops anything meanwhile.
THEOREM ChainIsCurrent == LevelsAssumption => (LevelsSpec => []ServicesCurrent)
<1> SUFFICES ASSUME LevelsAssumption PROVE LevelsSpec => []ServicesCurrent
  OBVIOUS
<1>1. LevelsInit => LevelsInv
  BY DEF LevelsInit, LevelsInv, LevelsTyped, ServingInv, CommandInv
<1>2. LevelsInv /\ [LevelsNext]_levelsVars => LevelsInv'
  BY LevelsStep
<1>3. LevelsInv => ServicesCurrent
  <2> SUFFICES ASSUME LevelsInv, NEW t \in Terminals, NEW l \in PassedLevels(t), NEW k \in 1 .. l - 1,
                      alphas[<<l, "main">>] # Absent, alphas[<<k, "main">>] # Absent
               PROVE  alphas[<<l, "main">>].parents[k].services = alphas[<<k, "main">>].block.services
    BY DEF ServicesCurrent
  <2>1. cmd[t] # NoCommand /\ cmd[t].run.op = "start" /\ l \in 1 .. Len(cmd[t].parents)
    BY DEF PassedLevels
  <2>2. /\ Len(cmd[t].parents) = cmd[t].level - 1 /\ cmd[t].level \in Nat /\ StandsOn(t)
    BY <2>1, UnderWay, Places DEF PassedAll, Levels
  <2>3. l \in 1 .. cmd[t].level - 1 /\ k \in 1 .. cmd[t].level - 1
    BY <2>1, <2>2
  <2> QED
    BY <2>1, <2>2, <2>3 DEF StandsOn, PassedOn
<1> QED
  BY <1>1, <1>2, <1>3, PTL DEF LevelsSpec
------------------------------------------------------------------------------
(* Evaluation: the order and the sources of one level.                      *)

\* The stages in order; a refusal may come at any of them.
EvalTyped ==
  /\ given \in Entries
  /\ order \in Seq(SetOf(order)) /\ resolved \in Seq(SetOf(resolved))
  /\ SetOf(order) \subseteq Producers
  /\ computed \in 0 .. Len(order)
  /\ stage \in {"merge", "plan"} => order = <<>>
  /\ stage \in {"merge", "plan", "sort", "cycle"} => computed = 0 /\ unseen = {} /\ resolved = <<>>

\* topoSort: what is out is out once and after all it waits for; ready are
\* those that wait for nothing that is not out, and indeg counts the rest.
AfterItsOwn == \A i \in 1 .. Len(order) : Deps(order[i]) \subseteq {order[j] : j \in 1 .. i - 1}
ReadyInv ==
  stage = "sort" =>
    /\ free = {n \in Producers \ SetOf(order) : Deps(n) \subseteq SetOf(order)}
    /\ waits = [n \in Producers |-> Cardinality(Deps(n) \ SetOf(order))]
SortInv == Cardinality(SetOf(order)) = Len(order) /\ AfterItsOwn /\ ReadyInv

\* None of those that wait for each other ever comes out.
RingInv ==
  /\ \A ns \in SUBSET Producers : WaitingRing(ns) => ns \cap SetOf(order) = {}
  /\ stage = "cycle" => given.twice # {} \/ \E ns \in SUBSET Producers : ns # {} /\ WaitingRing(ns)
  /\ stage = "compute" => SetOf(order) = Producers

\* Only the producer itself is read before it is final.
NamesFinal == \A u \in unseen : u.by = "name" => u.to = u.at

OrderInv == EvalTyped /\ SortInv /\ RingInv /\ NamesFinal

\* The checkouts FinishService goes by are those of prepareServices.
SourceInv ==
  /\ given \in Entries /\ resolved \in Seq(SetOf(resolved))
  /\ stage \in {"merge", "plan"} => resolved = <<>>
  /\ stage \in {"sort", "compute"} =>
       \A s \in SetOf(given.services) : states[s] = Prepared(given.block[s])
  /\ OneSource

\* What is appended to a sequence is one value more, at its end.
LEMMA AppendSet ==
  ASSUME NEW s, s \in Seq(SetOf(s)), NEW e
  PROVE  SetOf(Append(s, e)) = SetOf(s) \cup {e}
<1>1. /\ DOMAIN Append(s, e) = 1 .. Len(s) + 1 /\ Len(s) \in Nat /\ DOMAIN s = 1 .. Len(s)
      /\ \A i \in 1 .. Len(s) : Append(s, e)[i] = s[i]
      /\ Append(s, e)[Len(s) + 1] = e
  BY PassedMore
<1> QED
  BY <1>1 DEF SetOf

\* What each producer waits for are other producers, and there are finitely
\* many of them, each with its place among the ids.
LEMMA ProducersFinite ==
  ASSUME EvaluationAssumption, given \in Entries
  PROVE  /\ IsFiniteSet(Producers)
         /\ \A n : Deps(n) \subseteq Producers \ {n}
         /\ \A n \in Producers : Rank(n) \in Nat
<1>1. Producers \subseteq SetOf(Lexical) /\ Lexical \in Seq(SetOf(Lexical))
  BY DEF EvaluationAssumption, Producers
<1>2. IsFiniteSet(SetOf(Lexical))
  <2>1. DOMAIN Lexical = 1 .. Len(Lexical) /\ Len(Lexical) \in Nat
    BY <1>1
  <2>2. IsFiniteSet(DOMAIN Lexical)
    BY <2>1, FS_Interval
  <2>3. Lexical \in Surjection(DOMAIN Lexical, SetOf(Lexical))
    BY <1>1 DEF Surjection, SetOf
  <2> QED
    BY <2>2, <2>3, FS_Surjection
<1>3. IsFiniteSet(Producers)
  BY <1>1, <1>2, FS_Subset
<1>4. ASSUME NEW n PROVE Deps(n) \subseteq Producers \ {n}
  <2>1. PartsOf(n) \subseteq Producers \ {n}
    <3>1. DOMAIN given.reads \subseteq Producers
      BY DEF Producers, ProducersOf
    <3>2. n \in DOMAIN given.parts => given.parts[n] \subseteq DOMAIN given.reads \ {n}
      BY DEF EvaluationAssumption
    <3> QED
      BY <3>1, <3>2 DEF PartsOf
  <2> QED
    BY <2>1 DEF Deps
<1>5. ASSUME NEW n \in Producers PROVE Rank(n) \in Nat
  <2>1. \E i \in DOMAIN Lexical : Lexical[i] = n
    BY <1>1 DEF SetOf
  <2>2. DOMAIN Lexical \subseteq Nat
    BY <1>1
  <2> QED
    BY <2>1, <2>2 DEF Rank
<1> QED
  BY <1>3, <1>4, <1>5

\* The lexically first of those that are ready is one of them.
LEMMA FirstIsOne ==
  ASSUME EvaluationAssumption, given \in Entries, NEW ns \in SUBSET Producers, ns # {}
  PROVE  FirstOf(ns) \in ns
<1> DEFINE ranks == {Rank(n) : n \in ns}
<1>1. ranks \subseteq Nat /\ ranks # {}
  BY ProducersFinite
<1>2. PICK x \in ranks : \A y \in ranks : <<y, x>> \notin OpToRel(<, Nat)
  BY <1>1, WFMin, NatLessThanWellFounded, Zenon
<1>3. \A y \in ranks : ~(y < x)
  BY <1>1, <1>2, Zenon DEF OpToRel
<1>4. \A y \in ranks : x <= y
  BY <1>1, <1>3
<1>5. \E n \in ns : \A m \in ns : Rank(n) <= Rank(m)
  BY <1>4
<1> QED
  BY <1>5 DEF FirstOf
\* Sort lets one out that waits for nobody who is not out.
LEMMA NextOut ==
  ASSUME EvaluationAssumption, OrderInv, Sort
  PROVE  \E n \in Producers \ SetOf(order) :
           /\ Deps(n) \subseteq SetOf(order)
           /\ order' = Append(order, n) /\ SetOf(order') = SetOf(order) \cup {n}
           /\ order' \in Seq(SetOf(order')) /\ Len(order') = Len(order) + 1
           /\ \A i \in 1 .. Len(order) : order'[i] = order[i]
           /\ order'[Len(order) + 1] = n
           /\ free' = (free \ {n}) \cup {m \in Producers : n \in Deps(m) /\ waits[m] = 1}
           /\ waits' = [m \in Producers |-> IF n \in Deps(m) THEN waits[m] - 1 ELSE waits[m]]
<1> DEFINE n == FirstOf(free)
<1>1. free = {m \in Producers \ SetOf(order) : Deps(m) \subseteq SetOf(order)} /\ free # {}
  BY DEF Sort, OrderInv, SortInv, AfterItsOwn, ReadyInv
<1>2. n \in free
  BY <1>1, FirstIsOne DEF OrderInv, EvalTyped
<1>3. n \in Producers \ SetOf(order) /\ Deps(n) \subseteq SetOf(order)
  BY <1>1, <1>2
<1>4. /\ order' = Append(order, n)
      /\ free' = (free \ {n}) \cup {m \in Producers : n \in Deps(m) /\ waits[m] = 1}
      /\ waits' = [m \in Producers |-> IF n \in Deps(m) THEN waits[m] - 1 ELSE waits[m]]
  BY DEF Sort
<1> HIDE DEF n
<1>5. /\ order' \in Seq(SetOf(order')) /\ Len(order') = Len(order) + 1
      /\ \A i \in 1 .. Len(order) : order'[i] = order[i]
      /\ order'[Len(order) + 1] = n /\ SetOf(order') = SetOf(order) \cup {n}
  BY <1>4, PassedMore, AppendSet DEF OrderInv, EvalTyped
<1> QED
  BY <1>3, <1>4, <1>5

\* What a producer waits for, once another one is out.
LEMMA OneLess ==
  ASSUME EvaluationAssumption, given \in Entries, NEW m, NEW out, NEW n, n \notin out
  PROVE  /\ Cardinality(Deps(m) \ (out \cup {n})) =
              IF n \in Deps(m) THEN Cardinality(Deps(m) \ out) - 1 ELSE Cardinality(Deps(m) \ out)
         /\ n \in Deps(m) => (Cardinality(Deps(m) \ out) = 1 <=> Deps(m) \subseteq out \cup {n})
<1> DEFINE rest == Deps(m) \ out
<1>1. IsFiniteSet(rest)
  <2>1. rest \in SUBSET Producers
    BY ProducersFinite
  <2> QED
    BY <2>1, ProducersFinite, FS_Subset
<1>2. Deps(m) \ (out \cup {n}) = rest \ {n} /\ (n \in rest <=> n \in Deps(m))
  OBVIOUS
<1>3. Deps(m) \subseteq out \cup {n} <=> rest \ {n} = {}
  OBVIOUS
<1> HIDE DEF rest
<1>4. /\ IsFiniteSet(rest \ {n})
      /\ Cardinality(rest \ {n}) = IF n \in rest THEN Cardinality(rest) - 1 ELSE Cardinality(rest)
      /\ Cardinality(rest) \in Nat
  BY <1>1, FS_RemoveElement, FS_CardinalityType
<1>5. Cardinality(rest \ {n}) = 0 <=> rest \ {n} = {}
  BY <1>4, FS_EmptySet
<1>6. CASE n \in rest
  <2>1. Cardinality(rest) - 1 = 0 <=> Cardinality(rest) = 1
    BY <1>4
  <2>2. Cardinality(rest) = 1 <=> Deps(m) \subseteq out \cup {n}
    BY <1>3, <1>4, <1>5, <1>6, <2>1
  <2> QED
    BY <1>2, <1>4, <1>6, <2>2 DEF rest
<1>7. CASE n \notin rest
  BY <1>2, <1>4, <1>7 DEF rest
<1> QED
  BY <1>6, <1>7

LEMMA SortKeeps ==
  ASSUME EvaluationAssumption, OrderInv, Sort
  PROVE  OrderInv'
<1>1. PICK n \in Producers \ SetOf(order) :
           /\ Deps(n) \subseteq SetOf(order)
           /\ order' = Append(order, n) /\ SetOf(order') = SetOf(order) \cup {n}
           /\ order' \in Seq(SetOf(order')) /\ Len(order') = Len(order) + 1
           /\ \A i \in 1 .. Len(order) : order'[i] = order[i]
           /\ order'[Len(order) + 1] = n
           /\ free' = (free \ {n}) \cup {m \in Producers : n \in Deps(m) /\ waits[m] = 1}
           /\ waits' = [m \in Producers |-> IF n \in Deps(m) THEN waits[m] - 1 ELSE waits[m]]
  BY NextOut
<1>2. /\ given' = given /\ stage = "sort" /\ stage' = "sort"
      /\ UNCHANGED <<computed, unseen, resolved>>
  BY DEF Sort
<1>3. /\ Producers' = Producers /\ \A m : Deps(m)' = Deps(m)
      /\ \A ns : WaitingRing(ns)' = WaitingRing(ns)
  BY <1>2 DEF Producers, Deps, ReadsOf, PartsOf, WaitingRing
<1>4. given \in Entries /\ Len(order) \in Nat
  BY DEF OrderInv, EvalTyped
<1>5. EvalTyped'
  BY <1>1, <1>2, <1>3, <1>4 DEF OrderInv, EvalTyped
<1>6. Cardinality(SetOf(order')) = Len(order')
  <2>1. IsFiniteSet(SetOf(order))
    BY <1>4, ProducersFinite, FS_Subset DEF OrderInv, EvalTyped
  <2> QED
    BY <1>1, <2>1, FS_AddElement DEF OrderInv, SortInv, AfterItsOwn, ReadyInv
<1>7. \A i \in 1 .. Len(order') : Deps(order'[i]) \subseteq {order'[j] : j \in 1 .. i - 1}
  <2> SUFFICES ASSUME NEW i \in 1 .. Len(order'), NEW d \in Deps(order'[i])
               PROVE  \E j \in 1 .. i - 1 : order'[j] = d
    OBVIOUS
  <2>1. CASE i \in 1 .. Len(order)
    <3>1. order'[i] = order[i] /\ Deps(order[i]) \subseteq {order[j] : j \in 1 .. i - 1}
      BY <1>1, <2>1 DEF OrderInv, SortInv, AfterItsOwn, ReadyInv
    <3>2. PICK j \in 1 .. i - 1 : order[j] = d
      BY <3>1
    <3> QED
      BY <1>1, <1>4, <2>1, <3>2
  <2>2. CASE i = Len(order) + 1
    <3>1. d \in SetOf(order)
      BY <1>1, <2>2
    <3>2. PICK j \in DOMAIN order : order[j] = d
      BY <3>1 DEF SetOf
    <3>3. j \in 1 .. Len(order)
      BY DEF OrderInv, EvalTyped
    <3> QED
      BY <1>1, <1>4, <2>2, <3>2, <3>3
  <2> QED
    BY <1>1, <1>4, <2>1, <2>2
<1>8. waits' = [m \in Producers |-> Cardinality(Deps(m) \ SetOf(order'))]
  <2>1. \A m \in Producers : waits[m] = Cardinality(Deps(m) \ SetOf(order))
    BY <1>2 DEF OrderInv, SortInv, AfterItsOwn, ReadyInv
  <2>2. ASSUME NEW m \in Producers
        PROVE  Cardinality(Deps(m) \ (SetOf(order) \cup {n})) = waits'[m]
    <3>1. waits[m] = Cardinality(Deps(m) \ SetOf(order)) /\ n \notin SetOf(order)
      BY <1>1, <2>1
    <3>2. waits'[m] = IF n \in Deps(m) THEN waits[m] - 1 ELSE waits[m]
      BY <1>1
    <3>3. n \in Deps(m) =>
            Cardinality(Deps(m) \ (SetOf(order) \cup {n})) = Cardinality(Deps(m) \ SetOf(order)) - 1
      BY <1>4, <3>1, OneLess
    <3>4. n \notin Deps(m) => Deps(m) \ (SetOf(order) \cup {n}) = Deps(m) \ SetOf(order)
      OBVIOUS
    <3> QED
      BY <3>1, <3>2, <3>3, <3>4
  <2> QED
    BY <1>1, <2>2
<1>9. free' = {m \in Producers \ SetOf(order') : Deps(m) \subseteq SetOf(order')}
  <2>1. free = {m \in Producers \ SetOf(order) : Deps(m) \subseteq SetOf(order)}
    BY <1>2 DEF OrderInv, SortInv, AfterItsOwn, ReadyInv
  <2>2. \A m \in Producers : waits[m] = Cardinality(Deps(m) \ SetOf(order))
    BY <1>2 DEF OrderInv, SortInv, AfterItsOwn, ReadyInv
  <2>3. \A m \in Producers : n \in Deps(m) => (waits[m] = 1 <=> Deps(m) \subseteq SetOf(order'))
    <3> SUFFICES ASSUME NEW m \in Producers, n \in Deps(m)
                 PROVE  waits[m] = 1 <=> Deps(m) \subseteq SetOf(order) \cup {n}
      BY <1>1
    <3>1. waits[m] = Cardinality(Deps(m) \ SetOf(order)) /\ n \notin SetOf(order)
      BY <1>1, <2>2
    <3>2. Cardinality(Deps(m) \ SetOf(order)) = 1 <=> Deps(m) \subseteq SetOf(order) \cup {n}
      BY <1>4, <3>1, OneLess
    <3> QED
      BY <3>1, <3>2
  <2>4. \A m \in SetOf(order) : Deps(m) \subseteq SetOf(order)
    <3> SUFFICES ASSUME NEW i \in 1 .. Len(order), NEW d \in Deps(order[i]) PROVE d \in SetOf(order)
      <4>1. DOMAIN order = 1 .. Len(order)
        BY DEF OrderInv, EvalTyped
      <4> QED
        BY <4>1 DEF SetOf
    <3>1. PICK j \in 1 .. i - 1 : order[j] = d
      BY DEF OrderInv, SortInv, AfterItsOwn, ReadyInv
    <3> QED
      BY <1>4, <3>1 DEF SetOf, OrderInv, EvalTyped
  <2>5. ASSUME NEW m PROVE m \in free' <=> m \in Producers \ SetOf(order') /\ Deps(m) \subseteq SetOf(order')
    BY <1>1, <2>1, <2>3, <2>4
  <2> QED
    BY <2>5
<1>10. RingInv'
  <2> SUFFICES ASSUME NEW ns \in SUBSET Producers, WaitingRing(ns) PROVE ns \cap SetOf(order') = {}
    BY <1>2, <1>3 DEF RingInv
  <2>1. ns \cap SetOf(order) = {}
    BY DEF OrderInv, RingInv
  <2>2. n \notin ns
    <3> SUFFICES ASSUME n \in ns PROVE FALSE
      OBVIOUS
    <3>1. PICK m \in ns \ {n} : m \in Named(ReadsOf(n)) \cup PartsOf(n)
      BY DEF WaitingRing
    <3>2. m \in Deps(n)
      BY <3>1 DEF Deps
    <3> QED
      BY <1>1, <2>1, <3>2
  <2> QED
    BY <1>1, <2>1, <2>2
<1> QED
  BY <1>2, <1>3, <1>5, <1>6, <1>7, <1>8, <1>9, <1>10 DEF OrderInv, SortInv, AfterItsOwn, ReadyInv, NamesFinal
\* What leaves the manifest alone leaves its graph alone.
LEMMA SameGraph ==
  ASSUME given' = given
  PROVE  /\ Producers' = Producers /\ \A m : Deps(m)' = Deps(m)
         /\ \A ns : WaitingRing(ns)' = WaitingRing(ns)
  BY DEF Producers, Deps, ReadsOf, PartsOf, WaitingRing

\* So does the order so far.
LEMMA OrderRests ==
  ASSUME AfterItsOwn, UNCHANGED <<given, order>>
  PROVE  AfterItsOwn'
<1>1. ASSUME NEW i \in 1 .. Len(order)
      PROVE  (Deps(order[i]) \subseteq {order[j] : j \in 1 .. i - 1})'
  <2>1. Deps(order[i]) \subseteq {order[j] : j \in 1 .. i - 1}
    BY DEF AfterItsOwn
  <2>2. Deps(order[i])' = Deps(order[i])
    BY DEF Deps, ReadsOf, PartsOf, Producers
  <2>3. {order[j] : j \in 1 .. i - 1}' = {order[j] : j \in 1 .. i - 1}
    OBVIOUS
  <2> QED
    BY <2>1, <2>2, <2>3
<1> QED
  BY <1>1 DEF AfterItsOwn

\* A sort that is over, or not begun, stays as it is.
LEMMA GraphRests ==
  ASSUME OrderInv, UNCHANGED <<given, order>>, computed' \in 0 .. Len(order),
         resolved' \in Seq(SetOf(resolved')),
         stage' \in {"plan", "refused", "compute", "resolved"},
         stage' = "plan" => stage = "merge" /\ UNCHANGED <<computed, unseen, resolved>>,
         stage' = "compute" => stage = "compute"
  PROVE  EvalTyped' /\ SortInv' /\ RingInv'
<1>1. EvalTyped'
  BY SameGraph DEF OrderInv, EvalTyped
<1>2. SortInv'
  BY OrderRests DEF OrderInv, SortInv, ReadyInv
<1>3. RingInv'
  BY SameGraph DEF OrderInv, RingInv
<1> QED
  BY <1>1, <1>2, <1>3

\* Plan: nothing is out yet.
LEMMA PlanKeeps ==
  ASSUME EvaluationAssumption, OrderInv, Plan
  PROVE  OrderInv'
<1>1. UNCHANGED <<given, order, computed, unseen, resolved>> /\ stage = "plan" /\ stage' \in {"refused", "sort"}
  BY DEF Plan
<1>2. order = <<>> /\ computed = 0 /\ unseen = {} /\ resolved = <<>> /\ SetOf(order) = {}
  BY <1>1 DEF OrderInv, EvalTyped, SetOf
<1>3. EvalTyped'
  BY <1>1, <1>2, SameGraph DEF OrderInv, EvalTyped
<1>4. stage' = "sort" => /\ waits' = [n \in Producers |-> Cardinality(Deps(n))]
                         /\ free' = {n \in Producers : Deps(n) = {}}
  BY DEF Plan
<1>5. \A n : Deps(n) \ {} = Deps(n) /\ (Deps(n) \subseteq {} <=> Deps(n) = {})
  OBVIOUS
<1>6. SortInv'
  <2>1. stage' = "sort" => waits' = [n \in Producers |-> Cardinality(Deps(n) \ SetOf(order))]
    BY <1>2, <1>4, <1>5
  <2>2. stage' = "sort" => free' = {n \in Producers \ SetOf(order) : Deps(n) \subseteq SetOf(order)}
    BY <1>2, <1>4, <1>5
  <2> QED
    <3>1. Cardinality(SetOf(order')) = Len(order') /\ 1 .. Len(order') = {}
      BY <1>1, <1>2 DEF OrderInv, SortInv, AfterItsOwn, ReadyInv
    <3> QED
      BY <1>1, <2>1, <2>2, <3>1, SameGraph DEF SortInv, AfterItsOwn, ReadyInv
<1>7. RingInv'
  BY <1>1, <1>2, SameGraph DEF OrderInv, RingInv
<1> QED
  BY <1>1, <1>3, <1>6, <1>7 DEF OrderInv, NamesFinal

\* Whoever is not out when nobody is ready waits for another one that is not.
LEMMA LeftOverIsRing ==
  ASSUME EvaluationAssumption, OrderInv, stage = "sort", free = {}
  PROVE  WaitingRing(Producers \ SetOf(order))
<1> DEFINE left == Producers \ SetOf(order)
<1> SUFFICES ASSUME NEW n \in left
             PROVE  \E m \in left \ {n} : m \in Named(ReadsOf(n)) \cup PartsOf(n)
  BY DEF WaitingRing
<1>1. ~(Deps(n) \subseteq SetOf(order))
  BY DEF OrderInv, SortInv, AfterItsOwn, ReadyInv
<1>2. PICK m \in Deps(n) : m \notin SetOf(order)
  BY <1>1
<1>3. m \in Producers \ {n}
  BY ProducersFinite DEF OrderInv, EvalTyped
<1> QED
  BY <1>2, <1>3 DEF Deps

\* Plan goes on when all are out, and gives up when some are not.
LEMMA SortedKeeps ==
  ASSUME EvaluationAssumption, OrderInv, Sorted
  PROVE  OrderInv'
<1>1. /\ UNCHANGED <<given, order, computed, unseen, resolved>> /\ stage = "sort" /\ free = {}
      /\ stage' = IF Len(order) # Cardinality(Producers) + Cardinality(given.twice)
                  THEN "cycle" ELSE "compute"
  BY DEF Sorted
<1>2. /\ given \in Entries /\ SetOf(order) \subseteq Producers /\ Cardinality(SetOf(order)) = Len(order)
      /\ Len(order) \in Nat
  BY DEF OrderInv, EvalTyped, SortInv, AfterItsOwn, ReadyInv
<1>3. /\ Cardinality(given.twice) \in Nat /\ (given.twice = {} => Cardinality(given.twice) = 0)
  BY <1>2, FS_CardinalityType, FS_EmptySet DEF EvaluationAssumption
<1>4. /\ Cardinality(SetOf(order)) <= Cardinality(Producers)
      /\ Cardinality(Producers) = Cardinality(SetOf(order)) => Producers = SetOf(order)
      /\ Cardinality(Producers) \in Nat
  BY <1>2, ProducersFinite, FS_Subset, FS_CardinalityType
<1>5. EvalTyped'
  BY <1>1, SameGraph DEF OrderInv, EvalTyped
<1>6. SortInv'
  BY <1>1, OrderRests DEF OrderInv, SortInv, ReadyInv
<1>7. RingInv'
  <2>1. stage' = "compute" => SetOf(order) = Producers
    BY <1>1, <1>2, <1>3, <1>4
  <2>2. stage' = "cycle" => given.twice # {} \/ Producers \ SetOf(order) # {}
    <3> SUFFICES ASSUME stage' = "cycle", given.twice = {}, Producers \subseteq SetOf(order) PROVE FALSE
      OBVIOUS
    <3>1. Producers = SetOf(order)
      BY <1>2
    <3> QED
      BY <1>1, <1>2, <1>3, <1>4, <3>1
  <2>3. stage' = "cycle" => given.twice # {} \/ \E ns \in SUBSET Producers : ns # {} /\ WaitingRing(ns)
    BY <1>1, <2>2, LeftOverIsRing
  <2> QED
    BY <1>1, <2>1, <2>3, SameGraph DEF OrderInv, RingInv
<1> QED
  BY <1>1, <1>5, <1>6, <1>7 DEF OrderInv, NamesFinal

\* Compute: what a producer names, and what the imports pass to it, is final.
LEMMA EvaluateKeeps ==
  ASSUME EvaluationAssumption, OrderInv, Evaluate
  PROVE  OrderInv'
<1> DEFINE n == order[computed + 1]
           met == ReadsOf(n) \cup {[to |-> p, by |-> "name"] : p \in PartsOf(n)}
<1>1. /\ UNCHANGED <<given, order, resolved>> /\ stage = "compute" /\ stage' \in {"compute", "refused"}
      /\ computed < Len(order) /\ computed' \in {computed, computed + 1}
      /\ unseen' = unseen \cup {[at |-> n, to |-> r.to, by |-> r.by] :
                                  r \in {q \in met : q.to \in Producers \ Evaluated}}
  BY DEF Evaluate
<1>2. /\ computed \in Nat /\ Len(order) \in Nat /\ computed + 1 \in 1 .. Len(order)
      /\ computed' \in 0 .. Len(order)
  BY <1>1 DEF OrderInv, EvalTyped
<1>3. resolved' \in Seq(SetOf(resolved'))
  BY <1>1 DEF OrderInv, EvalTyped
<1>4. EvalTyped' /\ SortInv' /\ RingInv'
  BY <1>1, <1>2, <1>3, GraphRests
<1>5. Deps(n) \subseteq Evaluated
  <2>1. Deps(n) \subseteq {order[j] : j \in 1 .. (computed + 1) - 1}
    BY <1>2 DEF OrderInv, SortInv, AfterItsOwn, ReadyInv
  <2>2. (computed + 1) - 1 = computed
    BY <1>2
  <2> QED
    BY <2>1, <2>2 DEF Evaluated
<1>6. ASSUME NEW r \in met, r.by = "name", r.to \in Producers \ Evaluated
      PROVE  r.to = n
  <2>1. CASE r \in ReadsOf(n)
    <3>1. r.to \in Named(ReadsOf(n))
      BY <1>6, <2>1 DEF Named
    <3> QED
      BY <1>5, <1>6, <3>1 DEF Deps
  <2>2. CASE r \in {[to |-> p, by |-> "name"] : p \in PartsOf(n)}
    BY <1>5, <1>6, <2>2 DEF Deps
  <2> QED
    BY <1>6, <2>1, <2>2
<1>7. NamesFinal'
  <2> SUFFICES ASSUME NEW u \in unseen', u.by = "name" PROVE u.to = u.at
    BY DEF NamesFinal
  <2>1. CASE u \in unseen
    BY <2>1 DEF OrderInv, NamesFinal
  <2>2. CASE u \notin unseen
    <3>1. PICK r \in met : r.to \in Producers \ Evaluated /\ u = [at |-> n, to |-> r.to, by |-> r.by]
      BY <1>1, <2>2
    <3>2. r.by = "name" /\ u.to = r.to /\ u.at = n
      BY <3>1
    <3> HIDE DEF met, n
    <3> QED
      BY <1>6, <3>1, <3>2
  <2> QED
    BY <2>1, <2>2
<1> QED
  BY <1>4, <1>7 DEF OrderInv

LEMMA ServiceAppended ==
  ASSUME OrderInv, FinishService
  PROVE  resolved' \in Seq(SetOf(resolved'))
<1>1. resolved \in Seq(SetOf(resolved))
  BY DEF OrderInv, EvalTyped
<1>2. resolved' = resolved \/ \E e : resolved' = Append(resolved, e)
  BY DEF FinishService
<1>3. ASSUME NEW e, resolved' = Append(resolved, e) PROVE resolved' \in Seq(SetOf(resolved'))
  <2>1. Append(resolved, e) \in Seq(SetOf(Append(resolved, e)))
    BY <1>1, PassedMore
  <2> QED
    BY <1>3, <2>1
<1> QED
  BY <1>1, <1>2, <1>3

LEMMA OrderStep == EvaluationAssumption /\ OrderInv /\ [EvalNext]_evalVars => OrderInv'
<1> SUFFICES ASSUME EvaluationAssumption, OrderInv, [EvalNext]_evalVars PROVE OrderInv'
  OBVIOUS
<1>1. CASE Merge
  BY <1>1, GraphRests DEF Merge, OrderInv, EvalTyped, NamesFinal
<1>2. CASE FinishService
  BY <1>2, GraphRests, ServiceAppended DEF FinishService, OrderInv, EvalTyped, NamesFinal
<1>3. CASE Assemble
  BY <1>3, GraphRests DEF Assemble, OrderInv, EvalTyped, NamesFinal
<1>4. CASE UNCHANGED evalVars
  <2>1. EvalTyped' /\ NamesFinal'
    BY <1>4, SameGraph DEF evalVars, OrderInv, EvalTyped, NamesFinal
  <2>2. SortInv'
    BY <1>4, SameGraph, OrderRests DEF evalVars, OrderInv, SortInv, ReadyInv
  <2>3. RingInv'
    BY <1>4, SameGraph DEF evalVars, OrderInv, RingInv
  <2> QED
    BY <2>1, <2>2, <2>3 DEF OrderInv
<1> QED
  BY <1>1, <1>2, <1>3, <1>4, PlanKeeps, SortKeeps, SortedKeeps, EvaluateKeeps DEF EvalNext

LEMMA OrderInit == EvaluationAssumption /\ EvalInit => OrderInv
<1> SUFFICES ASSUME EvaluationAssumption, EvalInit PROVE OrderInv
  OBVIOUS
<1>1. order = <<>> /\ resolved = <<>> /\ computed = 0 /\ unseen = {} /\ stage = "merge" /\ given \in Entries
  BY DEF EvalInit
<1>2. SetOf(<<>>) = {}
  BY DEF SetOf
<1>3. EvalTyped
  BY <1>1, <1>2 DEF EvalTyped
<1>4. SortInv /\ RingInv /\ NamesFinal
  BY <1>1, <1>2, FS_EmptySet DEF SortInv, AfterItsOwn, ReadyInv, RingInv, NamesFinal
<1> QED
  BY <1>3, <1>4 DEF OrderInv

\* Every value a producer names is final when the producer is evaluated; Plan
\* gives up only on producers that wait for each other, before anything is
\* evaluated, and never goes on when there are such: for every manifest.
THEOREM EvaluationIsOrdered == EvaluationAssumption => (EvalSpec => []Ordered)
<1> SUFFICES ASSUME EvaluationAssumption PROVE EvalSpec => []Ordered
  OBVIOUS
<1>1. EvalInit => OrderInv
  BY OrderInit
<1>2. OrderInv /\ [EvalNext]_evalVars => OrderInv'
  BY OrderStep
<1>3. OrderInv => Ordered
  <2> SUFFICES ASSUME OrderInv PROVE Ordered
    OBVIOUS
  <2>1. stage = "compute" => ~\E ns \in SUBSET Producers : ns # {} /\ WaitingRing(ns)
    BY DEF OrderInv, RingInv
  <2> QED
    BY <2>1 DEF OrderInv, EvalTyped, RingInv, NamesFinal, Ordered
<1> QED
  BY <1>1, <1>2, <1>3, PTL DEF EvalSpec

\* A service that is not refused has one source, of a checkout or of none.
LEMMA ServiceHasOneSource ==
  ASSUME NEW s, states[s] = Prepared(given.block[s]), ~ServiceRefused(s)
  PROVE  /\ Service(s).id = s
         /\ Service(s).install <=> states[s].checkout = "none"
         /\ Service(s).install <=> ~Service(s).git /\ ~Service(s).src
         /\ Service(s).inPlace <=> states[s].checkout = "user"
         /\ Service(s).inPlace => given.block[s].there \/ given.block[s].git # "url"
<1> DEFINE b == given.block[s]
           p == Service(s)
           built == b.toolchain # "pkg"
           local == b.src = "path" /\ ~(b.src = "path" /\ b.git = "url" /\ ~b.there)
<1>1. /\ states[s].path <=> local
      /\ states[s].checkout = IF local /\ ~b.owned THEN "user"
                              ELSE IF local \/ b.git = "url" THEN "zordon" ELSE "none"
  <2> DEFINE away == b.src = "path" /\ b.git = "url" /\ ~b.there
             kept == IF local /\ ~b.owned THEN "user"
                     ELSE IF local \/ b.git = "url" THEN "zordon" ELSE "none"
  <2>1. states[s] = [path |-> local, missing |-> away, checkout |-> kept]
    BY Zenon DEF Prepared
  <2> HIDE DEF local, away, kept
  <2>2. states[s].path = local
    BY <2>1
  <2>3. states[s].checkout = kept
    BY <2>1
  <2> QED
    BY <2>2, <2>3 DEF kept
<1>2. /\ p.id = s
      /\ p.install <=> ~built \/ IsInstall(b)
      /\ p.git <=> b.git = "url"
      /\ p.src <=> states[s].path
      /\ p.inPlace <=> built /\ states[s].path /\ ~b.owned
  BY DEF Service
<1>3. CASE ~built
  <2>1. b.src = "none" /\ b.git = "none"
    BY <1>3 DEF ServiceRefused, BadPkg
  <2> QED
    BY <1>1, <1>2, <1>3, <2>1
<1>4. CASE built /\ IsInstall(b)
  <2>1. b.src = "none" /\ b.git # "url"
    BY <1>4 DEF ServiceRefused, BadSource
  <2> QED
    BY <1>1, <1>2, <1>4, <2>1
<1>5. CASE built /\ ~IsInstall(b)
  <2>1. b.git = "url" \/ local
    BY <1>1, <1>5 DEF ServiceRefused, BadSource
  <2> QED
    BY <1>1, <1>2, <1>5, <2>1
<1> QED
  BY <1>3, <1>4, <1>5

LEMMA PlanSources ==
  ASSUME SourceInv, Plan
  PROVE  SourceInv'
<1>1. UNCHANGED <<given, resolved>> /\ resolved = <<>> /\ stage' \in {"refused", "sort"}
  BY DEF Plan, SourceInv
<1>2. stage' = "sort" => states' = [s \in SetOf(given.services) |-> Prepared(given.block[s])]
  BY DEF Plan
<1>3. stage' = "sort" =>
        \A s \in SetOf(given'.services) : states'[s] = Prepared(given'.block[s])
  BY <1>1, <1>2
<1>4. OneSource'
  BY <1>1 DEF OneSource
<1> QED
  BY <1>1, <1>3, <1>4 DEF SourceInv

LEMMA FinishSources ==
  ASSUME EvaluationAssumption, SourceInv, FinishService
  PROVE  SourceInv'
<1> DEFINE s == given.services[Len(resolved) + 1]
<1>1. /\ UNCHANGED <<given, states>> /\ stage = "compute" /\ stage' \in {"compute", "refused"}
      /\ Len(resolved) < Len(given.services)
      /\ \/ resolved' = resolved
         \/ resolved' = Append(resolved, Service(s)) /\ ~ServiceRefused(s)
  BY DEF FinishService
<1>2. CASE resolved' = resolved
  BY <1>1, <1>2 DEF SourceInv, OneSource
<1>3. CASE resolved' = Append(resolved, Service(s)) /\ ~ServiceRefused(s)
  <2>1. resolved \in Seq(SetOf(resolved)) /\ given.services \in Seq(SetOf(given.services))
    BY DEF SourceInv, EvaluationAssumption
  <2>2. /\ DOMAIN resolved = 1 .. Len(resolved) /\ Len(resolved) \in Nat
        /\ DOMAIN given.services = 1 .. Len(given.services) /\ Len(given.services) \in Nat
    BY <2>1
  <2>3. s \in SetOf(given.services)
    BY <1>1, <2>2 DEF SetOf
  <2>4. states[s] = Prepared(given.block[s])
    BY <1>1, <2>3 DEF SourceInv
  <2>5. /\ resolved' \in Seq(SetOf(resolved')) /\ DOMAIN resolved' = 1 .. Len(resolved) + 1
        /\ \A i \in 1 .. Len(resolved) : resolved'[i] = resolved[i]
        /\ resolved'[Len(resolved) + 1] = Service(s)
    BY <1>3, <2>1, PassedMore
  <2>6. ASSUME NEW i \in DOMAIN resolved'
        PROVE  LET p == resolved'[i]
                   b == given.block[p.id]
               IN /\ p.install <=> states[p.id].checkout = "none"
                  /\ p.install <=> ~p.git /\ ~p.src
                  /\ p.inPlace <=> states[p.id].checkout = "user"
                  /\ p.inPlace => b.there \/ b.git # "url"
    <3>1. CASE i \in 1 .. Len(resolved)
      <4>1. resolved'[i] = resolved[i] /\ i \in DOMAIN resolved
        BY <2>2, <2>5, <3>1
      <4> QED
        BY <4>1 DEF SourceInv, OneSource
    <3>2. CASE i = Len(resolved) + 1
      BY <1>3, <2>4, <2>5, <3>2, ServiceHasOneSource
    <3> QED
      BY <2>2, <2>5, <3>1, <3>2
  <2>7. OneSource'
    BY <1>1, <2>6 DEF OneSource
  <2> QED
    BY <1>1, <2>5, <2>7 DEF SourceInv
<1> QED
  BY <1>1, <1>2, <1>3

\* What keeps the services, and does not plan, keeps their sources.
LEMMA SourcesRest ==
  ASSUME SourceInv, UNCHANGED <<given, states, resolved>>,
         stage' \in {"merge", "plan"} => stage \in {"merge", "plan"},
         stage' \in {"sort", "compute"} => stage \in {"sort", "compute"}
  PROVE  SourceInv'
<1>1. OneSource'
  BY DEF SourceInv, OneSource
<1>2. given' \in Entries /\ resolved' \in Seq(SetOf(resolved'))
  BY DEF SourceInv
<1>3. stage' \in {"merge", "plan"} => resolved' = <<>>
  BY DEF SourceInv
<1>4. stage' \in {"sort", "compute"} =>
        \A s \in SetOf(given'.services) : states'[s] = Prepared(given'.block[s])
  BY DEF SourceInv
<1> QED
  BY <1>1, <1>2, <1>3, <1>4 DEF SourceInv

\* The checkout a service's expressions were shown is the one alpha is told to
\* use, for every manifest: none, the user's own or zordon's, as the service is
\* installed, built in place, or built from a clone or a worktree.
THEOREM ServicesHaveOneSource == EvaluationAssumption => (EvalSpec => []OneSource)
<1> SUFFICES ASSUME EvaluationAssumption PROVE EvalSpec => []OneSource
  OBVIOUS
<1>1. EvalInit => SourceInv
  BY DEF EvalInit, SourceInv, OneSource
<1>2. SourceInv /\ [EvalNext]_evalVars => SourceInv'
  <2> SUFFICES ASSUME SourceInv, [EvalNext]_evalVars PROVE SourceInv'
    OBVIOUS
  <2>1. CASE Merge \/ UNCHANGED evalVars
    BY <2>1, SourcesRest DEF Merge, evalVars
  <2>2. CASE Sort \/ Sorted
    BY <2>2, SourcesRest DEF Sort, Sorted
  <2>3. CASE Evaluate
    BY <2>3, SourcesRest DEF Evaluate
  <2>4. CASE Assemble
    BY <2>4, SourcesRest DEF Assemble
  <2> QED
    BY <2>1, <2>2, <2>3, <2>4, PlanSources, FinishSources DEF EvalNext
<1>3. SourceInv => OneSource
  BY DEF SourceInv
<1> QED
  BY <1>1, <1>2, <1>3, PTL DEF EvalSpec
===============================================================================
