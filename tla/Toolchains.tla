----------------------------- MODULE Toolchains -----------------------------
(***************************************************************************)
(* The toolchains of the alphas of a host: what configure makes of the     *)
(* pins (pinnedToolchains and the pkg services of cmd/alpha/main.go), and  *)
(* the installs that fill one directory under the locks of ZORDON_HOME     *)
(* (bringupToolchain, internal/tools, internal/zlock).                     *)
(***************************************************************************)
EXTENDS Naturals, Sequences, FiniteSets, SequencesExt

CONSTANTS
  Alphas,
  Plans,      \* [pins: key -> [lang, version, tools, env], pkgs: <<[name, version]>>];
              \* tools: name -> version, a version is a tuple of numbers
  Newest      \* <<tool, version>> -> the release mise takes for a version that is no release

ToolchainsAssumption == \A p \in Plans : IsFiniteSet(DOMAIN p.pins) /\ IsFiniteSet(DOMAIN p.pkgs)

VARIABLES
  plan,       \* plan[al]: what al was configured with
  tcs,        \* tcs[al]: its toolchain contexts
  held,       \* the file locks: <<name, alpha, context>>
  children,   \* the installers at work: [by, what]
  disk,       \* what is installed
  ended       \* the alphas that ended while they installed: another one comes after them

toolchainVars == <<plan, tcs, held, children, disk, ended>>

Gone == <<>>
NoPlan == [pins |-> <<>>, pkgs |-> <<>>]

ToolchainsInit ==
  /\ plan = [al \in Alphas |-> NoPlan]
  /\ tcs = [al \in Alphas |-> <<>>]
  /\ held = {}
  /\ children = {}
  /\ disk = {}
  /\ ended = {}

-----------------------------------------------------------------------------
(* The contexts of a plan. *)

(* Mutant: the tools are no part of what makes two pins the same. *)
RuntimeIdentity(pin) == <<pin.lang, pin.version, pin.env>>
Identity(pin) == <<pin.lang, pin.version, pin.tools, pin.env>>
Tc(kind, lang, version, tools, keys) ==
  [kind |-> kind, lang |-> lang, version |-> version, tools |-> tools, keys |-> keys,
   at |-> "mise", left |-> DOMAIN tools, now |-> <<lang, version>>]

(* A pin without a version is skipped, unless it is the pool of tools. *)
Counts(pin) == pin.version # <<>> \/ (pin.lang = "pkg" /\ DOMAIN pin.tools # {})
PinnedToolchains(pins) ==
  LET keys == {k \in DOMAIN pins : Counts(pins[k])}
      Same(k) == {j \in keys : Identity(pins[j]) = Identity(pins[k])}
      Shared(ks) == LET p == pins[CHOOSE k \in ks : TRUE]
                    IN Tc(IF p.version # <<>> THEN "language" ELSE "pool", p.lang, p.version, p.tools, ks)
  IN {Shared(Same(k)) : k \in keys}

(* The first pkg service of a name speaks for all of that name. *)
Packages(pkgs) ==
  {Tc("package", pkgs[i].name, pkgs[i].version, <<>>, {pkgs[i].name}) :
     i \in {j \in DOMAIN pkgs : \A k \in 1..(j - 1) : pkgs[k].name # pkgs[j].name}}
Contexts(p) == PinnedToolchains(p.pins) \cup Packages(p.pkgs)

Configure(al) ==
  /\ plan[al] = NoPlan /\ al \notin ended
  /\ \E p \in Plans :
       /\ plan' = [plan EXCEPT ![al] = p]
       /\ tcs' = [tcs EXCEPT ![al] = SetToSeq(Contexts(p))]
  /\ UNCHANGED <<held, children, disk, ended>>

(* addToolchain: the packages come last and take a key a pin has. *)
Serves(al, key, i) ==
  /\ key \in tcs[al][i].keys
  /\ tcs[al][i].kind = "package" \/ \A j \in DOMAIN tcs[al] : key \in tcs[al][j].keys => tcs[al][j].kind # "package"

-----------------------------------------------------------------------------
(* What is installed where. *)

MiseToolName(lang) == IF lang = "nodejs" THEN "node" ELSE lang
(* A pin may be fuzzy: mise installs a release. *)
Exact(tool, version) == IF <<tool, version>> \in DOMAIN Newest THEN Newest[<<tool, version>>] ELSE version
Dir(name) == LET tool == MiseToolName(name[1]) IN <<tool, Exact(tool, name[2])>>
Installation(dir, kind, item, version) == [dir |-> dir, kind |-> kind, item |-> item, version |-> version]
Runtime(name) == Installation(Dir(name), "runtime", "", <<>>)
Tool(name, t, version) == Installation(Dir(name), "tool", t, version)
Mise == Installation(<<"mise">>, "mise", "", <<>>)

(* gem keeps the versions of a tool side by side; npm, pip, cargo and go put
   another version in the place of the one they find. *)
SideBySide == {"ruby"}
Overwritten(what) ==
  {x \in disk : x.dir = what.dir /\ x.kind = what.kind /\ x.item = what.item
                /\ (x.version = what.version \/ what.dir[1] \notin SideBySide)}

(* Newest Corepack whose range takes the version; none is a failure. *)
AtLeast(v, w) ==
  \/ v = w
  \/ \E i \in 1..3 : v[i] > w[i] /\ \A j \in 1..(i - 1) : v[j] = w[j]
Caret(v, w) == v[1] = w[1] /\ AtLeast(v, w)
Series ==
  <<[spec |-> "0.36", carets |-> {<<22, 22, 2>>, <<24, 15, 0>>}, from |-> <<26, 0, 0>>],
    [spec |-> "0.34", carets |-> {<<20, 10, 0>>, <<22, 11, 0>>}, from |-> <<24, 0, 0>>],
    [spec |-> "0.33", carets |-> {<<18, 17, 1>>, <<20, 10, 0>>}, from |-> <<22, 11, 0>>]>>
Supports(s, v) == AtLeast(v, s.from) \/ \E w \in s.carets : Caret(v, w)
CorepackSpecFor(v) ==
  {Series[i].spec : i \in {j \in DOMAIN Series : Supports(Series[j], v) /\ \A k \in 1..(j - 1) : ~Supports(Series[k], v)}}
(* Decided by the release of the Node that is installed, kept under the
   version as it is pinned. *)
CorepackOf(name, kind) ==
  {Installation(<<"node-corepack", name[2], spec>>, kind, "", <<>>) :
     spec \in CorepackSpecFor(Exact("node", name[2]))}

-----------------------------------------------------------------------------
(* bringupToolchain. *)

T(al, i) == tcs[al][i]
At(al, i, at) == i \in DOMAIN tcs[al] /\ T(al, i).at = at
Idle(al, i) == \A c \in children : c.by # <<al, i>>
Advance(al, i, at, left, now) == tcs' = [tcs EXCEPT ![al][i] = [@ EXCEPT !.at = at, !.left = left, !.now = now]]
Go(al, i, at) == Advance(al, i, at, T(al, i).left, T(al, i).now)
Run(al, i, what) == children' = children \cup {[by |-> <<al, i>>, what |-> what]}
Held(name) == \E h \in held : h[1] = name
(* Mutant: the lock keeps one alpha's own contexts apart and no more. *)
Within(al, i, name) ==
  (\A h \in held : h[1] = name => h[2] # al) /\ held' = held \cup {<<name, al, i>>}
Acquire(al, i, name) == ~Held(name) /\ held' = held \cup {<<name, al, i>>}
Release(al, i) == held' = {h \in held : h[2] # al \/ h[3] # i}
Plain == UNCHANGED <<plan, disk, ended>>

(* EnsureMise. *)
FindMise(al, i) ==
  /\ At(al, i, "mise")
  /\ Go(al, i, IF Mise \in disk THEN "lock" ELSE "miselock")
  /\ UNCHANGED <<held, children>> /\ Plain
NoCargo(al, i) ==
  /\ At(al, i, "mise") /\ Mise \notin disk
  /\ Go(al, i, "failed")
  /\ UNCHANGED <<held, children>> /\ Plain
LockMise(al, i) ==
  /\ At(al, i, "miselock")
  /\ Acquire(al, i, <<"mise">>) /\ Go(al, i, "cargo")
  /\ UNCHANGED children /\ Plain
(* Mutant: whether another alpha has built it meanwhile is not asked again. *)
Unasked(what) == TRUE
Missing(what) == what \notin disk
StillMissing(what) == Missing(what)
CargoInstall(al, i) ==
  /\ At(al, i, "cargo") /\ Idle(al, i)
  /\ IF StillMissing(Mise)
     THEN Run(al, i, Mise) /\ Go(al, i, "built") /\ UNCHANGED held
     ELSE Release(al, i) /\ Go(al, i, "lock") /\ UNCHANGED children
  /\ Plain
Built(al, i) ==
  /\ At(al, i, "built") /\ Idle(al, i)
  /\ Release(al, i) /\ Go(al, i, "lock")
  /\ UNCHANGED children /\ Plain

(* The pool takes a lock of its own for each of its tools. *)
LockTool(al, i) ==
  /\ At(al, i, "lock")
  /\ IF T(al, i).kind = "pool"
     THEN \E t \in T(al, i).left :
            LET name == <<t, T(al, i).tools[t]>>
            IN Acquire(al, i, name) /\ Advance(al, i, "install", T(al, i).left \ {t}, name)
     ELSE Acquire(al, i, T(al, i).now) /\ Go(al, i, "install")
  /\ UNCHANGED children /\ Plain

(* Every mise command installs the version it names if it is not there. *)
InstallRuntime(al, i) ==
  /\ At(al, i, "install") /\ Idle(al, i)
  /\ Missing(Runtime(T(al, i).now)) /\ Run(al, i, Runtime(T(al, i).now))
  /\ UNCHANGED <<tcs, held>> /\ Plain

(* EnsureTools takes the tools one by one, in the order of a map: gem and npm
   are asked what they have, the other installers see it. *)
Installers == {"ruby", "python", "rust", "go", "nodejs"}
Layered(al, i) == T(al, i).kind = "language" /\ T(al, i).left # {}
EnsureTool(al, i) ==
  /\ At(al, i, "install") /\ Idle(al, i) /\ ~Missing(Runtime(T(al, i).now))
  /\ Layered(al, i) /\ T(al, i).lang \in Installers
  /\ \E t \in T(al, i).left :
       LET what == Tool(T(al, i).now, t, T(al, i).tools[t]) IN
         /\ IF Missing(what) THEN Run(al, i, what) ELSE UNCHANGED children
         /\ Advance(al, i, "install", T(al, i).left \ {t}, T(al, i).now)
  /\ UNCHANGED held /\ Plain

(* MiseEnvWithBinDirs: what is there is read. *)
Installed(al, i) ==
  /\ At(al, i, "install") /\ Idle(al, i) /\ ~Missing(Runtime(T(al, i).now)) /\ ~Layered(al, i)
  /\ CASE T(al, i).kind = "pool" /\ T(al, i).left # {} -> Go(al, i, "lock") /\ Release(al, i)
       [] T(al, i).kind = "language" /\ T(al, i).lang = "nodejs" -> Go(al, i, "corepack") /\ UNCHANGED held
       [] OTHER -> Go(al, i, "ready") /\ Release(al, i)
  /\ UNCHANGED children /\ Plain

(* EnsureNodeCorepack: what is half there is installed again. *)
Corepack(al, i) ==
  /\ At(al, i, "corepack")
  /\ \E c \in CorepackOf(T(al, i).now, "corepack"), s \in CorepackOf(T(al, i).now, "shims") :
       IF Missing(c) \/ Missing(s)
       THEN Run(al, i, c) /\ Go(al, i, "enable") /\ UNCHANGED held
       ELSE Go(al, i, "ready") /\ Release(al, i) /\ UNCHANGED children
  /\ Plain
CorepackEnable(al, i) ==
  /\ At(al, i, "enable") /\ Idle(al, i)
  /\ \E s \in CorepackOf(T(al, i).now, "shims") : Run(al, i, s)
  /\ Go(al, i, "enabled")
  /\ UNCHANGED held /\ Plain
Enabled(al, i) ==
  /\ At(al, i, "enabled") /\ Idle(al, i)
  /\ Go(al, i, "ready") /\ Release(al, i)
  /\ UNCHANGED children /\ Plain

(* The lock is not had, the tools have no installer, mise's answer cannot be
   had or read, or no Corepack takes this Node. *)
Refused(al, i) ==
  /\ Idle(al, i)
  /\ \/ At(al, i, "lock")
     \/ At(al, i, "install") /\ (Layered(al, i) => T(al, i).lang \notin Installers)
     \/ At(al, i, "corepack")
  /\ Go(al, i, "failed") /\ Release(al, i)
  /\ UNCHANGED children /\ Plain

-----------------------------------------------------------------------------
(* The installers. *)
ChildDone(c) ==
  /\ disk' = (disk \ Overwritten(c.what)) \cup {c.what}
  /\ children' = children \ {c}
  /\ UNCHANGED <<plan, tcs, held, ended>>
(* It fails, or what it wrote cannot be read: its context fails with it and
   gives the lock back; one whose alpha is gone fails for nobody. *)
ChildFails(c) ==
  /\ children' = children \ {c}
  /\ IF c.by = Gone THEN UNCHANGED <<tcs, held>>
     ELSE LET al == c.by[1] i == c.by[2] IN Go(al, i, "failed") /\ Release(al, i)
  /\ UNCHANGED <<plan, disk, ended>>

(* An alpha ends, killed or shut down: its locks are the kernel's to release
   and its installers are in nobody's hands. *)
Ends(al) ==
  /\ \E c \in children : c.by # Gone /\ c.by[1] = al
  /\ ended' = ended \cup {al}
  /\ plan' = [plan EXCEPT ![al] = NoPlan]
  /\ tcs' = [tcs EXCEPT ![al] = <<>>]
  /\ held' = {h \in held : h[2] # al}
  /\ children' = {IF c.by # Gone /\ c.by[1] = al THEN [c EXCEPT !.by = Gone] ELSE c : c \in children}
  /\ UNCHANGED disk

BringupToolchain(al, i) ==
  \/ FindMise(al, i) \/ NoCargo(al, i) \/ LockMise(al, i) \/ CargoInstall(al, i) \/ Built(al, i)
  \/ LockTool(al, i) \/ InstallRuntime(al, i) \/ EnsureTool(al, i) \/ Installed(al, i)
  \/ Corepack(al, i) \/ CorepackEnable(al, i) \/ Enabled(al, i) \/ Refused(al, i)
ToolchainsNext ==
  \/ \E al \in Alphas : Configure(al) \/ Ends(al) \/ \E i \in DOMAIN tcs[al] : BringupToolchain(al, i)
  \/ \E c \in children : ChildDone(c) \/ ChildFails(c)
ToolchainsSpec == ToolchainsInit /\ [][ToolchainsNext]_toolchainVars

-----------------------------------------------------------------------------
(* Properties. *)

(* What the Alphasfiles of the host make of one directory. *)
OfHost == UNION {Contexts(p) : p \in Plans}
NamesOf(c) == IF c.kind = "pool" THEN {<<t, c.tools[t]>> : t \in DOMAIN c.tools} ELSE {<<c.lang, c.version>>}
(* They know it by one name: not as node and as nodejs, nor as 22 and as 22.11. *)
NamedOnce(dir) ==
  \A c, d \in OfHost : \A n \in NamesOf(c), m \in NamesOf(d) : Dir(n) = dir /\ Dir(m) = dir => n = m
(* They ask for another version of a tool, where there is room for one. *)
Rivalled(what) ==
  /\ what.kind = "tool" /\ what.dir[1] \notin SideBySide
  /\ \E c \in OfHost : /\ c.kind = "language" /\ Dir(<<c.lang, c.version>>) = what.dir
                       /\ what.item \in DOMAIN c.tools /\ c.tools[what.item] # what.version

(* Of the alphas that are there, no two installers are in one directory at a
   time, unless the directory has two names and so two locks: the lock is of
   the name and the version as they are pinned (main.go:741). *)
OneInstaller ==
  \A c, d \in children :
    c # d /\ c.by # Gone /\ d.by # Gone /\ NamedOnce(c.what.dir) => c.what.dir # d.what.dir

(* What is installed and whole is not written again (mise.go:282): but another
   version of a tool takes the place of the one that was there where two pins
   of the host ask for both. Half a Corepack nobody uses yet. *)
InUse(x) == x.kind = "corepack" => Installation(x.dir, "shims", x.item, x.version) \in disk
NothingRewritten ==
  ended = {} => \A c \in children : NamedOnce(c.what.dir) =>
    \A x \in Overwritten(c.what) : InUse(x) => x # c.what /\ Rivalled(c.what)

Provided(pin) ==
  LET name == <<pin.lang, pin.version>> IN
    IF pin.version = <<>>
    THEN \A t \in DOMAIN pin.tools : Runtime(<<t, pin.tools[t]>>) \in disk
    ELSE /\ Runtime(name) \in disk
         /\ \A t \in DOMAIN pin.tools :
              LET tool == Tool(name, t, pin.tools[t]) IN tool \in disk \/ Rivalled(tool)
         /\ pin.lang = "nodejs" =>
              \E c \in CorepackOf(name, "corepack"), s \in CorepackOf(name, "shims") : {c, s} \subseteq disk

(* A key that is ready has what its own pin asked for, though another key's
   context installed it: the runtime, its tools in their versions (in some
   other only where a rival of the host asks for one), the pool's tools, and
   for Node a whole Corepack. A package that took the key is no pin's. *)
ReadyHasItsPins ==
  \A al \in Alphas : \A key \in DOMAIN plan[al].pins : \A i \in DOMAIN tcs[al] :
    Serves(al, key, i) /\ T(al, i).kind # "package" /\ T(al, i).at = "ready" => Provided(plan[al].pins[key])

(* What the comments say without the exceptions. Also of the installers that an
   alpha left behind (mise.go:17): all install operations are serialized. *)
OneInstallerEver == \A c, d \in children : c # d => c.what.dir # d.what.dir
(* Of the alphas that are there: per tool and version (mise.go:17). *)
OneInstallerEach ==
  \A c, d \in children : c # d /\ c.by # Gone /\ d.by # Gone => c.what.dir # d.what.dir
(* Files a service may be loading are not rewritten (mise.go:282). *)
ToolsStay ==
  ended = {} => \A c \in children : NamedOnce(c.what.dir) => \A x \in Overwritten(c.what) : ~InUse(x)
(* Every pinned toolchain is materialized before what waits for its key
   spawns (main.go:2316). *)
PinsServed ==
  \A al \in Alphas : \A key \in DOMAIN plan[al].pins : \A i \in DOMAIN tcs[al] :
    Serves(al, key, i) /\ T(al, i).at = "ready" =>
      LET pin == plan[al].pins[key] IN
        \A t \in DOMAIN pin.tools : pin.version # <<>> =>
          \E x \in disk : x.dir = Dir(<<pin.lang, pin.version>>) /\ x.item = t
=============================================================================
