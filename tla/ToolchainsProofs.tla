--------------------------- MODULE ToolchainsProofs ---------------------------
(***************************************************************************)
(* The installers of any number of alphas, with any plans, under the locks *)
(* of ZORDON_HOME.                                                         *)
(***************************************************************************)
EXTENDS Toolchains, FiniteSetTheorems, TLAPS

(* A context has the fields newToolchainCtx gives it, is one of its plan's,
   and speaks for the pins of its keys. *)
IsContext(c) ==
  c = [kind |-> c.kind, lang |-> c.lang, version |-> c.version, tools |-> c.tools, keys |-> c.keys,
       at |-> c.at, left |-> c.left, now |-> c.now]
Same(c, d) ==
  /\ c.kind = d.kind /\ c.lang = d.lang /\ c.version = d.version
  /\ c.tools = d.tools /\ c.keys = d.keys
SpeaksFor(c, p) ==
  \A k \in DOMAIN p.pins : k \in c.keys /\ c.kind # "package" =>
    /\ p.pins[k].lang = c.lang /\ p.pins[k].version = c.version /\ p.pins[k].tools = c.tools
    /\ c.kind = "pool" <=> p.pins[k].version = <<>>
Corepacking == {"corepack", "enable", "enabled"}
Locked == {"install"} \cup Corepacking
ContextOf(c, p) ==
  /\ IsContext(c)
  /\ \E d \in Contexts(p) : Same(c, d)
  /\ c.kind \in {"language", "pool", "package"}
  /\ c.left \subseteq DOMAIN c.tools
  /\ c.kind # "pool" => c.now = <<c.lang, c.version>>
  /\ c.at \in Locked => c.now \in NamesOf(c)
  /\ c.at \in Corepacking => c.kind = "language" /\ c.lang = "nodejs"
  /\ SpeaksFor(c, p)

(* What a context has seen to is there, or a rival's in its place, or what its
   own installer is at. *)
Got(al, i, x) == x \in disk \/ Rivalled(x) \/ [by |-> <<al, i>>, what |-> x] \in children
GotCorepack(al, i, kind) == \E x \in CorepackOf(T(al, i).now, kind) : Got(al, i, x)
FoundLanguage(al, i) ==
  /\ \A t \in DOMAIN T(al, i).tools \ T(al, i).left : Got(al, i, Tool(T(al, i).now, t, T(al, i).tools[t]))
  /\ T(al, i).at \in Corepacking \cup {"ready"} => Got(al, i, Runtime(T(al, i).now)) /\ T(al, i).left = {}
  /\ T(al, i).at \in {"enable", "enabled", "ready"} /\ T(al, i).lang = "nodejs" => GotCorepack(al, i, "corepack")
  /\ T(al, i).at \in {"enabled", "ready"} /\ T(al, i).lang = "nodejs" => GotCorepack(al, i, "shims")
FoundPool(al, i) ==
  /\ \A t \in DOMAIN T(al, i).tools \ T(al, i).left :
       LET name == <<t, T(al, i).tools[t]>>
       IN Got(al, i, Runtime(name)) \/ (T(al, i).at = "install" /\ T(al, i).now = name)
  /\ T(al, i).at = "ready" => T(al, i).left = {}
Found(al, i) ==
  T(al, i).at # "failed" =>
    /\ T(al, i).kind = "language" => FoundLanguage(al, i)
    /\ T(al, i).kind = "pool" => FoundPool(al, i)

ContextsInv ==
  /\ plan \in [Alphas -> Plans \cup {NoPlan}]
  /\ tcs = [al \in Alphas |-> tcs[al]]
  /\ \A al \in Alphas : plan[al] = NoPlan => DOMAIN tcs[al] = {}
  /\ \A al \in Alphas : \A i \in DOMAIN tcs[al] : ContextOf(T(al, i), plan[al])
FoundInv == \A al \in Alphas : \A i \in DOMAIN tcs[al] : Found(al, i)

(* What is on disk, or on its way there, some Alphasfile of the host asks for;
   Corepack comes before its shims. *)
Asked(x) ==
  \E c \in OfHost : /\ c.kind = "language" /\ Dir(<<c.lang, c.version>>) = x.dir
                    /\ x.item \in DOMAIN c.tools /\ c.tools[x.item] = x.version
Bare(x, kind) ==
  x = Installation(x.dir, kind, "", <<>>) /\ x.kind = kind /\ x.item = "" /\ x.version = <<>>
IsItem(x) ==
  /\ x = Installation(x.dir, x.kind, x.item, x.version)
  /\ x.kind # "tool" => x.item = "" /\ x.version = <<>>
  /\ x.kind = "tool" => Asked(x)
  /\ x.kind = "shims" => Installation(x.dir, "corepack", x.item, x.version) \in disk
ItemsInv ==
  /\ \A x \in disk : IsItem(x)
  /\ \A c \in children : IsItem(c.what)

(* A lock is one context's, of the installation it is at, and it has it as
   long as it is there. *)
Locking(al, i, name) ==
  \/ T(al, i).at \in {"cargo", "built"} /\ name = <<"mise">>
  \/ T(al, i).at \in Locked /\ name = T(al, i).now
Holds(al, i, name) == <<name, al, i>> \in held
HoldsIts(al, i) ==
  /\ T(al, i).at \in {"cargo", "built"} => Holds(al, i, <<"mise">>)
  /\ T(al, i).at \in Locked => Holds(al, i, T(al, i).now)
LocksInv ==
  /\ \A al \in Alphas : \A i \in DOMAIN tcs[al] : HoldsIts(al, i)
  /\ \A h \in held : /\ h = <<h[1], h[2], h[3]>>
                     /\ h[2] \in Alphas /\ h[3] \in DOMAIN tcs[h[2]]
                     /\ Locking(h[2], h[3], h[1])
  /\ \A g, h \in held : g[1] = h[1] => g = h

(* The directories a lock is for. *)
HostName(name) == name = <<name[1], name[2]>> /\ \E c \in OfHost : name \in NamesOf(c)
IsCorepack(dir, version) == \E spec \in CorepackSpecFor(Exact("node", version)) : dir = <<"node-corepack", version, spec>>
Covers(name, dir) ==
  \/ name = <<"mise">> /\ dir = <<"mise">>
  \/ HostName(name) /\ dir = Dir(name)
  \/ HostName(name) /\ name[1] = "nodejs" /\ IsCorepack(dir, name[2])

(* An installer works for one context, which holds the lock of its directory. *)
WorksFor(c, al, i) ==
  /\ c.by = <<al, i>>
  /\ i \in DOMAIN tcs[al] /\ T(al, i).at \in {"built", "install", "enable", "enabled"}
  /\ \E h \in held : h[2] = al /\ h[3] = i /\ Covers(h[1], c.what.dir)
  /\ c.what.kind = "corepack" <=> T(al, i).at = "enable"
  /\ c.what.kind = "corepack" => c.what \in CorepackOf(T(al, i).now, "corepack")
ChildrenInv ==
  /\ \A c \in children : c = [by |-> c.by, what |-> c.what]
  /\ \A c \in children : c.by = Gone \/ \E al \in Alphas : \E i \in DOMAIN tcs[al] : WorksFor(c, al, i)
  /\ \A c, d \in children : c.by = d.by /\ c.by # Gone => c = d

(* While alphas stay, what is whole is nobody's to install. *)
FreshInv ==
  ended = {} =>
    /\ \A c \in children :
         c.by # Gone /\ (NamedOnce(c.what.dir) /\ c.what.kind # "corepack" => c.what \notin disk)
    /\ \A al \in Alphas : \A i \in DOMAIN tcs[al] :
         T(al, i).at = "enable" => \A s \in CorepackOf(T(al, i).now, "shims") : s \notin disk

ToolchainsInv == ContextsInv /\ FoundInv /\ ItemsInv /\ LocksInv /\ ChildrenInv /\ FreshInv

-----------------------------------------------------------------------------
(* The contexts a configure makes. *)

(* A sequence of a finite set has nothing else in it. *)
LEMMA SeqOfSet ==
  ASSUME NEW S, IsFiniteSet(S)
  PROVE  \A i \in DOMAIN SetToSeq(S) : SetToSeq(S)[i] \in S
<1>1. Cardinality(S) \in Nat /\ ExistsBijection(1..Cardinality(S), S)
  BY FS_CardinalityType
<1>2. \E f \in [1..Cardinality(S) -> S] : IsInjective(f)
  BY <1>1 DEF ExistsBijection, Bijection, Injection
<1>3. SetToSeq(S) \in [1..Cardinality(S) -> S]
  BY <1>2 DEF SetToSeq
<1> QED
  BY <1>3

(* The values of a function on a finite set are finitely many. *)
LEMMA Values ==
  ASSUME NEW S, IsFiniteSet(S), NEW f, f = [x \in S |-> f[x]]
  PROVE  IsFiniteSet({f[x] : x \in S})
<1>1. f \in Surjection(S, {f[x] : x \in S})
  BY DEF Surjection
<1> QED
  BY <1>1, FS_Surjection

(* Every plan makes finitely many contexts. *)
LEMMA FewContexts ==
  ASSUME ToolchainsAssumption, NEW p \in Plans
  PROVE  IsFiniteSet(Contexts(p))
<1> DEFINE keys == {k \in DOMAIN p.pins : Counts(p.pins[k])}
           same(k) == {j \in keys : Identity(p.pins[j]) = Identity(p.pins[k])}
           pin(ks) == p.pins[CHOOSE k \in ks : TRUE]
           shared(ks) == Tc(IF pin(ks).version # <<>> THEN "language" ELSE "pool", pin(ks).lang,
                            pin(ks).version, pin(ks).tools, ks)
           f == [k \in keys |-> shared(same(k))]
           firsts == {j \in DOMAIN p.pkgs : \A k \in 1..(j - 1) : p.pkgs[k].name # p.pkgs[j].name}
           g == [i \in firsts |-> Tc("package", p.pkgs[i].name, p.pkgs[i].version, <<>>, {p.pkgs[i].name})]
<1>1. IsFiniteSet(keys) /\ IsFiniteSet(firsts)
  <2>1. keys \in SUBSET DOMAIN p.pins /\ firsts \in SUBSET DOMAIN p.pkgs
    OBVIOUS
  <2> HIDE DEF keys, firsts
  <2> QED
    BY <2>1, FS_Subset DEF ToolchainsAssumption
<1>2. IsFiniteSet({f[k] : k \in keys}) /\ IsFiniteSet({g[i] : i \in firsts})
  <2>1. f = [k \in keys |-> f[k]] /\ g = [i \in firsts |-> g[i]]
    OBVIOUS
  <2> HIDE DEF f, g, keys, firsts
  <2> QED
    BY <1>1, <2>1, Values
<1>3. PinnedToolchains(p.pins) = {f[k] : k \in keys}
  BY DEF PinnedToolchains
<1>4. Packages(p.pkgs) = {g[i] : i \in firsts}
  BY DEF Packages
<1> QED
  BY <1>2, <1>3, <1>4, FS_Union DEF Contexts

(* A new context has everything before it, and speaks for the pins that made
   it: those of one identity. *)
LEMMA NewContext ==
  ASSUME NEW p, NEW c \in Contexts(p)
  PROVE  ContextOf(c, p) /\ c.at = "mise" /\ c.left = DOMAIN c.tools
<1>1. CASE c \in PinnedToolchains(p.pins)
  <2> DEFINE keys == {k \in DOMAIN p.pins : Counts(p.pins[k])}
             same(k) == {j \in keys : Identity(p.pins[j]) = Identity(p.pins[k])}
  <2>1. PICK k \in keys :
          LET q == p.pins[CHOOSE j \in same(k) : TRUE]
          IN c = Tc(IF q.version # <<>> THEN "language" ELSE "pool", q.lang, q.version, q.tools, same(k))
    BY <1>1 DEF PinnedToolchains
  <2>2. PICK j \in same(k) : j = CHOOSE l \in same(k) : TRUE
    <3>1. k \in same(k)
      OBVIOUS
    <3> QED
      BY <3>1
  <2> DEFINE q == p.pins[j]
  <2>3. c = Tc(IF q.version # <<>> THEN "language" ELSE "pool", q.lang, q.version, q.tools, same(k))
    BY <2>1, <2>2
  <2>4. \A l \in same(k) : p.pins[l].lang = q.lang /\ p.pins[l].version = q.version /\ p.pins[l].tools = q.tools
    BY DEF Identity
  <2> HIDE DEF q, same
  <2>5. /\ IsContext(c) /\ c.kind \in {"language", "pool"} /\ c.at = "mise" /\ c.left = DOMAIN c.tools
        /\ c.now = <<c.lang, c.version>>
    BY <2>3 DEF Tc, IsContext
  <2>6. SpeaksFor(c, p)
    BY <2>3, <2>4 DEF Tc, SpeaksFor
  <2> QED
    BY <2>5, <2>6 DEF ContextOf, Same, Locked, Corepacking
<1>2. CASE c \in Packages(p.pkgs)
  <2>1. PICK i \in DOMAIN p.pkgs : c = Tc("package", p.pkgs[i].name, p.pkgs[i].version, <<>>, {p.pkgs[i].name})
    BY <1>2 DEF Packages
  <2>2. /\ IsContext(c) /\ c.kind = "package" /\ c.at = "mise" /\ c.left = DOMAIN c.tools
        /\ c.now = <<c.lang, c.version>>
    BY <2>1 DEF Tc, IsContext
  <2> QED
    BY <2>2 DEF ContextOf, Same, SpeaksFor, Locked, Corepacking
<1> QED
  BY <1>1, <1>2 DEF Contexts

-----------------------------------------------------------------------------
(* Names, directories, and the one Corepack of a Node. *)

LEMMA SameNames == ASSUME NEW c, NEW d, Same(c, d) PROVE NamesOf(c) = NamesOf(d)
<1>1. c.kind = d.kind /\ c.lang = d.lang /\ c.version = d.version /\ c.tools = d.tools
  BY DEF Same
<1> QED
  BY <1>1 DEF NamesOf

LEMMA InHost == ASSUME NEW p \in Plans, NEW c \in Contexts(p) PROVE c \in OfHost
  BY DEF OfHost

(* A context at work is one of the host's, and so is the name of its lock. *)
LEMMA OfHostIs ==
  ASSUME ContextsInv, NEW al \in Alphas, NEW i \in DOMAIN tcs[al]
  PROVE  \E d \in OfHost : Same(T(al, i), d)
<1>1. plan[al] \in Plans
  BY DEF ContextsInv
<1>2. PICK d \in Contexts(plan[al]) : Same(T(al, i), d)
  BY DEF ContextsInv, ContextOf
<1> QED
  BY <1>1, <1>2, InHost

LEMMA NameIsHost ==
  ASSUME ContextsInv, NEW al \in Alphas, NEW i \in DOMAIN tcs[al], NEW name \in NamesOf(T(al, i))
  PROVE  HostName(name)
<1>1. PICK d \in OfHost : Same(T(al, i), d)
  BY OfHostIs
<1>2. name \in NamesOf(d)
  BY <1>1, SameNames
<1>3. name = <<name[1], name[2]>>
  <2>1. CASE T(al, i).kind = "pool"
    <3>1. PICK t \in DOMAIN T(al, i).tools : name = <<t, T(al, i).tools[t]>>
      BY <2>1 DEF NamesOf
    <3> QED
      BY <3>1
  <2>2. CASE T(al, i).kind # "pool"
    BY <2>2 DEF NamesOf
  <2> QED
    BY <2>1, <2>2
<1> QED
  BY <1>2, <1>3 DEF HostName

LEMMA OneSpec == ASSUME NEW v PROVE \A s, t \in CorepackSpecFor(v) : s = t
<1> DEFINE newest == {j \in DOMAIN Series : Supports(Series[j], v) /\ \A k \in 1..(j - 1) : ~Supports(Series[k], v)}
<1>1. DOMAIN Series = 1..3
  BY DEF Series
<1>2. ASSUME NEW i \in newest, NEW j \in newest PROVE i = j
  <2>1. i \in 1..3 /\ j \in 1..3
    BY <1>1
  <2>2. ~(i \in 1..(j - 1)) /\ ~(j \in 1..(i - 1))
    OBVIOUS
  <2> QED
    BY <2>1, <2>2
<1>3. CorepackSpecFor(v) = {Series[i].spec : i \in newest}
  BY DEF CorepackSpecFor
<1> HIDE DEF newest
<1> QED
  BY <1>2, <1>3

LEMMA CorepackItem ==
  ASSUME NEW name, NEW kind, NEW x \in CorepackOf(name, kind)
  PROVE  Bare(x, kind) /\ IsCorepack(x.dir, name[2])
<1>1. PICK spec \in CorepackSpecFor(Exact("node", name[2])) :
        x = Installation(<<"node-corepack", name[2], spec>>, kind, "", <<>>)
  BY DEF CorepackOf
<1>2. x.dir = <<"node-corepack", name[2], spec>> /\ x.kind = kind /\ x.item = "" /\ x.version = <<>>
  BY <1>1 DEF Installation
<1> QED
  BY <1>1, <1>2 DEF Bare, IsCorepack

LEMMA OneCorepack ==
  ASSUME NEW name, NEW kind, NEW other, NEW x \in CorepackOf(name, kind), NEW y \in CorepackOf(name, other)
  PROVE  y.dir = x.dir
<1>0. IsCorepack(x.dir, name[2]) /\ IsCorepack(y.dir, name[2])
  BY CorepackItem
<1>1. PICK s \in CorepackSpecFor(Exact("node", name[2])) : x.dir = <<"node-corepack", name[2], s>>
  BY <1>0 DEF IsCorepack
<1>2. PICK t \in CorepackSpecFor(Exact("node", name[2])) : y.dir = <<"node-corepack", name[2], t>>
  BY <1>0 DEF IsCorepack
<1> QED
  BY <1>1, <1>2, OneSpec

(* What is asked for there, in another version, is a rival. *)
LEMMA RivalsAsk ==
  ASSUME NEW x, NEW y, Asked(y), x.kind = "tool", x.dir = y.dir, x.item = y.item, x.version # y.version,
         x.dir[1] \notin SideBySide
  PROVE  Rivalled(x)
  BY DEF Asked, Rivalled

(* Two locks of one directory are two names the host has for it. *)
LEMMA OneLockEach ==
  ASSUME NEW n, NEW m, NEW dir, Covers(n, dir), Covers(m, dir), NamedOnce(dir)
  PROVE  n = m
<1>1. CASE dir = <<"mise">>
  BY <1>1 DEF Covers, Dir, IsCorepack
<1>2. CASE dir # <<"mise">> /\ \E v : IsCorepack(dir, v)
  <2>1. PICK v : IsCorepack(dir, v)
    BY <1>2
  <2>2. PICK spec : dir = <<"node-corepack", v, spec>>
    BY <2>1 DEF IsCorepack
  <2>3. Len(dir) = 3 /\ \A name : Len(Dir(name)) = 2
    BY <2>2 DEF Dir
  <2>4. ASSUME NEW name, Covers(name, dir) PROVE name = <<"nodejs", v>>
    <3>1. HostName(name) /\ name[1] = "nodejs" /\ IsCorepack(dir, name[2])
      BY <1>2, <2>3, <2>4 DEF Covers
    <3>2. name[2] = v
      BY <2>2, <3>1 DEF IsCorepack
    <3> QED
      BY <3>1, <3>2 DEF HostName
  <2> QED
    BY <2>4
<1>3. CASE dir # <<"mise">> /\ \A v : ~IsCorepack(dir, v)
  <2>1. HostName(n) /\ HostName(m) /\ dir = Dir(n) /\ dir = Dir(m)
    BY <1>3 DEF Covers
  <2>2. PICK c \in OfHost : n \in NamesOf(c)
    BY <2>1 DEF HostName
  <2>3. PICK d \in OfHost : m \in NamesOf(d)
    BY <2>1 DEF HostName
  <2> QED
    BY <2>1, <2>2, <2>3 DEF NamedOnce
<1> QED
  BY <1>1, <1>2, <1>3

-----------------------------------------------------------------------------
(* One context goes a step. *)

OfContext(h, al, i) == h[2] = al /\ h[3] = i
Becomes(al, i, at, left, now) ==
  /\ tcs' = [b \in Alphas |-> tcs'[b]]
  /\ \A b \in Alphas : DOMAIN tcs'[b] = DOMAIN tcs[b]
  /\ \A b \in Alphas : \A j \in DOMAIN tcs[b] : b # al \/ j # i => tcs'[b][j] = tcs[b][j]
  /\ IsContext(tcs'[al][i]) /\ Same(tcs'[al][i], tcs[al][i])
  /\ tcs'[al][i].at = at /\ tcs'[al][i].left = left /\ tcs'[al][i].now = now

LEMMA Advances ==
  ASSUME ContextsInv, NEW al \in Alphas, NEW i \in DOMAIN tcs[al], NEW at, NEW left, NEW now,
         Advance(al, i, at, left, now)
  PROVE  Becomes(al, i, at, left, now)
<1> DEFINE c == tcs[al][i]
           d == [c EXCEPT !.at = at, !.left = left, !.now = now]
<1>1. c = [kind |-> c.kind, lang |-> c.lang, version |-> c.version, tools |-> c.tools, keys |-> c.keys,
           at |-> c.at, left |-> c.left, now |-> c.now]
  BY DEF ContextsInv, ContextOf, IsContext, T
<1>2. tcs'[al] = [tcs[al] EXCEPT ![i] = d] /\ \A b \in Alphas \ {al} : tcs'[b] = tcs[b]
  BY DEF Advance, ContextsInv
<1>3. tcs' = [b \in Alphas |-> tcs'[b]]
  BY DEF Advance, ContextsInv
<1>4. /\ tcs'[al][i] = d
      /\ DOMAIN tcs'[al] = DOMAIN tcs[al]
      /\ \A j \in DOMAIN tcs[al] \ {i} : tcs'[al][j] = tcs[al][j]
  BY <1>2
<1>5. d = [c EXCEPT !.at = at, !.left = left, !.now = now]
  OBVIOUS
<1> HIDE DEF c, d
<1>6. d.at = at /\ d.left = left /\ d.now = now /\ IsContext(d) /\ Same(d, c)
  BY <1>1, <1>5 DEF IsContext, Same
<1> QED
  BY <1>2, <1>3, <1>4, <1>6 DEF Becomes, c

(* Going nowhere is a step as well. *)
LEMMA StaysPut ==
  ASSUME ContextsInv, NEW al \in Alphas, NEW i \in DOMAIN tcs[al], tcs' = tcs
  PROVE  Becomes(al, i, T(al, i).at, T(al, i).left, T(al, i).now)
<1>1. IsContext(tcs[al][i]) /\ Same(tcs[al][i], tcs[al][i])
  BY DEF ContextsInv, ContextOf, T, Same
<1> QED
  BY <1>1 DEF Becomes, T, ContextsInv

(* Its other fields stay. *)
LEMMA Fields ==
  ASSUME NEW al \in Alphas, NEW i \in DOMAIN tcs[al], NEW at, NEW left, NEW now,
         Becomes(al, i, at, left, now)
  PROVE  /\ T(al, i)'.at = at /\ T(al, i)'.left = left /\ T(al, i)'.now = now
         /\ T(al, i)'.kind = T(al, i).kind /\ T(al, i)'.lang = T(al, i).lang
         /\ T(al, i)'.version = T(al, i).version /\ T(al, i)'.tools = T(al, i).tools
         /\ T(al, i)'.keys = T(al, i).keys
  BY DEF Becomes, Same, T

LEMMA ContextsKept ==
  ASSUME ContextsInv, NEW al \in Alphas, NEW i \in DOMAIN tcs[al], NEW at, NEW left, NEW now,
         Becomes(al, i, at, left, now), left \subseteq T(al, i).left,
         T(al, i).kind # "pool" => now = T(al, i).now,
         at \in Locked => now \in NamesOf(T(al, i)),
         at \in Corepacking => T(al, i).kind = "language" /\ T(al, i).lang = "nodejs",
         plan' = plan
  PROVE  ContextsInv'
<1>1. ContextOf(T(al, i)', plan[al])
  <2>1. ContextOf(T(al, i), plan[al])
    BY DEF ContextsInv
  <2>2. PICK d \in Contexts(plan[al]) : Same(T(al, i), d)
    BY <2>1 DEF ContextOf
  <2>3. /\ T(al, i)'.at = at /\ T(al, i)'.left = left /\ T(al, i)'.now = now
        /\ T(al, i)'.kind = T(al, i).kind /\ T(al, i)'.lang = T(al, i).lang
        /\ T(al, i)'.version = T(al, i).version /\ T(al, i)'.tools = T(al, i).tools
        /\ T(al, i)'.keys = T(al, i).keys
    BY Fields
  <2>4. IsContext(T(al, i)') /\ Same(T(al, i)', T(al, i))
    BY DEF Becomes, T
  <2>5. Same(T(al, i)', d)
    BY <2>2, <2>4 DEF Same
  <2>6. NamesOf(T(al, i)') = NamesOf(T(al, i))
    BY <2>4, SameNames
  <2>7. SpeaksFor(T(al, i)', plan[al])
    BY <2>1, <2>3 DEF ContextOf, SpeaksFor
  <2> QED
    BY <2>1, <2>2, <2>3, <2>4, <2>5, <2>6, <2>7 DEF ContextOf
<1>2. ASSUME NEW b \in Alphas, NEW j \in DOMAIN tcs[b]
      PROVE  ContextOf(T(b, j)', plan[b])
  <2>1. CASE b = al /\ j = i
    BY <1>1, <2>1
  <2>2. CASE b # al \/ j # i
    BY <2>2 DEF Becomes, ContextsInv, T
  <2> QED
    BY <2>1, <2>2
<1>3. \A b \in Alphas : \A j \in DOMAIN tcs'[b] : ContextOf(T(b, j), plan[b])'
  BY <1>2 DEF Becomes
<1> QED
  BY <1>3 DEF ContextsInv, Becomes

(* A context that stays where it is keeps what it has seen to. *)
LEMMA FoundStays ==
  ASSUME NEW b, NEW j, T(b, j)' = T(b, j), \A x : Got(b, j, x) => Got(b, j, x)', Found(b, j)
  PROVE  Found(b, j)'
<1>1. ASSUME NEW kind, GotCorepack(b, j, kind) PROVE GotCorepack(b, j, kind)'
  BY <1>1 DEF GotCorepack
<1>2. FoundLanguage(b, j) => FoundLanguage(b, j)'
  BY <1>1 DEF FoundLanguage
<1>3. FoundPool(b, j) => FoundPool(b, j)'
  BY DEF FoundPool
<1> QED
  BY <1>2, <1>3 DEF Found

LEMMA GotStays ==
  ASSUME disk' = disk, \A c \in children : c \in children'
  PROVE  \A b, j, x : Got(b, j, x) => Got(b, j, x)'
  BY DEF Got

LEMMA FoundKept ==
  ASSUME FoundInv, NEW al \in Alphas, NEW i \in DOMAIN tcs[al], NEW at, NEW left, NEW now,
         Becomes(al, i, at, left, now), disk' = disk, \A c \in children : c \in children', Found(al, i)'
  PROVE  FoundInv'
<1>1. ASSUME NEW b \in Alphas, NEW j \in DOMAIN tcs[b] PROVE Found(b, j)'
  <2>1. CASE b = al /\ j = i
    BY <2>1
  <2>2. CASE b # al \/ j # i
    <3>1. T(b, j)' = T(b, j) /\ Found(b, j)
      BY <2>2 DEF Becomes, T, FoundInv
    <3> QED
      BY <3>1, GotStays, FoundStays
  <2> QED
    BY <2>1, <2>2
<1> QED
  BY <1>1 DEF FoundInv, Becomes

(* One that goes on without a tool less to see to has seen to as much. *)
LEMMA FoundOn ==
  ASSUME FoundInv, NEW al \in Alphas, NEW i \in DOMAIN tcs[al], NEW at,
         Becomes(al, i, at, T(al, i).left, T(al, i).now), disk' = disk, \A c \in children : c \in children',
         T(al, i).at \notin {"failed", "install"}, at \notin Corepacking \cup {"ready"}
  PROVE  Found(al, i)'
<1>1. /\ T(al, i)'.at = at /\ T(al, i)'.left = T(al, i).left /\ T(al, i)'.now = T(al, i).now
      /\ T(al, i)'.kind = T(al, i).kind /\ T(al, i)'.lang = T(al, i).lang
      /\ T(al, i)'.tools = T(al, i).tools
  BY Fields
<1>2. Found(al, i) /\ \A x : Got(al, i, x) => Got(al, i, x)'
  BY GotStays DEF FoundInv
<1>3. at \notin {"enable", "enabled", "ready"}
  BY DEF Corepacking
<1>4. T(al, i).kind = "language" => FoundLanguage(al, i)'
  BY <1>1, <1>2, <1>3 DEF Found, FoundLanguage
<1>5. T(al, i).kind = "pool" => FoundPool(al, i)'
  BY <1>1, <1>2, <1>3 DEF Found, FoundPool
<1> QED
  BY <1>1, <1>4, <1>5 DEF Found

LEMMA FailedFound ==
  ASSUME NEW al \in Alphas, NEW i \in DOMAIN tcs[al], T(al, i)'.at = "failed"
  PROVE  Found(al, i)'
  BY DEF Found

(* The locks after a step that takes or gives back those of one context. *)
LEMMA LocksKept ==
  ASSUME ContextsInv, LocksInv, NEW al \in Alphas, NEW i \in DOMAIN tcs[al],
         NEW at, NEW left, NEW now, Becomes(al, i, at, left, now),
         \A h \in held' : h \in held \/ (h = <<h[1], h[2], h[3]>> /\ OfContext(h, al, i)),
         \A h \in held : h \in held' \/ OfContext(h, al, i),
         \A h \in held' : OfContext(h, al, i) => Locking(al, i, h[1])',
         \A g, h \in held' : g[1] = h[1] => g = h,
         HoldsIts(al, i)'
  PROVE  LocksInv'
<1>1. ASSUME NEW b \in Alphas, NEW j \in DOMAIN tcs[b], b # al \/ j # i
      PROVE  HoldsIts(b, j)' /\ \A name : Locking(b, j, name) => Locking(b, j, name)'
  <2>1. T(b, j)' = T(b, j)
    BY <1>1 DEF Becomes, T
  <2>2. \A name : Holds(b, j, name) => Holds(b, j, name)'
    <3> SUFFICES ASSUME NEW name, <<name, b, j>> \in held PROVE <<name, b, j>> \in held'
      BY DEF Holds
    <3> QED
      BY <1>1 DEF OfContext
  <2> QED
    BY <2>1, <2>2 DEF HoldsIts, Locking, LocksInv
<1>2. ASSUME NEW h \in held'
      PROVE  /\ h = <<h[1], h[2], h[3]>>
             /\ h[2] \in Alphas /\ h[3] \in DOMAIN tcs'[h[2]] /\ Locking(h[2], h[3], h[1])'
  <2>1. CASE OfContext(h, al, i)
    BY <2>1 DEF OfContext, LocksInv, Becomes
  <2>2. CASE ~OfContext(h, al, i)
    BY <1>1, <2>2 DEF OfContext, LocksInv, Becomes
  <2> QED
    BY <2>1, <2>2
<1>3. \A b \in Alphas : \A j \in DOMAIN tcs'[b] : HoldsIts(b, j)'
  BY <1>1 DEF Becomes
<1> QED
  BY <1>2, <1>3 DEF LocksInv

LEMMA LocksStay ==
  ASSUME ContextsInv, LocksInv, NEW al \in Alphas, NEW i \in DOMAIN tcs[al],
         NEW at, NEW left, Becomes(al, i, at, left, T(al, i).now), held' = held,
         \/ T(al, i).at \in Locked /\ at \in Locked
         \/ T(al, i).at \in {"cargo", "built"} /\ at \in {"cargo", "built"}
  PROVE  LocksInv'
<1>1. T(al, i)'.at = at /\ T(al, i)'.now = T(al, i).now
  BY Fields
<1>2. HoldsIts(al, i) /\ \A h \in held : OfContext(h, al, i) => Locking(al, i, h[1])
  BY DEF LocksInv, OfContext
<1>3. HoldsIts(al, i)'
  BY <1>1, <1>2 DEF HoldsIts, Holds, Locked, Corepacking
<1>4. \A h \in held' : OfContext(h, al, i) => Locking(al, i, h[1])'
  BY <1>1, <1>2 DEF Locking, Locked, Corepacking
<1>5. \A g, h \in held' : g[1] = h[1] => g = h
  BY DEF LocksInv
<1> QED
  BY <1>3, <1>4, <1>5, LocksKept

(* A context without an installer goes where it likes, and what it does with
   its locks is nothing to the installers of the others. *)
LEMMA ChildrenKept ==
  ASSUME ToolchainsInv, NEW al \in Alphas, NEW i \in DOMAIN tcs[al],
         NEW at, NEW left, NEW now, Becomes(al, i, at, left, now), at # "enable",
         Idle(al, i), \A h \in held : h \in held' \/ OfContext(h, al, i),
         children' = children, disk' = disk, ended' = ended
  PROVE  ChildrenInv' /\ ItemsInv' /\ FreshInv'
<1>1. ASSUME NEW c \in children, c.by # Gone
      PROVE  \E b \in Alphas : \E j \in DOMAIN tcs'[b] : WorksFor(c, b, j)'
  <2>0. PICK b \in Alphas : \E j \in DOMAIN tcs[b] : WorksFor(c, b, j)
    BY <1>1 DEF ToolchainsInv, ChildrenInv
  <2>1. PICK j \in DOMAIN tcs[b] : WorksFor(c, b, j)
    BY <2>0
  <2>2. b # al \/ j # i
    BY <2>1 DEF WorksFor, Idle
  <2>3. DOMAIN tcs'[b] = DOMAIN tcs[b] /\ T(b, j)' = T(b, j)
    BY <2>2 DEF Becomes, T
  <2>4. PICK h \in held : h[2] = b /\ h[3] = j /\ Covers(h[1], c.what.dir)
    BY <2>1 DEF WorksFor
  <2>5. h \in held'
    BY <2>2, <2>4 DEF OfContext
  <2>6. WorksFor(c, b, j)'
    BY <2>1, <2>3, <2>4, <2>5 DEF WorksFor
  <2> QED
    BY <2>3, <2>6
<1>2. ChildrenInv'
  BY <1>1 DEF ToolchainsInv, ChildrenInv
<1>3. ItemsInv'
  BY DEF ToolchainsInv, ItemsInv, IsItem
<1>4. ASSUME ended' = {}, NEW b \in Alphas, NEW j \in DOMAIN tcs'[b], T(b, j)'.at = "enable"
      PROVE  \A s \in CorepackOf(T(b, j)'.now, "shims") : s \notin disk
  <2>1. b # al \/ j # i
    BY <1>4, Fields
  <2>2. j \in DOMAIN tcs[b] /\ T(b, j)' = T(b, j)
    BY <2>1 DEF Becomes, T
  <2> QED
    BY <1>4, <2>2 DEF ToolchainsInv, FreshInv
<1>5. FreshInv'
  BY <1>4 DEF ToolchainsInv, FreshInv
<1> QED
  BY <1>2, <1>3, <1>5


-----------------------------------------------------------------------------
(* The ways a context goes. *)

(* Only one that installs has an installer, and only one between its acquire
   and its release a lock. *)
LEMMA IdleElsewhere ==
  ASSUME ToolchainsInv, NEW al \in Alphas, NEW i \in DOMAIN tcs[al],
         T(al, i).at \notin {"built", "install", "enable", "enabled"}
  PROVE  Idle(al, i)
<1> SUFFICES ASSUME NEW c \in children, c.by = <<al, i>> PROVE FALSE
  BY DEF Idle
<1>1. PICK b \in Alphas : \E j \in DOMAIN tcs[b] : WorksFor(c, b, j)
  BY DEF ToolchainsInv, ChildrenInv, Gone
<1> QED
  BY <1>1 DEF WorksFor

LEMMA UnlockedElsewhere ==
  ASSUME LocksInv, NEW al \in Alphas, NEW i \in DOMAIN tcs[al],
         T(al, i).at \notin {"cargo", "built"} \cup Locked
  PROVE  \A h \in held : ~OfContext(h, al, i)
  BY DEF LocksInv, OfContext, Locking

(* It goes on without a lock. *)
LEMMA Waits ==
  ASSUME ToolchainsInv, NEW al \in Alphas, NEW i \in DOMAIN tcs[al], T(al, i).at = "mise",
         NEW at \in {"lock", "miselock", "failed"}, Go(al, i, at),
         UNCHANGED <<held, children>>, Plain
  PROVE  ToolchainsInv'
<1>1. Becomes(al, i, at, T(al, i).left, T(al, i).now)
  BY Advances DEF Go, ToolchainsInv
<1>2. at \notin {"cargo", "built", "enable", "ready"} \cup Locked /\ T(al, i).at \notin {"cargo", "built"} \cup Locked
  BY DEF Locked, Corepacking
<1>3. T(al, i)'.at = at
  BY <1>1, Fields
<1>4. ContextsInv'
  BY <1>1, <1>2, ContextsKept DEF ToolchainsInv, Plain, Locked
<1>5. Found(al, i)'
  BY <1>1, <1>2, <1>3, FoundOn, FailedFound DEF ToolchainsInv, Plain, Locked
<1>6. FoundInv'
  BY <1>1, <1>5, FoundKept DEF ToolchainsInv, Plain
<1>7. LocksInv'
  <2>1. \A h \in held : ~OfContext(h, al, i)
    BY <1>2, UnlockedElsewhere DEF ToolchainsInv
  <2>2. HoldsIts(al, i)'
    BY <1>2, <1>3 DEF HoldsIts
  <2>3. \A g, h \in held : g[1] = h[1] => g = h
    BY DEF ToolchainsInv, LocksInv
  <2> QED
    BY <1>1, <2>1, <2>2, <2>3, LocksKept DEF ToolchainsInv
<1>8. ChildrenInv' /\ ItemsInv' /\ FreshInv'
  BY <1>1, <1>2, IdleElsewhere, ChildrenKept DEF Plain
<1> QED
  BY <1>4, <1>6, <1>7, <1>8 DEF ToolchainsInv

(* It takes a lock. *)
LEMMA Takes ==
  ASSUME ToolchainsInv, NEW al \in Alphas, NEW i \in DOMAIN tcs[al],
         T(al, i).at \notin {"cargo", "built"} \cup Locked, Idle(al, i),
         NEW at \in {"cargo", "install"}, NEW left, NEW now, Becomes(al, i, at, left, now),
         left \subseteq T(al, i).left, T(al, i).kind # "pool" => now = T(al, i).now,
         NEW name, Acquire(al, i, name), at = "cargo" => name = <<"mise">>,
         at = "install" => name = now /\ now \in NamesOf(T(al, i)),
         Found(al, i)', UNCHANGED children, Plain
  PROVE  ToolchainsInv'
<1>1. T(al, i)'.at = at /\ T(al, i)'.now = now
  BY Fields
<1>2. at \notin Corepacking /\ (at \in Locked => at = "install") /\ at # "enable"
  BY DEF Locked, Corepacking
<1>3. ContextsInv'
  BY <1>2, ContextsKept DEF ToolchainsInv, Plain
<1>4. FoundInv'
  BY FoundKept DEF ToolchainsInv, Plain
<1>5. LocksInv'
  <2> DEFINE new == <<name, al, i>>
  <2>1. held' = held \cup {new} /\ \A h \in held : h[1] # name
    BY DEF Acquire, Held
  <2>2. \A h \in held : ~OfContext(h, al, i)
    BY UnlockedElsewhere DEF ToolchainsInv
  <2>3. new = <<new[1], new[2], new[3]>> /\ OfContext(new, al, i) /\ new[1] = name
    BY DEF OfContext
  <2>4. HoldsIts(al, i)'
    BY <1>1, <1>2, <2>1 DEF HoldsIts, Holds
  <2>5. Locking(al, i, name)'
    BY <1>1 DEF Locking, Locked
  <2> HIDE DEF new
  <2>6. \A g, h \in held' : g[1] = h[1] => g = h
    BY <2>1, <2>3 DEF ToolchainsInv, LocksInv
  <2>7. \A h \in held' : OfContext(h, al, i) => Locking(al, i, h[1])'
    BY <2>1, <2>2, <2>3, <2>5
  <2>8. /\ \A h \in held' : h \in held \/ (h = <<h[1], h[2], h[3]>> /\ OfContext(h, al, i))
        /\ \A h \in held : h \in held' \/ OfContext(h, al, i)
    BY <2>1, <2>3
  <2> QED
    BY <2>4, <2>6, <2>7, <2>8, LocksKept DEF ToolchainsInv
<1>6. ChildrenInv' /\ ItemsInv' /\ FreshInv'
  <2>1. \A h \in held : h \in held'
    BY DEF Acquire
  <2> QED
    BY <1>2, <2>1, ChildrenKept DEF Plain
<1> QED
  BY <1>3, <1>4, <1>5, <1>6 DEF ToolchainsInv

(* It gives its lock back. *)
LEMMA Leaves ==
  ASSUME ToolchainsInv, NEW al \in Alphas, NEW i \in DOMAIN tcs[al], Idle(al, i),
         NEW at \in {"lock", "failed", "ready"}, Go(al, i, at), Found(al, i)',
         Release(al, i), UNCHANGED children, Plain
  PROVE  ToolchainsInv'
<1>1. Becomes(al, i, at, T(al, i).left, T(al, i).now)
  BY Advances DEF Go, ToolchainsInv
<1>2. at \notin {"cargo", "built", "enable"} \cup Locked
  BY DEF Locked, Corepacking
<1>3. T(al, i)'.at = at
  BY <1>1, Fields
<1>4. ContextsInv'
  BY <1>1, <1>2, ContextsKept DEF ToolchainsInv, Plain, Locked
<1>5. FoundInv'
  BY <1>1, FoundKept DEF ToolchainsInv, Plain
<1>6. held' = {h \in held : ~OfContext(h, al, i)}
  BY DEF Release, OfContext
<1>7. LocksInv'
  <2>1. HoldsIts(al, i)'
    BY <1>2, <1>3 DEF HoldsIts
  <2>2. \A g, h \in held' : g[1] = h[1] => g = h
    BY <1>6 DEF ToolchainsInv, LocksInv
  <2> QED
    BY <1>1, <1>6, <2>1, <2>2, LocksKept DEF ToolchainsInv
<1>8. ChildrenInv' /\ ItemsInv' /\ FreshInv'
  BY <1>1, <1>2, <1>6, ChildrenKept DEF Plain
<1> QED
  BY <1>4, <1>5, <1>7, <1>8 DEF ToolchainsInv

(* It goes on under the lock of its installation. *)
LEMMA StaysLocked ==
  ASSUME ToolchainsInv, NEW al \in Alphas, NEW i \in DOMAIN tcs[al], T(al, i).at \in Locked,
         NEW at \in Locked, NEW left, Becomes(al, i, at, left, T(al, i).now),
         left \subseteq T(al, i).left,
         at \in Corepacking => T(al, i).kind = "language" /\ T(al, i).lang = "nodejs",
         UNCHANGED <<plan, held>>
  PROVE  ContextsInv' /\ LocksInv'
<1>1. T(al, i).now \in NamesOf(T(al, i))
  BY DEF ToolchainsInv, ContextsInv, ContextOf
<1> QED
  BY <1>1, ContextsKept, LocksStay DEF ToolchainsInv

(* It starts an installer under its lock. *)
LEMMA Starts ==
  ASSUME ToolchainsInv, NEW al \in Alphas, NEW i \in DOMAIN tcs[al], Idle(al, i),
         NEW at \in {"built", "install", "enable", "enabled"}, NEW left, NEW now,
         Becomes(al, i, at, left, now),
         NEW what, Run(al, i, what), IsItem(what),
         \E h \in held : OfContext(h, al, i) /\ Covers(h[1], what.dir),
         what.kind = "corepack" <=> at = "enable",
         what.kind = "corepack" => what \in CorepackOf(now, "corepack"),
         ended = {} => what.kind = "corepack" \/ what \notin disk,
         ended = {} /\ at = "enable" => \A s \in CorepackOf(now, "shims") : s \notin disk,
         UNCHANGED held, Plain
  PROVE  ChildrenInv' /\ ItemsInv' /\ FreshInv'
<1> DEFINE new == [by |-> <<al, i>>, what |-> what]
<1>1. children' = children \cup {new} /\ \A c \in children : c.by # <<al, i>>
  BY DEF Run, Idle
<1>2. new = [by |-> new.by, what |-> new.what] /\ new.by = <<al, i>> /\ new.what = what /\ new.by # Gone
  BY DEF Gone
<1> HIDE DEF new
<1>3. T(al, i)'.at = at /\ T(al, i)'.now = now /\ DOMAIN tcs'[al] = DOMAIN tcs[al]
  BY Fields DEF Becomes
<1>4. ended' = ended /\ disk' = disk
  BY DEF Plain
<1>5. WorksFor(new, al, i)'
  <2>1. CorepackOf(T(al, i).now, "corepack")' = CorepackOf(now, "corepack")
    BY <1>3
  <2> QED
    BY <1>2, <1>3, <2>1 DEF WorksFor, OfContext
<1>6. ASSUME NEW c \in children, c.by # Gone
      PROVE  \E b \in Alphas : \E j \in DOMAIN tcs'[b] : WorksFor(c, b, j)'
  <2>1. PICK b \in Alphas : \E j \in DOMAIN tcs[b] : WorksFor(c, b, j)
    BY <1>6 DEF ToolchainsInv, ChildrenInv
  <2>2. PICK j \in DOMAIN tcs[b] : WorksFor(c, b, j)
    BY <2>1
  <2>3. b # al \/ j # i
    BY <1>1, <2>2 DEF WorksFor
  <2>4. DOMAIN tcs'[b] = DOMAIN tcs[b] /\ T(b, j)' = T(b, j)
    BY <2>3 DEF Becomes, T
  <2>5. WorksFor(c, b, j)'
    BY <2>2, <2>4 DEF WorksFor
  <2> QED
    BY <2>4, <2>5
<1>7. ChildrenInv'
  <2>1. \A c \in children' : c.by = Gone \/ \E b \in Alphas : \E j \in DOMAIN tcs'[b] : WorksFor(c, b, j)'
    BY <1>1, <1>3, <1>5, <1>6
  <2>2. \A c, d \in children' : c.by = d.by /\ c.by # Gone => c = d
    BY <1>1, <1>2 DEF ToolchainsInv, ChildrenInv
  <2> QED
    BY <1>1, <1>2, <2>1, <2>2 DEF ToolchainsInv, ChildrenInv
<1>8. ItemsInv'
  BY <1>1, <1>2, <1>4 DEF ToolchainsInv, ItemsInv, IsItem
<1>9. FreshInv'
  <2>1. ASSUME ended = {}, NEW b \in Alphas, NEW j \in DOMAIN tcs'[b], T(b, j)'.at = "enable"
        PROVE  \A s \in CorepackOf(T(b, j)'.now, "shims") : s \notin disk
    <3>1. CASE b = al /\ j = i
      BY <1>3, <2>1, <3>1
    <3>2. CASE b # al \/ j # i
      <4>1. j \in DOMAIN tcs[b] /\ T(b, j)' = T(b, j)
        BY <3>2 DEF Becomes, T
      <4> QED
        BY <2>1, <4>1 DEF ToolchainsInv, FreshInv
    <3> QED
      BY <3>1, <3>2
  <2>2. ended = {} => \A c \in children' :
          c.by # Gone /\ (NamedOnce(c.what.dir) /\ c.what.kind # "corepack" => c.what \notin disk)
    BY <1>1, <1>2 DEF ToolchainsInv, FreshInv
  <2> QED
    BY <1>4, <2>1, <2>2 DEF FreshInv
<1> QED
  BY <1>7, <1>8, <1>9

-----------------------------------------------------------------------------
(* The steps of bringupToolchain. *)

(* EnsureMise: cargo runs under mise's own lock, when nobody was quicker. *)
LEMMA EnsureMise ==
  ASSUME ToolchainsInv, NEW al \in Alphas, NEW i \in DOMAIN tcs[al],
         FindMise(al, i) \/ NoCargo(al, i) \/ LockMise(al, i) \/ CargoInstall(al, i) \/ Built(al, i)
  PROVE  ToolchainsInv'
<1>1. CASE FindMise(al, i) \/ NoCargo(al, i)
  <2>1. PICK at \in {"lock", "miselock", "failed"} : Go(al, i, at)
    BY <1>1 DEF FindMise, NoCargo
  <2> QED
    BY <1>1, <2>1, Waits DEF FindMise, NoCargo, At
<1>2. CASE LockMise(al, i)
  <2>1. /\ T(al, i).at = "miselock" /\ Go(al, i, "cargo") /\ Acquire(al, i, <<"mise">>)
        /\ UNCHANGED children /\ Plain
    BY <1>2 DEF LockMise, At
  <2>2. Becomes(al, i, "cargo", T(al, i).left, T(al, i).now)
    BY <2>1, Advances DEF Go, ToolchainsInv
  <2>3. T(al, i).at \notin {"cargo", "built"} \cup Locked /\ Idle(al, i)
    BY <2>1, IdleElsewhere DEF Locked, Corepacking
  <2>4. Found(al, i)'
    BY <2>1, <2>2, FoundOn DEF ToolchainsInv, Plain, Corepacking
  <2> QED
    BY <2>1, <2>2, <2>3, <2>4, Takes
<1>3. CASE CargoInstall(al, i) /\ StillMissing(Mise)
  <2>1. /\ T(al, i).at = "cargo" /\ Idle(al, i) /\ Go(al, i, "built") /\ Run(al, i, Mise)
        /\ UNCHANGED held /\ Plain /\ Mise \notin disk
    BY <1>3 DEF CargoInstall, At, StillMissing, Missing
  <2>2. Becomes(al, i, "built", T(al, i).left, T(al, i).now)
    BY <2>1, Advances DEF Go, ToolchainsInv
  <2>3. ContextsInv' /\ LocksInv'
    BY <2>1, <2>2, ContextsKept, LocksStay DEF ToolchainsInv, Plain, Locked, Corepacking
  <2>4. FoundInv'
    <3>1. disk' = disk /\ \A c \in children : c \in children'
      BY <2>1 DEF Plain, Run
    <3>2. Found(al, i)'
      BY <2>1, <2>2, <3>1, FoundOn DEF ToolchainsInv, Corepacking
    <3> QED
      BY <2>2, <3>1, <3>2, FoundKept DEF ToolchainsInv
  <2>5. Mise.kind = "mise" /\ IsItem(Mise) /\ Mise.dir = <<"mise">>
    BY DEF Mise, Installation, IsItem
  <2>6. \E h \in held : OfContext(h, al, i) /\ Covers(h[1], Mise.dir)
    <3> DEFINE h == <<<<"mise">>, al, i>>
    <3>1. h \in held /\ h[1] = <<"mise">> /\ h[2] = al /\ h[3] = i
      BY <2>1 DEF ToolchainsInv, LocksInv, HoldsIts, Holds
    <3> HIDE DEF h
    <3> QED
      BY <2>5, <3>1 DEF OfContext, Covers
  <2>7. ChildrenInv' /\ ItemsInv' /\ FreshInv'
    BY <2>1, <2>2, <2>5, <2>6, Starts
  <2> QED
    BY <2>3, <2>4, <2>7 DEF ToolchainsInv
<1>4. CASE Built(al, i) \/ (CargoInstall(al, i) /\ ~StillMissing(Mise))
  <2>1. /\ T(al, i).at \in {"cargo", "built"} /\ Idle(al, i) /\ Go(al, i, "lock") /\ Release(al, i)
        /\ UNCHANGED children /\ Plain
    BY <1>4 DEF CargoInstall, Built, At
  <2>2. Becomes(al, i, "lock", T(al, i).left, T(al, i).now)
    BY <2>1, Advances DEF Go, ToolchainsInv
  <2>3. Found(al, i)'
    BY <2>1, <2>2, FoundOn DEF ToolchainsInv, Plain, Corepacking
  <2> QED
    BY <2>1, <2>3, Leaves
<1> QED
  BY <1>1, <1>2, <1>3, <1>4

(* A language has what it has seen to, wherever it goes with fewer tools left
   that it has not. *)
LEMMA StillFoundLanguage ==
  ASSUME NEW al \in Alphas, NEW i \in DOMAIN tcs[al], NEW at, NEW left,
         Becomes(al, i, at, left, T(al, i).now),
         \A t \in DOMAIN T(al, i).tools \ left : Got(al, i, Tool(T(al, i).now, t, T(al, i).tools[t]))',
         at \in Corepacking \cup {"ready"} => Got(al, i, Runtime(T(al, i).now))' /\ left = {},
         at \in {"enable", "enabled", "ready"} /\ T(al, i).lang = "nodejs" =>
           \E x \in CorepackOf(T(al, i).now, "corepack") : Got(al, i, x)',
         at \in {"enabled", "ready"} /\ T(al, i).lang = "nodejs" =>
           \E x \in CorepackOf(T(al, i).now, "shims") : Got(al, i, x)',
         T(al, i).kind = "language"
  PROVE  Found(al, i)'
<1>1. /\ T(al, i)'.at = at /\ T(al, i)'.left = left /\ T(al, i)'.now = T(al, i).now
      /\ T(al, i)'.kind = "language" /\ T(al, i)'.lang = T(al, i).lang
      /\ T(al, i)'.tools = T(al, i).tools
  BY Fields
<1>2. FoundLanguage(al, i)'
  BY <1>1 DEF FoundLanguage, GotCorepack
<1> QED
  BY <1>1, <1>2 DEF Found

LEMMA FoundSoFar ==
  ASSUME ToolchainsInv, NEW al \in Alphas, NEW i \in DOMAIN tcs[al], T(al, i).kind = "language",
         NEW at, NEW left, Becomes(al, i, at, left, T(al, i).now),
         T(al, i).at # "failed", disk' = disk, \A c \in children : c \in children'
  PROVE  /\ \A t \in DOMAIN T(al, i).tools \ T(al, i).left : Got(al, i, Tool(T(al, i).now, t, T(al, i).tools[t]))'
         /\ T(al, i).at \in Corepacking => Got(al, i, Runtime(T(al, i).now))' /\ T(al, i).left = {}
         /\ T(al, i).at \in {"enable", "enabled"} /\ T(al, i).lang = "nodejs" =>
              \E x \in CorepackOf(T(al, i).now, "corepack") : Got(al, i, x)'
         /\ T(al, i).at = "enabled" /\ T(al, i).lang = "nodejs" =>
              \E x \in CorepackOf(T(al, i).now, "shims") : Got(al, i, x)'
<1>1. \A x : Got(al, i, x) => Got(al, i, x)'
  BY GotStays
<1>2. FoundLanguage(al, i)
  BY DEF ToolchainsInv, FoundInv, Found
<1>3. T(al, i)'.now = T(al, i).now /\ T(al, i)'.tools = T(al, i).tools
  BY Fields
<1> QED
  BY <1>1, <1>2, <1>3 DEF FoundLanguage, GotCorepack

(* A package has nothing to have seen to. *)
LEMMA PackageFound ==
  ASSUME NEW al \in Alphas, NEW i \in DOMAIN tcs[al], NEW at, NEW left, NEW now,
         Becomes(al, i, at, left, now), T(al, i).kind = "package"
  PROVE  Found(al, i)'
<1>1. T(al, i)'.kind = "package"
  BY Fields
<1> QED
  BY <1>1 DEF Found

(* LockTool: the lock of the name as it is pinned, or of one tool of the pool. *)
LEMMA LockToolKeeps ==
  ASSUME ToolchainsInv, NEW al \in Alphas, NEW i \in DOMAIN tcs[al], LockTool(al, i)
  PROVE  ToolchainsInv'
<1>1. T(al, i).at = "lock" /\ disk' = disk /\ children' = children /\ Plain
  BY DEF LockTool, At, Plain
<1>2. T(al, i).at \notin {"cargo", "built"} \cup Locked /\ Idle(al, i)
  BY <1>1, IdleElsewhere DEF Locked, Corepacking
<1>3. ContextOf(T(al, i), plan[al])
  BY DEF ToolchainsInv, ContextsInv
<1>4. CASE T(al, i).kind = "pool"
  <2>1. PICK t \in T(al, i).left :
          LET name == <<t, T(al, i).tools[t]>>
          IN Acquire(al, i, name) /\ Advance(al, i, "install", T(al, i).left \ {t}, name)
    BY <1>4 DEF LockTool
  <2> DEFINE name == <<t, T(al, i).tools[t]>>
  <2>2. Acquire(al, i, name) /\ Becomes(al, i, "install", T(al, i).left \ {t}, name)
    BY <2>1, Advances DEF ToolchainsInv
  <2>3. name \in NamesOf(T(al, i))
    BY <1>3, <1>4 DEF ContextOf, NamesOf
  <2>4. Found(al, i)'
    <3>1. FoundPool(al, i) /\ \A x : Got(al, i, x) => Got(al, i, x)'
      BY <1>1, <1>4, GotStays DEF ToolchainsInv, FoundInv, Found
    <3>2. /\ T(al, i)'.at = "install" /\ T(al, i)'.left = T(al, i).left \ {t} /\ T(al, i)'.now = name
          /\ T(al, i)'.kind = "pool" /\ T(al, i)'.tools = T(al, i).tools
      BY <1>4, <2>2, Fields
    <3>3. FoundPool(al, i)'
      BY <1>1, <3>1, <3>2 DEF FoundPool
    <3> QED
      BY <3>2, <3>3 DEF Found
  <2> HIDE DEF name
  <2> QED
    BY <1>1, <1>2, <1>4, <2>2, <2>3, <2>4, Takes
<1>5. CASE T(al, i).kind # "pool"
  <2>1. Acquire(al, i, T(al, i).now) /\ Becomes(al, i, "install", T(al, i).left, T(al, i).now)
    BY <1>5, Advances DEF LockTool, Go, ToolchainsInv
  <2>2. T(al, i).now \in NamesOf(T(al, i))
    BY <1>3, <1>5 DEF ContextOf, NamesOf
  <2>3. Found(al, i)'
    <3>1. CASE T(al, i).kind = "language"
      BY <1>1, <2>1, <3>1, FoundSoFar, StillFoundLanguage DEF Corepacking
    <3>2. CASE T(al, i).kind = "package"
      BY <2>1, <3>2, PackageFound
    <3> QED
      BY <1>3, <1>5, <3>1, <3>2 DEF ContextOf
  <2> QED
    BY <1>1, <1>2, <2>1, <2>2, <2>3, Takes
<1> QED
  BY <1>4, <1>5

(* Under its lock a context is in the directories the lock is for. *)
LEMMA UnderLock ==
  ASSUME ToolchainsInv, NEW al \in Alphas, NEW i \in DOMAIN tcs[al], T(al, i).at \in Locked
  PROVE  /\ HostName(T(al, i).now)
         /\ \E h \in held : OfContext(h, al, i) /\ h[1] = T(al, i).now
<1>1. T(al, i).now \in NamesOf(T(al, i))
  BY DEF ToolchainsInv, ContextsInv, ContextOf
<1>2. HostName(T(al, i).now)
  BY <1>1, NameIsHost DEF ToolchainsInv
<1> DEFINE h == <<T(al, i).now, al, i>>
<1>3. h \in held
  BY DEF ToolchainsInv, LocksInv, HoldsIts, Holds
<1>4. h[1] = T(al, i).now /\ h[2] = al /\ h[3] = i
  OBVIOUS
<1> HIDE DEF h
<1> QED
  BY <1>2, <1>3, <1>4 DEF OfContext

LEMMA InstallRuntimeKeeps ==
  ASSUME ToolchainsInv, NEW al \in Alphas, NEW i \in DOMAIN tcs[al], InstallRuntime(al, i)
  PROVE  ToolchainsInv'
<1> DEFINE what == Runtime(T(al, i).now)
<1>1. /\ T(al, i).at = "install" /\ Idle(al, i) /\ what \notin disk /\ Run(al, i, what)
      /\ tcs' = tcs /\ held' = held /\ Plain
  BY DEF InstallRuntime, At, Missing
<1>2. what.kind = "runtime" /\ what.dir = Dir(T(al, i).now) /\ IsItem(what)
  BY DEF Runtime, Installation, IsItem
<1>3. \E h \in held : OfContext(h, al, i) /\ Covers(h[1], what.dir)
  <2>1. HostName(T(al, i).now) /\ \E h \in held : OfContext(h, al, i) /\ h[1] = T(al, i).now
    BY <1>1, UnderLock DEF Locked
  <2> QED
    BY <1>2, <2>1 DEF Covers
<1>4. Becomes(al, i, "install", T(al, i).left, T(al, i).now)
  BY <1>1, StaysPut DEF ToolchainsInv
<1> HIDE DEF what
<1>5. ChildrenInv' /\ ItemsInv' /\ FreshInv'
  BY <1>1, <1>2, <1>3, <1>4, Starts
<1>6. ContextsInv' /\ LocksInv'
  BY <1>1, <1>4, StaysLocked DEF Locked, Corepacking, Plain
<1>7. FoundInv'
  <2>1. disk' = disk /\ \A c \in children : c \in children'
    BY <1>1 DEF Plain, Run
  <2>2. T(al, i)' = T(al, i) /\ Found(al, i)
    BY <1>1 DEF ToolchainsInv, FoundInv, T
  <2>3. Found(al, i)'
    BY <2>1, <2>2, GotStays, FoundStays
  <2> QED
    BY <1>4, <2>1, <2>3, FoundKept DEF ToolchainsInv
<1> QED
  BY <1>5, <1>6, <1>7 DEF ToolchainsInv

(* EnsureTools: a tool that is there is skipped. *)
LEMMA EnsureToolKeeps ==
  ASSUME ToolchainsInv, NEW al \in Alphas, NEW i \in DOMAIN tcs[al], EnsureTool(al, i)
  PROVE  ToolchainsInv'
<1>1. PICK t \in T(al, i).left :
        LET what == Tool(T(al, i).now, t, T(al, i).tools[t])
        IN /\ IF Missing(what) THEN Run(al, i, what) ELSE UNCHANGED children
           /\ Advance(al, i, "install", T(al, i).left \ {t}, T(al, i).now)
  BY DEF EnsureTool
<1> DEFINE what == Tool(T(al, i).now, t, T(al, i).tools[t])
           left == T(al, i).left \ {t}
<1>2. /\ T(al, i).at = "install" /\ Idle(al, i) /\ T(al, i).kind = "language"
      /\ UNCHANGED held /\ Plain /\ disk' = disk
      /\ IF what \notin disk THEN Run(al, i, what) ELSE UNCHANGED children
      /\ what.kind = "tool"
  BY <1>1 DEF EnsureTool, At, Layered, Missing, Plain, Tool, Installation
<1>3. Becomes(al, i, "install", left, T(al, i).now)
  BY <1>1, Advances DEF ToolchainsInv
<1>4. ContextsInv' /\ LocksInv'
  BY <1>2, <1>3, StaysLocked DEF Locked, Corepacking, Plain
<1>5. what \in disk \/ [by |-> <<al, i>>, what |-> what] \in children'
  BY <1>2 DEF Run
<1>6. \A c \in children : c \in children'
  BY <1>2 DEF Run
<1>7. FoundInv'
  <2>1. \A s \in DOMAIN T(al, i).tools \ T(al, i).left : Got(al, i, Tool(T(al, i).now, s, T(al, i).tools[s]))'
    BY <1>2, <1>3, <1>6, FoundSoFar
  <2>2. T(al, i)'.now = T(al, i).now /\ T(al, i)'.tools = T(al, i).tools
    BY <1>3, Fields
  <2>3. Got(al, i, Tool(T(al, i).now, t, T(al, i).tools[t]))'
    BY <1>2, <1>5, <2>2 DEF Got
  <2>4. Found(al, i)'
    <3>1. \A s \in DOMAIN T(al, i).tools \ left : Got(al, i, Tool(T(al, i).now, s, T(al, i).tools[s]))'
      BY <2>1, <2>3
    <3> HIDE DEF left
    <3> QED
      BY <1>2, <1>3, <3>1, StillFoundLanguage DEF Corepacking
  <2> QED
    BY <1>2, <1>3, <1>6, <2>4, FoundKept DEF ToolchainsInv
<1>8. ChildrenInv' /\ ItemsInv' /\ FreshInv'
  <2>1. CASE what \in disk
    <3>1. children' = children /\ ended' = ended
      BY <1>2, <2>1 DEF Plain
    <3> HIDE DEF what, left
    <3> QED
      BY <1>2, <1>3, <3>1, ChildrenKept
  <2>2. CASE what \notin disk
    <3>1. HostName(T(al, i).now) /\ \E h \in held : OfContext(h, al, i) /\ h[1] = T(al, i).now
      BY <1>2, UnderLock DEF Locked
    <3>2. \E h \in held : OfContext(h, al, i) /\ Covers(h[1], what.dir)
      BY <3>1 DEF Covers, Tool, Installation
    <3>3. PICK d \in OfHost : Same(T(al, i), d)
      BY OfHostIs DEF ToolchainsInv
    <3>4. ContextOf(T(al, i), plan[al])
      BY DEF ToolchainsInv, ContextsInv
    <3>5. T(al, i).now = <<d.lang, d.version>> /\ d.kind = "language" /\ d.tools = T(al, i).tools
          /\ t \in DOMAIN d.tools
      BY <1>2, <3>3, <3>4 DEF ContextOf, Same
    <3>6. IsItem(what)
      BY <3>5 DEF IsItem, Asked, Tool, Installation
    <3> HIDE DEF what, left
    <3> QED
      BY <1>2, <1>3, <2>2, <3>2, <3>6, Starts
  <2> QED
    BY <2>1, <2>2
<1> QED
  BY <1>4, <1>7, <1>8 DEF ToolchainsInv

(* Installed: the runtime is there, and its tools have been seen to. *)
LEMMA InstalledKeeps ==
  ASSUME ToolchainsInv, NEW al \in Alphas, NEW i \in DOMAIN tcs[al], Installed(al, i)
  PROVE  ToolchainsInv'
<1>1. /\ T(al, i).at = "install" /\ Idle(al, i) /\ Runtime(T(al, i).now) \in disk
      /\ ~Layered(al, i) /\ UNCHANGED children /\ Plain /\ disk' = disk
  BY DEF Installed, At, Missing, Plain
<1>2. ContextOf(T(al, i), plan[al]) /\ Found(al, i)
  BY DEF ToolchainsInv, ContextsInv, FoundInv
<1>3. ASSUME NEW at \in {"corepack", "ready"}, Go(al, i, at), T(al, i).kind = "language",
             at = "ready" => T(al, i).lang # "nodejs"
      PROVE  Found(al, i)'
  <2>1. Becomes(al, i, at, T(al, i).left, T(al, i).now)
    BY <1>3, Advances DEF Go, ToolchainsInv
  <2>2. T(al, i).left = {}
    BY <1>1, <1>3 DEF Layered
  <2>3. \A t \in DOMAIN T(al, i).tools \ T(al, i).left : Got(al, i, Tool(T(al, i).now, t, T(al, i).tools[t]))'
    BY <1>1, <1>3, <2>1, FoundSoFar
  <2>4. Got(al, i, Runtime(T(al, i).now))'
    BY <1>1, <2>1, Fields DEF Got
  <2> QED
    BY <1>3, <2>1, <2>2, <2>3, <2>4, StillFoundLanguage
<1>4. CASE T(al, i).kind = "pool"
  <2>1. PICK at \in {"lock", "ready"} :
          Go(al, i, at) /\ Release(al, i) /\ (at = "ready" => T(al, i).left = {})
    BY <1>4 DEF Installed
  <2>2. Becomes(al, i, at, T(al, i).left, T(al, i).now)
    BY <2>1, Advances DEF Go, ToolchainsInv
  <2>3. Found(al, i)'
    <3>1. /\ T(al, i)'.at = at /\ T(al, i)'.left = T(al, i).left /\ T(al, i)'.now = T(al, i).now
          /\ T(al, i)'.kind = "pool" /\ T(al, i)'.tools = T(al, i).tools
      BY <1>4, <2>2, Fields
    <3>2. FoundPool(al, i) /\ \A x : Got(al, i, x) => Got(al, i, x)'
      BY <1>1, <1>2, <1>4, GotStays DEF Found
    <3>3. Got(al, i, Runtime(T(al, i).now))
      BY <1>1 DEF Got
    <3>4. ASSUME NEW t \in DOMAIN T(al, i).tools \ T(al, i).left
          PROVE  Got(al, i, Runtime(<<t, T(al, i).tools[t]>>))
      BY <3>2, <3>3 DEF FoundPool
    <3>5. FoundPool(al, i)'
      BY <2>1, <3>1, <3>2, <3>4 DEF FoundPool
    <3> QED
      BY <3>1, <3>5 DEF Found
  <2> QED
    BY <1>1, <2>1, <2>3, Leaves
<1>5. CASE T(al, i).kind = "language" /\ T(al, i).lang = "nodejs"
  <2>1. Go(al, i, "corepack") /\ held' = held
    BY <1>5 DEF Installed
  <2>2. Becomes(al, i, "corepack", T(al, i).left, T(al, i).now)
    BY <2>1, Advances DEF Go, ToolchainsInv
  <2>3. ContextsInv' /\ LocksInv'
    BY <1>1, <1>5, <2>1, <2>2, StaysLocked DEF Locked, Corepacking, Plain
  <2>4. FoundInv'
    BY <1>1, <1>3, <1>5, <2>1, <2>2, FoundKept DEF ToolchainsInv
  <2>5. ChildrenInv' /\ ItemsInv' /\ FreshInv'
    BY <1>1, <2>1, <2>2, ChildrenKept DEF Plain
  <2> QED
    BY <2>3, <2>4, <2>5 DEF ToolchainsInv
<1>6. CASE T(al, i).kind # "pool" /\ ~(T(al, i).kind = "language" /\ T(al, i).lang = "nodejs")
  <2>1. Go(al, i, "ready") /\ Release(al, i)
    BY <1>6 DEF Installed
  <2>2. Found(al, i)'
    <3>1. CASE T(al, i).kind = "language"
      BY <1>3, <1>6, <2>1, <3>1
    <3>2. CASE T(al, i).kind = "package"
      BY <2>1, <3>2, Advances, PackageFound DEF Go, ToolchainsInv
    <3> QED
      BY <1>2, <1>6, <3>1, <3>2 DEF ContextOf
  <2> QED
    BY <1>1, <2>1, <2>2, Leaves
<1> QED
  BY <1>4, <1>5, <1>6

(* A context at Corepack is nodejs' own, and its lock is for Corepack as well. *)
LEMMA AtCorepack ==
  ASSUME ToolchainsInv, NEW al \in Alphas, NEW i \in DOMAIN tcs[al], T(al, i).at \in Corepacking
  PROVE  /\ T(al, i).kind = "language" /\ T(al, i).lang = "nodejs" /\ T(al, i).now[1] = "nodejs"
         /\ \A kind : \A x \in CorepackOf(T(al, i).now, kind) :
              \E h \in held : OfContext(h, al, i) /\ Covers(h[1], x.dir)
<1>1. T(al, i).kind = "language" /\ T(al, i).lang = "nodejs" /\ T(al, i).now = <<T(al, i).lang, T(al, i).version>>
  BY DEF ToolchainsInv, ContextsInv, ContextOf
<1>2. HostName(T(al, i).now) /\ \E h \in held : OfContext(h, al, i) /\ h[1] = T(al, i).now
  BY UnderLock DEF Locked
<1>3. \A kind : \A x \in CorepackOf(T(al, i).now, kind) : IsCorepack(x.dir, T(al, i).now[2])
  BY CorepackItem
<1> QED
  BY <1>1, <1>2, <1>3 DEF Covers

(* EnsureNodeCorepack: with the shims the Corepack is there too. *)
LEMMA CorepackKeeps ==
  ASSUME ToolchainsInv, NEW al \in Alphas, NEW i \in DOMAIN tcs[al], Corepack(al, i)
  PROVE  ToolchainsInv'
<1>0. PICK x \in CorepackOf(T(al, i).now, "corepack") : \E s \in CorepackOf(T(al, i).now, "shims") :
        IF Missing(x) \/ Missing(s)
        THEN Run(al, i, x) /\ Go(al, i, "enable") /\ UNCHANGED held
        ELSE Go(al, i, "ready") /\ Release(al, i) /\ UNCHANGED children
  BY DEF Corepack
<1>1. PICK s \in CorepackOf(T(al, i).now, "shims") :
        IF Missing(x) \/ Missing(s)
        THEN Run(al, i, x) /\ Go(al, i, "enable") /\ UNCHANGED held
        ELSE Go(al, i, "ready") /\ Release(al, i) /\ UNCHANGED children
  BY <1>0
<1>2. T(al, i).at = "corepack" /\ Plain /\ disk' = disk
  BY DEF Corepack, At, Plain
<1>3. Idle(al, i)
  BY <1>2, IdleElsewhere
<1>4. /\ T(al, i).kind = "language" /\ T(al, i).lang = "nodejs"
      /\ \E h \in held : OfContext(h, al, i) /\ Covers(h[1], x.dir)
  BY <1>2, AtCorepack DEF Corepacking
<1>5. CASE x \notin disk \/ s \notin disk
  <2>1. Run(al, i, x) /\ Go(al, i, "enable") /\ held' = held
    BY <1>1, <1>5 DEF Missing
  <2>2. Becomes(al, i, "enable", T(al, i).left, T(al, i).now)
    BY <2>1, Advances DEF Go, ToolchainsInv
  <2>3. ContextsInv' /\ LocksInv'
    BY <1>2, <1>4, <2>1, <2>2, StaysLocked DEF Locked, Corepacking, Plain
  <2>4. [by |-> <<al, i>>, what |-> x] \in children' /\ \A c \in children : c \in children'
    BY <2>1 DEF Run
  <2>5. FoundInv'
    <3>1. Got(al, i, x)'
      BY <2>4 DEF Got
    <3>2. /\ \A t \in DOMAIN T(al, i).tools \ T(al, i).left : Got(al, i, Tool(T(al, i).now, t, T(al, i).tools[t]))'
          /\ Got(al, i, Runtime(T(al, i).now))' /\ T(al, i).left = {}
      BY <1>2, <1>4, <2>2, <2>4, FoundSoFar DEF Corepacking
    <3>3. Found(al, i)'
      BY <1>4, <2>2, <3>1, <3>2, StillFoundLanguage
    <3> QED
      BY <1>2, <2>2, <2>4, <3>3, FoundKept DEF ToolchainsInv
  <2>6. Bare(x, "corepack") /\ x.kind = "corepack"
    <3>1. Bare(x, "corepack")
      BY CorepackItem
    <3> QED
      BY <3>1 DEF Bare
  <2>7. IsItem(x)
    BY <2>6 DEF IsItem, Bare
  <2>8. \A y \in CorepackOf(T(al, i).now, "shims") : y \notin disk
    <3> SUFFICES ASSUME NEW y \in CorepackOf(T(al, i).now, "shims"), y \in disk PROVE FALSE
      OBVIOUS
    <3>1. x.dir = y.dir /\ x.dir = s.dir
      BY OneCorepack
    <3>2. Bare(x, "corepack") /\ Bare(y, "shims") /\ Bare(s, "shims")
      BY CorepackItem
    <3>3. y = s /\ y.kind = "shims" /\ Installation(y.dir, "corepack", y.item, y.version) = x
      BY <3>1, <3>2 DEF Bare
    <3>4. Installation(y.dir, "corepack", y.item, y.version) \in disk
      BY <3>3 DEF ToolchainsInv, ItemsInv, IsItem
    <3> QED
      BY <1>5, <3>3, <3>4
  <2>9. ChildrenInv' /\ ItemsInv' /\ FreshInv'
    BY <1>2, <1>3, <1>4, <2>1, <2>2, <2>6, <2>7, <2>8, Starts
  <2> QED
    BY <2>3, <2>5, <2>9 DEF ToolchainsInv
<1>6. CASE x \in disk /\ s \in disk
  <2>1. Go(al, i, "ready") /\ Release(al, i) /\ UNCHANGED children
    BY <1>1, <1>6 DEF Missing
  <2>2. Becomes(al, i, "ready", T(al, i).left, T(al, i).now)
    BY <2>1, Advances DEF Go, ToolchainsInv
  <2>3. /\ \A t \in DOMAIN T(al, i).tools \ T(al, i).left : Got(al, i, Tool(T(al, i).now, t, T(al, i).tools[t]))'
        /\ Got(al, i, Runtime(T(al, i).now))' /\ T(al, i).left = {}
    BY <1>2, <1>4, <2>1, <2>2, FoundSoFar DEF Corepacking
  <2>4. Got(al, i, x)' /\ Got(al, i, s)'
    BY <1>2, <1>6 DEF Got
  <2>5. Found(al, i)'
    BY <1>4, <2>2, <2>3, <2>4, StillFoundLanguage
  <2> QED
    BY <1>2, <1>3, <2>1, <2>5, Leaves
<1> QED
  BY <1>5, <1>6

(* corepack enable: the Corepack it runs is there. *)
LEMMA CorepackEnableKeeps ==
  ASSUME ToolchainsInv, NEW al \in Alphas, NEW i \in DOMAIN tcs[al], CorepackEnable(al, i)
  PROVE  ToolchainsInv'
<1>1. PICK s \in CorepackOf(T(al, i).now, "shims") : Run(al, i, s)
  BY DEF CorepackEnable
<1>2. /\ T(al, i).at = "enable" /\ Idle(al, i) /\ Go(al, i, "enabled") /\ held' = held
      /\ Plain /\ disk' = disk
  BY DEF CorepackEnable, At, Plain
<1>3. /\ T(al, i).kind = "language" /\ T(al, i).lang = "nodejs"
      /\ \E h \in held : OfContext(h, al, i) /\ Covers(h[1], s.dir)
  BY <1>2, AtCorepack DEF Corepacking
<1>4. Becomes(al, i, "enabled", T(al, i).left, T(al, i).now)
  BY <1>2, Advances DEF Go, ToolchainsInv
<1>5. ContextsInv' /\ LocksInv'
  BY <1>2, <1>3, <1>4, StaysLocked DEF Locked, Corepacking, Plain
<1>6. [by |-> <<al, i>>, what |-> s] \in children' /\ \A c \in children : c \in children'
  BY <1>1 DEF Run
<1>7. FoundInv'
  <2>1. Got(al, i, s)'
    BY <1>6 DEF Got
  <2>2. /\ \A t \in DOMAIN T(al, i).tools \ T(al, i).left : Got(al, i, Tool(T(al, i).now, t, T(al, i).tools[t]))'
        /\ Got(al, i, Runtime(T(al, i).now))' /\ T(al, i).left = {}
        /\ \E x \in CorepackOf(T(al, i).now, "corepack") : Got(al, i, x)'
    BY <1>2, <1>3, <1>4, <1>6, FoundSoFar DEF Corepacking
  <2>3. Found(al, i)'
    BY <1>3, <1>4, <2>1, <2>2, StillFoundLanguage
  <2> QED
    BY <1>2, <1>4, <1>6, <2>3, FoundKept DEF ToolchainsInv
<1>8. Bare(s, "shims") /\ s.kind = "shims"
  <2>1. Bare(s, "shims")
    BY <1>1, CorepackItem
  <2> QED
    BY <2>1 DEF Bare
<1>9. IsItem(s)
  <2>1. GotCorepack(al, i, "corepack")
    BY <1>2, <1>3 DEF ToolchainsInv, FoundInv, Found, FoundLanguage
  <2>2. PICK x \in CorepackOf(T(al, i).now, "corepack") : Got(al, i, x)
    BY <2>1 DEF GotCorepack
  <2>3. x.dir = s.dir /\ Bare(x, "corepack")
    BY OneCorepack, CorepackItem
  <2>4. x \in disk
    <3>1. x.kind = "corepack"
      BY <2>3 DEF Bare
    <3> QED
      BY <1>2, <2>2, <3>1 DEF Got, Rivalled, Idle
  <2>5. Installation(s.dir, "corepack", s.item, s.version) = x
    BY <1>8, <2>3 DEF Bare
  <2> QED
    BY <1>8, <2>4, <2>5 DEF IsItem, Bare
<1>10. ended = {} => s \notin disk
  BY <1>2 DEF ToolchainsInv, FreshInv
<1>11. ChildrenInv' /\ ItemsInv' /\ FreshInv'
  BY <1>1, <1>2, <1>3, <1>4, <1>8, <1>9, <1>10, Starts
<1> QED
  BY <1>5, <1>7, <1>11 DEF ToolchainsInv

LEMMA EnabledKeeps ==
  ASSUME ToolchainsInv, NEW al \in Alphas, NEW i \in DOMAIN tcs[al], Enabled(al, i)
  PROVE  ToolchainsInv'
<1>1. /\ T(al, i).at = "enabled" /\ Idle(al, i) /\ Go(al, i, "ready") /\ Release(al, i)
      /\ UNCHANGED children /\ Plain /\ disk' = disk
  BY DEF Enabled, At, Plain
<1>2. T(al, i).kind = "language" /\ T(al, i).lang = "nodejs"
  BY <1>1, AtCorepack DEF Corepacking
<1>3. Becomes(al, i, "ready", T(al, i).left, T(al, i).now)
  BY <1>1, Advances DEF Go, ToolchainsInv
<1>4. /\ \A t \in DOMAIN T(al, i).tools \ T(al, i).left : Got(al, i, Tool(T(al, i).now, t, T(al, i).tools[t]))'
      /\ Got(al, i, Runtime(T(al, i).now))' /\ T(al, i).left = {}
      /\ \E x \in CorepackOf(T(al, i).now, "corepack") : Got(al, i, x)'
      /\ \E x \in CorepackOf(T(al, i).now, "shims") : Got(al, i, x)'
  BY <1>1, <1>2, <1>3, FoundSoFar DEF Corepacking
<1>5. Found(al, i)'
  BY <1>2, <1>3, <1>4, StillFoundLanguage
<1> QED
  BY <1>1, <1>5, Leaves

LEMMA RefusedKeeps ==
  ASSUME ToolchainsInv, NEW al \in Alphas, NEW i \in DOMAIN tcs[al], Refused(al, i)
  PROVE  ToolchainsInv'
<1>1. Becomes(al, i, "failed", T(al, i).left, T(al, i).now)
  BY Advances DEF Refused, Go, ToolchainsInv
<1>2. Found(al, i)'
  BY <1>1, Fields, FailedFound
<1> QED
  BY <1>2, Leaves DEF Refused

-----------------------------------------------------------------------------
(* The installers, the end of an alpha, a configure. *)

(* Two installers in one directory would hold one lock. *)
LEMMA OneContextEach ==
  ASSUME LocksInv, NEW c, NEW d, NEW a, NEW i, NEW b, NEW j, WorksFor(c, a, i),
         \E h \in held : h[2] = b /\ h[3] = j /\ Covers(h[1], d.what.dir),
         c.what.dir = d.what.dir, NamedOnce(c.what.dir)
  PROVE  a = b /\ i = j
<1>1. PICK g \in held : g[2] = a /\ g[3] = i /\ Covers(g[1], c.what.dir)
  BY DEF WorksFor
<1>2. PICK h \in held : h[2] = b /\ h[3] = j /\ Covers(h[1], d.what.dir)
  OBVIOUS
<1>3. g[1] = h[1]
  BY <1>1, <1>2, OneLockEach
<1>4. g = h
  BY <1>3 DEF LocksInv
<1> QED
  BY <1>1, <1>2, <1>4

LEMMA DirsApart == ToolchainsInv => OneInstaller
<1> SUFFICES ASSUME ToolchainsInv, NEW c \in children, NEW d \in children, c # d, c.by # Gone, d.by # Gone,
                    NamedOnce(c.what.dir), c.what.dir = d.what.dir
             PROVE  FALSE
  BY DEF OneInstaller
<1>1. PICK a \in Alphas : \E i \in DOMAIN tcs[a] : WorksFor(c, a, i)
  BY DEF ToolchainsInv, ChildrenInv
<1>2. PICK i \in DOMAIN tcs[a] : WorksFor(c, a, i)
  BY <1>1
<1>3. PICK b \in Alphas : \E j \in DOMAIN tcs[b] : WorksFor(d, b, j)
  BY DEF ToolchainsInv, ChildrenInv
<1>4. PICK j \in DOMAIN tcs[b] : WorksFor(d, b, j)
  BY <1>3
<1>5. \E h \in held : h[2] = b /\ h[3] = j /\ Covers(h[1], d.what.dir)
  BY <1>4 DEF WorksFor
<1>6. a = b /\ i = j
  BY <1>2, <1>5, OneContextEach DEF ToolchainsInv
<1>7. c.by = d.by
  BY <1>2, <1>4, <1>6 DEF WorksFor
<1> QED
  BY <1>7 DEF ToolchainsInv, ChildrenInv

(* What is overwritten by something else is a tool that has a rival. *)
LEMMA RivalsOverwritten ==
  ASSUME ItemsInv, NEW what, IsItem(what), NEW x \in Overwritten(what), x # what
  PROVE  Rivalled(x) /\ Rivalled(what) /\ x.kind = "tool"
<1>1. /\ x \in disk /\ x.dir = what.dir /\ x.kind = what.kind /\ x.item = what.item
      /\ x.version = what.version \/ what.dir[1] \notin SideBySide
  BY DEF Overwritten
<1>2. IsItem(x)
  BY <1>1 DEF ItemsInv
<1>3. x = Installation(x.dir, x.kind, x.item, x.version) /\ what = Installation(what.dir, what.kind, what.item, what.version)
  BY <1>2 DEF IsItem
<1>4. x.version # what.version
  BY <1>1, <1>3
<1>5. x.kind = "tool" /\ what.kind = "tool"
  BY <1>1, <1>2, <1>4 DEF IsItem
<1>6. Asked(x) /\ Asked(what)
  BY <1>2, <1>5 DEF IsItem
<1>7. Rivalled(x)
  BY <1>1, <1>4, <1>5, <1>6, RivalsAsk
<1>8. Rivalled(what)
  BY <1>1, <1>4, <1>5, <1>6, RivalsAsk
<1> QED
  BY <1>5, <1>7, <1>8

(* The directory of a Corepack has no other name. *)
LEMMA CorepackNamedOnce == ASSUME NEW dir, NEW v, IsCorepack(dir, v) PROVE NamedOnce(dir)
<1>1. PICK spec : dir = <<"node-corepack", v, spec>>
  BY DEF IsCorepack
<1>2. Len(dir) = 3 /\ \A name : Len(Dir(name)) = 2
  BY <1>1 DEF Dir
<1> QED
  BY <1>2 DEF NamedOnce

(* What an installer leaves is nobody else's to install just then, and what it
   takes away has a rival. *)
LEMMA ChildDoneKeeps ==
  ASSUME ToolchainsInv, NEW c \in children, ChildDone(c)
  PROVE  ToolchainsInv'
<1>1. /\ disk' = (disk \ Overwritten(c.what)) \cup {c.what} /\ children' = children \ {c}
      /\ plan' = plan /\ tcs' = tcs /\ held' = held /\ ended' = ended
  BY DEF ChildDone
<1>2. IsItem(c.what) /\ c = [by |-> c.by, what |-> c.what]
  BY DEF ToolchainsInv, ItemsInv, ChildrenInv
<1>3. ContextsInv'
  BY <1>1 DEF ToolchainsInv, ContextsInv, T
<1>4. LocksInv'
  BY <1>1 DEF ToolchainsInv, LocksInv, HoldsIts, Holds, Locking, T
<1>5. \A x \in disk : x \in disk' \/ (Rivalled(x) /\ x.kind = "tool")
  <2> SUFFICES ASSUME NEW x \in disk, x \notin disk' PROVE Rivalled(x) /\ x.kind = "tool"
    OBVIOUS
  <2>1. x \in Overwritten(c.what) /\ x # c.what
    BY <1>1
  <2> QED
    BY <1>2, <2>1, RivalsOverwritten DEF ToolchainsInv
<1>6. FoundInv'
  <2>1. ASSUME NEW b, NEW j, NEW x, Got(b, j, x) PROVE Got(b, j, x)'
    <3>1. CASE [by |-> <<b, j>>, what |-> x] = c
      <4>1. x = c.what
        BY <3>1
      <4> QED
        BY <1>1, <4>1 DEF Got
    <3>2. CASE [by |-> <<b, j>>, what |-> x] # c
      BY <1>1, <1>5, <2>1, <3>2 DEF Got
    <3> QED
      BY <3>1, <3>2
  <2>2. ASSUME NEW b \in Alphas, NEW j \in DOMAIN tcs[b] PROVE Found(b, j)'
    <3>1. Found(b, j) /\ T(b, j)' = T(b, j)
      BY <1>1 DEF ToolchainsInv, FoundInv, T
    <3> QED
      BY <2>1, <3>1, FoundStays
  <2> QED
    BY <1>1, <2>2 DEF FoundInv
<1>7. ItemsInv'
  <2>1. ASSUME NEW x, IsItem(x) PROVE IsItem(x)'
    <3>1. x.kind = "shims" => Installation(x.dir, "corepack", x.item, x.version) \in disk'
      <4> DEFINE y == Installation(x.dir, "corepack", x.item, x.version)
      <4>1. y.kind = "corepack"
        BY DEF Installation
      <4>2. x.kind = "shims" => y \in disk
        BY <2>1 DEF IsItem
      <4> HIDE DEF y
      <4>3. x.kind = "shims" => y \in disk'
        BY <1>5, <4>1, <4>2
      <4> QED
        BY <4>3 DEF y
    <3> QED
      BY <2>1, <3>1 DEF IsItem
  <2> QED
    BY <1>1, <1>2, <2>1 DEF ToolchainsInv, ItemsInv
<1>8. ChildrenInv'
  <2>1. \A d \in children : \A b \in Alphas : \A j \in DOMAIN tcs[b] : WorksFor(d, b, j) => WorksFor(d, b, j)'
    BY <1>1 DEF WorksFor, T
  <2> QED
    BY <1>1, <2>1 DEF ToolchainsInv, ChildrenInv
<1>9. FreshInv'
  <2> SUFFICES ASSUME ended = {} PROVE FreshInv'
    BY <1>1 DEF FreshInv
  <2>1. ASSUME NEW d \in children', NamedOnce(d.what.dir), d.what.kind # "corepack"
        PROVE  d.what \notin disk'
    <3>1. d \in children /\ d # c /\ d.by # Gone /\ c.by # Gone /\ d.what \notin disk
      BY <1>1, <2>1 DEF ToolchainsInv, FreshInv
    <3>2. d.what.dir # c.what.dir
      BY <2>1, <3>1, DirsApart DEF OneInstaller
    <3> QED
      BY <1>1, <3>1, <3>2
  <2>2. ASSUME NEW b \in Alphas, NEW j \in DOMAIN tcs[b], T(b, j).at = "enable",
               NEW s \in CorepackOf(T(b, j).now, "shims")
        PROVE  s \notin disk'
    <3>1. s \notin disk
      BY <2>2 DEF ToolchainsInv, FreshInv
    <3>2. s # c.what
      <4> SUFFICES ASSUME s = c.what PROVE FALSE
        OBVIOUS
      <4>1. Bare(s, "shims") /\ IsCorepack(s.dir, T(b, j).now[2])
        BY CorepackItem
      <4>2. c.by # Gone /\ c.what.kind = "shims" /\ NamedOnce(c.what.dir)
        BY <4>1, CorepackNamedOnce DEF Bare, ToolchainsInv, FreshInv
      <4>3. PICK a \in Alphas : \E i \in DOMAIN tcs[a] : WorksFor(c, a, i)
        BY <4>2 DEF ToolchainsInv, ChildrenInv
      <4>4. PICK i \in DOMAIN tcs[a] : WorksFor(c, a, i)
        BY <4>3
      <4>5. \E h \in held : OfContext(h, b, j) /\ Covers(h[1], s.dir)
        BY <2>2, AtCorepack DEF Corepacking
      <4>6. a = b /\ i = j
        BY <4>2, <4>4, <4>5, OneContextEach DEF ToolchainsInv, OfContext
      <4> QED
        BY <2>2, <4>2, <4>4, <4>6 DEF WorksFor
    <3> QED
      BY <1>1, <3>1, <3>2
  <2>3. \A d \in children' : d.by # Gone
    BY <1>1 DEF ToolchainsInv, FreshInv
  <2>4. \A b \in Alphas : \A j \in DOMAIN tcs[b] :
          T(b, j).at = "enable" => \A s \in CorepackOf(T(b, j).now, "shims") : s \notin disk'
    BY <2>2
  <2>5. \A b \in Alphas : \A j \in DOMAIN tcs'[b] : T(b, j)' = T(b, j) /\ j \in DOMAIN tcs[b]
    BY <1>1 DEF T
  <2> QED
    BY <2>1, <2>3, <2>4, <2>5 DEF FreshInv
<1> QED
  BY <1>3, <1>4, <1>6, <1>7, <1>8, <1>9 DEF ToolchainsInv

LEMMA ChildFailsKeeps ==
  ASSUME ToolchainsInv, NEW c \in children, ChildFails(c)
  PROVE  ToolchainsInv'
<1>1. children' = children \ {c} /\ plan' = plan /\ disk' = disk /\ ended' = ended
  BY DEF ChildFails
<1>2. ItemsInv'
  BY <1>1 DEF ToolchainsInv, ItemsInv, IsItem
<1>3. CASE c.by = Gone
  <2>1. tcs' = tcs /\ held' = held
    BY <1>3 DEF ChildFails
  <2>2. ContextsInv'
    BY <1>1, <2>1 DEF ToolchainsInv, ContextsInv, T
  <2>3. LocksInv'
    BY <2>1 DEF ToolchainsInv, LocksInv, HoldsIts, Holds, Locking, T
  <2>4. FoundInv'
    <3>1. ASSUME NEW b, NEW j, NEW x, Got(b, j, x) PROVE Got(b, j, x)'
      <4>1. [by |-> <<b, j>>, what |-> x] # c
        BY <1>3 DEF Gone
      <4> QED
        BY <1>1, <3>1, <4>1 DEF Got
    <3>2. ASSUME NEW b \in Alphas, NEW j \in DOMAIN tcs[b] PROVE Found(b, j)'
      <4>1. Found(b, j) /\ T(b, j)' = T(b, j)
        BY <2>1 DEF ToolchainsInv, FoundInv, T
      <4> QED
        BY <3>1, <4>1, FoundStays
    <3> QED
      BY <2>1, <3>2 DEF FoundInv
  <2>5. ChildrenInv'
    <3>1. \A d \in children : \A b \in Alphas : \A j \in DOMAIN tcs[b] : WorksFor(d, b, j) => WorksFor(d, b, j)'
      BY <2>1 DEF WorksFor, T
    <3> QED
      BY <1>1, <2>1, <3>1 DEF ToolchainsInv, ChildrenInv
  <2>6. FreshInv'
    BY <1>1, <1>3 DEF ToolchainsInv, FreshInv
  <2> QED
    BY <1>2, <2>2, <2>3, <2>4, <2>5, <2>6 DEF ToolchainsInv
<1>4. CASE c.by # Gone
  <2>1. PICK al \in Alphas : \E i \in DOMAIN tcs[al] : WorksFor(c, al, i)
    BY <1>4 DEF ToolchainsInv, ChildrenInv
  <2>2. PICK i \in DOMAIN tcs[al] : WorksFor(c, al, i)
    BY <2>1
  <2>3. Go(al, i, "failed") /\ Release(al, i)
    BY <1>4, <2>2 DEF ChildFails, WorksFor
  <2>4. Becomes(al, i, "failed", T(al, i).left, T(al, i).now)
    BY <2>3, Advances DEF Go, ToolchainsInv
  <2>5. T(al, i)'.at = "failed" /\ "failed" \notin {"cargo", "built"} \cup Locked
    BY <2>4, Fields DEF Locked, Corepacking
  <2>6. held' = {h \in held : ~OfContext(h, al, i)}
    BY <2>3 DEF Release, OfContext
  <2>7. ContextsInv'
    BY <1>1, <2>4, <2>5, ContextsKept DEF ToolchainsInv, Locked
  <2>8. LocksInv'
    <3>1. HoldsIts(al, i)'
      BY <2>5 DEF HoldsIts
    <3>2. \A g, h \in held' : g[1] = h[1] => g = h
      BY <2>6 DEF ToolchainsInv, LocksInv
    <3> QED
      BY <2>4, <2>6, <3>1, <3>2, LocksKept DEF ToolchainsInv
  <2>9. ASSUME NEW b \in Alphas, NEW j \in DOMAIN tcs[b], b # al \/ j # i PROVE Found(b, j)'
    <3>1. ASSUME NEW x, Got(b, j, x) PROVE Got(b, j, x)'
      <4>1. [by |-> <<b, j>>, what |-> x] # c
        BY <2>2, <2>9 DEF WorksFor
      <4> QED
        BY <1>1, <3>1, <4>1 DEF Got
    <3>2. Found(b, j) /\ T(b, j)' = T(b, j)
      BY <2>4, <2>9 DEF ToolchainsInv, FoundInv, T, Becomes
    <3> QED
      BY <3>1, <3>2, FoundStays
  <2>10. FoundInv'
    <3>1. Found(al, i)'
      BY <2>5, FailedFound
    <3> QED
      BY <2>4, <2>9, <3>1 DEF FoundInv, Becomes
  <2>11. ChildrenInv'
    <3>1. ASSUME NEW d \in children', d.by # Gone
          PROVE  \E b \in Alphas : \E j \in DOMAIN tcs'[b] : WorksFor(d, b, j)'
      <4>1. PICK b \in Alphas : \E j \in DOMAIN tcs[b] : WorksFor(d, b, j)
        BY <1>1, <3>1 DEF ToolchainsInv, ChildrenInv
      <4>2. PICK j \in DOMAIN tcs[b] : WorksFor(d, b, j)
        BY <4>1
      <4>3. b # al \/ j # i
        BY <1>1, <1>4, <2>2, <3>1, <4>2 DEF WorksFor, ToolchainsInv, ChildrenInv
      <4>4. DOMAIN tcs'[b] = DOMAIN tcs[b] /\ T(b, j)' = T(b, j)
        BY <2>4, <4>3 DEF Becomes, T
      <4>5. PICK h \in held : h[2] = b /\ h[3] = j /\ Covers(h[1], d.what.dir)
        BY <4>2 DEF WorksFor
      <4>6. h \in held'
        BY <2>6, <4>3, <4>5 DEF OfContext
      <4>7. WorksFor(d, b, j)'
        BY <4>2, <4>4, <4>5, <4>6 DEF WorksFor
      <4> QED
        BY <4>4, <4>7
    <3> QED
      BY <1>1, <3>1 DEF ToolchainsInv, ChildrenInv
  <2>12. FreshInv'
    <3>1. ASSUME ended = {}, NEW b \in Alphas, NEW j \in DOMAIN tcs'[b], T(b, j)'.at = "enable"
          PROVE  \A s \in CorepackOf(T(b, j)'.now, "shims") : s \notin disk
      <4>1. b # al \/ j # i
        BY <2>5, <3>1
      <4>2. j \in DOMAIN tcs[b] /\ T(b, j)' = T(b, j)
        BY <2>4, <4>1 DEF Becomes, T
      <4> QED
        BY <3>1, <4>2 DEF ToolchainsInv, FreshInv
    <3> QED
      BY <1>1, <3>1 DEF ToolchainsInv, FreshInv
  <2> QED
    BY <1>2, <2>7, <2>8, <2>10, <2>11, <2>12 DEF ToolchainsInv
<1> QED
  BY <1>3, <1>4

(* An alpha that ends takes its locks with it and leaves its installers. *)
LEMMA EndsKeeps ==
  ASSUME ToolchainsInv, NEW al \in Alphas, Ends(al)
  PROVE  ToolchainsInv'
<1> DEFINE Left(c) == IF c.by # Gone /\ c.by[1] = al THEN [c EXCEPT !.by = Gone] ELSE c
<1>1. /\ plan' = [plan EXCEPT ![al] = NoPlan] /\ tcs' = [tcs EXCEPT ![al] = <<>>]
      /\ held' = {h \in held : h[2] # al} /\ children' = {Left(c) : c \in children}
      /\ disk' = disk /\ ended' # {}
  BY DEF Ends
<1>2. tcs' = [b \in Alphas |-> tcs'[b]] /\ DOMAIN tcs'[al] = {} /\ \A b \in Alphas \ {al} : tcs'[b] = tcs[b]
  BY <1>1 DEF ToolchainsInv, ContextsInv
<1>3. ContextsInv'
  BY <1>1, <1>2 DEF ToolchainsInv, ContextsInv, T
<1>4. LocksInv'
  <2>1. ASSUME NEW b \in Alphas, NEW j \in DOMAIN tcs'[b] PROVE HoldsIts(b, j)'
    <3>1. b # al /\ tcs'[b] = tcs[b]
      BY <1>2, <2>1
    <3>2. T(b, j)' = T(b, j) /\ HoldsIts(b, j)
      BY <2>1, <3>1 DEF T, ToolchainsInv, LocksInv
    <3>3. \A name : Holds(b, j, name) => Holds(b, j, name)'
      BY <1>1, <3>1 DEF Holds
    <3> QED
      BY <3>2, <3>3 DEF HoldsIts
  <2>2. ASSUME NEW h \in held'
        PROVE  /\ h = <<h[1], h[2], h[3]>> /\ h[2] \in Alphas /\ h[3] \in DOMAIN tcs'[h[2]]
               /\ Locking(h[2], h[3], h[1])'
    <3>1. h \in held /\ h[2] # al
      BY <1>1
    <3>2. /\ h = <<h[1], h[2], h[3]>> /\ h[2] \in Alphas /\ h[3] \in DOMAIN tcs[h[2]]
          /\ Locking(h[2], h[3], h[1])
      BY <3>1 DEF ToolchainsInv, LocksInv
    <3>3. tcs'[h[2]] = tcs[h[2]]
      BY <1>2, <3>1, <3>2
    <3> QED
      BY <3>2, <3>3 DEF Locking, T
  <2>3. \A g, h \in held' : g[1] = h[1] => g = h
    BY <1>1 DEF ToolchainsInv, LocksInv
  <2> QED
    BY <2>1, <2>2, <2>3 DEF LocksInv
<1>5. ASSUME NEW c \in children
      PROVE  /\ Left(c) = [by |-> Left(c).by, what |-> Left(c).what] /\ Left(c).what = c.what
             /\ Left(c).by # Gone => Left(c) = c /\ \E b \in Alphas : \E j \in DOMAIN tcs'[b] : WorksFor(c, b, j)'
  <2>1. c = [by |-> c.by, what |-> c.what]
    BY DEF ToolchainsInv, ChildrenInv
  <2>2. CASE c.by = Gone
    BY <2>1, <2>2
  <2>3. CASE c.by # Gone
    <3>1. PICK b \in Alphas : \E j \in DOMAIN tcs[b] : WorksFor(c, b, j)
      BY <2>3 DEF ToolchainsInv, ChildrenInv
    <3>2. PICK j \in DOMAIN tcs[b] : WorksFor(c, b, j)
      BY <3>1
    <3>3. CASE b = al
      <4>1. Left(c) = [by |-> Gone, what |-> c.what]
        BY <2>1, <2>3, <3>2, <3>3 DEF WorksFor
      <4> QED
        BY <4>1
    <3>4. CASE b # al
      <4>1. Left(c) = c
        BY <3>2, <3>4 DEF WorksFor
      <4>2. WorksFor(c, b, j)'
        BY <1>1, <1>2, <3>2, <3>4 DEF WorksFor, T
      <4> QED
        BY <1>2, <2>1, <3>4, <4>1, <4>2
    <3> QED
      BY <3>3, <3>4
  <2> QED
    BY <2>2, <2>3
<1>6. ASSUME NEW b \in Alphas, b # al, NEW j, NEW x, [by |-> <<b, j>>, what |-> x] \in children
      PROVE  [by |-> <<b, j>>, what |-> x] \in children'
  <2> DEFINE c == [by |-> <<b, j>>, what |-> x]
  <2>1. Left(c) = c
    BY <1>6
  <2> HIDE DEF Left
  <2> QED
    BY <1>1, <1>6, <2>1
<1> HIDE DEF Left
<1>7. ChildrenInv'
  <2>1. \A c \in children' : c = [by |-> c.by, what |-> c.what]
    BY <1>1, <1>5
  <2>2. \A c \in children' : c.by = Gone \/ \E b \in Alphas : \E j \in DOMAIN tcs'[b] : WorksFor(c, b, j)'
    BY <1>1, <1>5
  <2>3. \A c, d \in children' : c.by = d.by /\ c.by # Gone => c = d
    BY <1>1, <1>5 DEF ToolchainsInv, ChildrenInv
  <2> QED
    BY <2>1, <2>2, <2>3 DEF ChildrenInv
<1>8. ItemsInv'
  <2>1. \A x : IsItem(x) => IsItem(x)'
    BY <1>1 DEF IsItem
  <2>2. \A c \in children' : \E d \in children : c.what = d.what
    BY <1>1, <1>5
  <2> QED
    BY <1>1, <2>1, <2>2 DEF ToolchainsInv, ItemsInv
<1>9. FoundInv'
  <2>1. ASSUME NEW b \in Alphas, NEW j \in DOMAIN tcs'[b] PROVE Found(b, j)'
    <3>1. b # al /\ tcs'[b] = tcs[b]
      BY <1>2, <2>1
    <3>2. Found(b, j) /\ T(b, j)' = T(b, j)
      BY <2>1, <3>1 DEF ToolchainsInv, FoundInv, T
    <3>3. \A x : Got(b, j, x) => Got(b, j, x)'
      BY <1>1, <1>6, <3>1 DEF Got
    <3> QED
      BY <3>2, <3>3, FoundStays
  <2> QED
    BY <2>1 DEF FoundInv
<1>10. FreshInv'
  BY <1>1 DEF FreshInv
<1> QED
  BY <1>3, <1>4, <1>7, <1>8, <1>9, <1>10 DEF ToolchainsInv

(* A configure finds an alpha without contexts and makes those of its plan. *)
LEMMA ConfigureKeeps ==
  ASSUME ToolchainsAssumption, ToolchainsInv, NEW al \in Alphas, Configure(al)
  PROVE  ToolchainsInv'
<1>1. PICK p \in Plans :
        plan' = [plan EXCEPT ![al] = p] /\ tcs' = [tcs EXCEPT ![al] = SetToSeq(Contexts(p))]
  BY DEF Configure
<1>2. DOMAIN tcs[al] = {} /\ held' = held /\ children' = children /\ disk' = disk /\ ended' = ended
  BY DEF Configure, ToolchainsInv, ContextsInv
<1>3. tcs'[al] = SetToSeq(Contexts(p)) /\ \A i \in DOMAIN tcs'[al] : tcs'[al][i] \in Contexts(p)
  <2>1. tcs'[al] = SetToSeq(Contexts(p))
    BY <1>1 DEF ToolchainsInv, ContextsInv
  <2>2. IsFiniteSet(Contexts(p))
    BY FewContexts
  <2> QED
    BY <2>1, <2>2, SeqOfSet
<1>4. \A i \in DOMAIN tcs'[al] :
        ContextOf(tcs'[al][i], p) /\ tcs'[al][i].at = "mise" /\ tcs'[al][i].left = DOMAIN tcs'[al][i].tools
  BY <1>3, NewContext
<1>5. tcs' = [b \in Alphas |-> tcs'[b]] /\ \A b \in Alphas \ {al} : tcs'[b] = tcs[b]
  BY <1>1 DEF ToolchainsInv, ContextsInv
<1>6. p = NoPlan => DOMAIN tcs'[al] = {}
  <2>1. p = NoPlan => Contexts(p) = {}
    BY DEF NoPlan, Contexts, PinnedToolchains, Packages
  <2> QED
    BY <1>3, <2>1
<1>7. ContextsInv'
  <2>1. plan' \in [Alphas -> Plans \cup {NoPlan}] /\ plan'[al] = p /\ \A b \in Alphas \ {al} : plan'[b] = plan[b]
    BY <1>1 DEF ToolchainsInv, ContextsInv
  <2>2. ASSUME NEW b \in Alphas, NEW i \in DOMAIN tcs'[b] PROVE ContextOf(T(b, i)', plan'[b])
    <3>1. CASE b = al
      BY <1>4, <2>1, <3>1 DEF T
    <3>2. CASE b # al
      BY <1>5, <2>1, <3>2 DEF ToolchainsInv, ContextsInv, T
    <3> QED
      BY <3>1, <3>2
  <2>3. \A b \in Alphas : plan'[b] = NoPlan => DOMAIN tcs'[b] = {}
    BY <1>5, <1>6, <2>1 DEF ToolchainsInv, ContextsInv
  <2> QED
    BY <1>5, <2>1, <2>2, <2>3 DEF ContextsInv
<1>8. \A b \in Alphas : \A j \in DOMAIN tcs[b] : DOMAIN tcs'[b] = DOMAIN tcs[b] /\ T(b, j)' = T(b, j)
  BY <1>2, <1>5 DEF T
<1>9. \A j \in DOMAIN tcs'[al] : T(al, j)'.at = "mise" /\ T(al, j)'.left = DOMAIN T(al, j)'.tools
  BY <1>4 DEF T
<1>10. FoundInv'
  <2>1. ASSUME NEW j \in DOMAIN tcs'[al] PROVE Found(al, j)'
    BY <1>9 DEF Found, FoundLanguage, FoundPool, Corepacking
  <2>2. ASSUME NEW b \in Alphas \ {al}, NEW j \in DOMAIN tcs'[b] PROVE Found(b, j)'
    <3>1. Found(b, j) /\ T(b, j)' = T(b, j)
      BY <1>5, <2>2 DEF ToolchainsInv, FoundInv, T
    <3>2. \A x : Got(b, j, x) => Got(b, j, x)'
      BY <1>2, GotStays
    <3> QED
      BY <3>1, <3>2, FoundStays
  <2> QED
    BY <2>1, <2>2 DEF FoundInv
<1>11. LocksInv'
  <2>1. \A b \in Alphas : \A j \in DOMAIN tcs'[b] : HoldsIts(b, j)'
    <3>1. \A j \in DOMAIN tcs'[al] : HoldsIts(al, j)'
      BY <1>9 DEF HoldsIts, Locked, Corepacking
    <3>2. ASSUME NEW b \in Alphas \ {al}, NEW j \in DOMAIN tcs'[b] PROVE HoldsIts(b, j)'
      <4>1. T(b, j)' = T(b, j) /\ HoldsIts(b, j)
        BY <1>5, <3>2 DEF T, ToolchainsInv, LocksInv
      <4>2. \A name : Holds(b, j, name)' = Holds(b, j, name)
        BY <1>2 DEF Holds
      <4> QED
        BY <4>1, <4>2 DEF HoldsIts
    <3> QED
      BY <3>1, <3>2
  <2>2. ASSUME NEW h \in held PROVE h[3] \in DOMAIN tcs'[h[2]] /\ Locking(h[2], h[3], h[1])'
    <3>1. h[2] \in Alphas /\ h[3] \in DOMAIN tcs[h[2]] /\ Locking(h[2], h[3], h[1])
      BY DEF ToolchainsInv, LocksInv
    <3>2. DOMAIN tcs'[h[2]] = DOMAIN tcs[h[2]] /\ T(h[2], h[3])' = T(h[2], h[3])
      BY <1>8, <3>1
    <3> QED
      BY <3>1, <3>2 DEF Locking
  <2> QED
    BY <1>2, <2>1, <2>2 DEF ToolchainsInv, LocksInv
<1>12. ChildrenInv' /\ ItemsInv'
  <2>1. \A c \in children : \A b \in Alphas : \A j \in DOMAIN tcs[b] : WorksFor(c, b, j) => WorksFor(c, b, j)'
    BY <1>2, <1>8 DEF WorksFor
  <2>2. ChildrenInv'
    BY <1>2, <1>8, <2>1 DEF ToolchainsInv, ChildrenInv
  <2> QED
    BY <1>2, <2>2 DEF ToolchainsInv, ItemsInv, IsItem
<1>13. FreshInv'
  <2>1. ASSUME ended = {}, NEW b \in Alphas, NEW j \in DOMAIN tcs'[b], T(b, j)'.at = "enable"
        PROVE  \A s \in CorepackOf(T(b, j)'.now, "shims") : s \notin disk
    <3>1. b # al
      BY <1>9, <2>1
    <3>2. j \in DOMAIN tcs[b] /\ T(b, j)' = T(b, j)
      BY <1>5, <2>1, <3>1 DEF T
    <3> QED
      BY <2>1, <3>2 DEF ToolchainsInv, FreshInv
  <2> QED
    BY <1>2, <2>1 DEF ToolchainsInv, FreshInv
<1> QED
  BY <1>7, <1>10, <1>11, <1>12, <1>13 DEF ToolchainsInv

-----------------------------------------------------------------------------
LEMMA ToolchainsInvInit == ToolchainsInit => ToolchainsInv
<1> SUFFICES ASSUME ToolchainsInit PROVE ToolchainsInv
  OBVIOUS
<1>1. \A al \in Alphas : DOMAIN tcs[al] = {}
  BY DEF ToolchainsInit
<1> QED
  BY <1>1 DEF ToolchainsInit, ToolchainsInv, ContextsInv, FoundInv, ItemsInv, LocksInv, ChildrenInv, FreshInv

LEMMA ToolchainsStutter == ToolchainsInv /\ UNCHANGED toolchainVars => ToolchainsInv'
<1> SUFFICES ASSUME ToolchainsInv, UNCHANGED toolchainVars PROVE ToolchainsInv'
  OBVIOUS
<1>1. /\ plan' = plan /\ tcs' = tcs /\ held' = held /\ children' = children /\ disk' = disk /\ ended' = ended
  BY DEF toolchainVars
<1>2. ContextsInv' /\ LocksInv' /\ ItemsInv'
  BY <1>1 DEF ToolchainsInv, ContextsInv, LocksInv, HoldsIts, Holds, Locking, T, ItemsInv, IsItem
<1>3. FoundInv'
  <2>1. ASSUME NEW b \in Alphas, NEW j \in DOMAIN tcs[b] PROVE Found(b, j)'
    <3>1. Found(b, j) /\ T(b, j)' = T(b, j)
      BY <1>1 DEF ToolchainsInv, FoundInv, T
    <3>2. \A x : Got(b, j, x) => Got(b, j, x)'
      BY <1>1, GotStays
    <3> QED
      BY <3>1, <3>2, FoundStays
  <2> QED
    BY <1>1, <2>1 DEF FoundInv
<1>4. ChildrenInv' /\ FreshInv'
  <2>1. \A c \in children : \A b \in Alphas : \A j \in DOMAIN tcs[b] : WorksFor(c, b, j) => WorksFor(c, b, j)'
    BY <1>1 DEF WorksFor, T
  <2> QED
    BY <1>1, <2>1 DEF ToolchainsInv, ChildrenInv, FreshInv, T
<1> QED
  BY <1>2, <1>3, <1>4 DEF ToolchainsInv

(* The invariant is inductive. *)
LEMMA ToolchainsStep ==
  ToolchainsAssumption /\ ToolchainsInv /\ [ToolchainsNext]_toolchainVars => ToolchainsInv'
<1> SUFFICES ASSUME ToolchainsAssumption, ToolchainsInv, [ToolchainsNext]_toolchainVars PROVE ToolchainsInv'
  OBVIOUS
<1>1. CASE UNCHANGED toolchainVars
  BY <1>1, ToolchainsStutter
<1>2. ASSUME NEW al \in Alphas, Configure(al) \/ Ends(al) PROVE ToolchainsInv'
  BY <1>2, ConfigureKeeps, EndsKeeps
<1>3. ASSUME NEW al \in Alphas, NEW i \in DOMAIN tcs[al], BringupToolchain(al, i) PROVE ToolchainsInv'
  <2>1. \/ FindMise(al, i) \/ NoCargo(al, i) \/ LockMise(al, i) \/ CargoInstall(al, i) \/ Built(al, i)
        \/ LockTool(al, i) \/ InstallRuntime(al, i) \/ EnsureTool(al, i) \/ Installed(al, i)
        \/ Corepack(al, i) \/ CorepackEnable(al, i) \/ Enabled(al, i) \/ Refused(al, i)
    BY <1>3 DEF BringupToolchain
  <2> QED
    BY <2>1, EnsureMise, LockToolKeeps, InstallRuntimeKeeps, EnsureToolKeeps, InstalledKeeps,
       CorepackKeeps, CorepackEnableKeeps, EnabledKeeps, RefusedKeeps
<1>4. ASSUME NEW c \in children, ChildDone(c) \/ ChildFails(c) PROVE ToolchainsInv'
  BY <1>4, ChildDoneKeeps, ChildFailsKeeps
<1> QED
  BY <1>1, <1>2, <1>3, <1>4 DEF ToolchainsNext

LEMMA ToolchainsInvariant == ToolchainsAssumption => (ToolchainsSpec => []ToolchainsInv)
<1> SUFFICES ASSUME ToolchainsAssumption PROVE ToolchainsSpec => []ToolchainsInv
  OBVIOUS
<1>1. ToolchainsInv /\ [ToolchainsNext]_toolchainVars => ToolchainsInv'
  BY ToolchainsStep
<1> QED
  BY <1>1, ToolchainsInvInit, PTL DEF ToolchainsSpec

(* mise.go:17: installs are serialized by a file lock; of the alphas that are
   there, no two install into one directory that the host knows by one name
   (the lock is of the name and the version as they are pinned, main.go:741). *)
THEOREM InstallersApart == ToolchainsAssumption => (ToolchainsSpec => []OneInstaller)
  BY ToolchainsInvariant, DirsApart, PTL

(* mise.go:282: a tool that is present at its version is skipped; what is
   rewritten until an alpha ends in an install is a tool of which the host
   asks for another version in the same runtime, and nothing else. *)
THEOREM NobodyRewrites == ToolchainsAssumption => (ToolchainsSpec => []NothingRewritten)
<1>1. ToolchainsInv => NothingRewritten
  <2> SUFFICES ASSUME ToolchainsInv, ended = {}, NEW c \in children, NamedOnce(c.what.dir),
                      NEW x \in Overwritten(c.what), InUse(x)
               PROVE  x # c.what /\ Rivalled(c.what)
    BY DEF NothingRewritten
  <2>1. x \in disk /\ IsItem(c.what)
    BY DEF Overwritten, ToolchainsInv, ItemsInv
  <2>2. x # c.what
    <3> SUFFICES ASSUME x = c.what PROVE FALSE
      OBVIOUS
    <3>1. c.by # Gone /\ c.what.kind = "corepack"
      BY <2>1 DEF ToolchainsInv, FreshInv
    <3>2. PICK a \in Alphas : \E i \in DOMAIN tcs[a] : WorksFor(c, a, i)
      BY <3>1 DEF ToolchainsInv, ChildrenInv
    <3>3. PICK i \in DOMAIN tcs[a] : WorksFor(c, a, i)
      BY <3>2
    <3>4. T(a, i).at = "enable" /\ x \in CorepackOf(T(a, i).now, "corepack")
      BY <3>1, <3>3 DEF WorksFor
    <3> DEFINE s == Installation(x.dir, "shims", x.item, x.version)
    <3>5. s \in CorepackOf(T(a, i).now, "shims")
      <4>1. \E y : y \in CorepackOf(T(a, i).now, "shims")
        BY <3>4 DEF CorepackOf
      <4>2. PICK y : y \in CorepackOf(T(a, i).now, "shims")
        BY <4>1
      <4>3. y.dir = x.dir
        BY <3>4, <4>2, OneCorepack
      <4>4. Bare(x, "corepack") /\ Bare(y, "shims")
        BY <3>4, <4>2, CorepackItem
      <4>5. y = s
        BY <4>3, <4>4 DEF Bare
      <4> QED
        BY <4>2, <4>5
    <3>6. s \in disk
      BY <3>1 DEF InUse
    <3> QED
      BY <3>3, <3>4, <3>5, <3>6 DEF ToolchainsInv, FreshInv, WorksFor
  <2> QED
    BY <2>1, <2>2, RivalsOverwritten DEF ToolchainsInv
<1> QED
  BY <1>1, ToolchainsInvariant, PTL

(* pinnedToolchains: one context speaks for every key of an identity, and is
   ready only with what each of them asked for, in the versions it asked for
   unless another pin of the host has a tool in another version there. *)
THEOREM ReadyIsProvided == ToolchainsAssumption => (ToolchainsSpec => []ReadyHasItsPins)
<1>1. ToolchainsInv => ReadyHasItsPins
  <2> SUFFICES ASSUME ToolchainsInv, NEW al \in Alphas, NEW key \in DOMAIN plan[al].pins,
                      NEW i \in DOMAIN tcs[al], key \in T(al, i).keys, T(al, i).kind # "package",
                      T(al, i).at = "ready"
               PROVE  Provided(plan[al].pins[key])
    BY DEF ReadyHasItsPins, Serves, T
  <2> DEFINE pin == plan[al].pins[key]
             name == <<pin.lang, pin.version>>
  <2>1. ContextOf(T(al, i), plan[al]) /\ Found(al, i) /\ Idle(al, i)
    BY IdleElsewhere DEF ToolchainsInv, ContextsInv, FoundInv
  <2>2. /\ pin.lang = T(al, i).lang /\ pin.version = T(al, i).version /\ pin.tools = T(al, i).tools
        /\ T(al, i).kind = "pool" <=> pin.version = <<>>
    BY <2>1 DEF ContextOf, SpeaksFor
  <2>3. ASSUME NEW x, Got(al, i, x) PROVE x \in disk \/ (Rivalled(x) /\ x.kind = "tool")
    <3>1. [by |-> <<al, i>>, what |-> x] \notin children
      BY <2>1 DEF Idle
    <3>2. Rivalled(x) => x.kind = "tool"
      BY DEF Rivalled
    <3> QED
      BY <2>3, <3>1, <3>2 DEF Got
  <2>4. \A n : Runtime(n).kind # "tool"
    BY DEF Runtime, Installation
  <2> HIDE DEF pin
  <2>5. ASSUME pin.version = <<>> PROVE Provided(pin)
    <3>1. FoundPool(al, i)
      BY <2>1, <2>2, <2>5 DEF Found
    <3>2. \A t \in DOMAIN pin.tools : Got(al, i, Runtime(<<t, pin.tools[t]>>))
      BY <2>2, <3>1 DEF FoundPool
    <3> QED
      BY <2>3, <2>4, <2>5, <3>2 DEF Provided
  <2>6. ASSUME pin.version # <<>> PROVE Provided(pin)
    <3>1. T(al, i).kind = "language" /\ T(al, i).now = name
      BY <2>1, <2>2, <2>6 DEF ContextOf
    <3>2. FoundLanguage(al, i)
      BY <2>1, <3>1 DEF Found
    <3>3. Runtime(name) \in disk
      BY <2>3, <2>4, <3>1, <3>2 DEF FoundLanguage
    <3>4. \A t \in DOMAIN pin.tools : Tool(name, t, pin.tools[t]) \in disk \/ Rivalled(Tool(name, t, pin.tools[t]))
      BY <2>2, <2>3, <3>1, <3>2 DEF FoundLanguage
    <3>5. ASSUME pin.lang = "nodejs", NEW kind \in {"corepack", "shims"}
          PROVE  \E x \in CorepackOf(name, kind) : x \in disk
      <4>1. GotCorepack(al, i, kind)
        BY <2>2, <3>2, <3>5 DEF FoundLanguage
      <4>2. PICK x \in CorepackOf(name, kind) : Got(al, i, x)
        BY <3>1, <4>1 DEF GotCorepack
      <4>3. x.kind = kind
        BY <4>2, CorepackItem DEF Bare
      <4> QED
        BY <2>3, <4>2, <4>3
    <3>6. pin.lang = "nodejs" =>
            \E c \in CorepackOf(name, "corepack"), s \in CorepackOf(name, "shims") : {c, s} \subseteq disk
      <4> SUFFICES ASSUME pin.lang = "nodejs"
                   PROVE  \E c \in CorepackOf(name, "corepack"), s \in CorepackOf(name, "shims") : {c, s} \subseteq disk
        OBVIOUS
      <4>1. PICK c \in CorepackOf(name, "corepack") : c \in disk
        BY <3>5
      <4>2. PICK s \in CorepackOf(name, "shims") : s \in disk
        BY <3>5
      <4>3. {c, s} \subseteq disk
        BY <4>1, <4>2
      <4> QED
        BY <4>1, <4>2, <4>3
    <3> QED
      BY <2>6, <3>3, <3>4, <3>6 DEF Provided, name
  <2> QED
    BY <2>5, <2>6 DEF pin
<1> QED
  BY <1>1, ToolchainsInvariant, PTL
==============================================================================
