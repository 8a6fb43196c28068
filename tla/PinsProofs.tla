------------------------------ MODULE PinsProofs ------------------------------
(***************************************************************************)
(* zordon.lock under any number of processes, for any tree of imports, any *)
(* sources to follow and any refs upstream.                                *)
(***************************************************************************)
EXTENDS Pins, SequenceTheorems, WellFoundedInduction, TLAPS

Works(z) == proc[z].doing \in {"load", "pin"}
Update(z) == proc[z].task.update

(* A process at work is whole, and knows what it was asked. *)
WorkTyped(z) ==
  LET w == proc[z] IN
    /\ w = [doing |-> w.doing, task |-> w.task, repos |-> w.repos, sources |-> w.sources, used |-> w.used,
            dirty |-> w.dirty, fresh |-> w.fresh, refs |-> w.refs, got |-> w.got]
    /\ w.task \in IF w.doing = "load" THEN Loads ELSE Pinnings
    /\ w.got \in Seq(Range(w.got))

(* What it remembers of the file is what the file says, or it may change it;
   and a memory that was not touched is the file. *)
SameAs(f, g) == DOMAIN f = DOMAIN g /\ \A k \in DOMAIN f : f[k] = g[k]
Remembers(z) ==
  /\ \A k \in DOMAIN file.repos :
       k \in DOMAIN proc[z].repos /\ (proc[z].repos[k] = file.repos[k] \/ MayMove(z, k))
  /\ \A k \in DOMAIN file.sources :
       /\ k \in DOMAIN proc[z].sources
       /\ proc[z].sources[k] = file.sources[k] \/ (Does(z, "pin") /\ proc[z].task.pull)
  /\ ~proc[z].dirty => SameAs(proc[z].repos, file.repos) /\ SameAs(proc[z].sources, file.sources)

(* What an import was read at is still in memory, under a key of its own
   repository, and is not asked of the network again. *)
FetchedInv(z, g) ==
  LET k == Pin(g.key, g.ref) IN
    /\ k \in proc[z].used /\ k \in DOMAIN proc[z].repos /\ proc[z].repos[k] = g.commit
    /\ Head(g.key) = g.repo
    /\ {g.key, <<g.repo>>} \cap Update(z) # {} => <<g.repo, g.ref>> \in DOMAIN proc[z].fresh
SearchedInv(z, g) == \A k \in DOMAIN file.repos : k.key \in {g.key, <<g.repo>>} => k \in proc[z].used
LoadInv(z) ==
  \A n \in DOMAIN proc[z].got :
    LET g == proc[z].got[n] IN
      (g.how = Fetched => FetchedInv(z, g)) /\ (g.how = Searched => SearchedInv(z, g))

(* A source is pinned at what the memory says of it. *)
PinInv(z) ==
  \A n \in DOMAIN proc[z].got :
    LET k == proc[z].task.follows[n] IN
      k \in DOMAIN proc[z].sources /\ proc[z].sources[k] = proc[z].got[n]

WorkInv(z) ==
  /\ keychain = z
  /\ WorkTyped(z) /\ Remembers(z)
  /\ Does(z, "load") => LoadInv(z)
  /\ Does(z, "pin") => PinInv(z)
ProcsTyped ==
  /\ DOMAIN proc = Zordons
  /\ \A z \in Zordons : proc[z].doing \in {"nothing", "load", "pin"} \cup Ended
  /\ \A z \in Zordons : Does(z, "nothing") => proc[z] = [doing |-> "nothing"]
PinsInv == ProcsTyped /\ \A z \in Zordons : Works(z) => WorkInv(z)

(* A set of naturals that is not empty has a least member. *)
LEMMA LeastOf ==
  ASSUME NEW T, T \subseteq Nat, T # {}
  PROVE  \E x \in T : \A y \in T : x <= y
<1>1. PICK x \in T : \A y \in T : <<y, x>> \notin OpToRel(<, Nat)
  BY WFMin, NatLessThanWellFounded, Zenon
<1>2. \A y \in T : ~(y < x)  BY <1>1, Zenon DEF OpToRel
<1>3. \A y \in T : y \in Nat /\ x \in Nat  OBVIOUS
<1> QED  BY <1>2, <1>3

(* Min and Max of the community modules are of the set, where it is bounded. *)
LEMMA MinIn ==
  ASSUME NEW T, T \subseteq Nat, T # {}
  PROVE  Min(T) \in T
BY LeastOf DEF Min
LEMMA MaxIn ==
  ASSUME NEW n \in Nat, NEW T, T \subseteq 1..n, T # {}
  PROVE  Max(T) \in T
<1> DEFINE D == {n - x : x \in T}
<1>1. D \subseteq Nat /\ D # {}
  <2>1. ASSUME NEW x \in T PROVE n - x \in Nat
    <3>1. x \in 1..n  OBVIOUS
    <3> QED  BY <3>1
  <2> QED  BY <2>1
<1>2. PICK d \in D : \A e \in D : d <= e
  <2> HIDE DEF D
  <2> QED  BY <1>1, LeastOf
<1>3. PICK x \in T : d = n - x  OBVIOUS
<1>4. \A y \in T : x >= y
  <2> SUFFICES ASSUME NEW y \in T PROVE x >= y
    OBVIOUS
  <2>1. d <= n - y  BY <1>2
  <2>2. x \in 1..n /\ y \in 1..n  OBVIOUS
  <2> QED  BY <1>3, <2>1, <2>2
<1> QED  BY <1>4 DEF Max

(* A result put at the end. *)
LEMMA GotMore ==
  ASSUME NEW s, s \in Seq(Range(s)), NEW g
  PROVE  /\ Append(s, g) \in Seq(Range(Append(s, g)))
         /\ DOMAIN s = 1..Len(s) /\ Len(s) \in Nat
         /\ DOMAIN Append(s, g) = 1..(Len(s) + 1) /\ Len(Append(s, g)) = Len(s) + 1
         /\ Append(s, g)[Len(s) + 1] = g /\ \A n \in DOMAIN s : Append(s, g)[n] = s[n]
<1> DEFINE S == Range(s) \cup {g}
           t == Append(s, g)
<1>1. s \in Seq(S) /\ g \in S  BY SeqMonotonic
<1> HIDE DEF S
<1>2. /\ t \in Seq(S) /\ Len(t) = Len(s) + 1
      /\ \A n \in 1..Len(s) : t[n] = s[n]
      /\ t[Len(s) + 1] = g
  BY <1>1, AppendProperties
<1> HIDE DEF t
<1>3. DOMAIN s = 1..Len(s) /\ Len(s) \in Nat /\ DOMAIN t = 1..Len(t) /\ Len(t) \in Nat /\ t \in [1..Len(t) -> S]
  BY <1>1, <1>2, LenProperties
<1>4. t \in [1..Len(t) -> Range(t)]  BY <1>3 DEF Range
<1>5. t \in Seq(Range(t))  BY <1>3, <1>4, SeqDef
<1> QED  BY <1>2, <1>3, <1>5 DEF t

(* A key that is required is of the repository its import names. *)
LEMMA MatchIsPrefix ==
  ASSUME NEW id, id \in Seq(Range(id)), id # <<>>, NEW reqs, MatchRequire(reqs, id) # NoKey
  PROVE  MatchRequire(reqs, id) \in DOMAIN reqs /\ Head(MatchRequire(reqs, id)) = Head(id)
<1> DEFINE known == {n \in 1..Len(id) : SubSeq(id, 1, n) \in DOMAIN reqs}
<1>1. known # {} /\ MatchRequire(reqs, id) = SubSeq(id, 1, Max(known))  BY DEF MatchRequire
<1>2. Len(id) \in Nat  BY LenProperties
<1>3. Max(known) \in known
  <2>1. known \subseteq 1..Len(id)  OBVIOUS
  <2> HIDE DEF known
  <2> QED  BY <1>1, <1>2, <2>1, MaxIn
<1>4. Max(known) \in 1..Len(id) /\ SubSeq(id, 1, Max(known)) \in DOMAIN reqs  BY <1>3
<1> HIDE DEF known
<1>5. 1 \in 1..Len(id) /\ Max(known) \in 1..Len(id) /\ 1 \in 1..1 /\ Max(known) \in Int /\ 1 <= Max(known)
  BY <1>2, <1>4
<1>6. Head(SubSeq(id, 1, Max(known))) = id[1]  BY <1>5, HeadTailOfSubSeq
<1> QED  BY <1>1, <1>4, <1>6

(* The import a load is at: it came after the import that fetched it. *)
LEMMA ImportTyped ==
  ASSUME PinsAssumption, NEW z \in Zordons, Importing(z), WorkTyped(z)
  PROVE  /\ Import(z).from \in 0..Len(proc[z].got)
         /\ Import(z).id \in Seq(Range(Import(z).id)) /\ Import(z).id # <<>>
<1> DEFINE n == 1 + Len(proc[z].got)
           l == proc[z].task
<1>1. l \in Loads  BY DEF WorkTyped, Importing, Does
<1>2. Len(proc[z].got) \in Nat  BY LenProperties DEF WorkTyped
<1>3. n \in 1..Len(l.imports)  BY <1>2 DEF Importing
<1>4. l.imports[n].from \in 0..(n - 1) /\ l.imports[n].id \in Seq(Range(l.imports[n].id)) \ {<<>>}
  BY <1>1, <1>3 DEF PinsAssumption
<1>5. n - 1 = Len(proc[z].got)  BY <1>2
<1> QED  BY <1>4, <1>5 DEF Import

(* What a load wants of the network is under a key of the import's
   repository, so the update of either asks for the pin anew. *)
LEMMA WantedOfRepo ==
  ASSUME PinsAssumption, NEW z \in Zordons, Remote(z), WorkTyped(z)
  PROVE  Head(WantedPin(z).key) = Repo(z)
<1>1. Import(z).id \in Seq(Range(Import(z).id)) /\ Import(z).id # <<>>  BY ImportTyped DEF Remote
<1>2. OwnReq(z) # NoKey => Head(OwnReq(z)) = Repo(z)
  <2>1. OwnReq(z) = MatchRequire(proc[z].task.requires[Import(z).scope], Import(z).id)  BY DEF OwnReq
  <2> QED  BY <1>1, <2>1, MatchIsPrefix DEF Repo
<1>3. Entrys(z) # NoKey => Head(Entrys(z)) = Repo(z)
  <2>1. Entrys(z) = MatchRequire(EntryReqs(z), Import(z).id)  BY DEF Entrys
  <2> QED  BY <1>1, <2>1, MatchIsPrefix DEF Repo
<1>4. Required(z) # NoKey /\ Head(Required(z)) = Repo(z)  BY <1>2, <1>3 DEF Required, Remote
<1> QED  BY <1>3, <1>4 DEF WantedPin, EntryWins, Pin

-----------------------------------------------------------------------------
(* One process works at a time: the rest of what it knows is its own. *)

(* The pins lock is one process's. *)
LEMMA WorksAlone ==
  ASSUME PinsInv, NEW z \in Zordons, Works(z), NEW y \in Zordons, Works(y)
  PROVE  y = z
BY DEF PinsInv, WorkInv

(* A process gets on with its work, and nobody else's is touched. *)
LEMMA WorkGoesOn ==
  ASSUME PinsInv, NEW z \in Zordons, Works(z),
         DOMAIN proc' = Zordons, \A y \in Zordons \ {z} : proc'[y] = proc[y],
         UNCHANGED <<file, keychain>>, proc'[z].doing = proc[z].doing,
         WorkTyped(z)', Remembers(z)', Does(z, "load") => LoadInv(z)', Does(z, "pin") => PinInv(z)'
  PROVE  PinsInv'
<1>1. keychain' = z  BY DEF PinsInv, WorkInv
<1>2. WorkInv(z)'  BY <1>1 DEF WorkInv, Does
<1>3. ProcsTyped'  BY DEF PinsInv, ProcsTyped, Works, Does
<1>4. ASSUME NEW y \in Zordons, Works(y)' PROVE WorkInv(y)'
  <2>1. CASE y = z  BY <1>2, <2>1
  <2>2. CASE y # z
    <3>1. Works(y)  BY <1>4, <2>2 DEF Works
    <3> QED  BY <2>2, <3>1, WorksAlone
  <2> QED  BY <2>1, <2>2
<1> QED  BY <1>3, <1>4 DEF PinsInv

(* A process whose load or pinning is over has nothing to remember, whatever
   it leaves in the file. *)
LEMMA WorkEnds ==
  ASSUME PinsInv, NEW z \in Zordons, Works(z), NEW outcome \in Ended, End(z, outcome)
  PROVE  PinsInv'
<1>1. DOMAIN proc = Zordons  BY DEF PinsInv, ProcsTyped
<1>2. WorkTyped(z)  BY DEF PinsInv, WorkInv
<1>3. /\ DOMAIN proc' = Zordons /\ proc'[z] = [proc[z] EXCEPT !.doing = outcome]
      /\ \A y \in Zordons \ {z} : proc'[y] = proc[y]
  BY <1>1 DEF End
<1>4. proc'[z].doing = outcome  BY <1>2, <1>3 DEF WorkTyped
<1>5. ProcsTyped'  BY <1>3, <1>4 DEF PinsInv, ProcsTyped, Does, Ended
<1>6. ASSUME NEW y \in Zordons, Works(y)' PROVE FALSE
  <2>1. y # z  BY <1>4, <1>6 DEF Works, Ended
  <2>2. Works(y)  BY <1>3, <1>6, <2>1 DEF Works
  <2> QED  BY <2>1, <2>2, WorksAlone
<1> QED  BY <1>5, <1>6 DEF PinsInv

(* lockPins: what is remembered at first is what the file says. *)
LEMMA BeginKeeps ==
  ASSUME PinsAssumption, PinsInv, NEW z \in Zordons, StartLoad(z) \/ StartPinning(z)
  PROVE  PinsInv'
<1>0. PICK doing \in {"load", "pin"} :
        \E task \in IF doing = "load" THEN Loads ELSE Pinnings : Begin(z, doing, task)
  BY DEF StartLoad, StartPinning
<1>1. PICK task \in IF doing = "load" THEN Loads ELSE Pinnings : Begin(z, doing, task)
  BY <1>0
<1>2. DOMAIN proc = Zordons  BY DEF PinsInv, ProcsTyped
<1>3. /\ DOMAIN proc' = Zordons /\ proc'[z] = Memory(doing, task)
      /\ \A y \in Zordons \ {z} : proc'[y] = proc[y]
      /\ keychain' = z /\ keychain = Nobody /\ file' = file
  BY <1>1, <1>2 DEF Begin, PinsFree
<1>4. /\ proc'[z].doing = doing /\ proc'[z].task = task /\ proc'[z].repos = file.repos
      /\ proc'[z].sources = file.sources /\ proc'[z].dirty = FALSE /\ proc'[z].got = <<>>
  BY <1>3 DEF Memory
<1>5. \A y \in Zordons : ~Works(y)  BY <1>3 DEF PinsInv, WorkInv, PinsAssumption
<1>6. proc'[z].got \in Seq(Range(proc'[z].got)) /\ DOMAIN proc'[z].got = {}
  <2>1. <<>> \in Seq(Range(<<>>)) /\ Len(<<>>) = 0  BY EmptySeq
  <2>2. DOMAIN <<>> = 1..0
    <3>1. DOMAIN <<>> = 1..Len(<<>>)  BY <2>1, LenProperties
    <3> QED  BY <2>1, <3>1
  <2>3. 1..0 = {}  OBVIOUS
  <2> QED  BY <1>4, <2>1, <2>2, <2>3
<1>7. WorkTyped(z)'
  <2>1. proc'[z].task \in IF proc'[z].doing = "load" THEN Loads ELSE Pinnings  BY <1>4
  <2> QED  BY <1>3, <1>4, <1>6, <2>1 DEF WorkTyped, Memory
<1>8. Remembers(z)'  BY <1>3, <1>4 DEF Remembers, SameAs
<1>9. WorkInv(z)'  BY <1>3, <1>6, <1>7, <1>8 DEF WorkInv, LoadInv, PinInv
<1>10. ProcsTyped'  BY <1>1, <1>3, <1>4 DEF PinsInv, ProcsTyped, Does
<1>11. ASSUME NEW y \in Zordons, y # z PROVE ~Works(y)'
  BY <1>3, <1>5, <1>11 DEF Works
<1> QED  BY <1>9, <1>10, <1>11 DEF PinsInv

-----------------------------------------------------------------------------
(* A load. *)

(* A load gets one more result: what it read before is remembered as it was. *)
LEMMA LoadGoesOn ==
  ASSUME PinsInv, NEW z \in Zordons, Does(z, "load"), NEW g,
         DOMAIN proc' = Zordons, \A y \in Zordons \ {z} : proc'[y] = proc[y],
         UNCHANGED <<file, keychain>>, WorkTyped(z)',
         proc'[z].doing = proc[z].doing, proc'[z].task = proc[z].task,
         proc'[z].got = Append(proc[z].got, g),
         proc[z].used \subseteq proc'[z].used,
         DOMAIN proc[z].fresh \subseteq DOMAIN proc'[z].fresh,
         \A n \in DOMAIN proc[z].got :
           LET k == Pin(proc[z].got[n].key, proc[z].got[n].ref) IN
             proc[z].got[n].how = Fetched =>
               k \in DOMAIN proc'[z].repos /\ proc'[z].repos[k] = proc[z].repos[k],
         Remembers(z)',
         g.how = Fetched => FetchedInv(z, g)', g.how = Searched => SearchedInv(z, g)'
  PROVE  PinsInv'
<1>1. Works(z) /\ WorkInv(z) /\ ~Does(z, "pin")  BY DEF PinsInv, Works, Does
<1>2. proc[z].got \in Seq(Range(proc[z].got)) /\ LoadInv(z)  BY <1>1 DEF WorkInv, WorkTyped
<1>3. /\ DOMAIN proc[z].got = 1..Len(proc[z].got) /\ Len(proc[z].got) \in Nat
      /\ DOMAIN proc'[z].got = 1..(Len(proc[z].got) + 1)
      /\ proc'[z].got[Len(proc[z].got) + 1] = g
      /\ \A n \in DOMAIN proc[z].got : proc'[z].got[n] = proc[z].got[n]
  BY <1>2, GotMore
<1>4. ASSUME NEW n \in DOMAIN proc'[z].got, NEW r, r = proc'[z].got[n]
      PROVE  (r.how = Fetched => FetchedInv(z, r)') /\ (r.how = Searched => SearchedInv(z, r)')
  <2>1. CASE n \in DOMAIN proc[z].got
    <3>1. r = proc[z].got[n]  BY <1>3, <1>4, <2>1
    <3>2. r.how = Fetched => FetchedInv(z, r)  BY <1>2, <2>1, <3>1 DEF LoadInv
    <3>3. r.how = Fetched => FetchedInv(z, r)'
      BY <2>1, <3>1, <3>2 DEF FetchedInv, Update
    <3>4. r.how = Searched => SearchedInv(z, r)'
      BY <1>2, <2>1, <3>1 DEF LoadInv, SearchedInv
    <3> QED  BY <3>3, <3>4
  <2>2. CASE n = Len(proc[z].got) + 1
    <3>1. r = g  BY <1>3, <1>4, <2>2
    <3> QED  BY <3>1
  <2> QED  BY <1>3, <2>1, <2>2
<1>5. LoadInv(z)'  BY <1>4 DEF LoadInv, FetchedInv, SearchedInv, Update
<1> QED  BY <1>1, <1>5, WorkGoesOn

(* A process whose memory of the file stays remembers it still. *)
LEMMA RemembersStill ==
  ASSUME NEW z \in Zordons, Remembers(z), file' = file,
         proc'[z].doing = proc[z].doing, proc'[z].task = proc[z].task,
         proc'[z].repos = proc[z].repos, proc'[z].sources = proc[z].sources,
         proc'[z].dirty = proc[z].dirty
  PROVE  Remembers(z)'
BY DEF Remembers, SameAs, MayMove, Does

(* An import of the importer's own checkout is read where that was. *)
LEMMA ResolveSameKeeps ==
  ASSUME PinsAssumption, PinsInv, NEW z \in Zordons, ResolveSame(z)
  PROVE  PinsInv'
<1>1. PICK g : g = Importer(z)  OBVIOUS
<1>2. Works(z) /\ Does(z, "load") /\ Importing(z)  BY DEF ResolveSame, Importing, Works, Does
<1>3. WorkInv(z) /\ WorkTyped(z) /\ LoadInv(z) /\ DOMAIN proc = Zordons
  BY <1>2 DEF PinsInv, WorkInv, ProcsTyped
<1>4. proc[z].got \in Seq(Range(proc[z].got))  BY <1>3 DEF WorkTyped
<1>5. g.how = Fetched /\ Import(z).from # 0
  BY <1>1 DEF ResolveSame, FromImporter, SameCheckout, Importer, PinsAssumption
<1>6. Import(z).from \in DOMAIN proc[z].got /\ g = proc[z].got[Import(z).from]
  <2>1. Import(z).from \in 0..Len(proc[z].got) /\ Len(proc[z].got) \in Nat
    BY <1>2, <1>3, <1>4, ImportTyped, LenProperties
  <2>2. DOMAIN proc[z].got = 1..Len(proc[z].got)  BY <1>4, LenProperties
  <2>3. Import(z).from \in 1..Len(proc[z].got)  BY <1>5, <2>1
  <2> QED  BY <1>1, <1>5, <2>2, <2>3 DEF Importer
<1>7. /\ DOMAIN proc' = Zordons /\ \A y \in Zordons \ {z} : proc'[y] = proc[y]
      /\ proc'[z] = [proc[z] EXCEPT !.got = Append(proc[z].got, g)]
  BY <1>1, <1>3 DEF ResolveSame, Got
<1>8. /\ proc'[z].doing = proc[z].doing /\ proc'[z].task = proc[z].task /\ proc'[z].repos = proc[z].repos
      /\ proc'[z].sources = proc[z].sources /\ proc'[z].used = proc[z].used
      /\ proc'[z].dirty = proc[z].dirty /\ proc'[z].fresh = proc[z].fresh
      /\ proc'[z].got = Append(proc[z].got, g)
      /\ proc'[z] = [doing |-> proc'[z].doing, task |-> proc'[z].task, repos |-> proc'[z].repos,
                     sources |-> proc'[z].sources, used |-> proc'[z].used, dirty |-> proc'[z].dirty,
                     fresh |-> proc'[z].fresh, refs |-> proc'[z].refs, got |-> proc'[z].got]
  BY <1>3, <1>7 DEF WorkTyped
<1>9. WorkTyped(z)'
  <2>1. Append(proc[z].got, g) \in Seq(Range(Append(proc[z].got, g)))  BY <1>4, GotMore
  <2> QED  BY <1>3, <1>8, <2>1 DEF WorkTyped
<1>10. UNCHANGED <<file, keychain>>  BY DEF ResolveSame
<1>11. Remembers(z)'  BY <1>3, <1>8, <1>10, RemembersStill DEF WorkInv
<1>12. FetchedInv(z, g)  BY <1>3, <1>5, <1>6 DEF LoadInv
<1>13. FetchedInv(z, g)'  BY <1>8, <1>12 DEF FetchedInv, Update
<1>14. \A n \in DOMAIN proc[z].got :
         LET k == Pin(proc[z].got[n].key, proc[z].got[n].ref) IN
           proc[z].got[n].how = Fetched =>
             k \in DOMAIN proc'[z].repos /\ proc'[z].repos[k] = proc[z].repos[k]
  BY <1>3, <1>8 DEF LoadInv, FetchedInv
<1> QED
  BY <1>2, <1>5, <1>7, <1>8, <1>9, <1>10, <1>11, <1>13, <1>14, LoadGoesOn DEF PinsAssumption

(* A workspace stands in for what the file pins: those pins are in use. *)
LEMMA ResolveSearchedKeeps ==
  ASSUME PinsAssumption, PinsInv, NEW z \in Zordons, ResolveSearched(z)
  PROVE  PinsInv'
<1>1. PICK g : g = [how |-> Searched, repo |-> Head(Import(z).id), key |-> Required(z)]  OBVIOUS
<1>2. Works(z) /\ Does(z, "load")  BY DEF ResolveSearched, Remote, Importing, Works, Does
<1>3. WorkInv(z) /\ WorkTyped(z) /\ LoadInv(z) /\ DOMAIN proc = Zordons
  BY <1>2 DEF PinsInv, WorkInv, ProcsTyped
<1>4. proc[z].got \in Seq(Range(proc[z].got))  BY <1>3 DEF WorkTyped
<1>5. /\ DOMAIN proc' = Zordons /\ \A y \in Zordons \ {z} : proc'[y] = proc[y]
      /\ proc'[z] = [proc[z] EXCEPT !.used = proc[z].used \cup StoodIn(z), !.got = Append(proc[z].got, g)]
  BY <1>1, <1>3 DEF ResolveSearched
<1>6. /\ proc'[z].doing = proc[z].doing /\ proc'[z].task = proc[z].task /\ proc'[z].repos = proc[z].repos
      /\ proc'[z].sources = proc[z].sources /\ proc'[z].used = proc[z].used \cup StoodIn(z)
      /\ proc'[z].dirty = proc[z].dirty /\ proc'[z].fresh = proc[z].fresh
      /\ proc'[z].got = Append(proc[z].got, g)
      /\ proc'[z] = [doing |-> proc'[z].doing, task |-> proc'[z].task, repos |-> proc'[z].repos,
                     sources |-> proc'[z].sources, used |-> proc'[z].used, dirty |-> proc'[z].dirty,
                     fresh |-> proc'[z].fresh, refs |-> proc'[z].refs, got |-> proc'[z].got]
  BY <1>3, <1>5 DEF WorkTyped
<1>7. WorkTyped(z)'
  <2>1. Append(proc[z].got, g) \in Seq(Range(Append(proc[z].got, g)))  BY <1>4, GotMore
  <2> QED  BY <1>3, <1>6, <2>1 DEF WorkTyped
<1>8. UNCHANGED <<file, keychain>>  BY DEF ResolveSearched
<1>9. Remembers(z)'  BY <1>3, <1>6, <1>8, RemembersStill DEF WorkInv
<1>10. SearchedInv(z, g)'
  <2>1. g.key = Required(z) /\ g.repo = Head(Import(z).id)  BY <1>1
  <2>2. DOMAIN file.repos \subseteq DOMAIN proc[z].repos  BY <1>3 DEF WorkInv, Remembers
  <2> QED  BY <1>6, <1>8, <2>1, <2>2 DEF SearchedInv, StoodIn
<1>11. \A n \in DOMAIN proc[z].got :
         LET k == Pin(proc[z].got[n].key, proc[z].got[n].ref) IN
           proc[z].got[n].how = Fetched =>
             k \in DOMAIN proc'[z].repos /\ proc'[z].repos[k] = proc[z].repos[k]
  BY <1>3, <1>6 DEF LoadInv, FetchedInv
<1>12. g.how # Fetched  BY <1>1 DEF PinsAssumption
<1>13. proc[z].used \subseteq proc'[z].used /\ DOMAIN proc[z].fresh \subseteq DOMAIN proc'[z].fresh
  BY <1>6
<1> QED
  BY <1>2, <1>5, <1>6, <1>7, <1>8, <1>9, <1>10, <1>11, <1>12, <1>13, LoadGoesOn

(* The pin the lock holds is what the import reads; the one asked for anew
   has been asked for by then. *)
LEMMA ResolveLockedKeeps ==
  ASSUME PinsAssumption, PinsInv, NEW z \in Zordons, ResolveLocked(z)
  PROVE  PinsInv'
<1>1. PICK g : g = Result(z, proc[z].repos[WantedPin(z)])  OBVIOUS
<1>2. Works(z) /\ Does(z, "load") /\ Remote(z)
  BY DEF ResolveLocked, Versioned, Remote, Importing, Works, Does
<1>3. WorkInv(z) /\ WorkTyped(z) /\ LoadInv(z) /\ DOMAIN proc = Zordons
  BY <1>2 DEF PinsInv, WorkInv, ProcsTyped
<1>4. proc[z].got \in Seq(Range(proc[z].got))  BY <1>3 DEF WorkTyped
<1>5. /\ DOMAIN proc' = Zordons /\ \A y \in Zordons \ {z} : proc'[y] = proc[y]
      /\ proc'[z] = [proc[z] EXCEPT !.used = proc[z].used \cup {WantedPin(z)}, !.refs = RefsNow(z),
                                    !.got = Append(proc[z].got, g)]
  BY <1>1, <1>3 DEF ResolveLocked
<1>6. /\ proc'[z].doing = proc[z].doing /\ proc'[z].task = proc[z].task /\ proc'[z].repos = proc[z].repos
      /\ proc'[z].sources = proc[z].sources /\ proc'[z].used = proc[z].used \cup {WantedPin(z)}
      /\ proc'[z].dirty = proc[z].dirty /\ proc'[z].fresh = proc[z].fresh
      /\ proc'[z].got = Append(proc[z].got, g)
      /\ proc'[z] = [doing |-> proc'[z].doing, task |-> proc'[z].task, repos |-> proc'[z].repos,
                     sources |-> proc'[z].sources, used |-> proc'[z].used, dirty |-> proc'[z].dirty,
                     fresh |-> proc'[z].fresh, refs |-> proc'[z].refs, got |-> proc'[z].got]
  BY <1>3, <1>5 DEF WorkTyped
<1>7. WorkTyped(z)'
  <2>1. Append(proc[z].got, g) \in Seq(Range(Append(proc[z].got, g)))  BY <1>4, GotMore
  <2> QED  BY <1>3, <1>6, <2>1 DEF WorkTyped
<1>8. UNCHANGED <<file, keychain>>  BY DEF ResolveLocked, Checkout
<1>9. Remembers(z)'  BY <1>3, <1>6, <1>8, RemembersStill DEF WorkInv
<1>10. /\ g.key = WantedPin(z).key /\ g.ref = WantedPin(z).ref /\ g.repo = Repo(z) /\ g.how = Fetched
       /\ g.commit = proc[z].repos[WantedPin(z)] /\ Pin(g.key, g.ref) = WantedPin(z)
  BY <1>1 DEF Result, WantedPin, Pin
<1>11. FetchedInv(z, g)'
  <2>1. Head(g.key) = g.repo  BY <1>2, <1>3, <1>10, WantedOfRepo
  <2>2. WantedPin(z) \in DOMAIN proc[z].repos
    BY DEF ResolveLocked, FromLock
  <2>3. {g.key, <<g.repo>>} \cap proc[z].task.update # {} => <<g.repo, g.ref>> \in DOMAIN proc[z].fresh
    BY <1>10 DEF ResolveLocked, FromLock, Updating, Fresh
  <2>4. PICK k : k = Pin(g.key, g.ref)  OBVIOUS
  <2>5. k \in proc'[z].used /\ k \in DOMAIN proc'[z].repos /\ proc'[z].repos[k] = g.commit
    BY <1>6, <1>10, <2>2, <2>4
  <2> QED  BY <1>6, <2>1, <2>3, <2>4, <2>5 DEF FetchedInv, Update
<1>12. \A n \in DOMAIN proc[z].got :
         LET k == Pin(proc[z].got[n].key, proc[z].got[n].ref) IN
           proc[z].got[n].how = Fetched =>
             k \in DOMAIN proc'[z].repos /\ proc'[z].repos[k] = proc[z].repos[k]
  BY <1>3, <1>6 DEF LoadInv, FetchedInv
<1>13. g.how # Searched  BY <1>10 DEF PinsAssumption
<1>14. proc[z].used \subseteq proc'[z].used /\ DOMAIN proc[z].fresh \subseteq DOMAIN proc'[z].fresh
  BY <1>6
<1> QED
  BY <1>2, <1>5, <1>6, <1>7, <1>8, <1>9, <1>11, <1>12, <1>13, <1>14, LoadGoesOn

(* The network is asked for what the lock does not hold, or is to be updated
   and was not asked for before: no import has read it otherwise. *)
LEMMA ResolveFetchedKeeps ==
  ASSUME PinsAssumption, PinsInv, NEW z \in Zordons, ResolveFetched(z)
  PROVE  PinsInv'
<1> DEFINE held(c) == WantedPin(z) \in DOMAIN proc[z].repos /\ proc[z].repos[WantedPin(z)] = c
<1>1. PICK c : proc' = [proc EXCEPT ![z].repos = Put(@, WantedPin(z), c),
                                    ![z].used = @ \cup {WantedPin(z)}, ![z].refs = RefsNow(z),
                                    ![z].fresh = Put(@, Fresh(z), c),
                                    ![z].dirty = @ \/ ~held(c),
                                    ![z].got = Append(@, Result(z, c))]
  BY DEF ResolveFetched
<1>2. PICK g : g = Result(z, c)  OBVIOUS
<1>3. Works(z) /\ Does(z, "load") /\ Remote(z)
  BY DEF ResolveFetched, Versioned, Remote, Importing, Works, Does
<1>4. WorkInv(z) /\ WorkTyped(z) /\ LoadInv(z) /\ Remembers(z) /\ DOMAIN proc = Zordons
  BY <1>3 DEF PinsInv, WorkInv, ProcsTyped
<1>5. proc[z].got \in Seq(Range(proc[z].got))  BY <1>4 DEF WorkTyped
<1>6. PICK d : d = (proc[z].dirty \/ ~held(c))  OBVIOUS
<1>7. /\ DOMAIN proc' = Zordons /\ \A y \in Zordons \ {z} : proc'[y] = proc[y]
      /\ proc'[z] = [proc[z] EXCEPT !.repos = Put(proc[z].repos, WantedPin(z), c),
                                    !.used = proc[z].used \cup {WantedPin(z)}, !.refs = RefsNow(z),
                                    !.fresh = Put(proc[z].fresh, Fresh(z), c), !.dirty = d,
                                    !.got = Append(proc[z].got, g)]
  <2> HIDE DEF held
  <2> QED  BY <1>1, <1>2, <1>4, <1>6
<1>8. /\ proc'[z].doing = proc[z].doing /\ proc'[z].task = proc[z].task
      /\ proc'[z].repos = Put(proc[z].repos, WantedPin(z), c)
      /\ proc'[z].sources = proc[z].sources /\ proc'[z].used = proc[z].used \cup {WantedPin(z)}
      /\ proc'[z].dirty = d /\ proc'[z].fresh = Put(proc[z].fresh, Fresh(z), c)
      /\ proc'[z].got = Append(proc[z].got, g)
      /\ proc'[z] = [doing |-> proc'[z].doing, task |-> proc'[z].task, repos |-> proc'[z].repos,
                     sources |-> proc'[z].sources, used |-> proc'[z].used, dirty |-> proc'[z].dirty,
                     fresh |-> proc'[z].fresh, refs |-> proc'[z].refs, got |-> proc'[z].got]
  BY <1>4, <1>7 DEF WorkTyped
<1>9. WorkTyped(z)'
  <2>1. Append(proc[z].got, g) \in Seq(Range(Append(proc[z].got, g)))  BY <1>5, GotMore
  <2> QED  BY <1>4, <1>8, <2>1 DEF WorkTyped
<1>10. UNCHANGED <<file, keychain>>  BY DEF ResolveFetched, Checkout
<1>11. /\ g.key = WantedPin(z).key /\ g.ref = WantedPin(z).ref /\ g.repo = Repo(z) /\ g.how = Fetched
       /\ g.commit = c /\ Pin(g.key, g.ref) = WantedPin(z) /\ Head(WantedPin(z).key) = Repo(z)
  BY <1>2, <1>3, <1>4, WantedOfRepo DEF Result, WantedPin, Pin
<1>12. WantedPin(z) \in DOMAIN proc[z].repos =>
         /\ {WantedPin(z).key, <<Repo(z)>>} \cap proc[z].task.update # {}
         /\ <<Repo(z), WantedPin(z).ref>> \notin DOMAIN proc[z].fresh
  BY DEF ResolveFetched, FromLock, Updating, Fresh
<1>13. /\ DOMAIN proc'[z].repos = DOMAIN proc[z].repos \cup {WantedPin(z)}
       /\ proc'[z].repos[WantedPin(z)] = c
       /\ \A k \in DOMAIN proc[z].repos : k # WantedPin(z) => proc'[z].repos[k] = proc[z].repos[k]
       /\ DOMAIN proc'[z].fresh = DOMAIN proc[z].fresh \cup {<<Repo(z), WantedPin(z).ref>>}
  <2>0. proc'[z].fresh = Put(proc[z].fresh, Fresh(z), c) /\ proc'[z].repos = Put(proc[z].repos, WantedPin(z), c)
    BY <1>8
  <2>1. DOMAIN proc'[z].fresh = DOMAIN proc[z].fresh \cup {Fresh(z)}
    BY <2>0 DEF Put
  <2>2. /\ DOMAIN proc'[z].repos = DOMAIN proc[z].repos \cup {WantedPin(z)}
        /\ proc'[z].repos[WantedPin(z)] = c
        /\ \A k \in DOMAIN proc[z].repos : k # WantedPin(z) => proc'[z].repos[k] = proc[z].repos[k]
    BY <2>0 DEF Put
  <2> QED  BY <2>1, <2>2 DEF Fresh
<1>14. Remembers(z)'
  <2>1. ASSUME NEW k \in DOMAIN file.repos
        PROVE  /\ k \in DOMAIN proc'[z].repos
               /\ proc'[z].repos[k] = file.repos[k] \/ MayMove(z, k)'
    <3>1. k \in DOMAIN proc[z].repos /\ (proc[z].repos[k] = file.repos[k] \/ MayMove(z, k))
      BY <1>4 DEF Remembers
    <3>2. MayMove(z, k) => MayMove(z, k)'  BY <1>8 DEF MayMove, Does
    <3>3. CASE k # WantedPin(z)  BY <1>13, <3>1, <3>2, <3>3
    <3>4. CASE k = WantedPin(z)
      <4>1. MayMove(z, k)  BY <1>3, <1>11, <1>12, <3>1, <3>4 DEF MayMove
      <4> QED  BY <1>13, <3>1, <3>2, <4>1
    <3> QED  BY <3>3, <3>4
  <2>2. ~d => SameAs(proc'[z].repos, proc[z].repos)
    BY <1>6, <1>13 DEF SameAs
  <2>3. ~d => ~proc[z].dirty  BY <1>6
  <2>4. ~d => SameAs(proc'[z].repos, file.repos) /\ SameAs(proc[z].sources, file.sources)
    BY <1>4, <2>2, <2>3 DEF SameAs, Remembers
  <2> HIDE DEF held
  <2> QED  BY <1>4, <1>8, <1>10, <2>1, <2>4 DEF Remembers, SameAs, Does
<1>15. FetchedInv(z, g)'
  <2>1. PICK k : k = Pin(g.key, g.ref)  OBVIOUS
  <2>2. k \in proc'[z].used /\ k \in DOMAIN proc'[z].repos /\ proc'[z].repos[k] = g.commit
    BY <1>8, <1>11, <1>13, <2>1
  <2>3. Head(g.key) = g.repo /\ <<g.repo, g.ref>> \in DOMAIN proc'[z].fresh  BY <1>11, <1>13
  <2> QED  BY <2>1, <2>2, <2>3 DEF FetchedInv
<1>16. ASSUME NEW n \in DOMAIN proc[z].got, NEW k, k = Pin(proc[z].got[n].key, proc[z].got[n].ref),
              proc[z].got[n].how = Fetched
       PROVE  k \in DOMAIN proc'[z].repos /\ proc'[z].repos[k] = proc[z].repos[k]
  <2>1. PICK r : r = proc[z].got[n]  OBVIOUS
  <2>2. FetchedInv(z, r)  BY <1>4, <1>16, <2>1 DEF LoadInv
  <2>3. k \in DOMAIN proc[z].repos /\ k.key = r.key /\ k.ref = r.ref
    BY <1>16, <2>1, <2>2 DEF FetchedInv, Pin
  <2>4. k # WantedPin(z)
    BY <1>11, <1>12, <2>2, <2>3 DEF FetchedInv, Update
  <2> QED  BY <1>13, <2>3, <2>4
<1>17. g.how # Searched  BY <1>11 DEF PinsAssumption
<1>18. proc[z].used \subseteq proc'[z].used /\ DOMAIN proc[z].fresh \subseteq DOMAIN proc'[z].fresh
  BY <1>8, <1>13
<1>19. \A n \in DOMAIN proc[z].got :
          LET k == Pin(proc[z].got[n].key, proc[z].got[n].ref) IN
            proc[z].got[n].how = Fetched =>
              k \in DOMAIN proc'[z].repos /\ proc'[z].repos[k] = proc[z].repos[k]
  BY <1>16
<1>20. /\ Does(z, "load") /\ DOMAIN proc' = Zordons /\ \A y \in Zordons \ {z} : proc'[y] = proc[y]
       /\ proc'[z].doing = proc[z].doing /\ proc'[z].task = proc[z].task
       /\ proc'[z].got = Append(proc[z].got, g)
  BY <1>3, <1>7, <1>8
<1> HIDE DEF held
<1> QED
  BY <1>9, <1>10, <1>14, <1>15, <1>17, <1>18, <1>19, <1>20, LoadGoesOn

-----------------------------------------------------------------------------
(* Sources that are followed. *)

(* The source followed next is the one after those that are pinned. *)
LEMMA FollowedIs ==
  ASSUME NEW z \in Zordons, WorkTyped(z)
  PROVE  /\ DOMAIN proc[z].got = 1..Len(proc[z].got) /\ Len(proc[z].got) \in Nat
         /\ Followed(z) = proc[z].task.follows[Len(proc[z].got) + 1]
<1>1. proc[z].got \in Seq(Range(proc[z].got))  BY DEF WorkTyped
<1>2. DOMAIN proc[z].got = 1..Len(proc[z].got) /\ Len(proc[z].got) \in Nat  BY <1>1, LenProperties
<1>3. 1 + Len(proc[z].got) = Len(proc[z].got) + 1  BY <1>2
<1> QED  BY <1>2, <1>3 DEF Followed

(* A pinning gets one more source: what was pinned before is remembered. *)
LEMMA PinningGoesOn ==
  ASSUME PinsInv, NEW z \in Zordons, Does(z, "pin"), NEW commit,
         DOMAIN proc' = Zordons, \A y \in Zordons \ {z} : proc'[y] = proc[y],
         UNCHANGED <<file, keychain>>, WorkTyped(z)',
         proc'[z].doing = proc[z].doing, proc'[z].task = proc[z].task,
         proc'[z].got = Append(proc[z].got, commit),
         \A n \in DOMAIN proc[z].got :
           LET k == proc[z].task.follows[n] IN
             k \in DOMAIN proc'[z].sources /\ proc'[z].sources[k] = proc[z].sources[k],
         Followed(z) \in DOMAIN proc'[z].sources, proc'[z].sources[Followed(z)] = commit,
         Remembers(z)'
  PROVE  PinsInv'
<1>1. Works(z) /\ WorkInv(z) /\ ~Does(z, "load")  BY DEF PinsInv, Works, Does
<1>2. proc[z].got \in Seq(Range(proc[z].got)) /\ PinInv(z) /\ WorkTyped(z)  BY <1>1 DEF WorkInv, WorkTyped
<1>3. /\ DOMAIN proc[z].got = 1..Len(proc[z].got) /\ Len(proc[z].got) \in Nat
      /\ DOMAIN proc'[z].got = 1..(Len(proc[z].got) + 1)
      /\ proc'[z].got[Len(proc[z].got) + 1] = commit
      /\ \A n \in DOMAIN proc[z].got : proc'[z].got[n] = proc[z].got[n]
  BY <1>2, GotMore
<1>4. ASSUME NEW n \in DOMAIN proc'[z].got, NEW k, k = proc[z].task.follows[n]
      PROVE  k \in DOMAIN proc'[z].sources /\ proc'[z].sources[k] = proc'[z].got[n]
  <2>1. CASE n \in DOMAIN proc[z].got
    BY <1>2, <1>3, <1>4, <2>1 DEF PinInv
  <2>2. CASE n = Len(proc[z].got) + 1
    BY <1>2, <1>3, <1>4, <2>2, FollowedIs
  <2> QED  BY <1>3, <2>1, <2>2
<1>5. PinInv(z)'  BY <1>4 DEF PinInv
<1> QED  BY <1>1, <1>5, WorkGoesOn

(* A source that is pinned is built at its pin, whoever follows it. *)
LEMMA PinKeptKeeps ==
  ASSUME PinsInv, NEW z \in Zordons, PinKept(z)
  PROVE  PinsInv'
<1>1. PICK c : c = IF Pinned(z) # {} THEN proc[z].got[Min(Pinned(z))] ELSE proc[z].sources[Followed(z)]
  OBVIOUS
<1>2. Works(z) /\ Does(z, "pin")  BY DEF PinKept, Sourcing, Works, Does
<1>3. WorkInv(z) /\ WorkTyped(z) /\ PinInv(z) /\ DOMAIN proc = Zordons
  BY <1>2 DEF PinsInv, WorkInv, ProcsTyped
<1>4. proc[z].got \in Seq(Range(proc[z].got))  BY <1>3 DEF WorkTyped
<1>5. /\ DOMAIN proc' = Zordons /\ \A y \in Zordons \ {z} : proc'[y] = proc[y]
      /\ proc'[z] = [proc[z] EXCEPT !.got = Append(proc[z].got, c)]
  BY <1>1, <1>3 DEF PinKept, Got
<1>6. /\ proc'[z].doing = proc[z].doing /\ proc'[z].task = proc[z].task /\ proc'[z].repos = proc[z].repos
      /\ proc'[z].sources = proc[z].sources /\ proc'[z].dirty = proc[z].dirty
      /\ proc'[z].got = Append(proc[z].got, c)
      /\ proc'[z] = [doing |-> proc'[z].doing, task |-> proc'[z].task, repos |-> proc'[z].repos,
                     sources |-> proc'[z].sources, used |-> proc'[z].used, dirty |-> proc'[z].dirty,
                     fresh |-> proc'[z].fresh, refs |-> proc'[z].refs, got |-> proc'[z].got]
  BY <1>3, <1>5 DEF WorkTyped
<1>7. WorkTyped(z)'
  <2>1. Append(proc[z].got, c) \in Seq(Range(Append(proc[z].got, c)))  BY <1>4, GotMore
  <2> QED  BY <1>3, <1>6, <2>1 DEF WorkTyped
<1>8. UNCHANGED <<file, keychain>>  BY DEF PinKept
<1>9. Remembers(z)'  BY <1>3, <1>6, <1>8, RemembersStill DEF WorkInv
<1>10. Followed(z) \in DOMAIN proc[z].sources /\ proc[z].sources[Followed(z)] = c
  <2>1. CASE Pinned(z) # {}
    <3>1. Pinned(z) \subseteq Nat  BY <1>3, FollowedIs DEF Pinned
    <3>2. Min(Pinned(z)) \in Pinned(z)  BY <2>1, <3>1, MinIn
    <3>3. PICK m \in DOMAIN proc[z].got : m = Min(Pinned(z)) /\ proc[z].task.follows[m] = Followed(z)
      BY <3>2 DEF Pinned
    <3> QED  BY <1>1, <1>3, <2>1, <3>3 DEF PinInv
  <2>2. CASE Pinned(z) = {}  BY <1>1, <2>2 DEF PinKept, Keeps, InLock
  <2> QED  BY <2>1, <2>2
<1>11. \A n \in DOMAIN proc[z].got :
         LET k == proc[z].task.follows[n] IN
           k \in DOMAIN proc'[z].sources /\ proc'[z].sources[k] = proc[z].sources[k]
  BY <1>3, <1>6 DEF PinInv
<1> QED
  BY <1>2, <1>5, <1>6, <1>7, <1>8, <1>9, <1>10, <1>11, PinningGoesOn

(* A pin is set when there is none, and moves only under a pull. *)
LEMMA PinMovedKeeps ==
  ASSUME PinsInv, NEW z \in Zordons, PinMoved(z)
  PROVE  PinsInv'
<1> DEFINE held(c) == InLock(z) /\ proc[z].sources[Followed(z)] = c
<1>1. PICK c : proc' = [proc EXCEPT ![z].got = Append(@, c), ![z].sources = Put(@, Followed(z), c),
                                    ![z].dirty = @ \/ ~held(c)]
  BY DEF PinMoved
<1>2. Works(z) /\ Does(z, "pin")  BY DEF PinMoved, Sourcing, Works, Does
<1>3. WorkInv(z) /\ WorkTyped(z) /\ PinInv(z) /\ Remembers(z) /\ DOMAIN proc = Zordons
  BY <1>2 DEF PinsInv, WorkInv, ProcsTyped
<1>4. proc[z].got \in Seq(Range(proc[z].got))  BY <1>3 DEF WorkTyped
<1>5. PICK d : d = (proc[z].dirty \/ ~held(c))  OBVIOUS
<1>6. /\ DOMAIN proc' = Zordons /\ \A y \in Zordons \ {z} : proc'[y] = proc[y]
      /\ proc'[z] = [proc[z] EXCEPT !.got = Append(proc[z].got, c),
                                    !.sources = Put(proc[z].sources, Followed(z), c), !.dirty = d]
  <2> HIDE DEF held
  <2> QED  BY <1>1, <1>3, <1>5
<1>7. /\ proc'[z].doing = proc[z].doing /\ proc'[z].task = proc[z].task /\ proc'[z].repos = proc[z].repos
      /\ proc'[z].sources = Put(proc[z].sources, Followed(z), c) /\ proc'[z].dirty = d
      /\ proc'[z].got = Append(proc[z].got, c)
      /\ proc'[z] = [doing |-> proc'[z].doing, task |-> proc'[z].task, repos |-> proc'[z].repos,
                     sources |-> proc'[z].sources, used |-> proc'[z].used, dirty |-> proc'[z].dirty,
                     fresh |-> proc'[z].fresh, refs |-> proc'[z].refs, got |-> proc'[z].got]
  BY <1>3, <1>6 DEF WorkTyped
<1>8. WorkTyped(z)'
  <2>1. Append(proc[z].got, c) \in Seq(Range(Append(proc[z].got, c)))  BY <1>4, GotMore
  <2> QED  BY <1>3, <1>7, <2>1 DEF WorkTyped
<1>9. UNCHANGED <<file, keychain>>  BY DEF PinMoved
<1>10. /\ DOMAIN proc'[z].sources = DOMAIN proc[z].sources \cup {Followed(z)}
       /\ proc'[z].sources[Followed(z)] = c
       /\ \A k \in DOMAIN proc[z].sources : k # Followed(z) => proc'[z].sources[k] = proc[z].sources[k]
  <2>1. proc'[z].sources = Put(proc[z].sources, Followed(z), c)  BY <1>7
  <2> QED  BY <2>1 DEF Put
<1>11. Pinned(z) = {} /\ (Followed(z) \in DOMAIN proc[z].sources => proc[z].task.pull)
  BY DEF PinMoved, Keeps, InLock
<1>12. Remembers(z)'
  <2>1. ASSUME NEW k \in DOMAIN file.repos
        PROVE  /\ k \in DOMAIN proc'[z].repos
               /\ proc'[z].repos[k] = file.repos[k] \/ MayMove(z, k)'
    BY <1>3, <1>7 DEF Remembers, MayMove, Does
  <2>2. ASSUME NEW k \in DOMAIN file.sources
        PROVE  /\ k \in DOMAIN proc'[z].sources
               /\ proc'[z].sources[k] = file.sources[k] \/ proc[z].task.pull
    BY <1>3, <1>10, <1>11 DEF Remembers
  <2>3. ~d => SameAs(proc'[z].sources, proc[z].sources)
    BY <1>5, <1>10 DEF SameAs, InLock
  <2>4. ~d => SameAs(proc'[z].sources, file.sources) /\ SameAs(proc[z].repos, file.repos)
    BY <1>3, <1>5, <2>3 DEF SameAs, Remembers
  <2> HIDE DEF held
  <2> QED  BY <1>2, <1>7, <1>9, <2>1, <2>2, <2>4 DEF Remembers, SameAs, Does
<1>13. ASSUME NEW n \in DOMAIN proc[z].got, NEW k, k = proc[z].task.follows[n]
       PROVE  k \in DOMAIN proc'[z].sources /\ proc'[z].sources[k] = proc[z].sources[k]
  <2>1. k # Followed(z)  BY <1>11, <1>13 DEF Pinned
  <2> QED  BY <1>3, <1>10, <1>13, <2>1 DEF PinInv
<1> QED
  BY <1>2, <1>6, <1>7, <1>8, <1>9, <1>10, <1>12, <1>13, PinningGoesOn

-----------------------------------------------------------------------------
(* The invariant. *)

(* Nobody works at the beginning. *)
LEMMA PinsInvInit ==
  ASSUME PinsInit
  PROVE  PinsInv
<1>1. DOMAIN proc = Zordons /\ \A z \in Zordons : proc[z] = [doing |-> "nothing"]  BY DEF PinsInit
<1>2. \A z \in Zordons : proc[z].doing = "nothing"  BY <1>1
<1> QED  BY <1>1, <1>2 DEF PinsInv, ProcsTyped, Works, Ended

(* Whatever fails, is killed or ends well leaves nothing behind it. *)
LEMMA EndsKeep ==
  ASSUME PinsInv, NEW z \in Zordons,
         \/ NotRequired(z) \/ SearchedTwice(z) \/ VersionsDiffer(z) \/ FetchFails(z) \/ LoadEnds(z)
         \/ TreeRefused(z) \/ PinFails(z) \/ PinningEnds(z) \/ ZordonKilled(z)
  PROVE  PinsInv'
<1>1. Works(z)
  BY DEF NotRequired, SearchedTwice, VersionsDiffer, FetchFails, LoadEnds, TreeRefused, PinFails,
         PinningEnds, ZordonKilled, Versioned, Remote, Importing, Sourcing, Does, Works
<1>2. \E outcome \in Ended : End(z, outcome)
  BY DEF NotRequired, SearchedTwice, VersionsDiffer, FetchFails, LoadEnds, TreeRefused, PinFails,
         PinningEnds, ZordonKilled, Fail, Ended
<1> QED  BY <1>1, <1>2, WorkEnds

(* Every step of every process keeps the invariant. *)
LEMMA PinsStep ==
  ASSUME PinsAssumption, PinsInv, [PinsNext]_pinVars
  PROVE  PinsInv'
<1>1. ASSUME NEW z \in Zordons, StartLoad(z) \/ StartPinning(z) PROVE PinsInv'
  BY <1>1, BeginKeeps
<1>2. ASSUME NEW z \in Zordons, Resolve(z) PROVE PinsInv'
  BY <1>2, ResolveSameKeeps, ResolveSearchedKeeps, ResolveLockedKeeps, ResolveFetchedKeeps, EndsKeep
  DEF Resolve
<1>3. ASSUME NEW z \in Zordons, Follow(z) PROVE PinsInv'
  BY <1>3, PinKeptKeeps, PinMovedKeeps, EndsKeep DEF Follow
<1>4. ASSUME NEW z \in Zordons, ZordonKilled(z) PROVE PinsInv'
  BY <1>4, EndsKeep
<1>5. CASE UNCHANGED <<file, keychain, proc>>
  <2>1. ProcsTyped'  BY <1>5 DEF PinsInv, ProcsTyped, Does
  <2>2. ASSUME NEW z \in Zordons, Works(z)' PROVE WorkInv(z)'
    <3>1. WorkInv(z)  BY <1>5, <2>2 DEF PinsInv, Works
    <3> QED
      BY <1>5, <3>1
      DEF WorkInv, WorkTyped, Remembers, SameAs, MayMove, LoadInv, FetchedInv, SearchedInv, Update, PinInv,
          Does
  <2> QED  BY <2>1, <2>2 DEF PinsInv
<1>6. CASE UpstreamMoves \/ Rest \/ UNCHANGED pinVars  BY <1>5, <1>6 DEF UpstreamMoves, Rest, pinVars
<1> QED  BY <1>1, <1>2, <1>3, <1>4, <1>6 DEF PinsNext

(* The invariant holds of every behaviour. *)
LEMMA PinsInvariant == PinsAssumption => (PinsSpec => []PinsInv)
<1> SUFFICES ASSUME PinsAssumption PROVE PinsSpec => []PinsInv
  OBVIOUS
<1>1. PinsInit => PinsInv  BY PinsInvInit
<1>2. PinsInv /\ [PinsNext]_pinVars => PinsInv'  BY PinsStep
<1> QED  BY <1>1, <1>2, PTL DEF PinsSpec

-----------------------------------------------------------------------------
(* What the file is left with. *)

(* The file changes at the end of a load or a pinning only. *)
LEMMA WhoWrites ==
  ASSUME [PinsNext]_pinVars
  PROVE  file' = file \/ \E z \in Zordons : LoadEnds(z) \/ PinningEnds(z)
<1>1. ASSUME NEW z \in Zordons, StartLoad(z) \/ StartPinning(z) \/ ZordonKilled(z)
      PROVE  file' = file
  BY <1>1 DEF StartLoad, StartPinning, Begin, ZordonKilled, Fail
<1>2. ASSUME NEW z \in Zordons, Resolve(z)
      PROVE  file' = file \/ LoadEnds(z)
  <2>1. CASE ResolveSame(z) \/ NotRequired(z) \/ ResolveSearched(z) \/ SearchedTwice(z)
    BY <2>1 DEF ResolveSame, NotRequired, ResolveSearched, SearchedTwice, Fail
  <2>2. CASE VersionsDiffer(z) \/ ResolveLocked(z) \/ FetchFails(z) \/ TreeRefused(z)
    BY <2>2 DEF VersionsDiffer, ResolveLocked, Checkout, FetchFails, TreeRefused, Fail
  <2>3. CASE ResolveFetched(z)
    BY <2>3 DEF ResolveFetched, Checkout
  <2> QED
    BY <1>2, <2>1, <2>2, <2>3 DEF Resolve
<1>3. ASSUME NEW z \in Zordons, Follow(z)
      PROVE  file' = file \/ PinningEnds(z)
  BY <1>3 DEF Follow, PinKept, PinMoved, PinFails, Fail
<1>4. CASE UpstreamMoves \/ Rest \/ UNCHANGED pinVars
  BY <1>4 DEF UpstreamMoves, Rest, pinVars
<1> QED
  BY <1>1, <1>2, <1>3, <1>4 DEF PinsNext

(* A process at work stays at it, until it fails or ends well. *)
LEMMA GoesOnOrEnds ==
  ASSUME PinsInv, NEW z \in Zordons, Resolve(z) \/ Follow(z) \/ ZordonKilled(z), ~LoadEnds(z), ~PinningEnds(z)
  PROVE  proc'[z].doing \in {proc[z].doing, "failed"}
<1>1. Works(z)
  BY DEF Resolve, Follow, ZordonKilled, ResolveSame, NotRequired, ResolveSearched, SearchedTwice, VersionsDiffer,
         ResolveLocked, ResolveFetched, FetchFails, TreeRefused, PinKept, PinMoved, PinFails, Versioned,
         Remote, Importing, Sourcing, Does, Works
<1>2. WorkTyped(z) /\ DOMAIN proc = Zordons  BY <1>1 DEF PinsInv, WorkInv, ProcsTyped
<1>3. CASE Fail(z)  BY <1>2, <1>3 DEF Fail, End, WorkTyped
<1>4. CASE ResolveSame(z) \/ PinKept(z)  BY <1>2, <1>4 DEF ResolveSame, PinKept, Got, WorkTyped
<1>5. CASE ResolveSearched(z)  BY <1>2, <1>5 DEF ResolveSearched, WorkTyped
<1>6. CASE ResolveLocked(z)  BY <1>2, <1>6 DEF ResolveLocked, WorkTyped
<1>7. CASE ResolveFetched(z)  BY <1>2, <1>7 DEF ResolveFetched, WorkTyped
<1>8. CASE PinMoved(z)  BY <1>2, <1>8 DEF PinMoved, WorkTyped
<1> QED
  BY <1>3, <1>4, <1>5, <1>6, <1>7, <1>8
  DEF Resolve, Follow, ZordonKilled, NotRequired, SearchedTwice, VersionsDiffer, FetchFails, TreeRefused, PinFails

(* A process ends well by its own last step. *)
LEMMA WhoEndsWell ==
  ASSUME PinsInv, [PinsNext]_pinVars, NEW z \in Zordons,
         ~(proc[z].doing \in Ended), proc'[z].doing \in {"loaded", "pinned"}
  PROVE  LoadEnds(z) \/ PinningEnds(z)
<1>1. proc'[z].doing # proc[z].doing  BY DEF Ended
<1>2. DOMAIN proc = Zordons  BY DEF PinsInv, ProcsTyped
<1>3. PICK y \in Zordons : StartLoad(y) \/ StartPinning(y) \/ Resolve(y) \/ Follow(y) \/ ZordonKilled(y)
  BY <1>1 DEF PinsNext, UpstreamMoves, Rest, pinVars
<1>4. y = z
  BY <1>1, <1>2, <1>3
  DEF StartLoad, StartPinning, Begin, Resolve, Follow, ZordonKilled, Fail, End, Got, ResolveSame, NotRequired,
      ResolveSearched, SearchedTwice, VersionsDiffer, ResolveLocked, ResolveFetched, FetchFails,
      LoadEnds, TreeRefused, PinKept, PinMoved, PinFails, PinningEnds
<1>5. ~(StartLoad(z) \/ StartPinning(z))
  BY <1>2 DEF StartLoad, StartPinning, Begin, Memory
<1> QED  BY <1>1, <1>3, <1>4, <1>5, GoesOnOrEnds

(* A load leaves in the file the pins it used, as it remembers them, and every
   source as it was. *)
LEMMA LoadLeaves ==
  ASSUME PinsInv, NEW z \in Zordons, LoadEnds(z)
  PROVE  /\ Works(z) /\ Does(z, "load") /\ WorkInv(z)
         /\ \A k \in DOMAIN file.sources :
              k \in DOMAIN file'.sources /\ file'.sources[k] = file.sources[k]
         /\ \/ file' = file /\ SameAs(proc[z].repos, file.repos)
            \/ /\ DOMAIN file'.repos = proc[z].used
               /\ \A k \in proc[z].used : file'.repos[k] = proc[z].repos[k]
<1>1. Works(z) /\ Does(z, "load") /\ WorkInv(z)  BY DEF LoadEnds, Works, Does, PinsInv
<1>2. CASE ~proc[z].dirty
  <2>1. file' = file  BY <1>2 DEF LoadEnds, Write
  <2> QED  BY <1>1, <1>2, <2>1 DEF WorkInv, Remembers, SameAs
<1>3. CASE proc[z].dirty
  <2>1. file' = [repos |-> Restrict(proc[z].repos, proc[z].used), sources |-> proc[z].sources]
    BY <1>3 DEF LoadEnds, Write
  <2>2. file'.sources = proc[z].sources /\ file'.repos = [k \in proc[z].used |-> proc[z].repos[k]]
    BY <2>1 DEF Restrict
  <2>3. ~Does(z, "pin")  BY <1>1 DEF Does
  <2>4. ASSUME NEW k \in DOMAIN file.sources
        PROVE  k \in DOMAIN proc[z].sources /\ proc[z].sources[k] = file.sources[k]
    BY <1>1, <2>3 DEF WorkInv, Remembers
  <2> QED  BY <1>1, <2>2, <2>4
<1> QED  BY <1>2, <1>3

(* A pinning leaves in the file all it remembers: the pins of imports as they
   were, and the sources as it pinned them. *)
LEMMA PinningLeaves ==
  ASSUME PinsInv, NEW z \in Zordons, PinningEnds(z)
  PROVE  /\ Works(z) /\ Does(z, "pin") /\ WorkInv(z)
         /\ \A k \in DOMAIN file.repos : k \in DOMAIN file'.repos /\ file'.repos[k] = file.repos[k]
         /\ SameAs(file'.sources, proc[z].sources)
<1>1. Works(z) /\ Does(z, "pin") /\ WorkInv(z)  BY DEF PinningEnds, Works, Does, PinsInv
<1>2. CASE ~proc[z].dirty
  <2>1. file' = file  BY <1>2 DEF PinningEnds, Write
  <2> QED  BY <1>1, <1>2, <2>1 DEF WorkInv, Remembers, SameAs
<1>3. CASE proc[z].dirty
  <2>1. file' = [repos |-> Restrict(proc[z].repos, DOMAIN proc[z].repos), sources |-> proc[z].sources]
    BY <1>3 DEF PinningEnds, Write
  <2>2. /\ file'.sources = proc[z].sources
        /\ file'.repos = [k \in DOMAIN proc[z].repos |-> proc[z].repos[k]]
    BY <2>1 DEF Restrict
  <2>3. \A k : ~MayMove(z, k)  BY <1>1 DEF MayMove, Does
  <2>4. ASSUME NEW k \in DOMAIN file.repos
        PROVE  k \in DOMAIN proc[z].repos /\ proc[z].repos[k] = file.repos[k]
    BY <1>1, <2>3 DEF WorkInv, Remembers
  <2> QED  BY <1>1, <2>2, <2>4 DEF SameAs
<1> QED  BY <1>2, <1>3

(* resolve.go and pin.go: whatever the interleaving of loads, pinnings and
   kills, a pin of zordon.lock moves only under a process asked to move it,
   and disappears only under a load that read no import through it. *)
THEOREM PinsAreKept == PinsAssumption => (PinsSpec => PinsKept)
<1> SUFFICES ASSUME PinsAssumption PROVE PinsSpec => PinsKept
  OBVIOUS
<1>1. ASSUME PinsInv, [PinsNext]_pinVars, NEW k \in DOMAIN file.repos
      PROVE  IF k \in DOMAIN file'.repos
             THEN file'.repos[k] = file.repos[k] \/ \E z \in Zordons : MayMove(z, k)
             ELSE \E z \in Zordons : Does(z, "load") /\ ~Reads(z, k) /\ ~Standing(z, k)
  <2>1. CASE file' = file  BY <2>1
  <2>2. ASSUME NEW z \in Zordons, PinningEnds(z)
        PROVE  k \in DOMAIN file'.repos /\ file'.repos[k] = file.repos[k]
    BY <1>1, <2>2, PinningLeaves
  <2>3. ASSUME NEW z \in Zordons, LoadEnds(z), DOMAIN file'.repos = proc[z].used,
               \A q \in proc[z].used : file'.repos[q] = proc[z].repos[q], Does(z, "load"), WorkInv(z)
        PROVE  IF k \in DOMAIN file'.repos
               THEN file'.repos[k] = file.repos[k] \/ MayMove(z, k)
               ELSE Does(z, "load") /\ ~Reads(z, k) /\ ~Standing(z, k)
    <3>1. CASE k \in proc[z].used  BY <2>3, <3>1 DEF WorkInv, Remembers
    <3>2. CASE k \notin proc[z].used
      <4>1. ASSUME NEW n \in DOMAIN proc[z].got, NEW g, g = proc[z].got[n]
            PROVE  /\ ~(g.how = Fetched /\ Pin(g.key, g.ref) = k)
                   /\ ~(g.how = Searched /\ k.key \in {g.key, <<g.repo>>})
        <5>1. (g.how = Fetched => FetchedInv(z, g)) /\ (g.how = Searched => SearchedInv(z, g))
          BY <2>3, <4>1 DEF WorkInv, LoadInv
        <5> QED  BY <3>2, <5>1 DEF FetchedInv, SearchedInv
      <4> QED  BY <2>3, <3>2, <4>1 DEF Reads, Standing
    <3> QED  BY <3>1, <3>2
  <2>4. ASSUME NEW z \in Zordons, LoadEnds(z)
        PROVE  IF k \in DOMAIN file'.repos
               THEN file'.repos[k] = file.repos[k] \/ MayMove(z, k)
               ELSE Does(z, "load") /\ ~Reads(z, k) /\ ~Standing(z, k)
    <3>1. CASE file' = file  BY <3>1
    <3> QED  BY <1>1, <2>3, <2>4, <3>1, LoadLeaves
  <2> QED  BY <1>1, <2>1, <2>2, <2>4, WhoWrites
<1>2. ASSUME PinsInv, [PinsNext]_pinVars, NEW k \in DOMAIN file.sources
      PROVE  /\ k \in DOMAIN file'.sources
             /\ \/ file'.sources[k] = file.sources[k]
                \/ \E z \in Zordons : Does(z, "pin") /\ proc[z].task.pull
  <2>1. ASSUME NEW z \in Zordons, PinningEnds(z)
        PROVE  /\ k \in DOMAIN file'.sources
               /\ file'.sources[k] = file.sources[k] \/ (Does(z, "pin") /\ proc[z].task.pull)
    <3>1. WorkInv(z) /\ SameAs(file'.sources, proc[z].sources)  BY <1>2, <2>1, PinningLeaves
    <3> QED  BY <3>1 DEF WorkInv, Remembers, SameAs
  <2> QED  BY <1>2, <2>1, LoadLeaves, WhoWrites
<1>3. PinsInv /\ [PinsNext]_pinVars =>
        [/\ \A k \in DOMAIN file.repos :
              IF k \in DOMAIN file'.repos
              THEN file'.repos[k] = file.repos[k] \/ \E z \in Zordons : MayMove(z, k)
              ELSE \E z \in Zordons : Does(z, "load") /\ ~Reads(z, k) /\ ~Standing(z, k)
         /\ \A k \in DOMAIN file.sources :
              k \in DOMAIN file'.sources
              /\ (file'.sources[k] = file.sources[k]
                  \/ \E z \in Zordons : Does(z, "pin") /\ proc[z].task.pull)]_pinVars
  BY <1>1, <1>2
<1> QED  BY <1>3, PinsInvariant, PTL DEF PinsSpec, PinsKept

(* lockFile.write: a process that ends well ends with the file saying what it
   read, for each import it fetched and each source it pinned. *)
THEOREM FileIsTrue == PinsAssumption => (PinsSpec => FileSaysWhatWasRead)
<1> SUFFICES ASSUME PinsAssumption PROVE PinsSpec => FileSaysWhatWasRead
  OBVIOUS
<1>1. ASSUME PinsInv, NEW z \in Zordons, LoadEnds(z) PROVE Said(z)
  <2>1. Does(z, "load") /\ WorkInv(z) /\ LoadInv(z)  BY <1>1, LoadLeaves DEF WorkInv
  <2>2. ASSUME NEW n \in DOMAIN proc[z].got, proc[z].got[n].how = Fetched,
               NEW k, k = Pin(proc[z].got[n].key, proc[z].got[n].ref)
        PROVE  k \in DOMAIN file'.repos /\ file'.repos[k] = proc[z].got[n].commit
    <3>1. /\ k \in proc[z].used /\ k \in DOMAIN proc[z].repos
          /\ proc[z].repos[k] = proc[z].got[n].commit
      BY <2>1, <2>2 DEF LoadInv, FetchedInv
    <3>2. CASE file' = file /\ SameAs(proc[z].repos, file.repos)  BY <3>1, <3>2 DEF SameAs
    <3> QED  BY <1>1, <3>1, <3>2, LoadLeaves
  <2> QED  BY <2>1, <2>2 DEF Said
<1>2. ASSUME PinsInv, NEW z \in Zordons, PinningEnds(z) PROVE Said(z)
  <2>1. Does(z, "pin") /\ WorkInv(z) /\ PinInv(z) /\ SameAs(file'.sources, proc[z].sources)
    BY <1>2, PinningLeaves DEF WorkInv
  <2>2. ~Does(z, "load")  BY <2>1 DEF Does
  <2> QED  BY <2>1, <2>2 DEF Said, PinInv, SameAs
<1>3. PinsInv /\ [PinsNext]_pinVars =>
        [\A z \in Zordons :
           ~(proc[z].doing \in Ended) /\ proc'[z].doing \in {"loaded", "pinned"} => Said(z)]_pinVars
  BY <1>1, <1>2, WhoEndsWell
<1> QED  BY <1>3, PinsInvariant, PTL DEF PinsSpec, FileSaysWhatWasRead
==============================================================================
