--------------------------------- MODULE Pins ---------------------------------
(***************************************************************************)
(* zordon.lock: which commit of a remote repository an import reads, and   *)
(* which commit a service's git source is built at.  internal/alphasfile   *)
(* resolve.go and pin.go, with the fetcher of internal/source/mod.go and   *)
(* the pins lock of internal/zlock.                                        *)
(*                                                                         *)
(* An identity such as github.com/owner/repo/dir is a path <<repo, dir>>;  *)
(* a require names a prefix of it.  A pin is a key and a ref.  Every       *)
(* zordon process of a project reads and rewrites the one file.            *)
(***************************************************************************)
EXTENDS Naturals, Sequences, FiniteSets, SequencesExt, FiniteSetsExt, Functions

CONSTANTS
  Zordons,      \* the processes, each of which loads or pins once
  Loads,        \* what a load may be: imports, requires of each scope, search
                \* directories, and the keys it is asked to update
  Pinnings,     \* what PinSources may be: the pins its services follow, pull
  FirstLocks,   \* the contents the file may start with
  Tips,         \* Tips[repo]: the commits its refs point at, one after the other
  EntryScope, Fetched, Searched, Nobody

(* An import: the scope it stands in, the import that fetched its file or 0,
   and its identity. *)
NoKey == <<>>
Pin(key, ref) == [key |-> key, ref |-> ref]

(* The Nobody of a process, of an import that is nobody's and of a result are
   not anything else.  A file is imported before what it imports itself, and
   an identity names at least its repository. *)
PinsAssumption ==
  /\ Nobody \notin Zordons \cup {Fetched, Searched} /\ Fetched # Searched
  /\ \A l \in Loads : \A n \in 1..Len(l.imports) :
       /\ l.imports[n].from \in 0..(n - 1)
       /\ l.imports[n].id \in Seq(Range(l.imports[n].id)) \ {<<>>}

VARIABLES
  file,      \* zordon.lock: repos and sources, commits by pin
  keychain,  \* the process that holds the pins lock
  proc,      \* proc[z]: what process z is doing
  moved,     \* how often each repository's refs moved upstream
  mods       \* the checkouts under <home>/mod

pinVars == <<file, keychain, proc, moved, mods>>

Tip(repo) == Tips[repo][1 + moved[repo]]
Put(f, k, v) == [x \in DOMAIN f \cup {k} |-> IF x = k THEN v ELSE f[x]]

PinsInit ==
  /\ file \in FirstLocks
  /\ keychain = Nobody
  /\ proc = [z \in Zordons |-> [doing |-> "nothing"]]
  /\ moved = [r \in DOMAIN Tips |-> 0]
  /\ mods = {}

Does(z, what) == proc[z].doing = what

(* Mutant: nobody waits for the pins lock. *)
AnyTime == TRUE
PinsFree == keychain = Nobody

(* lockPins, readLock and newIdentitySource. *)
Memory(doing, task) ==
  [doing |-> doing, task |-> task, repos |-> file.repos, sources |-> file.sources,
   used |-> {}, dirty |-> FALSE, fresh |-> <<>>, refs |-> <<>>, got |-> <<>>]
Begin(z, doing, task) ==
  /\ Does(z, "nothing") /\ PinsFree
  /\ keychain' = z
  /\ proc' = [proc EXCEPT ![z] = Memory(doing, task)]
  /\ UNCHANGED <<file, moved, mods>>

StartLoad(z) == \E l \in Loads : Begin(z, "load", l)
StartPinning(z) == \E s \in Pinnings : Begin(z, "pin", s)

(* The end of LoadTreeWith and PinSources: the deferred release. *)
End(z, outcome) ==
  /\ keychain' = Nobody
  /\ proc' = [proc EXCEPT ![z].doing = outcome]

Fail(z) == End(z, "failed") /\ UNCHANGED <<file, moved, mods>>

-----------------------------------------------------------------------------
(* Resolving one import *)

Import(z) == proc[z].task.imports[1 + Len(proc[z].got)]
Importing(z) == Does(z, "load") /\ Len(proc[z].got) < Len(proc[z].task.imports)

(* matchRequire: the longest prefix of the identity that is required. *)
MatchRequire(reqs, id) ==
  LET known == {n \in 1..Len(id) : SubSeq(id, 1, n) \in DOMAIN reqs}
  IN IF known = {} THEN NoKey ELSE SubSeq(id, 1, Max(known))

EntryReqs(z) == proc[z].task.requires[EntryScope]
OwnReq(z) == MatchRequire(proc[z].task.requires[Import(z).scope], Import(z).id)
Entrys(z) == MatchRequire(EntryReqs(z), Import(z).id)
Required(z) == IF OwnReq(z) # NoKey THEN OwnReq(z) ELSE Entrys(z)
RequiredRef(z) ==
  IF OwnReq(z) # NoKey THEN proc[z].task.requires[Import(z).scope][OwnReq(z)] ELSE EntryReqs(z)[Entrys(z)]

(* s.entryDirect: what the entrypoint's own imports match. *)
EntryDirect(z) ==
  {MatchRequire(EntryReqs(z), i.id) : i \in {j \in ToSet(proc[z].task.imports) : j.scope = EntryScope}}

(* sameCheckout, and a relative import in a checkout: the importer's own,
   unless some require names a path inside the repository. *)
Importer(z) == IF Import(z).from = 0 THEN [how |-> Nobody] ELSE proc[z].got[Import(z).from]
SameCheckout(z) == Importer(z).how = Fetched /\ Importer(z).repo = Head(Import(z).id)
SubpathRequired(z) == Len(OwnReq(z)) > 1 \/ Len(Entrys(z)) > 1
FromImporter(z) == SameCheckout(z) /\ ~SubpathRequired(z)

Got(z, g) == proc' = [proc EXCEPT ![z].got = Append(@, g)]

ResolveSame(z) ==
  /\ Importing(z)
  /\ FromImporter(z)
  /\ Got(z, Importer(z))
  /\ UNCHANGED <<file, keychain, moved, mods>>

NotRequired(z) ==
  /\ Importing(z)
  /\ ~FromImporter(z) /\ Required(z) = NoKey
  /\ Fail(z)

(* search: a directory whose zordon.mod is a prefix of the identity. *)
Hits(z) == {d \in DOMAIN proc[z].task.search :
              \E m \in proc[z].task.search[d] : IsPrefix(m, Import(z).id)}
Remote(z) == Importing(z) /\ ~FromImporter(z) /\ Required(z) # NoKey

StoodIn(z) == {k \in DOMAIN proc[z].repos : k.key \in {Required(z), <<Head(Import(z).id)>>}}

ResolveSearched(z) ==
  /\ Remote(z)
  /\ Cardinality(Hits(z)) = 1
  /\ proc' = [proc EXCEPT ![z].used = @ \cup StoodIn(z),
                          ![z].got = Append(@, [how |-> Searched, repo |-> Head(Import(z).id), key |-> Required(z)])]
  /\ UNCHANGED <<file, keychain, moved, mods>>

SearchedTwice(z) == Remote(z) /\ Cardinality(Hits(z)) > 1 /\ Fail(z)

(* The version: the importer's, unless the entrypoint's goes deeper or the
   entrypoint does not import what it requires. *)
EntryWins(z) ==
  /\ Import(z).scope # EntryScope /\ Entrys(z) # NoKey
  /\ Len(Entrys(z)) > Len(Required(z)) \/ Entrys(z) \notin EntryDirect(z)
WantedPin(z) == IF EntryWins(z) THEN Pin(Entrys(z), EntryReqs(z)[Entrys(z)])
             ELSE Pin(Required(z), RequiredRef(z))

(* s.refs: with no word from the entrypoint the first importer's ref stands. *)
Unsettled(z) == Import(z).scope # EntryScope /\ Entrys(z) = NoKey
RefsNow(z) == IF Unsettled(z) THEN Put(proc[z].refs, Required(z), RequiredRef(z)) ELSE proc[z].refs
Torn(z) == /\ Unsettled(z) /\ Required(z) \in DOMAIN proc[z].refs
           /\ proc[z].refs[Required(z)] # RequiredRef(z)

VersionsDiffer(z) == Remote(z) /\ Hits(z) = {} /\ Torn(z) /\ Fail(z)

Versioned(z) == Remote(z) /\ Hits(z) = {} /\ ~Torn(z)

(* commitFor.  Nothing is asked of the network for a pin the lock holds. *)
Repo(z) == Head(Import(z).id)
Fresh(z) == <<Repo(z), WantedPin(z).ref>>
Updating(z, key) == {key, <<Repo(z)>>} \cap proc[z].task.update # {}
FromLock(z) ==
  /\ WantedPin(z) \in DOMAIN proc[z].repos
  /\ Updating(z, WantedPin(z).key) => Fresh(z) \in DOMAIN proc[z].fresh

(* Materialize, and the result of the import.  Its checkout may fail. *)
Checkout(z, commit) ==
  /\ mods' = mods \cup {<<Repo(z), commit>>}
  /\ UNCHANGED <<file, keychain, moved>>
Result(z, commit) == [how |-> Fetched, repo |-> Repo(z), ref |-> WantedPin(z).ref, key |-> WantedPin(z).key,
                      commit |-> commit]

ResolveLocked(z) ==
  /\ Versioned(z)
  /\ FromLock(z)
  /\ LET commit == proc[z].repos[WantedPin(z)]
     IN /\ proc' = [proc EXCEPT ![z].used = @ \cup {WantedPin(z)}, ![z].refs = RefsNow(z),
                                ![z].got = Append(@, Result(z, commit))]
        /\ Checkout(z, commit)

ResolveFetched(z) ==
  /\ Versioned(z)
  /\ ~FromLock(z)
  /\ LET commit == IF Fresh(z) \in DOMAIN proc[z].fresh THEN proc[z].fresh[Fresh(z)] ELSE Tip(Repo(z))
         held == WantedPin(z) \in DOMAIN proc[z].repos /\ proc[z].repos[WantedPin(z)] = commit
     IN /\ proc' = [proc EXCEPT ![z].repos = Put(@, WantedPin(z), commit),
                                ![z].used = @ \cup {WantedPin(z)}, ![z].refs = RefsNow(z),
                                ![z].fresh = Put(@, Fresh(z), commit),
                                ![z].dirty = @ \/ ~held,
                                ![z].got = Append(@, Result(z, commit))]
        /\ Checkout(z, commit)

(* Resolve or Materialize fails: no network, no such ref. *)
FetchFails(z) ==
  /\ Versioned(z)
  /\ FromLock(z) => <<Repo(z), proc[z].repos[WantedPin(z)]>> \notin mods
  /\ Fail(z)

(* lockFile.write: with pruneRepos the pins of this load alone, and every
   source either way.  AtomicWrite replaces the file. *)
Write(z, prune) ==
  file' = IF proc[z].dirty
          THEN [repos |-> Restrict(proc[z].repos, IF prune THEN proc[z].used ELSE DOMAIN proc[z].repos),
                sources |-> proc[z].sources]
          ELSE file

(* The rest of LoadTreeWith.  finish may refuse the tree; nothing is written
   then. *)
LoadEnds(z) ==
  /\ Does(z, "load") /\ ~Importing(z)
  /\ Write(z, TRUE)
  /\ End(z, "loaded")
  /\ UNCHANGED <<moved, mods>>

TreeRefused(z) ==
  /\ Does(z, "load") /\ ~Importing(z)
  /\ Fail(z)

-----------------------------------------------------------------------------
(* PinSources.  A pinned source is looked at once. *)

Sourcing(z) == Does(z, "pin") /\ Len(proc[z].got) < Len(proc[z].task.follows)
Followed(z) == proc[z].task.follows[1 + Len(proc[z].got)]
Pinned(z) == {n \in DOMAIN proc[z].got : proc[z].task.follows[n] = Followed(z)}
InLock(z) == Followed(z) \in DOMAIN proc[z].sources
Keeps(z) == Pinned(z) # {} \/ (InLock(z) /\ ~proc[z].task.pull)

PinKept(z) ==
  /\ Sourcing(z)
  /\ Keeps(z)
  /\ Got(z, IF Pinned(z) # {} THEN proc[z].got[Min(Pinned(z))] ELSE proc[z].sources[Followed(z)])
  /\ UNCHANGED <<file, keychain, moved, mods>>

PinMoved(z) ==
  /\ Sourcing(z)
  /\ ~Keeps(z)
  /\ LET commit == Tip(Head(Followed(z).key))
         held == InLock(z) /\ proc[z].sources[Followed(z)] = commit
     IN proc' = [proc EXCEPT ![z].got = Append(@, commit),
                             ![z].sources = Put(@, Followed(z), commit),
                             ![z].dirty = @ \/ ~held]
  /\ UNCHANGED <<file, keychain, moved, mods>>

PinFails(z) == Sourcing(z) /\ ~Keeps(z) /\ Fail(z)

PinningEnds(z) ==
  /\ Does(z, "pin") /\ ~Sourcing(z)
  /\ Write(z, FALSE)
  /\ End(z, "pinned")
  /\ UNCHANGED <<moved, mods>>

-----------------------------------------------------------------------------
(* The kernel drops the flock of a process that is killed. *)
ZordonKilled(z) ==
  /\ Does(z, "load") \/ Does(z, "pin")
  /\ Fail(z)

(* Somebody pushes: the next Ensure sees the refs of a repository moved. *)
UpstreamMoves ==
  \E r \in DOMAIN Tips :
    /\ moved[r] + 1 < Len(Tips[r])
    /\ moved' = [moved EXCEPT ![r] = @ + 1]
    /\ UNCHANGED <<file, keychain, proc, mods>>

Ended == {"loaded", "pinned", "failed"}
Rest == (\A z \in Zordons : proc[z].doing \in Ended) /\ UNCHANGED pinVars

Resolve(z) ==
  \/ ResolveSame(z) \/ NotRequired(z) \/ ResolveSearched(z) \/ SearchedTwice(z)
  \/ VersionsDiffer(z) \/ ResolveLocked(z) \/ ResolveFetched(z) \/ FetchFails(z)
  \/ LoadEnds(z) \/ TreeRefused(z)
Follow(z) == PinKept(z) \/ PinMoved(z) \/ PinFails(z) \/ PinningEnds(z)

PinsNext ==
  \/ \E z \in Zordons : StartLoad(z) \/ StartPinning(z) \/ Resolve(z) \/ Follow(z) \/ ZordonKilled(z)
  \/ UpstreamMoves \/ Rest

PinsSpec == PinsInit /\ [][PinsNext]_pinVars

-----------------------------------------------------------------------------
(* Properties *)

(* Whatever the interleaving of loads, pinnings and kills, a pin in the file
   moves only under a process asked to move it, and disappears only under a
   load that read no import through it: not the sources, which a load knows
   nothing of, and not what another process wrote meanwhile. *)
MayMove(z, k) == Does(z, "load") /\ {k.key, <<Head(k.key)>>} \cap proc[z].task.update # {}
Standing(z, k) == \E n \in DOMAIN proc[z].got :
                    /\ proc[z].got[n].how = Searched
                    /\ k.key \in {proc[z].got[n].key, <<proc[z].got[n].repo>>}
Reads(z, k) == \E n \in DOMAIN proc[z].got :
                 proc[z].got[n].how = Fetched /\ Pin(proc[z].got[n].key, proc[z].got[n].ref) = k
PinsKept ==
  [][/\ \A k \in DOMAIN file.repos :
          IF k \in DOMAIN file'.repos
          THEN file'.repos[k] = file.repos[k] \/ \E z \in Zordons : MayMove(z, k)
          ELSE \E z \in Zordons : Does(z, "load") /\ ~Reads(z, k) /\ ~Standing(z, k)
     /\ \A k \in DOMAIN file.sources :
          k \in DOMAIN file'.sources
          /\ (file'.sources[k] = file.sources[k]
              \/ \E z \in Zordons : Does(z, "pin") /\ proc[z].task.pull)]_pinVars

(* A process that ends well ends with the file saying what it read: the next
   start of the project, here or on another machine, reads the same. *)
Said(z) ==
  IF Does(z, "load")
  THEN \A n \in DOMAIN proc[z].got : proc[z].got[n].how = Fetched =>
         LET k == Pin(proc[z].got[n].key, proc[z].got[n].ref)
         IN k \in DOMAIN file'.repos /\ file'.repos[k] = proc[z].got[n].commit
  ELSE \A n \in DOMAIN proc[z].got :
         LET k == proc[z].task.follows[n]
         IN k \in DOMAIN file'.sources /\ file'.sources[k] = proc[z].got[n]
FileSaysWhatWasRead ==
  [][\A z \in Zordons :
       ~(proc[z].doing \in Ended) /\ proc'[z].doing \in {"loaded", "pinned"} => Said(z)]_pinVars

(* remote_test.go:117: one load resolves a repository once, so every import of
   it reads the same commit. *)
OneCommitPerRef ==
  \A z \in Zordons : Does(z, "loaded") =>
    \A m, n \in DOMAIN proc[z].got :
      LET a == proc[z].got[m]
          b == proc[z].got[n]
      IN a.how = Fetched /\ b.how = Fetched /\ a.repo = b.repo /\ a.ref = b.ref => a.commit = b.commit
=============================================================================
