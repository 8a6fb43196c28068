------------------------------ MODULE Requests ------------------------------
(***************************************************************************)
(* What an alpha does with the requests on its control socket once it has  *)
(* been configured: another configure, an invoke, a clean (handleConfigure *)
(* from its diff on, stopServices, handleInvoke, handleClean of            *)
(* cmd/alpha/main.go).  A service's bringup is cut down to what the maps   *)
(* these handlers share can see of it; Bringup has the whole.              *)
(***************************************************************************)
EXTENDS Naturals, Sequences, FiniteSets

CONSTANTS
  Names,        \* the services' names
  Detached,     \* the services with a detached provision
  Asked,        \* the requests: [op, of (name -> its manifest), failfast]
  Handlers,     \* connections served at a time
  MaxRequests   \* bound: requests accepted

(* A request is one of the three, and names services of the stack. *)
RequestsAssumption ==
  \A q \in Asked : q.op \in {"configure", "clean", "invoke"} /\ DOMAIN q.of \subseteq Names /\ q.failfast \in BOOLEAN

VARIABLES
  services,     \* name -> the context registered for it, or 0
  provisions,   \* name -> the context of its provision, or 0
  config,       \* the last Alphasfile stored: [of, decoded]
  readiness,    \* name -> what the status says of it
  ctxs,         \* every context made: services, provisions, invocations
  conf,         \* conf[h]: the request h serves, and how far it is
  shutdown,     \* None, or the context that asked for it
  accepted,
  unserialized  \* two configures met, or a clean came to a configured alpha

requestVars == <<services, provisions, config, readiness, ctxs, conf, shutdown, accepted, unserialized>>

NoCtx == 0
Free == [at |-> "free"]

RequestsInit ==
  /\ services = [n \in Names |-> NoCtx]
  /\ provisions = [n \in Names |-> NoCtx]
  /\ config = [of |-> <<>>, decoded |-> 0]
  /\ readiness = [n \in Names |-> ""]
  /\ ctxs = <<>>
  /\ conf = [h \in Handlers |-> Free]
  /\ shutdown = NoCtx
  /\ accepted = 0
  /\ unserialized = FALSE

Ids == 1..Len(ctxs)
Ctx(name, kind, ff) ==
  [name |-> name, kind |-> kind, at |-> "new", stop |-> FALSE, failfast |-> ff, reached |-> FALSE]
Over(i) == ctxs[i].at \in {"failed", "stopped", "over"}
IsRunning(i) == ctxs[i].at \in {"up", "reached", "ready", "shell"}
CtxTo(i, at) == ctxs' = [ctxs EXCEPT ![i].at = at]

In(h, at) == conf[h].at = at
HandlerTo(h, at) == conf' = [conf EXCEPT ![h].at = at]
Maps == UNCHANGED <<services, provisions>>
Asks == UNCHANGED <<accepted, unserialized>>

-----------------------------------------------------------------------------
(* The listener closes with the shutdown; what still gets in is Bringup's. *)
First == [configure |-> "diff", clean |-> "store", invoke |-> "look"]
Serving(h) == ~In(h, "free")
Accept(h) ==
  /\ ~Serving(h) /\ shutdown = NoCtx /\ accepted < MaxRequests
  /\ \E q \in Asked :
       /\ conf' = [conf EXCEPT ![h] =
            [at |-> First[q.op],
             req |-> q, decoded |-> accepted + 1, running |-> {}, stops |-> {},
             picked |-> {}, mine |-> {}]]
       /\ unserialized' =
            (unserialized
             \/ (q.op # "invoke" /\ \E g \in Handlers \ {h} : Serving(g) /\ conf[g].req.op # "invoke")
             \/ (q.op = "clean" /\ \E n \in Names : services[n] # NoCtx))
  /\ accepted' = accepted + 1
  /\ Maps /\ UNCHANGED <<config, readiness, ctxs, shutdown>>

Answers(h) == conf' = [conf EXCEPT ![h] = Free]

-----------------------------------------------------------------------------
(* handleConfigure. *)

(* Mutant: the manifests themselves are compared. *)
PrintedWhole(n, of, decoded) == of[n]
(* Services are compared as %v prints them: the fields of the struct, and
   the addresses of what its pointers lead to, which are of one decoding. *)
Printed(n, of, decoded) == <<of[n], decoded>>
Changed(n, of, decoded) ==
  n \notin DOMAIN of \/ Printed(n, config.of, config.decoded) # Printed(n, of, decoded)

Diff(h) ==
  /\ In(h, "diff")
  /\ LET running == {n \in Names : services[n] # NoCtx} IN
     conf' = [conf EXCEPT ![h].at = "stop", ![h].running = running,
                ![h].stops = {n \in running \cap DOMAIN config.of :
                                 Changed(n, conf[h].req.of, conf[h].decoded)}]
  /\ Maps /\ Asks /\ UNCHANGED <<config, readiness, ctxs, shutdown>>

(* stopServices: out of the maps under the lock, then told, then waited for. *)
Picked(map, names) == {map[n] : n \in names} \ {NoCtx}
(* Mutant: a stopped service's provisions are left where they are. *)
ServicesOnly(stops) == Picked(services, stops)
Taken(stops) ==
  LET there == {n \in stops : services[n] # NoCtx}
  IN Picked(services, there) \cup Picked(provisions, there)

StopServices(h) ==
  /\ In(h, "stop")
  /\ LET taken == Taken(conf[h].stops)
         Without(map) == [n \in Names |-> IF map[n] \in taken THEN NoCtx ELSE map[n]]
     IN /\ services' = Without(services) /\ provisions' = Without(provisions)
        /\ ctxs' = [i \in Ids |-> IF i \in taken THEN [ctxs[i] EXCEPT !.stop = TRUE] ELSE ctxs[i]]
        /\ conf' = [conf EXCEPT ![h].at = "gone", ![h].picked = taken]
  /\ Asks /\ UNCHANGED <<config, readiness, shutdown>>

Stopped(h) ==
  /\ In(h, "gone") /\ \A i \in conf[h].picked : Over(i)
  /\ HandlerTo(h, "store")
  /\ Maps /\ Asks /\ UNCHANGED <<config, readiness, ctxs, shutdown>>

(* alphaState.configure, of a configure and of a clean. *)
Store(h) ==
  /\ In(h, "store")
  /\ config' = [of |-> conf[h].req.of, decoded |-> conf[h].decoded]
  /\ readiness' = [n \in Names |-> ""]
  /\ HandlerTo(h, "files")
  /\ Maps /\ Asks /\ UNCHANGED <<ctxs, shutdown>>

(* materializeFiles and ensureAnchorDirs. *)
Materialize(h) ==
  /\ In(h, "files")
  /\ HandlerTo(h, IF conf[h].req.op = "clean" THEN "teardown" ELSE "register")
  /\ Maps /\ Asks /\ UNCHANGED <<config, readiness, ctxs, shutdown>>
FilesFail(h) ==
  /\ In(h, "files") /\ Answers(h)
  /\ Maps /\ Asks /\ UNCHANGED <<config, readiness, ctxs, shutdown>>

(* addService and addProvision, name by name. *)
Kept(h) == conf[h].running \ conf[h].stops
(* Mutant: the contexts made are not kept to be waited for. *)
Unkept(h, kind) == {}
Mine(h, kind) == {i \in conf[h].mine : ctxs[i].kind = kind}
ToBringup(h) == (DOMAIN conf[h].req.of \ Kept(h)) \ {ctxs[i].name : i \in conf[h].mine}
Register(h) ==
  /\ In(h, "register")
  /\ \E n \in ToBringup(h) :
       LET ff == conf[h].req.failfast
           made == <<Ctx(n, "service", ff)>> \o (IF n \in Detached THEN <<Ctx(n, "provision", ff)>> ELSE <<>>)
           first == Len(ctxs) + 1
       IN /\ ctxs' = ctxs \o made
          /\ services' = [services EXCEPT ![n] = first]
          /\ provisions' = IF n \in Detached THEN [provisions EXCEPT ![n] = first + 1] ELSE provisions
          /\ conf' = [conf EXCEPT ![h].mine = @ \cup (first..(first + Len(made) - 1))]
  /\ Asks /\ UNCHANGED <<config, readiness, shutdown>>

Spawn(h) ==
  /\ In(h, "register") /\ ToBringup(h) = {}
  /\ ctxs' = [i \in Ids |->
       IF i \in conf[h].mine
       THEN [ctxs[i] EXCEPT !.at = IF ctxs[i].kind = "service" THEN "preparing" ELSE "shell"]
       ELSE ctxs[i]]
  /\ HandlerTo(h, "settle")
  /\ Maps /\ Asks /\ UNCHANGED <<config, readiness, shutdown>>

Settles(i) == ctxs[i].reached \/ ctxs[i].at = "failed"
AllSettled(h) == \A i \in Mine(h, "service") : Settles(i)
Unready(h) == {i \in Mine(h, "service") : ~ctxs[i].reached}

Refuse(h) ==
  /\ In(h, "settle") /\ AllSettled(h)
  /\ conf[h].req.failfast
  /\ \E i \in Unready(h) : shutdown' = IF shutdown = NoCtx THEN i ELSE shutdown
  /\ Answers(h)
  /\ Maps /\ Asks /\ UNCHANGED <<config, readiness, ctxs>>
Commit(h) ==
  /\ In(h, "settle") /\ AllSettled(h)
  /\ conf[h].req.failfast => Unready(h) = {}
  /\ Answers(h)
  /\ Maps /\ Asks /\ UNCHANGED <<config, readiness, ctxs, shutdown>>
Abandon(h) ==
  /\ In(h, "settle") /\ shutdown # NoCtx
  /\ Answers(h)
  /\ Maps /\ Asks /\ UNCHANGED <<config, readiness, ctxs, shutdown>>

-----------------------------------------------------------------------------
(* handleInvoke: a context of its own, in no map, beside the target's. *)
Invoke(h) ==
  /\ In(h, "look")
  /\ \E n \in Names :
       IF provisions[n] = NoCtx \/ services[n] = NoCtx
       THEN Answers(h) /\ UNCHANGED ctxs
       ELSE /\ ctxs' = Append(ctxs, [Ctx(n, "invoke", FALSE) EXCEPT !.at = "shell"])
            /\ conf' = [conf EXCEPT ![h].at = "wait", ![h].mine = {Len(ctxs) + 1}]
  /\ Maps /\ Asks /\ UNCHANGED <<config, readiness, shutdown>>

(* resolveProvisionArgs: an argument nobody declared, one that is missing,
   one of another type. *)
RefuseArgs(h) ==
  /\ In(h, "look") /\ \E n \in Names : provisions[n] # NoCtx /\ services[n] # NoCtx
  /\ Answers(h)
  /\ Maps /\ Asks /\ UNCHANGED <<config, readiness, ctxs, shutdown>>

(* handleClean: every snippet in turn, in no map either. *)
Cleaned(h) == {ctxs[i].name : i \in conf[h].mine}
Teardown(h) ==
  /\ In(h, "teardown")
  /\ \A i \in conf[h].mine : Over(i)
  /\ LET left == (DOMAIN conf[h].req.of \cap Detached) \ Cleaned(h) IN
     IF left = {} THEN Answers(h) /\ UNCHANGED ctxs
     ELSE \E n \in left :
            /\ ctxs' = Append(ctxs, [Ctx(n, "clean", FALSE) EXCEPT !.at = "shell"])
            /\ conf' = [conf EXCEPT ![h].mine = @ \cup {Len(ctxs) + 1}]
  /\ Maps /\ Asks /\ UNCHANGED <<config, readiness, shutdown>>

Invoked(h) ==
  /\ In(h, "wait") /\ \A i \in conf[h].mine : Over(i)
  /\ Answers(h)
  /\ Maps /\ Asks /\ UNCHANGED <<config, readiness, ctxs, shutdown>>

-----------------------------------------------------------------------------
(* A service, a provision and a shell. *)

Says(i, r) == readiness' = [readiness EXCEPT ![ctxs[i].name] = r]
Told(i) == ctxs[i].stop \/ shutdown # NoCtx
Blames(i) == shutdown' = IF ctxs[i].failfast /\ shutdown = NoCtx THEN i ELSE shutdown
Handling == UNCHANGED conf /\ Maps /\ Asks /\ UNCHANGED config

(* prepareFail: the checkout or the build failed, cancelled ones included. *)
PrepareFails(i) ==
  /\ ctxs[i].at = "preparing"
  /\ CtxTo(i, "failed") /\ Says(i, "failed") /\ Blames(i)
  /\ Handling
(* The shutdown gate, and a spawn that fails half way: nobody is told. *)
Gate(i) ==
  /\ ctxs[i].at = "preparing"
  /\ CtxTo(i, "failed")
  /\ UNCHANGED <<readiness, shutdown>> /\ Handling
Spawned(i) ==
  /\ ctxs[i].at = "preparing"
  /\ ~Told(i)
  /\ CtxTo(i, "up") /\ Says(i, "probing")
  /\ UNCHANGED shutdown /\ Handling

ProbePasses(i) ==
  /\ ctxs[i].at = "up"
  /\ ctxs' = [ctxs EXCEPT ![i].at = "reached", ![i].reached = TRUE]
  /\ UNCHANGED <<readiness, shutdown>> /\ Handling
ReportsReady(i) ==
  /\ ctxs[i].at = "reached"
  /\ CtxTo(i, "ready") /\ Says(i, "ready")
  /\ UNCHANGED shutdown /\ Handling
ProbeFails(i) ==
  /\ ctxs[i].at = "up"
  /\ CtxTo(i, "failed")
  /\ IF Told(i) THEN UNCHANGED <<readiness, shutdown>> ELSE Says(i, "failed") /\ Blames(i)
  /\ Handling
ExitsEarly(i) ==
  /\ ctxs[i].at = "up"
  /\ CtxTo(i, "failed") /\ Says(i, "failed") /\ Blames(i)
  /\ Handling
Exits(i) ==
  /\ ctxs[i].at = "ready"
  /\ CtxTo(i, "stopped") /\ Blames(i)
  /\ UNCHANGED readiness /\ Handling
Stops(i) ==
  /\ ctxs[i].at = "ready" /\ Told(i)
  /\ CtxTo(i, "stopped")
  /\ UNCHANGED <<readiness, shutdown>> /\ Handling

(* A shell ends by itself, or when its context or the alpha is stopped. *)
ShellEnds(i) ==
  /\ ctxs[i].at = "shell"
  /\ CtxTo(i, "over")
  /\ UNCHANGED <<readiness, shutdown>> /\ Handling

Serve(h) ==
  \/ Accept(h) \/ Diff(h) \/ StopServices(h) \/ Stopped(h) \/ Store(h) \/ Materialize(h)
  \/ FilesFail(h) \/ Register(h) \/ Spawn(h) \/ Refuse(h) \/ Commit(h) \/ Abandon(h)
  \/ Invoke(h) \/ RefuseArgs(h) \/ Teardown(h) \/ Invoked(h)
Supervise(i) ==
  \/ PrepareFails(i) \/ Gate(i) \/ Spawned(i) \/ ProbePasses(i) \/ ReportsReady(i)
  \/ ProbeFails(i) \/ ExitsEarly(i) \/ Exits(i) \/ Stops(i) \/ ShellEnds(i)

RequestsNext == (\E h \in Handlers : Serve(h)) \/ (\E i \in Ids : Supervise(i))
RequestsSpec == RequestsInit /\ [][RequestsNext]_requestVars

-----------------------------------------------------------------------------
(* Properties.  They are about requests one after the other, as zordon
   sends them under its own lock; two configures at a time, or a clean of a
   running alpha, break each of them, and nothing in the alpha refuses. *)

(* Whatever a configure started is in the maps, where the next configure and
   the shutdown find it, or has been told to stop. *)
LiveIsRegistered ==
  unserialized \/ \A i \in Ids :
    IsRunning(i) /\ ctxs[i].kind \in {"service", "provision"} =>
      ctxs[i].stop \/ services[ctxs[i].name] = i \/ provisions[ctxs[i].name] = i

(* The status never says less of a service that is up than what its
   supervisor said last, whatever configures came since. *)
StatusStands ==
  unserialized \/ \A n \in Names :
    LET i == services[n] IN
      i # NoCtx =>
        (ctxs[i].at = "ready" => readiness[n] = "ready") /\ (ctxs[i].at = "up" => readiness[n] = "probing")

(* A reconfigure brings no alpha down: no service it stops is taken for one
   that failed; a service that was up may have exited by itself. *)
StopIsNoFailure ==
  unserialized \/ shutdown = NoCtx \/ ctxs[shutdown].reached \/ ~ctxs[shutdown].stop

(* docs/lifecycle.md:96: untouched services keep running, a change in one
   service never restarts another. *)
UntouchedKeepRunning ==
  [][\A n \in Names : \A h \in Handlers :
       In(h, "diff") /\ ~In(h, "diff")' /\ ~unserialized
         /\ n \in DOMAIN config.of /\ n \in DOMAIN conf[h].req.of /\ config.of[n] = conf[h].req.of[n]
       => n \notin conf'[h].stops]_requestVars
=============================================================================
