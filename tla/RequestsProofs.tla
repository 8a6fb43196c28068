---------------------------- MODULE RequestsProofs ----------------------------
(***************************************************************************)
(* Requests one after the other, for any stack, any requests and any       *)
(* number of connections.                                                  *)
(***************************************************************************)
EXTENDS Requests, SequenceTheorems, TLAPS

Contexts ==
  [name : Names, kind : {"service", "provision", "invoke", "clean"},
   at : {"new", "preparing", "up", "reached", "ready", "failed", "stopped", "shell", "over"},
   stop : BOOLEAN, failfast : BOOLEAN, reached : BOOLEAN]
Services ==
  [at : {"diff", "stop", "gone", "store", "files", "register", "settle", "teardown", "look", "wait"},
   req : Asked, decoded : Nat, running : SUBSET Names, stops : SUBSET Names,
   picked : SUBSET Nat, mine : SUBSET Nat]

RequestsTyped ==
  /\ services \in [Names -> Nat] /\ provisions \in [Names -> Nat]
  /\ readiness \in [Names -> {"", "failed", "probing", "ready"}]
  /\ ctxs \in Seq(Contexts)
  /\ conf \in [Handlers -> {Free} \cup Services]
  /\ config.decoded \in Nat /\ accepted \in Nat /\ config.decoded <= accepted
  /\ shutdown \in Nat

(* A connection that may change what runs, and there is one at a time. *)
Changes(h) == Serving(h) /\ conf[h].req.op # "invoke"
OneChanges == \A g, h \in Handlers : Changes(g) /\ Changes(h) => g = h

AllOut == \A n \in Names : services[n] = NoCtx /\ provisions[n] = NoCtx
AllOthersOut(h) ==
  \A n \in Names : /\ services[n] # NoCtx => services[n] \in conf[h].mine
                   /\ provisions[n] # NoCtx => provisions[n] \in conf[h].mine
AllSettledThere == \A n \in Names : services[n] # NoCtx => Settles(services[n])

(* Which request a handler that far serves, and what it has made itself. *)
AskedFor(h) ==
  /\ conf[h].at \in {"diff", "stop", "gone", "register", "settle"} => conf[h].req.op = "configure"
  /\ conf[h].at \in {"store", "files"} => conf[h].req.op \in {"configure", "clean"}
  /\ conf[h].at = "teardown" => conf[h].req.op = "clean"
  /\ conf[h].at \in {"look", "wait"} => conf[h].req.op = "invoke"
  /\ Serving(h) => conf[h].decoded <= accepted
MineInv(h) ==
  /\ Serving(h) => conf[h].mine \subseteq Ids
  /\ conf[h].at \in {"diff", "stop", "gone", "store", "files"} => conf[h].mine = {}
  /\ conf[h].at \in {"register", "settle"} => \A i \in conf[h].mine : ~ctxs[i].stop
  /\ conf[h].at = "register" => \A i \in conf[h].mine : ctxs[i].at = "new"

(* How far a handler is, and what it has found or left in the maps. *)
FoundInv(h) ==
  /\ conf[h].at = "diff" => config.decoded < conf[h].decoded
  /\ conf[h].at \in {"diff", "stop"} =>
       AllSettledThere /\ (shutdown = NoCtx \/ ctxs[shutdown].reached)
  /\ conf[h].at = "stop" => \A n \in Names : services[n] # NoCtx => n \in conf[h].stops
  /\ conf[h].at \in {"gone", "store", "files"} => AllOut
  /\ Changes(h) /\ conf[h].req.op = "clean" => AllOut
  /\ conf[h].at \in {"files", "register"} => config.of = conf[h].req.of
  /\ conf[h].at = "register" => AllOthersOut(h)
HandlerInv(h) == AskedFor(h) /\ MineInv(h) /\ FoundInv(h)

(* What is in the maps is of its name, and what was configured last. *)
MapsInv ==
  \A n \in Names :
    /\ services[n] # NoCtx =>
         /\ services[n] \in Ids
         /\ ctxs[services[n]].name = n /\ ctxs[services[n]].kind = "service"
         /\ n \in DOMAIN config.of
    /\ provisions[n] # NoCtx =>
         /\ provisions[n] \in Ids
         /\ ctxs[provisions[n]].name = n /\ ctxs[provisions[n]].kind = "provision"
         /\ services[n] # NoCtx

(* A context is in the maps until it is over, or told to stop and waited for. *)
Awaited(i) == ctxs[i].stop /\ \E h \in Handlers : conf[h].at = "gone" /\ i \in conf[h].picked
ContextInv(i) ==
  LET c == ctxs[i] IN
    /\ c.kind = "service" /\ ~Over(i) => services[c.name] = i \/ Awaited(i)
    /\ c.kind = "provision" /\ ~Over(i) => provisions[c.name] = i \/ Awaited(i)
    /\ c.kind = "service" => c.at \notin {"shell", "over"}
    /\ c.kind # "service" => c.at \in {"new", "shell", "over"}
    /\ c.at \in {"new", "preparing", "up"} => ~c.reached
    /\ c.at \in {"reached", "ready", "stopped"} => c.reached
    /\ c.kind = "service" /\ c.stop => Settles(i)

(* Whoever asked for the shutdown was not stopped for another. *)
ShutdownInv ==
  /\ shutdown # NoCtx => shutdown \in Ids /\ (ctxs[shutdown].reached \/ ~ctxs[shutdown].stop)
  /\ \A n \in Names : services[n] # NoCtx =>
       \/ Settles(services[n]) \/ shutdown # NoCtx
       \/ \E h \in Handlers : conf[h].at \in {"register", "settle"} /\ services[n] \in conf[h].mine

StatusInv ==
  \A n \in Names : services[n] # NoCtx =>
    /\ ctxs[services[n]].at = "ready" => readiness[n] = "ready"
    /\ ctxs[services[n]].at = "up" => readiness[n] = "probing"

Serial ==
  /\ RequestsTyped /\ OneChanges
  /\ \A h \in Handlers : HandlerInv(h)
  /\ MapsInv
  /\ \A i \in Ids : ContextInv(i)
  /\ ShutdownInv /\ StatusInv
RequestsInv == unserialized \/ Serial

-----------------------------------------------------------------------------
(* A step of a supervisor: one context gets on, and may say so. *)

(* The context i gets on: nothing it reached is taken back, only a service
   speaks or brings the alpha down, and what it says is what it is. *)
GetsOn(i) ==
  /\ ctxs' \in Seq(Contexts) /\ Len(ctxs') = Len(ctxs)
  /\ \A j \in Ids \ {i} : ctxs'[j] = ctxs[j]
  /\ ctxs'[i].name = ctxs[i].name /\ ctxs'[i].kind = ctxs[i].kind /\ ctxs'[i].stop = ctxs[i].stop
  /\ ctxs[i].reached => ctxs'[i].reached
  /\ ~Over(i) /\ ctxs[i].at # "new"
  /\ IF ctxs[i].kind = "service"
     THEN /\ ctxs'[i].at \in {"up", "reached", "ready", "failed", "stopped"}
          /\ ctxs'[i].at = "up" => ~ctxs'[i].reached
          /\ ctxs'[i].at \in {"reached", "ready", "stopped"} => ctxs'[i].reached
     ELSE ctxs'[i].at = "over"
Tells(i) ==
  /\ readiness' \in [Names -> {"", "failed", "probing", "ready"}]
  /\ \A n \in Names : readiness'[n] = readiness[n] \/ (n = ctxs[i].name /\ ctxs[i].kind = "service")
  /\ ctxs'[i].at = "ready" => readiness'[ctxs[i].name] = "ready"
  /\ ctxs'[i].at = "up" => readiness'[ctxs[i].name] = "probing"
  /\ shutdown' = shutdown \/ (shutdown = NoCtx /\ shutdown' = i /\ ctxs[i].kind = "service")
Turns(i) == GetsOn(i) /\ Tells(i) /\ Handling

(* Every context has a name, a kind and a state. *)
LEMMA ContextTyped ==
  ASSUME Serial, NEW i \in Ids
  PROVE  /\ ctxs[i] \in Contexts /\ ctxs[i].name \in Names /\ i \in Nat /\ i # NoCtx
         /\ ctxs[i] = [name |-> ctxs[i].name, kind |-> ctxs[i].kind, at |-> ctxs[i].at,
                       stop |-> ctxs[i].stop, failfast |-> ctxs[i].failfast, reached |-> ctxs[i].reached]
<1>1. ctxs \in Seq(Contexts)  BY DEF Serial, RequestsTyped
<1>2. ctxs[i] \in Contexts  BY <1>1, ElementOfSeq DEF Ids
<1> QED  BY <1>2 DEF Contexts, Ids, NoCtx

(* Only one handler waits for what was stopped, and it is a configure. *)
LEMMA AwaitedWhenOut ==
  ASSUME Serial, NEW i, Awaited(i)
  PROVE  AllOut /\ \A g \in Handlers : conf[g].at \notin {"diff", "stop", "register", "settle"}
<1>1. PICK h \in Handlers : conf[h].at = "gone"  BY DEF Awaited
<1>2. AllOut  BY <1>1 DEF Serial, HandlerInv, FoundInv
<1>3. ASSUME NEW g \in Handlers, conf[g].at \in {"diff", "stop", "register", "settle"} PROVE FALSE
  <2>1. conf[h].req.op = "configure" /\ conf[g].req.op = "configure"
    BY <1>1, <1>3 DEF Serial, HandlerInv, AskedFor
  <2>2. Changes(h) /\ Changes(g)  BY <1>1, <1>3, <2>1 DEF Changes, Serving, In
  <2> QED  BY <1>1, <1>3, <2>2 DEF Serial, OneChanges
<1> QED  BY <1>2, <1>3

(* What is settled stays so. *)
LEMMA SettledStays ==
  ASSUME Serial, NEW i \in Ids, GetsOn(i), NEW j \in Ids, Settles(j)
  PROVE  Settles(j)'
<1>1. CASE j # i  BY <1>1 DEF GetsOn, Settles
<1>2. CASE j = i  BY <1>2 DEF GetsOn, Settles, Over
<1> QED  BY <1>1, <1>2

(* What a supervisor does leaves the invariant as it is. *)
LEMMA TurnKeeps ==
  ASSUME Serial, NEW i \in Ids, Turns(i)
  PROVE  Serial'
<1> USE DEF Handling, Maps, Asks
<1>0. /\ ctxs' \in Seq(Contexts) /\ Ids' = Ids
      /\ \A j \in Ids : /\ ctxs'[j].name = ctxs[j].name /\ ctxs'[j].kind = ctxs[j].kind
                        /\ ctxs'[j].stop = ctxs[j].stop /\ (ctxs[j].reached => ctxs'[j].reached)
                        /\ Over(j) => ctxs'[j] = ctxs[j]
                        /\ ctxs[j].at = "new" => ctxs'[j] = ctxs[j]
  BY DEF Turns, GetsOn, Ids
<1>1. RequestsTyped'
  <2>1. i \in Nat  BY DEF Ids
  <2>2. shutdown' \in Nat  BY <2>1 DEF Serial, RequestsTyped, Turns, Tells
  <2>3. readiness' \in [Names -> {"", "failed", "probing", "ready"}]  BY DEF Turns, Tells
  <2> QED  BY <1>0, <2>2, <2>3 DEF Serial, RequestsTyped, Turns, Services
<1>2. OneChanges'  BY DEF Serial, OneChanges, Changes, Serving, In, Turns
<1>3. ctxs[i].kind = "service" =>
        \/ services[ctxs[i].name] = i
        \/ AllOut /\ \A g \in Handlers : conf[g].at \notin {"diff", "stop", "register", "settle"}
  BY AwaitedWhenOut DEF Serial, ContextInv, Turns, GetsOn
<1>4. ASSUME NEW h \in Handlers PROVE HandlerInv(h)'
  <2>1. AskedFor(h)'  BY DEF Serial, HandlerInv, AskedFor, Serving, In, Turns
  <2>2. MineInv(h)'
    BY <1>0 DEF Serial, HandlerInv, MineInv, Serving, In, Turns
  <2>3. AllSettledThere => AllSettledThere'
    BY SettledStays DEF AllSettledThere, Serial, MapsInv, Turns
  <2>4. conf[h].at \in {"diff", "stop"} => shutdown' = NoCtx \/ ctxs'[shutdown'].reached
    <3> SUFFICES ASSUME conf[h].at \in {"diff", "stop"}, shutdown' # NoCtx
                 PROVE  ctxs'[shutdown'].reached
      OBVIOUS
    <3>1. CASE shutdown' = shutdown
      BY <1>0, <3>1 DEF Serial, HandlerInv, FoundInv, ShutdownInv
    <3>2. CASE shutdown' = i /\ ctxs[i].kind = "service"
      <4>1. services[ctxs[i].name] = i  BY <1>3, <3>2
      <4>2. ctxs[i].name \in Names  BY ContextTyped
      <4>3. Settles(i)
        BY <4>1, <4>2, <3>2 DEF Serial, HandlerInv, FoundInv, AllSettledThere
      <4> QED  BY <1>0, <4>3, <3>2 DEF Settles, Turns, GetsOn, Over
    <3> QED  BY <3>1, <3>2 DEF Turns, Tells
  <2>5. FoundInv(h)'
    BY <2>3, <2>4 DEF Serial, HandlerInv, FoundInv, AllOut, AllOthersOut, Changes, Serving, In, Turns
  <2> QED  BY <2>1, <2>2, <2>5 DEF HandlerInv
<1>5. MapsInv'  BY <1>0 DEF Serial, MapsInv, Turns
<1>6. ASSUME NEW j \in Ids PROVE ContextInv(j)'
  <2>1. CASE j # i
    <3>1. ctxs'[j] = ctxs[j]  BY <2>1 DEF Turns, GetsOn
    <3> QED  BY <3>1 DEF Serial, ContextInv, Awaited, Over, Settles, Turns
  <2>2. CASE j = i
    <3>1. ContextInv(i)  BY DEF Serial
    <3>2. Settles(i) => Settles(i)'  BY SettledStays DEF Turns
    <3> QED  BY <2>2, <3>1, <3>2 DEF ContextInv, Awaited, Over, Turns, GetsOn
  <2> QED  BY <2>1, <2>2
<1>7. ShutdownInv'
  <2>1. shutdown' # NoCtx => shutdown' \in Ids /\ (ctxs'[shutdown'].reached \/ ~ctxs'[shutdown'].stop)
    <3>1. CASE shutdown' = shutdown
      BY <1>0, <3>1 DEF Serial, ShutdownInv
    <3>2. CASE shutdown' = i /\ ctxs[i].kind = "service"
      BY <1>0, <3>2 DEF Serial, ContextInv, Settles, Turns, GetsOn, Over
    <3> QED  BY <3>1, <3>2 DEF Turns, Tells
  <2>2. shutdown # NoCtx => shutdown' # NoCtx
    BY DEF Turns, Tells
  <2>3. \A n \in Names : services[n] # NoCtx => services[n] \in Ids  BY DEF Serial, MapsInv
  <2> QED  BY <1>0, <2>1, <2>2, <2>3, SettledStays DEF Serial, ShutdownInv, Turns
<1>8. StatusInv'
  <2> SUFFICES ASSUME NEW n \in Names, services[n] # NoCtx
               PROVE  /\ ctxs'[services[n]].at = "ready" => readiness'[n] = "ready"
                      /\ ctxs'[services[n]].at = "up" => readiness'[n] = "probing"
    BY DEF StatusInv, Turns
  <2>1. services[n] \in Ids /\ ctxs[services[n]].name = n  BY DEF Serial, MapsInv
  <2>2. CASE services[n] = i  BY <2>1, <2>2 DEF Turns, Tells
  <2>3. CASE services[n] # i
    <3>1. ctxs'[services[n]] = ctxs[services[n]]  BY <2>1, <2>3 DEF Turns, GetsOn
    <3>2. readiness'[n] = readiness[n]  BY <1>3, <2>3 DEF Turns, Tells, AllOut
    <3> QED  BY <3>1, <3>2 DEF Serial, StatusInv
  <2> QED  BY <2>2, <2>3
<1> QED  BY <1>0, <1>1, <1>2, <1>4, <1>5, <1>6, <1>7, <1>8 DEF Serial

(* A context put in the place of another leaves the others as they are. *)
LEMMA PutInPlace ==
  ASSUME Serial, NEW i \in Ids, NEW c \in Contexts, ctxs' = [ctxs EXCEPT ![i] = c]
  PROVE  /\ ctxs' \in Seq(Contexts) /\ Len(ctxs') = Len(ctxs) /\ ctxs'[i] = c
         /\ \A j \in Ids \ {i} : ctxs'[j] = ctxs[j]
<1>1. ctxs \in Seq(Contexts)  BY DEF Serial, RequestsTyped
<1> QED  BY <1>1, ExceptSeq DEF Ids

(* A context that only changes its state. *)
LEMMA EndsInPlace ==
  ASSUME Serial, NEW i \in Ids,
         NEW at \in {"up", "ready", "failed", "stopped", "over"}, CtxTo(i, at)
  PROVE  /\ ctxs' \in Seq(Contexts) /\ Len(ctxs') = Len(ctxs)
         /\ \A j \in Ids \ {i} : ctxs'[j] = ctxs[j]
         /\ ctxs'[i].name = ctxs[i].name /\ ctxs'[i].kind = ctxs[i].kind /\ ctxs'[i].stop = ctxs[i].stop
         /\ ctxs'[i].reached = ctxs[i].reached /\ ctxs'[i].at = at
<1> DEFINE c == [ctxs[i] EXCEPT !.at = at]
<1>1. ctxs[i] \in Contexts  BY ContextTyped
<1>2. c \in Contexts  BY <1>1 DEF Contexts
<1>3. ctxs' = [ctxs EXCEPT ![i] = c]  BY DEF CtxTo
<1>4. /\ c.name = ctxs[i].name /\ c.kind = ctxs[i].kind /\ c.stop = ctxs[i].stop
      /\ c.reached = ctxs[i].reached /\ c.at = at
  BY <1>1 DEF Contexts
<1> HIDE DEF c
<1> QED  BY <1>2, <1>3, <1>4, PutInPlace

(* Every step of a supervisor is one of getting on. *)
LEMMA SuperviseTurns ==
  ASSUME Serial, NEW i \in Ids, Supervise(i)
  PROVE  Turns(i)
<1>1. ContextInv(i)  BY DEF Serial
<1>2. /\ readiness \in [Names -> {"", "failed", "probing", "ready"}]
      /\ ctxs[i].name \in Names
  BY ContextTyped DEF Serial, RequestsTyped
<1> USE DEF Turns, Tells, GetsOn, Over
<1>3. CASE PrepareFails(i)
  BY <1>1, <1>2, <1>3, EndsInPlace DEF PrepareFails, Says, Blames, ContextInv
<1>4. CASE Gate(i)  BY <1>1, <1>2, <1>4, EndsInPlace DEF Gate, ContextInv
<1>5. CASE Spawned(i)  BY <1>1, <1>2, <1>5, EndsInPlace DEF Spawned, Says, ContextInv
<1>6. CASE ProbePasses(i)
  <2> DEFINE c == [ctxs[i] EXCEPT !.at = "reached", !.reached = TRUE]
  <2>1. ctxs[i] \in Contexts  BY ContextTyped
  <2>2. c \in Contexts  BY <2>1 DEF Contexts
  <2>3. ctxs' = [ctxs EXCEPT ![i] = c]  BY <1>6 DEF ProbePasses
  <2>4. /\ c.name = ctxs[i].name /\ c.kind = ctxs[i].kind /\ c.stop = ctxs[i].stop
        /\ c.reached /\ c.at = "reached"
    BY <2>1 DEF Contexts
  <2> HIDE DEF c
  <2>5. /\ ctxs' \in Seq(Contexts) /\ Len(ctxs') = Len(ctxs) /\ ctxs'[i] = c
        /\ \A j \in Ids \ {i} : ctxs'[j] = ctxs[j]
    BY <2>2, <2>3, PutInPlace
  <2> QED  BY <1>1, <1>2, <1>6, <2>4, <2>5 DEF ProbePasses, ContextInv
<1>7. CASE ReportsReady(i)
  BY <1>1, <1>2, <1>7, EndsInPlace DEF ReportsReady, Says, ContextInv
<1>8. CASE ProbeFails(i)
  BY <1>1, <1>2, <1>8, EndsInPlace DEF ProbeFails, Says, Blames, ContextInv
<1>9. CASE ExitsEarly(i)
  BY <1>1, <1>2, <1>9, EndsInPlace DEF ExitsEarly, Says, Blames, ContextInv
<1>10. CASE Exits(i)  BY <1>1, <1>2, <1>10, EndsInPlace DEF Exits, Blames, ContextInv
<1>11. CASE Stops(i)  BY <1>1, <1>2, <1>11, EndsInPlace DEF Stops, ContextInv
<1>12. CASE ShellEnds(i)  BY <1>1, <1>2, <1>12, EndsInPlace DEF ShellEnds, ContextInv
<1> QED
  BY <1>3, <1>4, <1>5, <1>6, <1>7, <1>8, <1>9, <1>10, <1>11, <1>12 DEF Supervise

-----------------------------------------------------------------------------
(* A step of a handler: what it has come to, and what it leaves of the rest. *)

(* The handler h gets on and nothing else moves; it stops waiting only for
   what is over, and a configure answers only when its services settled or
   the alpha goes down. *)
Handled(h) ==
  /\ UNCHANGED <<services, provisions, config, readiness, ctxs>>
  /\ conf' \in [Handlers -> {Free} \cup Services]
  /\ \A g \in Handlers \ {h} : conf'[g] = conf[g]
  /\ accepted' \in Nat /\ accepted <= accepted'
  /\ \/ shutdown' = shutdown
     \/ /\ shutdown = NoCtx /\ Changes(h) /\ shutdown' \in Ids
        /\ ctxs[shutdown'].reached \/ ~ctxs[shutdown'].stop
  /\ conf[h].at = "gone" => \A i \in conf[h].picked : Over(i)
  /\ conf[h].at = "settle" => shutdown' # NoCtx \/ AllSettled(h)
  /\ conf[h].at # "register" \/ (conf'[h].at = "settle" /\ conf'[h].mine = conf[h].mine)

(* A handler at work knows its request and what it has found. *)
LEMMA ServiceTyped ==
  ASSUME Serial, NEW h \in Handlers, Serving(h)
  PROVE  /\ conf[h] \in Services /\ conf[h].req \in Asked /\ conf[h].decoded \in Nat
         /\ conf[h].stops \subseteq Names /\ conf[h].running \subseteq Names
         /\ conf[h].picked \subseteq Nat /\ conf[h].mine \subseteq Nat
<1>1. conf[h] \in {Free} \cup Services  BY DEF Serial, RequestsTyped
<1>2. conf[h] \in Services  BY <1>1 DEF Serving, In, Free
<1> QED  BY <1>2 DEF Services

(* A handler at work changes something exactly when it serves no invoke. *)
LEMMA WhoChanges ==
  ASSUME Serial, NEW g \in Handlers,
         conf[g].at \in {"diff", "stop", "gone", "store", "files", "register", "settle", "teardown"}
  PROVE  Changes(g)
<1>1. AskedFor(g)  BY DEF Serial, HandlerInv
<1> QED  BY <1>1 DEF AskedFor, Changes, Serving, In

LEMMA HandledKeeps ==
  ASSUME Serial, NEW h \in Handlers, Handled(h), OneChanges', HandlerInv(h)'
  PROVE  Serial'
<1>0. Ids' = Ids  BY DEF Handled, Ids
<1>1. RequestsTyped'
  <2>1. \A i \in Ids : i \in Nat  BY ContextTyped
  <2>2. shutdown' \in Nat
    <3>1. shutdown \in Nat  BY DEF Serial, RequestsTyped
    <3>2. shutdown' = shutdown \/ shutdown' \in Ids  BY DEF Handled
    <3> QED  BY <2>1, <3>1, <3>2
  <2>3. config.decoded <= accepted'
    <3>1. config.decoded \in Nat /\ accepted \in Nat /\ config.decoded <= accepted
      BY DEF Serial, RequestsTyped
    <3>2. accepted' \in Nat /\ accepted <= accepted'  BY DEF Handled
    <3> QED  BY <3>1, <3>2
  <2> QED  BY <2>2, <2>3 DEF Serial, RequestsTyped, Handled, Services, Contexts
<1>2. ASSUME NEW g \in Handlers PROVE HandlerInv(g)'
  <2>1. CASE g = h  BY <2>1
  <2>2. CASE g # h
    <3>1. conf'[g] = conf[g]  BY <2>2 DEF Handled
    <3>2. AskedFor(g)'
      <4>1. Serving(g) => conf[g].decoded <= accepted'
        <5>1. Serving(g) => conf[g].decoded \in Nat  BY ServiceTyped
        <5>2. AskedFor(g)  BY DEF Serial, HandlerInv
        <5>3. accepted \in Nat /\ accepted' \in Nat /\ accepted <= accepted'
          BY DEF Serial, RequestsTyped, Handled
        <5> QED  BY <5>1, <5>2, <5>3 DEF AskedFor
      <4> QED  BY <3>1, <4>1 DEF Serial, HandlerInv, AskedFor, Serving, In
    <3>3. MineInv(g)'  BY <3>1, <1>0 DEF Serial, HandlerInv, MineInv, Serving, In, Handled
    <3>4. conf[g].at \in {"diff", "stop"} => shutdown' = shutdown
      BY <2>2, WhoChanges DEF Serial, OneChanges, Handled
    <3>5. FoundInv(g)'
      BY <3>1, <3>4
      DEF Serial, HandlerInv, FoundInv, AllSettledThere, Settles, AllOut, AllOthersOut, Changes, Serving, In,
          Handled
    <3> QED  BY <3>2, <3>3, <3>5 DEF HandlerInv
  <2> QED  BY <2>1, <2>2
<1>3. MapsInv'  BY <1>0 DEF Serial, MapsInv, Handled
<1>4. ASSUME NEW i \in Ids PROVE ContextInv(i)'
  <2>1. ContextInv(i)  BY DEF Serial
  <2>2. Awaited(i) /\ ~Over(i) => Awaited(i)'
    <3> SUFFICES ASSUME NEW g \in Handlers, conf[g].at = "gone", i \in conf[g].picked, ~Over(i)
                 PROVE  conf'[g] = conf[g]
      BY DEF Awaited, Handled
    <3> QED  BY DEF Handled
  <2> QED  BY <2>1, <2>2 DEF ContextInv, Over, Settles, Handled
<1>5. ShutdownInv'
  <2>1. shutdown' # NoCtx => shutdown' \in Ids /\ (ctxs[shutdown'].reached \/ ~ctxs[shutdown'].stop)
    BY DEF Serial, ShutdownInv, Handled
  <2>2. ASSUME NEW n \in Names, services[n] # NoCtx
        PROVE  \/ Settles(services[n]) \/ shutdown' # NoCtx
               \/ \E g \in Handlers : conf'[g].at \in {"register", "settle"} /\ services[n] \in conf'[g].mine
    <3>0. services[n] \in Ids /\ ctxs[services[n]].kind = "service"  BY <2>2 DEF Serial, MapsInv
    <3>1. CASE Settles(services[n]) \/ shutdown # NoCtx  BY <3>1 DEF Handled
    <3>2. CASE \E g \in Handlers : conf[g].at \in {"register", "settle"} /\ services[n] \in conf[g].mine
      <4>1. PICK g \in Handlers : conf[g].at \in {"register", "settle"} /\ services[n] \in conf[g].mine
        BY <3>2
      <4>2. CASE g # h  BY <4>1, <4>2 DEF Handled
      <4>3. CASE g = h /\ conf[h].at = "register"  BY <4>1, <4>3 DEF Handled
      <4>4. CASE g = h /\ conf[h].at = "settle"
        BY <3>0, <4>1, <4>4 DEF Handled, AllSettled, Mine
      <4> QED  BY <4>1, <4>2, <4>3, <4>4
    <3> QED  BY <2>2, <3>1, <3>2 DEF Serial, ShutdownInv
  <2> QED  BY <1>0, <2>1, <2>2 DEF ShutdownInv, Settles, Handled
<1>6. StatusInv'  BY DEF Serial, StatusInv, Handled
<1> QED  BY <1>0, <1>1, <1>2, <1>3, <1>4, <1>5, <1>6 DEF Serial

(* What asks for nothing leaves the count of the requests as it is. *)
LEMMA CountKept ==
  ASSUME Serial, Asks
  PROVE  accepted' \in Nat /\ accepted <= accepted'
<1>1. accepted \in Nat  BY DEF Serial, RequestsTyped
<1>2. accepted' = accepted  BY DEF Asks
<1> QED  BY <1>1, <1>2

States == {"diff", "stop", "gone", "store", "files", "register", "settle", "teardown", "look", "wait"}

(* A handler that gets on keeps its request and what it found. *)
LEMMA GoesOn ==
  ASSUME Serial, NEW h \in Handlers, Serving(h), NEW at \in States, HandlerTo(h, at)
  PROVE  /\ conf' \in [Handlers -> {Free} \cup Services]
         /\ \A g \in Handlers \ {h} : conf'[g] = conf[g]
         /\ conf'[h].at = at /\ conf'[h].req = conf[h].req /\ conf'[h].decoded = conf[h].decoded
         /\ conf'[h].running = conf[h].running /\ conf'[h].stops = conf[h].stops
         /\ conf'[h].picked = conf[h].picked /\ conf'[h].mine = conf[h].mine
         /\ OneChanges'
<1>1. conf[h] \in Services /\ conf \in [Handlers -> {Free} \cup Services]
  BY ServiceTyped DEF Serial, RequestsTyped
<1>2. conf' = [conf EXCEPT ![h] = [conf[h] EXCEPT !.at = at]]  BY DEF HandlerTo
<1>3. [conf[h] EXCEPT !.at = at] \in Services  BY <1>1 DEF Services, States
<1>4. conf'[h] = [conf[h] EXCEPT !.at = at] /\ \A g \in Handlers \ {h} : conf'[g] = conf[g]
  BY <1>1, <1>2
<1>5. /\ conf'[h].at = at /\ conf'[h].req = conf[h].req /\ conf'[h].decoded = conf[h].decoded
      /\ conf'[h].running = conf[h].running /\ conf'[h].stops = conf[h].stops
      /\ conf'[h].picked = conf[h].picked /\ conf'[h].mine = conf[h].mine
  BY <1>1, <1>4 DEF Services
<1>6. OneChanges'
  <2>1. ASSUME NEW g \in Handlers PROVE Changes(g)' => Changes(g)
    <3>1. CASE g = h  BY <1>5, <3>1 DEF Changes
    <3>2. CASE g # h  BY <1>4, <3>2 DEF Changes, Serving, In
    <3> QED  BY <3>1, <3>2
  <2> QED  BY <2>1 DEF Serial, OneChanges
<1> QED  BY <1>1, <1>2, <1>3, <1>4, <1>5, <1>6

(* An answer ends what the handler did, whatever it was. *)
LEMMA AnswerKeeps ==
  ASSUME Serial, NEW h \in Handlers, Answers(h), Maps, Asks, UNCHANGED <<config, readiness, ctxs>>,
         conf[h].at \notin {"gone", "register"},
         \/ shutdown' = shutdown
         \/ /\ shutdown = NoCtx /\ Changes(h) /\ shutdown' \in Ids
            /\ ctxs[shutdown'].reached \/ ~ctxs[shutdown'].stop,
         conf[h].at = "settle" => shutdown' # NoCtx \/ AllSettled(h)
  PROVE  Serial'
<1>1. conf' = [conf EXCEPT ![h] = Free] /\ conf \in [Handlers -> {Free} \cup Services]
  BY DEF Answers, Serial, RequestsTyped
<1>2. conf'[h] = Free /\ \A g \in Handlers \ {h} : conf'[g] = conf[g]  BY <1>1
<1>3. OneChanges'  BY <1>2 DEF Serial, OneChanges, Changes, Serving, In, Free
<1>4. HandlerInv(h)'
  BY <1>2 DEF HandlerInv, AskedFor, MineInv, FoundInv, Changes, Serving, In, Free
<1>5. Handled(h)
  <2>1. accepted' \in Nat /\ accepted <= accepted'  BY CountKept
  <2>2. conf' \in [Handlers -> {Free} \cup Services]  BY <1>1
  <2> QED  BY <1>2, <2>1, <2>2 DEF Handled, Maps
<1> QED  BY <1>3, <1>4, <1>5, HandledKeeps

(* Getting on to a state the handler may be in leaves the rest in place. *)
LEMMA GoKeeps ==
  ASSUME Serial, NEW h \in Handlers, Serving(h), NEW at \in States, HandlerTo(h, at), HandlerInv(h)',
         Maps, Asks, UNCHANGED <<config, readiness, ctxs, shutdown>>,
         conf[h].at \notin {"register", "settle"},
         conf[h].at = "gone" => \A i \in conf[h].picked : Over(i)
  PROVE  Serial'
<1>1. accepted' \in Nat /\ accepted <= accepted'  BY CountKept
<1>2. Handled(h) /\ OneChanges'  BY <1>1, GoesOn DEF Handled, Maps
<1> QED  BY <1>2, HandledKeeps

(* stopServices waited for everything it picked. *)
LEMMA StoppedKeeps ==
  ASSUME Serial, NEW h \in Handlers, Stopped(h)
  PROVE  Serial'
<1>1. Serving(h) /\ "store" \in States /\ HandlerTo(h, "store")  BY DEF Stopped, Serving, In, States
<1>2. HandlerInv(h)'
  <2>1. HandlerInv(h) /\ conf[h].at = "gone"  BY DEF Serial, Stopped, In
  <2>2. conf'[h].at = "store" /\ conf'[h].req = conf[h].req /\ conf'[h].decoded = conf[h].decoded
        /\ conf'[h].mine = conf[h].mine
    BY <1>1, GoesOn
  <2> QED
    BY <2>1, <2>2
    DEF HandlerInv, AskedFor, MineInv, FoundInv, Changes, Serving, In, AllOut, Ids, Stopped, Maps, Asks
<1> QED  BY <1>1, <1>2, GoKeeps DEF Stopped, In

(* The files are there: a configure registers, a clean runs its snippets. *)
LEMMA MaterializeKeeps ==
  ASSUME Serial, NEW h \in Handlers, Materialize(h)
  PROVE  Serial'
<1> DEFINE at == IF conf[h].req.op = "clean" THEN "teardown" ELSE "register"
<1>1. Serving(h) /\ at \in States /\ HandlerTo(h, at)  BY DEF Materialize, Serving, In, States
<1>2. HandlerInv(h)'
  <2>1. HandlerInv(h) /\ conf[h].at = "files"  BY DEF Serial, Materialize, In
  <2>2. conf'[h].at = at /\ conf'[h].req = conf[h].req /\ conf'[h].decoded = conf[h].decoded
        /\ conf'[h].mine = conf[h].mine
    BY <1>1, GoesOn
  <2> QED
    BY <2>1, <2>2
    DEF HandlerInv, AskedFor, MineInv, FoundInv, Changes, Serving, In, AllOut, AllOthersOut, Ids,
        Materialize, Maps, Asks
<1> QED  BY <1>1, <1>2, GoKeeps DEF Materialize, In

(* Two decodings print differently, so every service that runs is to stop. *)
LEMMA DiffKeeps ==
  ASSUME Serial, NEW h \in Handlers, Diff(h)
  PROVE  Serial'
<1> DEFINE running == {n \in Names : services[n] # NoCtx}
           stops == {n \in running \cap DOMAIN config.of : Changed(n, conf[h].req.of, conf[h].decoded)}
           now == [conf[h] EXCEPT !.at = "stop", !.running = running, !.stops = stops]
<1>0. HandlerInv(h) /\ conf[h].at = "diff" /\ Serving(h)  BY DEF Serial, Diff, Serving, In
<1>1. conf[h] \in Services /\ conf \in [Handlers -> {Free} \cup Services]
  BY <1>0, ServiceTyped DEF Serial, RequestsTyped
<1>2. conf' = [conf EXCEPT ![h] = now]  BY DEF Diff
<1>3. running \in SUBSET Names /\ stops \in SUBSET Names  OBVIOUS
<1>4. \A n \in running : n \in stops
  <2> SUFFICES ASSUME NEW n \in Names, services[n] # NoCtx PROVE n \in stops
    OBVIOUS
  <2>1. n \in DOMAIN config.of  BY DEF Serial, MapsInv
  <2>2. config.decoded \in Nat /\ conf[h].decoded \in Nat /\ config.decoded < conf[h].decoded
    BY <1>0, ServiceTyped DEF Serial, RequestsTyped, HandlerInv, FoundInv
  <2>3. config.decoded # conf[h].decoded  BY <2>2
  <2>4. Changed(n, conf[h].req.of, conf[h].decoded)  BY <2>3 DEF Changed, Printed
  <2> QED  BY <2>1, <2>4
<1> HIDE DEF running, stops
<1>5. now \in Services  BY <1>1, <1>3 DEF Services
<1>6. /\ now.at = "stop" /\ now.req = conf[h].req /\ now.decoded = conf[h].decoded
      /\ now.stops = stops /\ now.picked = conf[h].picked /\ now.mine = conf[h].mine
  BY <1>1 DEF Services
<1> HIDE DEF now
<1>7. conf'[h] = now /\ (\A g \in Handlers \ {h} : conf'[g] = conf[g])
      /\ conf' \in [Handlers -> {Free} \cup Services]
  BY <1>1, <1>2, <1>5
<1>8. OneChanges'
  <2>1. ASSUME NEW g \in Handlers PROVE Changes(g)' => Changes(g)
    <3>1. CASE g = h  BY <1>0, <1>6, <1>7, <3>1 DEF Changes
    <3>2. CASE g # h  BY <1>7, <3>2 DEF Changes, Serving, In
    <3> QED  BY <3>1, <3>2
  <2> QED  BY <2>1 DEF Serial, OneChanges
<1>9. HandlerInv(h)'
  <2>1. \A n \in Names : services[n] # NoCtx => n \in stops  BY <1>4 DEF running
  <2> QED
    BY <1>0, <1>6, <1>7, <2>1
    DEF HandlerInv, AskedFor, MineInv, FoundInv, Changes, Serving, In, AllSettledThere, Settles, Ids,
        Diff, Maps, Asks
<1>10. Handled(h)
  <2>1. accepted' \in Nat /\ accepted <= accepted'  BY CountKept DEF Diff
  <2> QED  BY <1>0, <1>7, <2>1 DEF Handled, Diff, Maps
<1> QED  BY <1>8, <1>9, <1>10, HandledKeeps

(* The first thing done for a request of each kind. *)
LEMMA FirstIs == First.configure = "diff" /\ First.clean = "store" /\ First.invoke = "look"
BY DEF First

(* A request taken in while the requests are served one after the other. *)
LEMMA AcceptKeeps ==
  ASSUME RequestsAssumption, Serial, NEW h \in Handlers, Accept(h), ~unserialized'
  PROVE  Serial'
<1>1. PICK q \in Asked :
        /\ conf' = [conf EXCEPT ![h] =
             [at |-> First[q.op], req |-> q, decoded |-> accepted + 1, running |-> {}, stops |-> {},
              picked |-> {}, mine |-> {}]]
        /\ ~(q.op # "invoke" /\ \E g \in Handlers \ {h} : Serving(g) /\ conf[g].req.op # "invoke")
        /\ ~(q.op = "clean" /\ \E n \in Names : services[n] # NoCtx)
  BY DEF Accept
<1> DEFINE now == [at |-> First[q.op], req |-> q, decoded |-> accepted + 1, running |-> {}, stops |-> {},
                   picked |-> {}, mine |-> {}]
<1>2. q.op \in {"configure", "clean", "invoke"}  BY DEF RequestsAssumption
<1>3. now.at = IF q.op = "configure" THEN "diff" ELSE IF q.op = "clean" THEN "store" ELSE "look"
  BY <1>2, FirstIs DEF First
<1>4. accepted \in Nat /\ config.decoded \in Nat /\ config.decoded <= accepted /\ accepted' = accepted + 1
  BY DEF Serial, RequestsTyped, Accept
<1>5. /\ now.req = q /\ now.decoded = accepted + 1 /\ now.picked = {} /\ now.mine = {}
      /\ now.running = {} /\ now.stops = {}
  OBVIOUS
<1>6. now \in Services  BY <1>3, <1>4, <1>2 DEF Services
<1>7. conf'[h] = now /\ (\A g \in Handlers \ {h} : conf'[g] = conf[g])
      /\ conf' \in [Handlers -> {Free} \cup Services]
  BY <1>1, <1>6 DEF Serial, RequestsTyped
<1> HIDE DEF now
<1>8. conf[h].at = "free"  BY DEF Accept, Serving, In
<1>9. OneChanges'
  <2>1. ASSUME NEW g \in Handlers, g # h PROVE ~Changes(g) \/ q.op = "invoke"
    BY <1>1, <2>1 DEF Changes
  <2>2. ASSUME NEW g \in Handlers, g # h PROVE Changes(g)' <=> Changes(g)
    BY <1>7, <2>2 DEF Changes, Serving, In
  <2>3. Changes(h)' => q.op # "invoke"  BY <1>5, <1>7 DEF Changes
  <2> QED  BY <2>1, <2>2, <2>3 DEF Serial, OneChanges
<1>10. HandlerInv(h)'
  <2>1. AskedFor(h)'
    BY <1>2, <1>3, <1>4, <1>5, <1>7 DEF AskedFor, Serving, In
  <2>2. MineInv(h)'  BY <1>3, <1>5, <1>7 DEF MineInv, Serving, In
  <2>3. q.op = "clean" => AllOut'
    BY <1>1 DEF Accept, Maps, AllOut, Serial, MapsInv
  <2>4. q.op = "configure" => AllSettledThere'
    <3> SUFFICES ASSUME q.op = "configure", NEW n \in Names, services[n] # NoCtx
                 PROVE  Settles(services[n])
      BY DEF AllSettledThere, Settles, Accept, Maps
    <3>1. \A g \in Handlers : conf[g].at \notin {"register", "settle"}
      <4> SUFFICES ASSUME NEW g \in Handlers, conf[g].at \in {"register", "settle"} PROVE FALSE
        OBVIOUS
      <4>1. Changes(g)  BY WhoChanges
      <4>2. g # h  BY <1>8
      <4> QED  BY <1>1, <4>1, <4>2 DEF Changes
    <3> QED  BY <3>1 DEF Serial, ShutdownInv, Accept
  <2>5. conf'[h].at = "diff" => config'.decoded < conf'[h].decoded
    BY <1>4, <1>5, <1>7 DEF Accept
  <2>6. shutdown' = NoCtx  BY DEF Accept
  <2>7. conf'[h].at = "diff" => q.op = "configure"  BY <1>2, <1>3, <1>7
  <2>8. conf'[h].at = "store" => q.op = "clean"  BY <1>2, <1>3, <1>7
  <2>9. conf'[h].at \in {"diff", "store", "look"} /\ conf'[h].req = q  BY <1>2, <1>3, <1>5, <1>7
  <2>10. FoundInv(h)'
    BY <2>3, <2>4, <2>5, <2>6, <2>7, <2>8, <2>9 DEF FoundInv
  <2> QED  BY <2>1, <2>2, <2>10 DEF HandlerInv
<1>11. Handled(h)
  <2>1. accepted' \in Nat /\ accepted <= accepted'  BY <1>4
  <2> QED  BY <1>7, <1>8, <2>1 DEF Handled, Accept, Maps
<1> QED  BY <1>9, <1>10, <1>11, HandledKeeps

(* failfast: the configure answers with the first service that did not come
   up, and that service, which nobody stopped, brings the alpha down. *)
LEMMA RefuseKeeps ==
  ASSUME Serial, NEW h \in Handlers, Refuse(h)
  PROVE  Serial'
<1>1. PICK i \in Unready(h) : shutdown' = IF shutdown = NoCtx THEN i ELSE shutdown
  BY DEF Refuse
<1>2. conf[h].at = "settle" /\ HandlerInv(h)  BY DEF Refuse, In, Serial
<1>3. i \in Ids /\ ~ctxs[i].stop
  BY <1>2 DEF Unready, Mine, HandlerInv, MineInv, Serving, In
<1>4. Changes(h)  BY <1>2, WhoChanges
<1> QED  BY <1>1, <1>2, <1>3, <1>4, AnswerKeeps DEF Refuse

(* The other ways a handler answers. *)
LEMMA AnswersKeep ==
  ASSUME Serial, NEW h \in Handlers,
         Commit(h) \/ Abandon(h) \/ FilesFail(h) \/ RefuseArgs(h) \/ Invoked(h)
  PROVE  Serial'
<1>1. CASE Commit(h)  BY <1>1, AnswerKeeps DEF Commit, In
<1>2. CASE Abandon(h)  BY <1>2, AnswerKeeps DEF Abandon, In
<1>3. CASE FilesFail(h)  BY <1>3, AnswerKeeps DEF FilesFail, In
<1>4. CASE RefuseArgs(h)  BY <1>4, AnswerKeeps DEF RefuseArgs, In
<1>5. CASE Invoked(h)  BY <1>5, AnswerKeeps DEF Invoked, In
<1> QED  BY <1>1, <1>2, <1>3, <1>4, <1>5

-----------------------------------------------------------------------------
(* The steps that touch the maps, each of the one handler that may. *)

(* A function over an initial segment of the naturals is a sequence. *)
LEMMA FunctionIsSeq ==
  ASSUME NEW S, NEW n \in Nat, NEW f \in [1..n -> S]
  PROVE  f \in Seq(S) /\ Len(f) = n
<1>1. f \in Seq(S)  BY SeqDef
<1>2. DOMAIN f = 1..Len(f) /\ Len(f) \in Nat  BY <1>1, LenProperties
<1>3. DOMAIN f = 1..n  OBVIOUS
<1> QED  BY <1>1, <1>2, <1>3

(* One more at the end of a sequence. *)
LEMMA OneMore ==
  ASSUME NEW S, NEW s \in Seq(S), NEW a \in S
  PROVE  /\ s \o <<a>> \in Seq(S) /\ Len(s \o <<a>>) = Len(s) + 1 /\ (s \o <<a>>)[Len(s) + 1] = a
         /\ \A i \in 1..Len(s) : (s \o <<a>>)[i] = s[i]
<1>1. <<a>> \in Seq(S) /\ Len(<<a>>) = 1 /\ <<a>>[1] = a  OBVIOUS
<1>2. Len(s) \in Nat  BY LenProperties
<1> DEFINE b == <<a>>
<1>3. b \in Seq(S) /\ Len(b) = 1 /\ b[1] = a  BY <1>1
<1> HIDE DEF b
<1>4. /\ s \o b \in Seq(S) /\ Len(s \o b) = Len(s) + Len(b)
      /\ \A i \in 1..Len(s) + Len(b) : (s \o b)[i] = IF i <= Len(s) THEN s[i] ELSE b[i - Len(s)]
  BY <1>3, ConcatProperties
<1>5. (s \o b)[Len(s) + 1] = a /\ \A i \in 1..Len(s) : (s \o b)[i] = s[i]
  <2>1. Len(s) + 1 \in 1..Len(s) + Len(b) /\ ~(Len(s) + 1 <= Len(s)) /\ Len(s) + 1 - Len(s) = 1
    BY <1>2, <1>3
  <2>2. \A i \in 1..Len(s) : i \in 1..Len(s) + Len(b) /\ i <= Len(s)  BY <1>2, <1>3
  <2> QED  BY <1>3, <1>4, <2>1, <2>2
<1> QED  BY <1>3, <1>4, <1>5 DEF b

(* Beside a handler that changes something there are invokes only, and what
   they hold on to is theirs. *)
LEMMA OthersKeep ==
  ASSUME Serial, NEW h \in Handlers, Changes(h), NEW g \in Handlers, g # h,
         conf'[g] = conf[g], Ids \subseteq Ids', accepted' = accepted
  PROVE  HandlerInv(g)'
<1>1. ~Changes(g)  BY DEF Serial, OneChanges
<1>2. conf[g].at \notin {"diff", "stop", "gone", "store", "files", "register", "settle", "teardown"}
  BY <1>1, WhoChanges
<1>3. HandlerInv(g)  BY DEF Serial
<1> QED
  BY <1>1, <1>2, <1>3 DEF HandlerInv, AskedFor, MineInv, FoundInv, Changes, Serving, In

(* alphaState.configure: the maps are empty, so nothing the status forgets
   is up. *)
LEMMA StoreKeeps ==
  ASSUME Serial, NEW h \in Handlers, Store(h)
  PROVE  Serial'
<1>0. conf[h].at = "store" /\ Serving(h) /\ HandlerTo(h, "files") /\ "files" \in States
  BY DEF Store, Serving, In, States
<1>1. HandlerInv(h) /\ AllOut /\ Changes(h)
  BY <1>0, WhoChanges DEF Serial, HandlerInv, FoundInv
<1>2. /\ conf' \in [Handlers -> {Free} \cup Services]
      /\ \A g \in Handlers \ {h} : conf'[g] = conf[g]
      /\ conf'[h].at = "files" /\ conf'[h].req = conf[h].req /\ conf'[h].decoded = conf[h].decoded
      /\ conf'[h].mine = conf[h].mine
      /\ OneChanges'
  BY <1>0, GoesOn
<1>3. /\ config'.of = conf[h].req.of /\ config'.decoded = conf[h].decoded
      /\ conf[h].decoded \in Nat /\ conf[h].decoded <= accepted /\ accepted \in Nat
  BY <1>0, <1>1, ServiceTyped DEF Store, HandlerInv, AskedFor, Serial, RequestsTyped
<1>4. RequestsTyped'
  BY <1>2, <1>3 DEF Store, Serial, RequestsTyped, Maps, Asks
<1>5. ASSUME NEW g \in Handlers PROVE HandlerInv(g)'
  <2>1. CASE g # h
    BY <1>1, <1>2, <2>1, OthersKeep DEF Store, Asks, Ids
  <2>2. CASE g = h
    BY <1>0, <1>1, <1>2, <1>3, <2>2
    DEF HandlerInv, AskedFor, MineInv, FoundInv, Changes, Serving, In, AllOut, Store, Maps, Asks, Ids
  <2> QED  BY <2>1, <2>2
<1>6. MapsInv' /\ StatusInv'  BY <1>1 DEF AllOut, MapsInv, StatusInv, Store, Maps
<1>7. ASSUME NEW i \in Ids PROVE ContextInv(i)'
  <2>1. ContextInv(i)  BY DEF Serial
  <2>2. Awaited(i) => Awaited(i)'
    BY <1>0, <1>2 DEF Awaited, Store
  <2> QED  BY <2>1, <2>2 DEF ContextInv, Over, Settles, Store, Maps
<1>8. ShutdownInv'  BY <1>1 DEF AllOut, Serial, ShutdownInv, Store, Maps, Ids
<1>9. Ids' = Ids  BY DEF Store, Ids
<1> QED  BY <1>2, <1>4, <1>5, <1>6, <1>7, <1>8, <1>9 DEF Serial

(* stopServices: whatever was in the maps is out of them, told and waited
   for. *)
LEMMA StopServicesKeeps ==
  ASSUME Serial, NEW h \in Handlers, StopServices(h)
  PROVE  Serial'
<1> DEFINE taken == Taken(conf[h].stops)
<1>0. conf[h].at = "stop" /\ Serving(h)  BY DEF StopServices, Serving, In
<1>1. HandlerInv(h) /\ Changes(h)  BY <1>0, WhoChanges DEF Serial
<1>2. \A n \in Names : services[n] # NoCtx => n \in conf[h].stops
  BY <1>0, <1>1 DEF HandlerInv, FoundInv
<1>3. \A n \in Names : /\ services[n] # NoCtx => services[n] \in taken
                       /\ provisions[n] # NoCtx => provisions[n] \in taken
  BY <1>2 DEF Taken, Picked, Serial, MapsInv
<1>4. \A i \in taken : i \in Ids /\ \E n \in Names : services[n] = i \/ provisions[n] = i
  <2>1. conf[h].stops \subseteq Names  BY <1>0, ServiceTyped
  <2> QED  BY <2>1 DEF Taken, Picked, Serial, MapsInv
<1>5. /\ services' = [n \in Names |-> IF services[n] \in taken THEN NoCtx ELSE services[n]]
      /\ provisions' = [n \in Names |-> IF provisions[n] \in taken THEN NoCtx ELSE provisions[n]]
      /\ ctxs' = [i \in Ids |-> IF i \in taken THEN [ctxs[i] EXCEPT !.stop = TRUE] ELSE ctxs[i]]
      /\ conf' = [conf EXCEPT ![h].at = "gone", ![h].picked = taken]
      /\ UNCHANGED <<accepted, unserialized, config, readiness, shutdown>>
  BY DEF StopServices, Asks
<1>6. taken \in SUBSET Nat  BY <1>4, ContextTyped
<1> HIDE DEF taken
<1>7. /\ services' \in [Names -> Nat] /\ provisions' \in [Names -> Nat] /\ AllOut'
  BY <1>3, <1>5 DEF Serial, RequestsTyped, AllOut, NoCtx
<1>8. /\ ctxs' \in Seq(Contexts) /\ Ids' = Ids
      /\ \A i \in Ids : /\ ctxs'[i].name = ctxs[i].name /\ ctxs'[i].kind = ctxs[i].kind
                        /\ ctxs'[i].at = ctxs[i].at /\ ctxs'[i].reached = ctxs[i].reached
                        /\ ctxs'[i].stop = (ctxs[i].stop \/ i \in taken)
  <2>1. \A i \in Ids : ctxs[i] \in Contexts  BY ContextTyped
  <2>2. Len(ctxs) \in Nat  BY LenProperties DEF Serial, RequestsTyped
  <2>3. ctxs' \in [1..Len(ctxs) -> Contexts]  BY <1>5, <2>1 DEF Ids, Contexts
  <2>4. ctxs' \in Seq(Contexts) /\ Len(ctxs') = Len(ctxs)  BY <2>2, <2>3, FunctionIsSeq
  <2>5. ASSUME NEW i \in Ids
        PROVE  /\ ctxs'[i].name = ctxs[i].name /\ ctxs'[i].kind = ctxs[i].kind
               /\ ctxs'[i].at = ctxs[i].at /\ ctxs'[i].reached = ctxs[i].reached
               /\ ctxs'[i].stop = (ctxs[i].stop \/ i \in taken)
    <3>1. ctxs[i] \in Contexts  BY <2>1
    <3>2. CASE i \in taken
      <4>1. ctxs'[i] = [ctxs[i] EXCEPT !.stop = TRUE]  BY <1>5, <3>2
      <4> QED  BY <3>1, <3>2, <4>1 DEF Contexts
    <3>3. CASE i \notin taken
      <4>1. ctxs'[i] = ctxs[i]  BY <1>5, <3>3
      <4> QED  BY <3>1, <3>3, <4>1 DEF Contexts
    <3> QED  BY <3>2, <3>3
  <2> QED  BY <2>4, <2>5 DEF Ids
<1>9. /\ conf' \in [Handlers -> {Free} \cup Services]
      /\ \A g \in Handlers \ {h} : conf'[g] = conf[g]
      /\ conf'[h].at = "gone" /\ conf'[h].req = conf[h].req /\ conf'[h].decoded = conf[h].decoded
      /\ conf'[h].picked = taken /\ conf'[h].mine = conf[h].mine
  <2> DEFINE now == [conf[h] EXCEPT !.at = "gone", !.picked = taken]
  <2>1. conf[h] \in Services /\ conf \in [Handlers -> {Free} \cup Services]
    BY <1>0, ServiceTyped DEF Serial, RequestsTyped
  <2>2. now \in Services  BY <1>6, <2>1 DEF Services
  <2>3. /\ now.at = "gone" /\ now.req = conf[h].req /\ now.decoded = conf[h].decoded
        /\ now.picked = taken /\ now.mine = conf[h].mine
    BY <2>1 DEF Services
  <2>4. conf' = [conf EXCEPT ![h] = now]  BY <1>5
  <2> HIDE DEF now
  <2> QED  BY <2>1, <2>2, <2>3, <2>4
<1>10. OneChanges'
  <2>1. ASSUME NEW g \in Handlers PROVE Changes(g)' => Changes(g)
    <3>1. CASE g = h  BY <1>1, <3>1
    <3>2. CASE g # h  BY <1>9, <3>2 DEF Changes, Serving, In
    <3> QED  BY <3>1, <3>2
  <2> QED  BY <2>1 DEF Serial, OneChanges
<1>11. ASSUME NEW g \in Handlers PROVE HandlerInv(g)'
  <2>1. CASE g # h  BY <1>1, <1>5, <1>8, <1>9, <2>1, OthersKeep
  <2>2. CASE g = h
    BY <1>0, <1>1, <1>5, <1>7, <1>8, <1>9, <2>2
    DEF HandlerInv, AskedFor, MineInv, FoundInv, Changes, Serving, In
  <2> QED  BY <2>1, <2>2
<1>12. RequestsTyped'
  BY <1>5, <1>7, <1>8, <1>9 DEF Serial, RequestsTyped
<1>13. MapsInv' /\ StatusInv'  BY <1>7 DEF AllOut, MapsInv, StatusInv
<1>14. ASSUME NEW i \in Ids PROVE ContextInv(i)'
  <2>1. ContextInv(i)  BY DEF Serial
  <2>2. ctxs[i].name \in Names /\ i # NoCtx  BY ContextTyped
  <2>3. ~Awaited(i)  BY <1>0, AwaitedWhenOut
  <2>4. i \in taken => Awaited(i)'  BY <1>8, <1>9 DEF Awaited
  <2>5. services[ctxs[i].name] = i \/ provisions[ctxs[i].name] = i => i \in taken
    BY <1>3, <2>2
  <2>6. i \in taken /\ ctxs[i].kind = "service" => Settles(i)
    <3> SUFFICES ASSUME i \in taken, ctxs[i].kind = "service" PROVE Settles(i)
      OBVIOUS
    <3>1. PICK n \in Names : services[n] = i \/ provisions[n] = i  BY <1>4
    <3>2. services[n] = i  BY <2>2, <3>1 DEF Serial, MapsInv
    <3> QED  BY <1>0, <1>1, <2>2, <3>2 DEF HandlerInv, FoundInv, AllSettledThere
  <2> QED
    BY <1>8, <2>1, <2>3, <2>4, <2>5, <2>6 DEF ContextInv, Over, Settles
<1>15. ShutdownInv'
  <2>1. shutdown = NoCtx \/ ctxs[shutdown].reached
    BY <1>0, <1>1 DEF HandlerInv, FoundInv
  <2> QED  BY <1>5, <1>7, <1>8, <2>1 DEF AllOut, Serial, ShutdownInv
<1> QED  BY <1>8, <1>10, <1>11, <1>12, <1>13, <1>14, <1>15 DEF Serial

(* Everything registered is spawned: what was new begins, or is over only
   when its shell is. *)
LEMMA SpawnKeeps ==
  ASSUME Serial, NEW h \in Handlers, Spawn(h)
  PROVE  Serial'
<1> DEFINE begun(i) == IF ctxs[i].kind = "service" THEN "preparing" ELSE "shell"
<1>0. /\ conf[h].at = "register" /\ Serving(h) /\ HandlerTo(h, "settle") /\ "settle" \in States
      /\ UNCHANGED <<services, provisions, accepted, unserialized, config, readiness, shutdown>>
  BY DEF Spawn, Serving, In, States, Maps, Asks
<1>1. HandlerInv(h) /\ Changes(h)  BY <1>0, WhoChanges DEF Serial
<1>2. \A i \in conf[h].mine : i \in Ids /\ ctxs[i].at = "new" /\ ~ctxs[i].stop
  BY <1>0, <1>1 DEF HandlerInv, MineInv
<1>3. /\ conf' \in [Handlers -> {Free} \cup Services]
      /\ \A g \in Handlers \ {h} : conf'[g] = conf[g]
      /\ conf'[h].at = "settle" /\ conf'[h].req = conf[h].req /\ conf'[h].decoded = conf[h].decoded
      /\ conf'[h].mine = conf[h].mine
      /\ OneChanges'
  BY <1>0, GoesOn
<1>4. ctxs' = [i \in Ids |-> IF i \in conf[h].mine THEN [ctxs[i] EXCEPT !.at = begun(i)] ELSE ctxs[i]]
  BY DEF Spawn
<1>5. /\ ctxs' \in Seq(Contexts) /\ Ids' = Ids
      /\ \A i \in Ids : /\ ctxs'[i].name = ctxs[i].name /\ ctxs'[i].kind = ctxs[i].kind
                        /\ ctxs'[i].reached = ctxs[i].reached /\ ctxs'[i].stop = ctxs[i].stop
                        /\ ctxs'[i].at = IF i \in conf[h].mine THEN begun(i) ELSE ctxs[i].at
  <2>1. \A i \in Ids : ctxs[i] \in Contexts  BY ContextTyped
  <2>2. Len(ctxs) \in Nat  BY LenProperties DEF Serial, RequestsTyped
  <2>3. ctxs' \in [1..Len(ctxs) -> Contexts]  BY <1>4, <2>1 DEF Ids, Contexts
  <2>4. ctxs' \in Seq(Contexts) /\ Len(ctxs') = Len(ctxs)  BY <2>2, <2>3, FunctionIsSeq
  <2>5. ASSUME NEW i \in Ids
        PROVE  /\ ctxs'[i].name = ctxs[i].name /\ ctxs'[i].kind = ctxs[i].kind
               /\ ctxs'[i].reached = ctxs[i].reached /\ ctxs'[i].stop = ctxs[i].stop
               /\ ctxs'[i].at = IF i \in conf[h].mine THEN begun(i) ELSE ctxs[i].at
    <3>1. ctxs[i] \in Contexts  BY <2>1
    <3>2. CASE i \in conf[h].mine
      <4>1. ctxs'[i] = [ctxs[i] EXCEPT !.at = begun(i)]  BY <1>4, <3>2
      <4> HIDE DEF begun
      <4> QED  BY <3>1, <3>2, <4>1 DEF Contexts
    <3>3. CASE i \notin conf[h].mine  BY <1>4, <3>3
    <3> QED  BY <3>2, <3>3
  <2> QED  BY <2>4, <2>5 DEF Ids
<1>6. RequestsTyped'  BY <1>0, <1>3, <1>5 DEF Serial, RequestsTyped
<1>7. ASSUME NEW g \in Handlers PROVE HandlerInv(g)'
  <2>1. CASE g # h  BY <1>0, <1>1, <1>3, <1>5, <2>1, OthersKeep
  <2>2. CASE g = h
    BY <1>0, <1>1, <1>2, <1>3, <1>5, <2>2
    DEF HandlerInv, AskedFor, MineInv, FoundInv, Changes, Serving, In
  <2> QED  BY <2>1, <2>2
<1>8. MapsInv'  BY <1>0, <1>5 DEF Serial, MapsInv
<1>9. ASSUME NEW i \in Ids PROVE ContextInv(i)'
  <2>1. ContextInv(i)  BY DEF Serial
  <2>2. Awaited(i) <=> Awaited(i)'  BY <1>0, <1>3, <1>5 DEF Awaited
  <2>3. CASE i \in conf[h].mine
    BY <1>0, <1>2, <1>5, <2>1, <2>2, <2>3 DEF ContextInv, Over, Settles
  <2>4. CASE i \notin conf[h].mine
    BY <1>0, <1>5, <2>1, <2>2, <2>4 DEF ContextInv, Over, Settles
  <2> QED  BY <2>3, <2>4
<1>10. ShutdownInv'
  <2>1. \A n \in Names : services[n] # NoCtx => services[n] \in Ids  BY DEF Serial, MapsInv
  <2>2. ASSUME NEW n \in Names, services[n] # NoCtx
        PROVE  \/ Settles(services[n])' \/ shutdown' # NoCtx
               \/ \E g \in Handlers : conf'[g].at \in {"register", "settle"} /\ services[n] \in conf'[g].mine
    <3>1. CASE services[n] \in conf[h].mine  BY <1>3, <3>1
    <3>2. CASE services[n] \notin conf[h].mine
      <4>1. Settles(services[n]) <=> Settles(services[n])'
        BY <1>0, <1>5, <2>1, <2>2, <3>2 DEF Settles
      <4> QED  BY <1>0, <1>3, <2>2, <3>2, <4>1 DEF Serial, ShutdownInv
    <3> QED  BY <3>1, <3>2
  <2> QED  BY <1>0, <1>5, <2>2 DEF Serial, ShutdownInv, Settles
<1>11. StatusInv'  BY <1>0, <1>5 DEF Serial, StatusInv, MapsInv
<1> QED  BY <1>3, <1>5, <1>6, <1>7, <1>8, <1>9, <1>10, <1>11 DEF Serial

(* addService and addProvision: the name was in no map, so nothing that runs
   is forgotten. *)
LEMMA RegisterKeeps ==
  ASSUME RequestsAssumption, Serial, NEW h \in Handlers, Register(h)
  PROVE  Serial'
<1>0. /\ conf[h].at = "register" /\ Serving(h)
      /\ UNCHANGED <<accepted, unserialized, config, readiness, shutdown>>
  BY DEF Register, Serving, In, Asks
<1>1. HandlerInv(h) /\ Changes(h)  BY <1>0, WhoChanges DEF Serial
<1> DEFINE first == Len(ctxs) + 1
           ff == conf[h].req.failfast
           made(n) == <<Ctx(n, "service", ff)>>
                      \o (IF n \in Detached THEN <<Ctx(n, "provision", ff)>> ELSE <<>>)
<1>2. PICK n \in ToBringup(h) :
        /\ ctxs' = ctxs \o made(n)
        /\ services' = [services EXCEPT ![n] = first]
        /\ provisions' = IF n \in Detached THEN [provisions EXCEPT ![n] = first + 1] ELSE provisions
        /\ conf' = [conf EXCEPT ![h].mine = @ \cup (first..(first + Len(made(n)) - 1))]
  BY DEF Register
<1>3. /\ n \in Names /\ n \in DOMAIN config.of /\ ff \in BOOLEAN
      /\ \A i \in conf[h].mine : ctxs[i].name # n
  <2>1. conf[h].req \in Asked  BY <1>0, ServiceTyped
  <2>2. config.of = conf[h].req.of  BY <1>0, <1>1 DEF HandlerInv, FoundInv
  <2> QED  BY <2>1, <2>2 DEF ToBringup, RequestsAssumption
<1>4. services[n] = NoCtx /\ provisions[n] = NoCtx
  <2>1. AllOthersOut(h)  BY <1>0, <1>1 DEF HandlerInv, FoundInv
  <2> QED  BY <1>3, <2>1 DEF AllOthersOut, Serial, MapsInv
<1>5. /\ Len(ctxs) \in Nat /\ first \in Nat /\ first # NoCtx /\ first \notin Ids
      /\ \A i \in Ids : i \in Nat /\ i # first /\ i # first + 1
  <2>1. Len(ctxs) \in Nat  BY LenProperties DEF Serial, RequestsTyped
  <2> QED  BY <2>1 DEF Ids, NoCtx
<1> DEFINE new == IF n \in Detached THEN {first, first + 1} ELSE {first}
           c1 == Ctx(n, "service", ff)
           c2 == Ctx(n, "provision", ff)
<1>6. /\ ctxs' \in Seq(Contexts) /\ Ids' = Ids \cup new
      /\ first..(first + Len(made(n)) - 1) = new
      /\ \A i \in Ids : ctxs'[i] = ctxs[i]
      /\ ctxs'[first] = c1
      /\ n \in Detached => ctxs'[first + 1] = c2
  <2>0. ctxs \in Seq(Contexts)  BY DEF Serial, RequestsTyped
  <2>1. c1 \in Contexts /\ c2 \in Contexts  BY <1>3 DEF Ctx, Contexts
  <2> HIDE DEF c1, c2
  <2> DEFINE one == ctxs \o <<c1>>
  <2>2. /\ one \in Seq(Contexts) /\ Len(one) = Len(ctxs) + 1 /\ one[first] = c1
        /\ \A i \in Ids : one[i] = ctxs[i]
    BY <2>0, <2>1, OneMore DEF Ids
  <2>3. <<c1>> \in Seq(Contexts) /\ <<c2>> \in Seq(Contexts) /\ Len(<<c1>>) = 1
    BY <2>1
  <2>4. CASE n \in Detached
    <3>1. made(n) = <<c1>> \o <<c2>>  BY <2>4 DEF c1, c2
    <3>2. Len(<<c1>> \o <<c2>>) = 2  BY <2>1, <2>3, OneMore
    <3>3. ctxs' = one \o <<c2>>
      <4>1. ctxs' = ctxs \o (<<c1>> \o <<c2>>)  BY <1>2, <3>1
      <4> QED  BY <4>1, <2>0, <2>3, ConcatAssociative
    <3> HIDE DEF one
    <3>4. /\ ctxs' \in Seq(Contexts) /\ Len(ctxs') = Len(one) + 1 /\ ctxs'[Len(one) + 1] = c2
          /\ \A i \in 1..Len(one) : ctxs'[i] = one[i]
      BY <2>1, <2>2, <3>3, OneMore
    <3>5. Len(one) + 1 = first + 1 /\ first \in 1..Len(one)  BY <1>5, <2>2
    <3>6. \A i \in Ids : i \in 1..Len(one)  BY <1>5, <2>2 DEF Ids
    <3>7. Ids' = Ids \cup new  BY <1>5, <2>2, <2>4, <3>4 DEF Ids
    <3>8. first..(first + Len(made(n)) - 1) = new  BY <1>5, <2>4, <3>1, <3>2
    <3> QED  BY <2>2, <3>4, <3>5, <3>6, <3>7, <3>8
  <2>5. CASE n \notin Detached
    <3>1. made(n) = <<c1>>
      <4>1. made(n) = <<c1>> \o <<>>  BY <2>5 DEF c1
      <4> QED  BY <4>1, <2>3, ConcatEmptySeq
    <3>2. ctxs' = one  BY <1>2, <3>1
    <3> HIDE DEF one, made
    <3>3. Ids' = Ids \cup new  BY <1>5, <2>2, <2>5, <3>2 DEF Ids
    <3>4. first..(first + Len(made(n)) - 1) = new  BY <1>5, <2>3, <2>5, <3>1
    <3> QED  BY <2>2, <2>5, <3>2, <3>3, <3>4
  <2> QED  BY <2>4, <2>5
<1>7. /\ c1.name = n /\ c1.kind = "service" /\ c1.at = "new" /\ ~c1.stop /\ ~c1.reached
      /\ c2.name = n /\ c2.kind = "provision" /\ c2.at = "new" /\ ~c2.stop /\ ~c2.reached
  BY DEF Ctx
<1>8. /\ conf' \in [Handlers -> {Free} \cup Services]
      /\ \A g \in Handlers \ {h} : conf'[g] = conf[g]
      /\ conf'[h].at = "register" /\ conf'[h].req = conf[h].req /\ conf'[h].decoded = conf[h].decoded
      /\ conf'[h].mine = conf[h].mine \cup new
  <2> DEFINE now == [conf[h] EXCEPT !.mine = @ \cup new]
  <2>1. conf[h] \in Services /\ conf \in [Handlers -> {Free} \cup Services]
    BY <1>0, ServiceTyped DEF Serial, RequestsTyped
  <2>2. new \in SUBSET Nat  BY <1>5
  <2>3. conf' = [conf EXCEPT ![h] = now]  BY <1>2, <1>6
  <2> HIDE DEF new
  <2>4. now \in Services  BY <2>1, <2>2 DEF Services
  <2>5. /\ now.at = conf[h].at /\ now.req = conf[h].req /\ now.decoded = conf[h].decoded
        /\ now.mine = conf[h].mine \cup new
    BY <2>1 DEF Services
  <2> HIDE DEF now
  <2> QED  BY <1>0, <2>1, <2>3, <2>4, <2>5
<1> HIDE DEF made, ff, c1, c2
<1>9. /\ \A m \in Names \ {n} : services'[m] = services[m] /\ provisions'[m] = provisions[m]
      /\ services'[n] = first
      /\ provisions'[n] = IF n \in Detached THEN first + 1 ELSE NoCtx
      /\ services' \in [Names -> Nat] /\ provisions' \in [Names -> Nat]
  <2>1. services \in [Names -> Nat] /\ provisions \in [Names -> Nat]  BY DEF Serial, RequestsTyped
  <2>2. first + 1 \in Nat  BY <1>5
  <2> HIDE DEF first
  <2> QED  BY <1>2, <1>3, <1>4, <1>5, <2>1, <2>2
<1> HIDE DEF first
<1>10. \A i \in new : i \notin Ids /\ (i = first \/ (n \in Detached /\ i = first + 1))
  BY <1>5
<1>11. first \in new /\ (n \in Detached => first + 1 \in new)  OBVIOUS
<1>12. RequestsTyped'  BY <1>0, <1>6, <1>8, <1>9 DEF Serial, RequestsTyped
<1>13. OneChanges'
  <2>1. ASSUME NEW g \in Handlers PROVE Changes(g)' => Changes(g)
    <3>1. CASE g = h  BY <1>1, <3>1
    <3>2. CASE g # h  BY <1>8, <3>2 DEF Changes, Serving, In
    <3> QED  BY <3>1, <3>2
  <2> QED  BY <2>1 DEF Serial, OneChanges
<1>14. \A i \in new : ctxs'[i].at = "new" /\ ~ctxs'[i].stop /\ ~ctxs'[i].reached /\ ctxs'[i].name = n
  BY <1>6, <1>7, <1>10
<1>15. ASSUME NEW g \in Handlers PROVE HandlerInv(g)'
  <2>1. CASE g # h  BY <1>0, <1>1, <1>6, <1>8, <2>1, OthersKeep
  <2>2. CASE g = h
    <3>1. AskedFor(h)'  BY <1>0, <1>1, <1>8 DEF HandlerInv, AskedFor, Serving, In
    <3>2. MineInv(h)'
      <4>1. conf[h].mine \subseteq Ids  BY <1>0, <1>1 DEF HandlerInv, MineInv
      <4>2. \A i \in conf[h].mine : ~ctxs[i].stop /\ ctxs[i].at = "new"
        BY <1>0, <1>1 DEF HandlerInv, MineInv
      <4> HIDE DEF new
      <4> QED  BY <1>6, <1>8, <1>14, <4>1, <4>2 DEF MineInv, Serving, In
    <3>3. FoundInv(h)'
      <4>1. AllOthersOut(h) /\ config.of = conf[h].req.of /\ conf[h].req.op = "configure"
        BY <1>0, <1>1 DEF HandlerInv, FoundInv, AskedFor
      <4>2. AllOthersOut(h)'
        <5> HIDE DEF new
        <5> SUFFICES ASSUME NEW m \in Names
                     PROVE  /\ services'[m] # NoCtx => services'[m] \in conf'[h].mine
                            /\ provisions'[m] # NoCtx => provisions'[m] \in conf'[h].mine
          BY DEF AllOthersOut
        <5>1. CASE m = n  BY <1>8, <1>9, <1>11, <5>1
        <5>2. CASE m # n  BY <1>8, <1>9, <4>1, <5>2 DEF AllOthersOut
        <5> QED  BY <5>1, <5>2
      <4> QED  BY <1>0, <1>8, <4>1, <4>2 DEF FoundInv
    <3> QED  BY <2>2, <3>1, <3>2, <3>3 DEF HandlerInv
  <2> QED  BY <2>1, <2>2
<1>16. MapsInv'
  <2> SUFFICES ASSUME NEW m \in Names
               PROVE  /\ services'[m] # NoCtx =>
                           /\ services'[m] \in Ids' /\ ctxs'[services'[m]].name = m
                           /\ ctxs'[services'[m]].kind = "service" /\ m \in DOMAIN config.of
                      /\ provisions'[m] # NoCtx =>
                           /\ provisions'[m] \in Ids' /\ ctxs'[provisions'[m]].name = m
                           /\ ctxs'[provisions'[m]].kind = "provision" /\ services'[m] # NoCtx
    BY <1>0 DEF MapsInv
  <2> HIDE DEF new
  <2>1. CASE m = n  BY <1>3, <1>5, <1>6, <1>7, <1>9, <1>11, <2>1
  <2>2. CASE m # n  BY <1>6, <1>9, <2>2 DEF Serial, MapsInv
  <2> QED  BY <2>1, <2>2
<1>17. ASSUME NEW i \in Ids' PROVE ContextInv(i)'
  <2>1. CASE i \in Ids
    <3>1. ctxs'[i] = ctxs[i] /\ ctxs[i].name \in Names /\ i # NoCtx  BY <1>6, <2>1, ContextTyped
    <3>2. services[ctxs[i].name] = i => services'[ctxs[i].name] = i
      BY <1>4, <1>9, <3>1
    <3>3. provisions[ctxs[i].name] = i => provisions'[ctxs[i].name] = i
      BY <1>4, <1>9, <3>1
    <3>4. Awaited(i) => Awaited(i)'  BY <1>0, <1>8, <3>1 DEF Awaited
    <3>5. ContextInv(i)  BY <2>1 DEF Serial
    <3> QED  BY <3>1, <3>2, <3>3, <3>4, <3>5 DEF ContextInv, Over, Settles
  <2>2. CASE i = first
    BY <1>6, <1>7, <1>9, <2>2 DEF ContextInv, Over, Settles
  <2>3. CASE n \in Detached /\ i = first + 1
    BY <1>6, <1>7, <1>9, <2>3 DEF ContextInv, Over, Settles
  <2> QED  BY <1>6, <1>10, <2>1, <2>2, <2>3
<1>18. ShutdownInv'
  <2>1. shutdown # NoCtx => shutdown \in Ids' /\ (ctxs'[shutdown].reached \/ ~ctxs'[shutdown].stop)
    BY <1>6 DEF Serial, ShutdownInv
  <2>2. ASSUME NEW m \in Names, services'[m] # NoCtx
        PROVE  \/ ctxs'[services'[m]].reached \/ ctxs'[services'[m]].at = "failed" \/ shutdown # NoCtx
               \/ \E g \in Handlers : conf'[g].at \in {"register", "settle"} /\ services'[m] \in conf'[g].mine
    <3>1. CASE m = n  BY <1>8, <1>9, <1>11, <3>1
    <3>2. CASE m # n
      <4>1. services'[m] = services[m] /\ services[m] \in Ids
        BY <1>9, <2>2, <3>2 DEF Serial, MapsInv
      <4>2. AllOthersOut(h)  BY <1>0, <1>1 DEF HandlerInv, FoundInv
      <4> QED  BY <1>8, <2>2, <4>1, <4>2 DEF AllOthersOut
    <3> QED  BY <3>1, <3>2
  <2> HIDE DEF new
  <2>3. shutdown' = shutdown  BY <1>0
  <2> QED  BY <2>1, <2>2, <2>3 DEF ShutdownInv, Settles
<1>19. StatusInv'
  <2> SUFFICES ASSUME NEW m \in Names, services'[m] # NoCtx
               PROVE  /\ ctxs'[services'[m]].at = "ready" => readiness[m] = "ready"
                      /\ ctxs'[services'[m]].at = "up" => readiness[m] = "probing"
    BY <1>0 DEF StatusInv
  <2>1. CASE m = n  BY <1>6, <1>7, <1>9, <2>1
  <2>2. CASE m # n  BY <1>6, <1>9, <2>2 DEF Serial, MapsInv, StatusInv
  <2> QED  BY <2>1, <2>2
<1> QED  BY <1>12, <1>13, <1>15, <1>16, <1>17, <1>18, <1>19 DEF Serial

-----------------------------------------------------------------------------
(* An invoke and a clean run shells in contexts of their own. *)

(* A shell in no map is found by nobody, and leaves the rest alone. *)
LEMMA ShellKeeps ==
  ASSUME Serial, NEW h \in Handlers, Serving(h), conf[h].at \in {"look", "teardown"},
         NEW n \in Names, NEW kind \in {"invoke", "clean"},
         ctxs' = Append(ctxs, [Ctx(n, kind, FALSE) EXCEPT !.at = "shell"]),
         NEW now \in Services, conf' = [conf EXCEPT ![h] = now],
         now.at = IF conf[h].at = "look" THEN "wait" ELSE "teardown",
         now.req = conf[h].req, now.decoded = conf[h].decoded,
         now.mine \subseteq conf[h].mine \cup {Len(ctxs) + 1},
         Maps, Asks, UNCHANGED <<config, readiness, shutdown>>
  PROVE  Serial'
<1> DEFINE c == [Ctx(n, kind, FALSE) EXCEPT !.at = "shell"]
           last == Len(ctxs) + 1
<1>1. /\ c \in Contexts /\ c.name = n /\ c.kind = kind /\ c.at = "shell" /\ ~c.stop
  BY DEF Ctx, Contexts
<1> HIDE DEF c
<1>2. Len(ctxs) \in Nat /\ ctxs \in Seq(Contexts)  BY LenProperties DEF Serial, RequestsTyped
<1>3. /\ ctxs' \in Seq(Contexts) /\ Ids' = Ids \cup {last} /\ last \notin Ids
      /\ ctxs'[last] = c /\ \A i \in Ids : ctxs'[i] = ctxs[i]
  <2>1. ctxs' = Append(ctxs, c)  BY DEF c
  <2>2. /\ ctxs' \in Seq(Contexts) /\ Len(ctxs') = Len(ctxs) + 1 /\ ctxs'[Len(ctxs) + 1] = c
        /\ \A i \in 1..Len(ctxs) : ctxs'[i] = ctxs[i]
    <3>1. /\ Append(ctxs, c) \in Seq(Contexts) /\ Len(Append(ctxs, c)) = Len(ctxs) + 1
          /\ Append(ctxs, c)[Len(ctxs) + 1] = c
          /\ \A i \in 1..Len(ctxs) : Append(ctxs, c)[i] = ctxs[i]
      BY <1>1, <1>2, AppendIsConcat, OneMore
    <3> QED  BY <2>1, <3>1, Zenon
  <2>3. last = Len(ctxs) + 1  BY DEF last
  <2> HIDE DEF last
  <2>4. 1..(Len(ctxs) + 1) = (1..Len(ctxs)) \cup {last} /\ last \notin 1..Len(ctxs)  BY <1>2, <2>3
  <2>5. Ids' = Ids \cup {last} /\ last \notin Ids
    <3>1. Ids' = 1..(Len(ctxs) + 1)  BY <2>2 DEF Ids
    <3> QED  BY <2>4, <3>1 DEF Ids
  <2> QED  BY <2>2, <2>3, <2>5 DEF Ids
<1> HIDE DEF last
<1>4. /\ conf' \in [Handlers -> {Free} \cup Services] /\ conf'[h] = now
      /\ \A g \in Handlers \ {h} : conf'[g] = conf[g]
  BY DEF Serial, RequestsTyped
<1>5. HandlerInv(h)  BY DEF Serial
<1>6. UNCHANGED <<services, provisions, accepted, unserialized, config, readiness, shutdown>>
  BY DEF Maps, Asks
<1>7. OneChanges'
  <2>1. ASSUME NEW g \in Handlers PROVE Changes(g)' => Changes(g)
    <3>1. CASE g = h  BY <1>4, <3>1 DEF Changes
    <3>2. CASE g # h  BY <1>4, <3>2 DEF Changes, Serving, In
    <3> QED  BY <3>1, <3>2
  <2> QED  BY <2>1 DEF Serial, OneChanges
<1>8. \A m \in Names : /\ services[m] # NoCtx => services[m] \in Ids
                       /\ provisions[m] # NoCtx => provisions[m] \in Ids
  BY DEF Serial, MapsInv
<1>9. shutdown # NoCtx => shutdown \in Ids  BY DEF Serial, ShutdownInv
<1>10. AllSettledThere => AllSettledThere'
  BY <1>3, <1>6, <1>8 DEF AllSettledThere, Settles
<1>11. ASSUME NEW g \in Handlers PROVE HandlerInv(g)'
  <2>1. CASE g # h
    <3>1. HandlerInv(g) /\ conf'[g] = conf[g]  BY <1>4, <2>1 DEF Serial
    <3>2. AskedFor(g)'  BY <1>6, <3>1 DEF HandlerInv, AskedFor, Serving, In
    <3>3. MineInv(g)'  BY <1>3, <3>1 DEF HandlerInv, MineInv, Serving, In
    <3>4. FoundInv(g)'
      BY <1>3, <1>6, <1>9, <1>10, <3>1
      DEF HandlerInv, FoundInv, AllOut, AllOthersOut, Changes, Serving, In
    <3> QED  BY <3>2, <3>3, <3>4 DEF HandlerInv
  <2>2. CASE g = h
    <3>1. AskedFor(h)'  BY <1>4, <1>5, <1>6 DEF HandlerInv, AskedFor, Serving, In
    <3>2. MineInv(h)'  BY <1>3, <1>4, <1>5 DEF HandlerInv, MineInv, Serving, In, last
    <3>3. FoundInv(h)'
      BY <1>4, <1>5, <1>6 DEF HandlerInv, FoundInv, AllOut, Changes, Serving, In
    <3> QED  BY <2>2, <3>1, <3>2, <3>3 DEF HandlerInv
  <2> QED  BY <2>1, <2>2
<1>12. RequestsTyped'  BY <1>3, <1>4, <1>6 DEF Serial, RequestsTyped
<1>13. MapsInv' /\ StatusInv'
  <2>1. MapsInv'
    <3>1. \A i \in Ids : i \in Ids' /\ ctxs'[i] = ctxs[i]  BY <1>3
    <3> SUFFICES ASSUME NEW m \in Names
                 PROVE  /\ services[m] # NoCtx =>
                             /\ services[m] \in Ids' /\ ctxs'[services[m]].name = m
                             /\ ctxs'[services[m]].kind = "service" /\ m \in DOMAIN config.of
                        /\ provisions[m] # NoCtx =>
                             /\ provisions[m] \in Ids' /\ ctxs'[provisions[m]].name = m
                             /\ ctxs'[provisions[m]].kind = "provision" /\ services[m] # NoCtx
      BY <1>6 DEF MapsInv
    <3>2. /\ services[m] # NoCtx =>
               /\ services[m] \in Ids /\ ctxs[services[m]].name = m
               /\ ctxs[services[m]].kind = "service" /\ m \in DOMAIN config.of
          /\ provisions[m] # NoCtx =>
               /\ provisions[m] \in Ids /\ ctxs[provisions[m]].name = m
               /\ ctxs[provisions[m]].kind = "provision" /\ services[m] # NoCtx
      BY DEF Serial, MapsInv
    <3> HIDE DEF last
    <3>3. services[m] # NoCtx => services[m] \in Ids' /\ ctxs'[services[m]] = ctxs[services[m]]
      BY <3>1, <3>2
    <3>4. provisions[m] # NoCtx => provisions[m] \in Ids' /\ ctxs'[provisions[m]] = ctxs[provisions[m]]
      BY <3>1, <3>2
    <3> QED  BY <3>2, <3>3, <3>4
  <2>2. StatusInv'  BY <1>3, <1>6, <1>8 DEF Serial, StatusInv
  <2> QED  BY <2>1, <2>2
<1>14. ASSUME NEW i \in Ids' PROVE ContextInv(i)'
  <2>1. CASE i \in Ids
    <3>1. ContextInv(i) /\ ctxs'[i] = ctxs[i]  BY <1>3, <2>1 DEF Serial
    <3>2. Awaited(i) => Awaited(i)'  BY <1>4, <3>1 DEF Awaited
    <3> QED  BY <1>6, <3>1, <3>2 DEF ContextInv, Over, Settles
  <2>2. CASE i = last  BY <1>1, <1>3, <2>2 DEF ContextInv, Over
  <2> QED  BY <1>3, <2>1, <2>2
<1>15. ShutdownInv'
  <2>1. shutdown # NoCtx => shutdown \in Ids' /\ (ctxs'[shutdown].reached \/ ~ctxs'[shutdown].stop)
    BY <1>3 DEF Serial, ShutdownInv
  <2>2. ASSUME NEW m \in Names, services[m] # NoCtx
        PROVE  \/ ctxs'[services[m]].reached \/ ctxs'[services[m]].at = "failed" \/ shutdown # NoCtx
               \/ \E g \in Handlers : conf'[g].at \in {"register", "settle"} /\ services[m] \in conf'[g].mine
    <3>1. services[m] \in Ids /\ ctxs'[services[m]] = ctxs[services[m]]  BY <1>3, <1>8, <2>2
    <3>2. \A g \in Handlers : conf[g].at \in {"register", "settle"} => conf'[g] = conf[g]  BY <1>4
    <3> QED  BY <2>2, <3>1, <3>2 DEF Serial, ShutdownInv, Settles
  <2> QED  BY <1>6, <2>1, <2>2 DEF ShutdownInv, Settles
<1> QED  BY <1>3, <1>7, <1>11, <1>12, <1>13, <1>14, <1>15 DEF Serial

(* handleInvoke: an answer when the target is in no map, a shell otherwise. *)
LEMMA InvokeKeeps ==
  ASSUME Serial, NEW h \in Handlers, Invoke(h)
  PROVE  Serial'
<1>1. conf[h].at = "look" /\ Serving(h)  BY DEF Invoke, Serving, In
<1>2. CASE Answers(h) /\ UNCHANGED ctxs  BY <1>1, <1>2, AnswerKeeps DEF Invoke
<1>3. ASSUME NEW n \in Names,
             ctxs' = Append(ctxs, [Ctx(n, "invoke", FALSE) EXCEPT !.at = "shell"]),
             conf' = [conf EXCEPT ![h].at = "wait", ![h].mine = {Len(ctxs) + 1}]
      PROVE  Serial'
  <2> DEFINE now == [conf[h] EXCEPT !.at = "wait", !.mine = {Len(ctxs) + 1}]
  <2>1. conf[h] \in Services  BY <1>1, ServiceTyped
  <2>2. Len(ctxs) + 1 \in Nat
    <3>1. Len(ctxs) \in Nat  BY LenProperties DEF Serial, RequestsTyped
    <3> QED  BY <3>1
  <2>3. conf' = [conf EXCEPT ![h] = now]  BY <1>3
  <2>4. /\ now \in Services /\ now.at = "wait" /\ now.req = conf[h].req
        /\ now.decoded = conf[h].decoded /\ now.mine = {Len(ctxs) + 1}
    BY <2>1, <2>2 DEF Services
  <2> HIDE DEF now
  <2> QED  BY <1>1, <1>3, <2>3, <2>4, ShellKeeps DEF Invoke
<1> QED  BY <1>2, <1>3 DEF Invoke

(* handleClean: an answer when every snippet has run, one more otherwise. *)
LEMMA TeardownKeeps ==
  ASSUME RequestsAssumption, Serial, NEW h \in Handlers, Teardown(h)
  PROVE  Serial'
<1>1. conf[h].at = "teardown" /\ Serving(h)  BY DEF Teardown, Serving, In
<1>2. CASE Answers(h) /\ UNCHANGED ctxs  BY <1>1, <1>2, AnswerKeeps DEF Teardown
<1>3. ASSUME NEW n \in DOMAIN conf[h].req.of,
             ctxs' = Append(ctxs, [Ctx(n, "clean", FALSE) EXCEPT !.at = "shell"]),
             conf' = [conf EXCEPT ![h].mine = @ \cup {Len(ctxs) + 1}]
      PROVE  Serial'
  <2> DEFINE now == [conf[h] EXCEPT !.mine = @ \cup {Len(ctxs) + 1}]
  <2>1. conf[h] \in Services  BY <1>1, ServiceTyped
  <2>2. Len(ctxs) + 1 \in Nat
    <3>1. Len(ctxs) \in Nat  BY LenProperties DEF Serial, RequestsTyped
    <3> QED  BY <3>1
  <2>3. conf' = [conf EXCEPT ![h] = now]  BY <1>3
  <2>4. /\ now \in Services /\ now.at = "teardown" /\ now.req = conf[h].req
        /\ now.decoded = conf[h].decoded /\ now.mine = conf[h].mine \cup {Len(ctxs) + 1}
    BY <1>1, <2>1, <2>2 DEF Services
  <2>5. n \in Names  BY <1>1, <1>3, ServiceTyped DEF RequestsAssumption
  <2> HIDE DEF now
  <2> QED  BY <1>1, <1>3, <2>3, <2>4, <2>5, ShellKeeps DEF Teardown
<1> QED  BY <1>2, <1>3 DEF Teardown

-----------------------------------------------------------------------------
(* The invariant, and what it says to a reader of the handlers. *)

(* Nothing is served and nothing runs when the alpha begins. *)
LEMMA RequestsInvInit ==
  ASSUME RequestsInit
  PROVE  Serial
<1>0. ctxs = <<>> /\ config = [of |-> <<>>, decoded |-> 0] /\ accepted = 0  BY DEF RequestsInit
<1>1. RequestsTyped
  <2>1. ctxs \in Seq(Contexts)  BY <1>0, EmptySeq
  <2>2. config.decoded = 0 /\ config.decoded <= accepted  BY <1>0
  <2>3. /\ services \in [Names -> Nat] /\ provisions \in [Names -> Nat] /\ shutdown \in Nat
        /\ readiness \in [Names -> {"", "failed", "probing", "ready"}]
        /\ conf \in [Handlers -> {Free} \cup Services]
    BY DEF RequestsInit, NoCtx
  <2> QED  BY <1>0, <2>1, <2>2, <2>3 DEF RequestsTyped
<1>2. Ids = {}
  <2>1. Len(ctxs) = 0  BY <1>0, EmptySeq
  <2> QED  BY <2>1 DEF Ids
<1>3. \A h \in Handlers : ~Serving(h) /\ conf[h].at = "free"  BY DEF RequestsInit, Serving, In, Free
<1>4. OneChanges /\ \A h \in Handlers : HandlerInv(h)
  BY <1>3 DEF OneChanges, Changes, HandlerInv, AskedFor, MineInv, FoundInv
<1>5. MapsInv /\ ShutdownInv /\ StatusInv  BY DEF RequestsInit, MapsInv, ShutdownInv, StatusInv
<1> QED  BY <1>1, <1>2, <1>4, <1>5 DEF Serial

(* Requests that have met stay so: the flag is never taken back. *)
LEMMA RequestsStep ==
  ASSUME RequestsAssumption, RequestsInv, [RequestsNext]_requestVars
  PROVE  RequestsInv'
<1> SUFFICES ASSUME ~unserialized' PROVE Serial'
  BY DEF RequestsInv
<1>1. ~unserialized
  BY DEF RequestsNext, requestVars, Serve, Supervise, Accept, Diff, StopServices, Stopped, Store, Materialize,
         FilesFail, Register, Spawn, Refuse, Commit, Abandon, Invoke, RefuseArgs, Teardown, Invoked,
         PrepareFails, Gate, Spawned, ProbePasses, ReportsReady, ProbeFails, ExitsEarly, Exits, Stops,
         ShellEnds, Handling, Asks
<1>2. Serial  BY <1>1 DEF RequestsInv
<1>3. ASSUME NEW h \in Handlers, Serve(h) PROVE Serial'
  BY <1>2, <1>3, AcceptKeeps, DiffKeeps, StopServicesKeeps, StoppedKeeps, StoreKeeps, MaterializeKeeps,
     AnswersKeep, RegisterKeeps, SpawnKeeps, RefuseKeeps, InvokeKeeps, TeardownKeeps DEF Serve
<1>4. ASSUME NEW i \in Ids, Supervise(i) PROVE Serial'
  BY <1>2, <1>4, SuperviseTurns, TurnKeeps
<1>5. CASE UNCHANGED requestVars
  <2>1. RequestsTyped' /\ OneChanges' /\ Ids' = Ids
    BY <1>2, <1>5 DEF requestVars, Serial, RequestsTyped, OneChanges, Changes, Serving, In, Ids
  <2>2. ASSUME NEW h \in Handlers PROVE HandlerInv(h)'
    <3>1. HandlerInv(h)  BY <1>2 DEF Serial
    <3> QED
      BY <1>5, <3>1
      DEF requestVars, HandlerInv, AskedFor, MineInv, FoundInv, Changes, Serving, In, AllSettledThere,
          Settles, AllOut, AllOthersOut, Ids
  <2>3. MapsInv'  BY <1>2, <1>5 DEF requestVars, Serial, MapsInv, Ids
  <2>4. ASSUME NEW i \in Ids PROVE ContextInv(i)'
    <3>1. ContextInv(i)  BY <1>2 DEF Serial
    <3> QED  BY <1>5, <3>1 DEF requestVars, ContextInv, Awaited, Over, Settles
  <2>5. ShutdownInv' /\ StatusInv'
    BY <1>2, <1>5 DEF requestVars, Serial, ShutdownInv, StatusInv, Settles, Ids
  <2> QED  BY <2>1, <2>2, <2>3, <2>4, <2>5 DEF Serial
<1> QED  BY <1>3, <1>4, <1>5 DEF RequestsNext

LEMMA RequestsInvariant == RequestsAssumption => (RequestsSpec => []RequestsInv)
<1> SUFFICES ASSUME RequestsAssumption PROVE RequestsSpec => []RequestsInv
  OBVIOUS
<1>1. RequestsInit => RequestsInv  BY RequestsInvInit DEF RequestsInv
<1>2. RequestsInv /\ [RequestsNext]_requestVars => RequestsInv'  BY RequestsStep
<1> QED  BY <1>1, <1>2, PTL DEF RequestsSpec

(* Served one after the other, no request loses sight of what an earlier one
   started: what runs is in the maps, or has been told to stop. *)
THEOREM NothingIsLost == RequestsAssumption => (RequestsSpec => []LiveIsRegistered)
<1> SUFFICES ASSUME RequestsAssumption PROVE RequestsSpec => []LiveIsRegistered
  OBVIOUS
<1>1. RequestsInv => LiveIsRegistered
  BY DEF RequestsInv, Serial, ContextInv, Awaited, IsRunning, Over, LiveIsRegistered
<1> QED  BY <1>1, RequestsInvariant, PTL

(* The status of a service that is up is what its supervisor said last. *)
THEOREM StatusIsKept == RequestsAssumption => (RequestsSpec => []StatusStands)
<1> SUFFICES ASSUME RequestsAssumption PROVE RequestsSpec => []StatusStands
  OBVIOUS
<1>1. RequestsInv => StatusStands  BY DEF RequestsInv, Serial, StatusInv, StatusStands
<1> QED  BY <1>1, RequestsInvariant, PTL

(* A service a configure stops is never the one that brings the alpha down,
   unless it had come up before. *)
THEOREM StopsAreQuiet == RequestsAssumption => (RequestsSpec => []StopIsNoFailure)
<1> SUFFICES ASSUME RequestsAssumption PROVE RequestsSpec => []StopIsNoFailure
  OBVIOUS
<1>1. RequestsInv => StopIsNoFailure
  BY DEF RequestsInv, Serial, ShutdownInv, StopIsNoFailure
<1> QED  BY <1>1, RequestsInvariant, PTL
==============================================================================
