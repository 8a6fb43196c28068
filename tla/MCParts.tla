------------------------------- MODULE MCParts -------------------------------
(***************************************************************************)
(* The parts of the system that share no state with the daemons, side by   *)
(* side: each behaviour runs one of them.                                  *)
(***************************************************************************)
EXTENDS Pins, Sources, Requests, Toolchains, Evaluation, Levels, TLC

CONSTANTS
  r1, r2, dir, main, old, new, z1, z2, pkg, pkg2,  \* of Pins
  web, worker, v1                                  \* of Requests

VARIABLE part

Req(id, ref) == id :> ref
ImportOf(scope, from, id) == [scope |-> scope, from |-> from, id |-> id]
Load(imports, e, p, q, search, update) ==
  [imports |-> imports, requires |-> (EntryScope :> e) @@ (pkg :> p) @@ (pkg2 :> q),
   search |-> search, update |-> update]

\* Two packages of one repository, one fetched from it, one under a path that
\* is required on its own; and a second repository only packages name.
PinLoads ==
  LET one == ImportOf(EntryScope, 0, <<r1>>)
      sub == ImportOf(pkg, 1, <<r1, dir>>)
      other == ImportOf(pkg, 1, <<r2>>)
      third == ImportOf(pkg2, 0, <<r2>>)
      main1 == Req(<<r1>>, main)
  IN {Load(<<one, sub, other>>, main1, Req(<<r2>>, main), <<>>, <<>>, u) : u \in {{}, {<<r1>>}, {<<r2>>}}}
     \cup {Load(<<one, sub>>, main1, Req(<<r1, dir>>, main), <<>>, <<>>, u) : u \in {{}, {<<r1>>}}}
     \cup {Load(<<ImportOf(EntryScope, 0, <<r1, dir>>), ImportOf(pkg, 0, <<r1>>)>>,
                Req(<<r1, dir>>, main) @@ main1, Req(<<r1>>, old), <<>>, <<>>, {<<r1>>}),
           Load(<<ImportOf(pkg, 0, <<r2>>), third>>, <<>>, Req(<<r2>>, main), Req(<<r2>>, old), <<>>, {}),
           Load(<<one, third>>, main1, <<>>, Req(<<r2>>, main), z1 :> {<<r2>>}, {<<r1>>}),
           Load(<<third, one>>, main1, <<>>, Req(<<r2>>, main), (z1 :> {<<r2>>}) @@ (z2 :> {<<r2>>}), {}),
           Load(<<third>>, Req(<<r2>>, main), <<>>, <<>>, <<>>, {}),
           Load(<<one>>, <<>>, <<>>, <<>>, <<>>, {})}
PinPinnings ==
  {[follows |-> <<[key |-> <<r1>>, ref |-> main], [key |-> <<r2>>, ref |-> main],
                  [key |-> <<r1>>, ref |-> main]>>, pull |-> pull] : pull \in BOOLEAN}
PinLocks ==
  LET p(k, ref) == [key |-> k, ref |-> ref] :> old
  IN {[repos |-> <<>>, sources |-> <<>>],
      [repos |-> p(<<r1>>, main) @@ p(<<r1, dir>>, main) @@ p(<<r2>>, main), sources |-> p(<<r1>>, main)]}
PinTips == (r1 :> <<old, new>>) @@ (r2 :> <<old, new>>)

ASSUME PinsOrdered == PinsAssumption

Trees == [w \in Workspaces |-> w]
ASSUME SourcesApart == SourcesAssumption

\* Two services, one with a detached provision; configures that keep one of
\* them, add the other and drop the first; an invoke; a clean.
Ask(op, of, failfast) == [op |-> op, of |-> of, failfast |-> failfast]
RequestsAsked ==
  {Ask("configure", web :> v1, TRUE), Ask("configure", (web :> v1) @@ (worker :> v1), FALSE),
   Ask("configure", worker :> v1, FALSE), Ask("invoke", <<>>, FALSE), Ask("clean", web :> v1, FALSE)}

ASSUME RequestsWellFormed == RequestsAssumption

\* Pins that are the same and pins that differ in their tools; two versions of
\* a tool side by side, and in one another's place; a Node known by three
\* names and one without a Corepack; a Java with tools, pinned with an env and
\* without; packages, one of them under a pin's key; the pool.
ToolPin(lang, version, tools) == [lang |-> lang, version |-> version, tools |-> tools, env |-> {}]
ToolPlan(pins, pkgs) == [pins |-> pins, pkgs |-> pkgs]
ToolPlans ==
  LET Ruby(v) == ToolPin("ruby", <<3, 3>>, "bundler" :> <<v>>)
      Golang(v) == ToolPin("go", <<1, 26>>, "dlv" :> <<v>>)
      NodeJS(version, tools) == ToolPlan("nodejs" :> ToolPin("nodejs", version, tools), <<>>)
      Java == ToolPin("java", <<21>>, "mvn" :> <<3>>)
      Package(name, version) == [name |-> name, version |-> version]
  IN {ToolPlan(("ruby" :> Ruby(1)) @@ ("m/ruby" :> Ruby(1)) @@ ("n/ruby" :> Ruby(2)), <<>>),
      ToolPlan(("go" :> Golang(1)) @@ ("m/go" :> Golang(2)), <<>>),
      ToolPlan("go" :> Golang(2), <<Package("go", <<1, 26>>)>>),
      NodeJS(<<22>>, <<>>), NodeJS(<<22, 11, 0>>, "tsx" :> <<4>>), NodeJS(<<16, 0, 0>>, <<>>),
      ToolPlan(("java" :> Java) @@ ("m/java" :> [Java EXCEPT !.env = {"K"}]), <<>>),
      ToolPlan(<<>>, <<Package("redis", <<7>>), Package("redis", <<8>>), Package("node", <<22, 11, 0>>)>>),
      ToolPlan(("pkg" :> ToolPin("pkg", <<>>, "jq" :> <<1>>)) @@ ("go" :> ToolPin("go", <<>>, <<>>)), <<>>)}
ToolReleases == <<"node", <<22>>>> :> <<22, 11, 0>>

ASSUME ToolchainsFinite == ToolchainsAssumption

\* Evaluation: two services, a file, an input two imports may set and an
\* output, reading one another in every combination of a few ways.
Node(of, kind, name) == [of |-> of, kind |-> kind, name |-> name]
Vars(s) == Node(s, "vars", "")
Env(s) == Node(s, "env", "")
Conf == Node("s1", "file", "conf")
InputN == Node("p", "input", "n")
InputFrom(i) == Node("p", "part", i)
Out == Node("p", "output", "o")
Up == Node("up", "vars", "")
EvalLexical ==
  <<InputN, InputFrom("0"), InputFrom("1"), Out, Node("s1", "arguments", ""), Env("s1"), Conf, Vars("s1"),
    Node("s2", "arguments", ""), Env("s2"), Vars("s2")>>
By(how, n) == {[to |-> n, by |-> how]}
Name(n) == By("name", n)

Block ==
  [toolchain |-> "go", display |-> "s1", module |-> "", src |-> "path", there |-> TRUE,
   git |-> "none", owned |-> FALSE, package |-> "none", crate |-> "none", features |-> FALSE,
   bin |-> FALSE, debugger |-> "off", cmd |-> FALSE, sinks |-> {}, provisions |-> <<>>]
Unit(pinned, branch, env) == [pins |-> pinned, branch |-> branch, env |-> env]
Manifest ==
  [unit |-> <<Unit({<<"", "go">>}, "unset", {})>>, parentPins |-> {}, inherited |-> {Up},
   services |-> <<"s1">>, block |-> ("s1" :> Block), reads |-> <<>>, gives |-> <<>>,
   parts |-> <<>>, maps |-> {}, twice |-> {}]
Two(one, other) == ("s1" :> one) @@ ("s2" :> [other EXCEPT !.display = "s2"])

Graphs ==
  LET parts(k) == IF k = 0 THEN {} ELSE IF k = 1 THEN {InputFrom("0")} ELSE {InputFrom("0"), InputFrom("1")}
      reads(v1s, v2s, e1, e2, f, i, o, k) ==
        (Vars("s1") :> v1s) @@ (Vars("s2") :> v2s) @@ (Env("s1") :> e1) @@ (Env("s2") :> e2)
        @@ (Conf :> f) @@ (InputN :> i) @@ (Out :> o) @@ [x \in parts(k) |-> Name(Vars("s2"))]
      graph(r, k, g, maps) ==
        [Manifest EXCEPT !.services = <<"s1", "s2">>, !.block = Two(Block, Block), !.reads = r,
                         !.parts = (InputN :> parts(k)), !.gives = g, !.maps = maps]
  IN {graph(reads(v1s, v2s, e1, e2, f, {}, o, 2), 2, <<>>, {InputN}) :
        v1s \in {{}, Name(Vars("s2")), Name(Up)}, v2s \in {{}, Name(Env("s1")), Name(Conf)},
        e1 \in {Name(Vars("s1")), Name(Env("s2")), Name(Env("s1"))}, e2 \in {{}, Name(Out)},
        f \in {{}, Name(InputN)}, o \in {Name(InputN), Name(Env("s2"))}}
     \cup {graph(reads({}, v, e, {}, f, i, Name(InputN), k), k, g, {}) :
             v \in {By("index", Conf), By("whole", Conf)}, e \in {{}, By("index", Conf), By("whole", Conf)},
             f \in {{}, Name(Node("s3", "vars", ""))}, i \in {Name(Env("s2")), Name(Vars("s1"))}, k \in 0..2,
             g \in {<<>>, InputFrom("0") :> "null", InputFrom("0") :> "misfit", InputN :> "null", InputN :> "missing", Vars("s1") :> "misfit"}}
     \cup {[graph(reads({}, {}, Name(Conf), {}, {}, {}, {}, 0), 0, <<>>, {}) EXCEPT !.twice = t] :
             t \in {{}, {Conf}}}

\* Every way to say where one service's code comes from.
Blocks ==
  LET source(tc, src, there, git, owned, install) ==
        [Block EXCEPT !.toolchain = tc, !.src = src, !.there = there, !.git = git, !.owned = owned,
                      !.package = install[1], !.crate = install[2]]
      made ==
        {source(tc, s[1], s[2], git, owned, install) :
           tc \in {"go", "rust", "ruby", "pkg"}, git \in {"none", "nourl", "url"}, owned \in BOOLEAN,
           s \in {<<"none", TRUE>>, <<"exe", TRUE>>, <<"path", TRUE>>, <<"path", FALSE>>},
           install \in {<<"none", "none">>, <<"string", "none">>, <<"object", "none">>,
                        <<"none", "good">>, <<"none", "bad">>}}
  IN {bl \in made : bl.toolchain = "pkg" => bl.crate = "none" /\ ~bl.owned}
     \cup UNION {{[bl EXCEPT !.cmd = TRUE], [bl EXCEPT !.features = TRUE],
                  [bl EXCEPT !.debugger = "wraps"], [bl EXCEPT !.debugger = "wraps", !.cmd = TRUE],
                  [bl EXCEPT !.debugger = "plain", !.cmd = TRUE]} :
                 bl \in {bl \in made : bl.src = "none" /\ ~bl.owned}}
     \cup {[bl EXCEPT !.module = "m", !.debugger = "plain"] : bl \in {Block, [Block EXCEPT !.owned = TRUE]}}

Provision == [never |-> FALSE, after |-> FALSE, detached |-> FALSE, arguments |-> FALSE,
              checks |-> FALSE, cmd |-> <<>>]
Units ==
  {<<Unit({<<"", "go">>}, br, {"K"}), Unit(pinned, "unset", env)>> :
     br \in {"unset", "constant", "invalid"}, pinned \in {{<<"m", "go">>}, {<<"", "go">>}}, env \in {{}, {"K"}}}
  \cup {<<Unit({}, "unset", {}), Unit({}, "constant", {})>>, <<Unit({}, "constant", {}), Unit({}, "constant", {})>>}
EvalEntries ==
  Graphs
  \cup {[Manifest EXCEPT !.block = ("s1" :> bl)] : bl \in Blocks}
  \cup {[Manifest EXCEPT !.unit = u, !.services = ss,
                         !.block = Two([Block EXCEPT !.debugger = d, !.module = m], [Block EXCEPT !.owned = TRUE])] :
          u \in Units, ss \in {<<"s1">>, <<"s1", "s2">>, <<"s1", "s1">>}, d \in {"off", "plain"}, m \in {"", "m"}}
  \cup {[Manifest EXCEPT !.services = <<"s1", "s2">>,
                         !.block = Two([Block EXCEPT !.provisions = <<p>>, !.sinks = sink],
                                       [Block EXCEPT !.provisions = <<q>>])] :
          p \in {[never |-> n, after |-> af, detached |-> d, arguments |-> ar, checks |-> ch, cmd |-> c] :
                   n \in BOOLEAN, af \in BOOLEAN, d \in BOOLEAN, ar \in BOOLEAN, ch \in BOOLEAN,
                   c \in {<<>>, <<"s1", 1>>, <<"s2", 1>>}},
          q \in {Provision, [Provision EXCEPT !.never = TRUE, !.arguments = TRUE]},
          sink \in {{}, Name(Conf)}}
  \cup {[Manifest EXCEPT !.services = <<"s1", "s2">>, !.unit = <<Unit({}, br, {})>>,
                         !.block = ("s1" :> [Block EXCEPT !.owned = TRUE])
                                   @@ ("s2" :> [Block EXCEPT !.owned = TRUE, !.toolchain = "rust"])] :
          br \in {"unset", "constant"}}

ASSUME EvaluationWellFormed == EvaluationAssumption

\* Three levels.  The root draws a port and its Alphasfile may change, in what
\* it says of its services or in what else it hands down; the middle one's
\* source follows a branch, and it may also be cleaned in a workspace.
Text(says, hands, git) == [services |-> says, others |-> hands, git |-> git]
RunOf(op, leaf, ws, picks, pull) == [op |-> op, leaf |-> leaf, ws |-> ws, picks |-> picks, pull |-> pull]
LevelRuns ==
  {RunOf("start", 1, "main", FALSE, {}), RunOf("start", 2, "main", TRUE, {"pkg", "srv"}),
   RunOf("start", 3, "main", FALSE, {}), RunOf("clean", 2, "w", FALSE, {}), RunOf("look", 2, "main", FALSE, {})}
LevelTexts ==
  <<<<Text("s", "o", FALSE), Text("s", "o2", FALSE)>>, <<Text("s", "o", TRUE)>>, <<Text("s", "o", FALSE)>>>>
LevelPorts == <<{1, 2}, {1}, {1}>>

ASSUME LevelsWellFormed == LevelsAssumption

Parts == {"pins", "sources", "requests", "toolchains", "evaluation", "levels"}
pins == <<file, keychain, proc, moved, mods>>
sources == <<primary, tree, registered, elsewhere, job, kills, acts>>
requests == <<services, provisions, config, readiness, ctxs, conf, shutdown, accepted, unserialized>>
toolchains == <<plan, tcs, held, children, disk, ended>>
vars == <<part, pins, sources, requests, toolchains, evalVars, levelsVars>>

Init ==
  /\ part \in Parts
  /\ PinsInit /\ (part # "pins" => file = [repos |-> <<>>, sources |-> <<>>])
  /\ SourcesInit /\ (part # "sources" => primary = "absent")
  /\ RequestsInit /\ ToolchainsInit
  /\ EvalInit /\ (part # "evaluation" => given = Manifest)
  /\ LevelsInit /\ (part # "levels" => lockfile[1].sources = Absent)

PinsPart == part = "pins" /\ PinsNext /\ UNCHANGED <<part, sources, requests, toolchains, evalVars, levelsVars>>
SourcesPart == part = "sources" /\ SourcesNext /\ UNCHANGED <<part, pins, requests, toolchains, evalVars, levelsVars>>
RequestsPart == part = "requests" /\ RequestsNext /\ UNCHANGED <<part, pins, sources, toolchains, evalVars, levelsVars>>
ToolchainsPart == part = "toolchains" /\ ToolchainsNext /\ UNCHANGED <<part, pins, sources, requests, evalVars, levelsVars>>
EvaluationPart == part = "evaluation" /\ EvalNext /\ UNCHANGED <<part, pins, sources, requests, toolchains, levelsVars>>
LevelsPart == part = "levels" /\ LevelsNext /\ UNCHANGED <<part, pins, sources, requests, toolchains, evalVars>>
\* An alpha nobody asks anything is no deadlock, nor is one that has its toolchains.
AtRest ==
  /\ part = "requests" => \A h \in Handlers : conf[h].at = "free"
  /\ part = "toolchains" => \A al \in Alphas : \A i \in DOMAIN tcs[al] : tcs[al][i].at \in {"ready", "failed"}
  /\ part = "evaluation" => stage \in {"resolved", "refused", "cycle"}
  /\ part = "levels" => \A t \in Terminals : cmd[t] = NoCommand
  /\ part \in {"requests", "toolchains", "evaluation", "levels"}
  /\ UNCHANGED vars
Next == PinsPart \/ SourcesPart \/ RequestsPart \/ ToolchainsPart \/ EvaluationPart \/ LevelsPart \/ AtRest
Spec == Init /\ [][Next]_vars

\* The bound of the requests' part: behaviours end where two configures meet.
Serialized == ~unserialized
==============================================================================
