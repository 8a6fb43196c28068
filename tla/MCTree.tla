-------------------------------- MODULE MCTree --------------------------------
(***************************************************************************)
(* Entrypoints and packages for module Tree.                               *)
(*                                                                         *)
(* app imports db and, behind its feature tls, ca; db imports ca; ca       *)
(* imports nothing or db back; ca2 is another commit of ca's repository.   *)
(* Every rule form meets each of them, loaded before and not.              *)
(***************************************************************************)
EXTENDS Tree

CONSTANTS app, db, ca, ca2, tls, hot, zone, sites, svc, t1, t2, repo

Import(comp, dir, on, features_, inputs) ==
  [comp |-> comp, dir |-> dir, local |-> Label[dir], on |-> on,
   features |-> features_, inputs |-> inputs, rules |-> <<>>]
Whole(dir) == Import(Top, dir, None, {}, {})
With(block, rules) == [block EXCEPT !.rules = rules]
Alias(block, local) == [block EXCEPT !.local = local]
Bind(key, target) == [key |-> key, target |-> target, set |-> None]
Inject(key, fs, is) == [key |-> key, target |-> None, set |-> [features |-> fs, inputs |-> is]]
When(f) == [feature |-> f, value |-> TRUE]
Unless(f) == [feature |-> f, value |-> FALSE]

MCLabel == [d \in Dirs |-> IF d = ca2 THEN ca ELSE d]
MCRepo == [d \in Dirs |-> IF d \in {ca, ca2} THEN repo ELSE None]
Ref(comp, local, on) == [comp |-> comp, local |-> local, on |-> on]

Package(declares_, imports, toolchain_, refs) ==
  [imports |-> imports, declares |-> declares_, toolchain |-> toolchain_, refs |-> refs]
App(imports, toolchain_, refs) == Package({tls, zone}, imports, toolchain_, refs)
Db(imports, toolchain_) == Package({tls, hot, sites}, imports, toolchain_, {})
Ca(imports) == Package({tls, hot, zone, sites}, imports, None, {})

ASSUME TreeWellFormed == TreeAssumption

MCManifests ==
  [d \in Dirs |->
     CASE d = app -> {App(<<Whole(db), Import(svc, ca, When(tls), {hot}, {zone})>>, t1,
                          {Ref(svc, ca, When(tls))}),
                      App(<<Import(Top, ca, When(tls), {}, {sites}),
                            Import(svc, db, Unless(tls), {tls}, {sites})>>, None,
                          {Ref(svc, ca, None)}),
                      App(<<Whole(db)>>, None, {Ref(Top, ca, None)}),
                      App(<<With(Whole(db), <<Inject(<<ca>>, {hot}, {})>>), Whole(ca2)>>, None, {}),
                      App(<<Whole(db), With(Whole(db), <<Inject(<<ca>>, {hot}, {})>>)>>, None, {})}
       [] d = db -> {Db(<<Import(Top, ca, None, {tls}, {sites, zone})>>, None),
                     Db(<<Import(Top, ca, When(hot), {}, {zone})>>, t2),
                     Db(<<With(Whole(ca), <<Inject(<<db>>, {}, {})>>)>>, None)}
       [] d = ca -> {Ca(<<>>), Ca(<<Import(Top, db, None, {}, {})>>),
                     Ca(<<With(Whole(db), <<Inject(<<ca>>, {}, {})>>)>>)}
       [] OTHER -> {Ca(<<>>)}]

\* The imports of the entrypoint: of app, of app and what it imports, and of
\* packages already loaded, under every form of rule.
MCEntrypoints ==
  {<<Import(Top, app, None, {tls}, {zone})>>,
   <<Import(Top, app, None, {tls}, {zone}), Import(svc, db, None, {hot}, {})>>,
   <<Import(svc, app, None, {}, {zone}), Import(Top, ca, None, {hot, tls}, {zone})>>,
   <<Whole(db), With(Import(svc, app, None, {tls}, {zone}), <<Inject(<<ca>>, {hot}, {zone})>>)>>,
   <<Import(Top, ca, None, {}, {zone}),
     With(Import(Top, app, None, {}, {zone}), <<Bind(<<ca>>, ca), Inject(<<db>>, {}, {sites})>>)>>,
   <<With(Import(Top, app, None, {tls}, {zone}), <<Inject(<<db, ca>>, {tls}, {zone})>>), Whole(db)>>,
   <<Whole(db), Alias(Whole(ca), db)>>,
   <<Whole(db), With(Whole(db), <<Inject(<<ca>>, {hot}, {})>>), Import(svc, db, None, {}, {})>>,
   <<Import(Top, db, None, {hot}, {}), Import(Top, db, None, {tls}, {})>>,
   <<Import(Top, ca, None, {}, {zone}), Whole(db), With(Import(svc, db, None, {}, {}), <<Bind(<<app>>, ca)>>)>>,
   <<Whole(db), Import(svc, app, None, {hot}, {})>>,
   <<With(Whole(app), <<Bind(<<db>>, ca)>>)>>}
==============================================================================
