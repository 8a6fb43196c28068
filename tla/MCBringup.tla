------------------------------ MODULE MCBringup ------------------------------
(***************************************************************************)
(* Small stacks for module Bringup.                                        *)
(***************************************************************************)
EXTENDS Bringup

CONSTANTS db, api, migrate, seed, tpl, go, repo, none

MCPin == [s \in Service |-> IF s = api THEN go ELSE none]
NoPin == [s \in Service |-> none]
MCRepo == [s \in Service |-> repo]
MCOwner == [p \in Provision |-> api]
OwnTemplate == [p \in Provision |-> p]

RuntimeOf(s, st) == [kind |-> "runtime", of |-> s, at |-> st]
ProvisionOf(p, st) == [kind |-> "provision", of |-> p, at |-> st]
BuildOf(s, st) == [kind |-> "build", of |-> s, at |-> st]

\* db and api share a checkout; api starts once db is ready and its own
\* migration, which needs db and api's build, has succeeded.
ChainAfter ==
  [e \in Entity |->
     CASE e = api -> <<RuntimeOf(db, "ready"), ProvisionOf(migrate, "success")>>
       [] e = migrate -> <<BuildOf(api, "success"), RuntimeOf(db, "ready")>>
       [] OTHER -> <<>>]

\* api's migration runs a template it does not own once api is built, api
\* starts when the migration is decided; seed is detached and runs when api is
\* ready; tpl is latent.
TemplateOf == [p \in Provision |-> IF p = migrate THEN tpl ELSE p]
TemplateAfter ==
  [e \in Entity |->
     CASE e = api -> <<ProvisionOf(migrate, "done")>>
       [] e = migrate -> <<BuildOf(api, "done")>>
       [] e = seed -> <<RuntimeOf(api, "running")>>
       [] OTHER -> <<>>]

\* seed waits for nothing.
SoloAfter == [e \in Entity |-> <<>>]
==============================================================================
