-------------------------------- MODULE MCEnds --------------------------------
(***************************************************************************)
(* Two parts that have to come to an end, side by side: each behaviour     *)
(* loads one entrypoint (module Tree, on the packages of MCTree) or runs   *)
(* one command in a process group (module Groups).                         *)
(***************************************************************************)
EXTENDS MCTree, Groups

VARIABLE part

endsVars == <<vars, part, groupVars>>

EndsInit ==
  /\ part \in {"tree", "groups"}
  /\ Init /\ GroupInit
  /\ part = "tree" => kind = "shell"

\* A step of each part, and a command that is over, or whose alpha is dead,
\* at rest.
TreeNext == part = "tree" /\ Next /\ UNCHANGED <<part, groupVars>>
GroupsNext == part = "groups" /\ GroupNext /\ UNCHANGED <<part, vars>>
Rest == part = "groups" /\ alpha \in {"over", "dead"} /\ UNCHANGED endsVars
EndsNext == TreeNext \/ GroupsNext \/ Rest

\* The fairness of the two modules, each in its part.
EndsSpec ==
  /\ EndsInit /\ [][EndsNext]_endsVars
  /\ WF_endsVars(part = "tree" /\ (Load \/ Settle) /\ UNCHANGED <<part, groupVars>>)
  /\ WF_endsVars(part = "groups" /\ Supervise /\ UNCHANGED <<part, vars>>)
  /\ WF_endsVars(part = "groups" /\ Probe /\ UNCHANGED <<part, vars>>)
  /\ WF_endsVars(part = "groups" /\ Tommy /\ UNCHANGED <<part, vars>>)

\* Tree's LoadEnds, in the behaviours that load.
TreeLoadEnds == part = "tree" => LoadEnds
==============================================================================
