------------------------------ MODULE Lifecycle ------------------------------
(***************************************************************************)
(* The precedence DAGs of internal/alphasfile/lifecycle.go and the meaning *)
(* of lifecycle.Instance.Reach: reaching a state fires the barrier of that *)
(* state and of every transitive predecessor.                              *)
(*                                                                         *)
(* A DAG is a record of its states and of its edges <<from, to>>.  What an *)
(* instance has fired is a set of states; it only grows (barrier.Trigger   *)
(* is a sync.Once around close).                                           *)
(***************************************************************************)

\* Scheduled -> running -> {ready, failed}; ready -> stopped.
ServiceLifecycle ==
  [states |-> {"scheduled", "running", "ready", "failed", "stopped"},
   edges  |-> { <<"scheduled", "running">>, <<"running", "ready">>,
                <<"running", "failed">>, <<"ready", "stopped">> }]

\* A provision and a build share the shape of a one-shot task.
ProvisionLifecycle ==
  [states |-> {"scheduled", "running", "success", "failure"},
   edges  |-> { <<"scheduled", "running">>, <<"running", "success">>,
                <<"running", "failure">> }]

BuildLifecycle ==
  [states |-> {"scheduled", "running", "success", "failure"},
   edges  |-> { <<"scheduled", "running">>, <<"running", "success">>,
                <<"running", "failure">> }]

ToolchainLifecycle ==
  [states |-> {"installing", "ready", "failed"},
   edges  |-> { <<"installing", "ready">>, <<"installing", "failed">> }]

\* C contains every direct predecessor of its members.
PredClosed(d, C) == \A e \in d.edges : e[2] \in C => e[1] \in C

\* What Reach(s) fires: the least predecessor-closed set of states with s in it.
Upto(d, s) ==
  {p \in d.states :
     \A C \in SUBSET d.states : s \in C /\ PredClosed(d, C) => p \in C}

ServiceReach   == [s \in ServiceLifecycle.states   |-> Upto(ServiceLifecycle, s)]
ProvisionReach == [s \in ProvisionLifecycle.states |-> Upto(ProvisionLifecycle, s)]
BuildReach     == [s \in BuildLifecycle.states     |-> Upto(BuildLifecycle, s)]
ToolchainReach == [s \in ToolchainLifecycle.states |-> Upto(ToolchainLifecycle, s)]
==============================================================================
