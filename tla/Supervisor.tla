------------------------------ MODULE Supervisor ------------------------------
(***************************************************************************)
(* What alpha promises about a stack, whatever it does to keep the promise: *)
(* every service's bringup is decided once, as ready or failed; a process  *)
(* is started at most once, before the decision, and never outlives a      *)
(* failure; the configure is answered at most once, with "done" only if    *)
(* everything failfast covers is ready; and alpha is gone only when every  *)
(* process it started is.                                                  *)
(***************************************************************************)
CONSTANTS Service, Failfast

VARIABLES outcome,   \* outcome[s]: "pending", "ready" or "failed"
          process,   \* process[s]: "none", "alive" or "dead"
          answer,    \* "none", "done" or "error"
          gone       \* alpha has exited

vars == <<outcome, process, answer, gone>>

Init ==
  /\ outcome = [s \in Service |-> "pending"]
  /\ process = [s \in Service |-> "none"]
  /\ answer = "none"
  /\ gone = FALSE

Start(s) ==
  /\ ~gone /\ process[s] = "none" /\ outcome[s] = "pending"
  /\ process' = [process EXCEPT ![s] = "alive"]
  /\ UNCHANGED <<outcome, answer, gone>>

Die(s) ==
  /\ process[s] = "alive"
  /\ process' = [process EXCEPT ![s] = "dead"]
  /\ UNCHANGED <<outcome, answer, gone>>

\* A process that died while it was being probed may still be called ready:
\* the probe's last answer and the death race.
Succeed(s) ==
  /\ ~gone /\ outcome[s] = "pending" /\ process[s] # "none"
  /\ outcome' = [outcome EXCEPT ![s] = "ready"]
  /\ UNCHANGED <<process, answer, gone>>

Fail(s) ==
  /\ ~gone /\ outcome[s] = "pending" /\ process[s] # "alive"
  /\ outcome' = [outcome EXCEPT ![s] = "failed"]
  /\ UNCHANGED <<process, answer, gone>>

Answer ==
  /\ ~gone /\ answer = "none"
  /\ \/ answer' = "done" /\ (Failfast => \A s \in Service : outcome[s] = "ready")
     \/ answer' = "error"
  /\ UNCHANGED <<outcome, process, gone>>

Leave ==
  /\ ~gone /\ \A s \in Service : process[s] # "alive"
  /\ gone' = TRUE
  /\ UNCHANGED <<outcome, process, answer>>

Next ==
  \/ \E s \in Service : Start(s) \/ Die(s) \/ Succeed(s) \/ Fail(s)
  \/ Answer \/ Leave

Spec == Init /\ [][Next]_vars
==============================================================================
