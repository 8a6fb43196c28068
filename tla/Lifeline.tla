------------------------------ MODULE Lifeline ------------------------------
(***************************************************************************)
(* A process bound to the life of its owner until it commits: alpha to the *)
(* zordon that spawned it (internal/daemon, internal/parentwatch).         *)
(*                                                                         *)
(* Two detectors watch the owner.  The pipe leg is a goroutine that reads  *)
(* the owner's pipe (Watcher.run) and one that forwards its verdict; the   *)
(* other polls getppid.  Either cancels the daemon's context.  Release     *)
(* tears both down, after which the owner may leave.                       *)
(*                                                                         *)
(* arm has returned before the body that could call Release starts, so the *)
(* initial state is the armed one.                                         *)
(***************************************************************************)

VARIABLES
  owner,    \* "waiting" for the answer, "died" without it, "left" with it
  handler,  \* handleConfigure: at work, in Release, past it, answered
  main,     \* serveAlpha, down to Run's deferred stop
  stop,     \* how far the one execution of stop (stopOnce) has come
  reader,   \* Watcher.run; "absent" when there is no pipe
  died,     \* Watcher.died is closed
  forward,  \* arm's goroutine on the pipe leg
  ticker,   \* arm's goroutine on the getppid leg
  tripped,  \* Lifeline.tripped
  cause,    \* context.Cause of the daemon's context
  verdict   \* what serveAlpha took it for

vars == <<owner, handler, main, stop, reader, died, forward, ticker,
          tripped, cause, verdict>>
legs == <<reader, died, forward, ticker>>
daemon == <<handler, main, stop, verdict>>

LegPc == {"select", "check", "fire", "cancel", "over"}

TypeOK ==
  /\ owner \in {"waiting", "died", "left"}
  /\ handler \in {"busy", "releasing", "released", "answered"}
  /\ main \in {"serving", "stopping", "returning", "gone"}
  /\ stop \in {"idle", "flag", "close", "join", "over"}
  /\ reader \in {"absent", "reading", "failed", "dying", "over"}
  /\ died \in BOOLEAN
  /\ forward \in LegPc \cup {"absent"}
  /\ ticker \in LegPc
  /\ tripped \in BOOLEAN
  /\ cause \in {"none", "death", "signal"}
  /\ verdict \in {"none", "death", "signal"}
  /\ reader = "absent" <=> forward = "absent"

Init ==
  /\ owner = "waiting" /\ handler = "busy" /\ main = "serving"
  /\ stop = "idle" /\ died = FALSE
  /\ \/ reader = "absent" /\ forward = "absent"
     \/ reader = "reading" /\ forward = "select"
  /\ ticker = "select"
  /\ tripped = FALSE /\ cause = "none" /\ verdict = "none"

Running == main # "gone"

------------------------------------------------------------------------------
(* The owner, and everybody else.                                           *)

\* Killed, or gone with an error or for want of an answer.
OwnerDies ==
  /\ owner = "waiting"
  /\ owner' = "died"
  /\ UNCHANGED <<daemon, legs, tripped, cause>>

\* pushConfigure reads EventDone and zordon exits.
OwnerLeaves ==
  /\ owner = "waiting" /\ handler = "answered"
  /\ owner' = "left"
  /\ UNCHANGED <<daemon, legs, tripped, cause>>

Signal ==
  /\ Running /\ cause = "none"
  /\ cause' = "signal"
  /\ UNCHANGED <<owner, daemon, legs, tripped>>

------------------------------------------------------------------------------
(* stop, run by Release or by Run's defer, whichever is first.              *)

DoneClosed == stop # "idle"

\* Variant: the flag follows the close.
FlagLate == stop = "over"

Flagged == stop \in {"close", "join", "over"}

\* Variant: the pipe is a blocking descriptor, its read outlasts the close.
NoWakeup == FALSE

PipeClosed == stop \in {"join", "over"}

CloseDone ==
  /\ stop = "idle" /\ (handler = "releasing" \/ main = "returning")
  /\ stop' = "flag"
  /\ UNCHANGED <<owner, handler, main, verdict, legs, tripped, cause>>

\* Watcher.Stop: the flag, the descriptor, then the goroutine is joined.
SetStopped ==
  /\ stop = "flag"
  /\ stop' = IF reader = "absent" THEN "over" ELSE "close"
  /\ UNCHANGED <<owner, handler, main, verdict, legs, tripped, cause>>

ClosePipe ==
  /\ stop = "close"
  /\ stop' = "join"
  /\ UNCHANGED <<owner, handler, main, verdict, legs, tripped, cause>>

\* Variant: Stop returns without the goroutine.
LeaveReader ==
  /\ stop = "join"
  /\ stop' = "over"
  /\ UNCHANGED <<owner, handler, main, verdict, legs, tripped, cause>>

JoinReader ==
  /\ stop = "join" /\ reader = "over"
  /\ stop' = "over"
  /\ UNCHANGED <<owner, handler, main, verdict, legs, tripped, cause>>

------------------------------------------------------------------------------
(* handleConfigure's commit and serveAlpha's end.                           *)

Release ==
  /\ handler = "busy"
  /\ handler' = "releasing"
  /\ UNCHANGED <<owner, main, stop, verdict, legs, tripped, cause>>

\* Release returns; then EventDone.
Answer ==
  /\ \/ handler = "releasing" /\ stop = "over" /\ handler' = "released"
     \/ handler = "released" /\ handler' = "answered"
  /\ UNCHANGED <<owner, main, stop, verdict, legs, tripped, cause>>

\* The select on ctx.Done and shutdownCh, which a shutdown request may have
\* closed at any time: with both ready either is taken.
Koniec ==
  /\ main = "serving"
  /\ main' = "stopping"
  /\ \/ UNCHANGED verdict
     \/ cause # "none" /\ verdict' = IF tripped THEN "death" ELSE "signal"
  /\ UNCHANGED <<owner, handler, stop, legs, tripped, cause>>

\* The ordered shutdown is over: serveAlpha returns, Run stops the lifeline.
Return ==
  /\ \/ main = "stopping" /\ main' = "returning"
     \/ main = "returning" /\ stop = "over" /\ main' = "gone"
  /\ UNCHANGED <<owner, handler, stop, verdict, legs, tripped, cause>>

------------------------------------------------------------------------------
(* The detectors.                                                           *)

Gone == owner # "waiting"

\* Watcher.run: the read returns, on EOF or because Stop closed the pipe.
ReadReturns ==
  /\ reader = "reading" /\ (Gone \/ PipeClosed)
  /\ reader' = "failed"
  /\ UNCHANGED <<owner, daemon, died, forward, ticker, tripped, cause>>

LoadStopped ==
  /\ reader = "failed"
  /\ reader' = IF Flagged THEN "over" ELSE "dying"
  /\ UNCHANGED <<owner, daemon, died, forward, ticker, tripped, cause>>

CloseDied ==
  /\ reader = "dying"
  /\ reader' = "over" /\ died' = TRUE
  /\ UNCHANGED <<owner, daemon, forward, ticker, tripped, cause>>

\* The select of the forwarding goroutine: both channels may be closed.
Forward ==
  /\ forward = "select"
  /\ \/ died /\ forward' = "fire"
     \/ DoneClosed /\ forward' = "over"
  /\ UNCHANGED <<owner, daemon, reader, died, ticker, tripped, cause>>

\* A tick, or done, and then getppid.  A goroutine that was not scheduled in
\* the meantime finds both ready and takes either.
Tick ==
  /\ \/ ticker = "select" /\ ticker' = "check"
     \/ ticker = "select" /\ DoneClosed /\ ticker' = "over"
     \/ ticker = "check" /\ ticker' = IF Gone THEN "fire" ELSE "select"
  /\ UNCHANGED <<owner, daemon, reader, died, forward, tripped, cause>>

\* fire, under fireOnce: the loser of the race has nothing to do.
Trip(leg) == IF tripped THEN leg' = "over" ELSE leg' = "cancel"

\* Variant: cancels the context before it says why.
CancelFirst ==
  /\ \/ forward = "fire" /\ Trip(forward) /\ UNCHANGED ticker
     \/ ticker = "fire" /\ Trip(ticker) /\ UNCHANGED forward
  /\ cause' = IF cause = "none" THEN "death" ELSE cause
  /\ UNCHANGED <<owner, daemon, reader, died, tripped>>

Fire ==
  /\ \/ forward = "fire" /\ Trip(forward) /\ UNCHANGED ticker
     \/ ticker = "fire" /\ Trip(ticker) /\ UNCHANGED forward
  /\ tripped' = TRUE
  /\ UNCHANGED <<owner, daemon, reader, died, cause>>

\* WithCancelCause keeps the first cause.
Cancel ==
  /\ \/ forward = "cancel" /\ forward' = "over" /\ UNCHANGED ticker
     \/ ticker = "cancel" /\ ticker' = "over" /\ UNCHANGED forward
  /\ cause' = IF cause = "none" THEN "death" ELSE cause
  /\ UNCHANGED <<owner, daemon, reader, died, tripped>>

------------------------------------------------------------------------------
Stopping == CloseDone \/ SetStopped \/ ClosePipe \/ JoinReader
Detect == ReadReturns \/ LoadStopped \/ CloseDied \/ Forward \/ Tick \/ Fire \/ Cancel
Body == Release \/ Answer \/ Koniec \/ Return

Next ==
  \/ OwnerDies \/ OwnerLeaves
  \/ Running /\ (Signal \/ Stopping \/ Body \/ Detect)
  \/ main = "gone" /\ UNCHANGED vars

\* Goroutines run; the bringup and the service of the alpha may last for ever.
Fairness ==
  /\ WF_vars(Running /\ Stopping) /\ WF_vars(Running /\ Answer)
  /\ WF_vars(Running /\ Return)
  /\ WF_vars(Running /\ cause # "none" /\ Koniec)
  /\ WF_vars(Running /\ (ReadReturns \/ LoadStopped \/ CloseDied))
  /\ WF_vars(Running /\ Forward) /\ WF_vars(Running /\ Tick)
  /\ WF_vars(Running /\ Fire) /\ WF_vars(Running /\ Cancel)

Spec == Init /\ [][Next]_vars /\ Fairness

------------------------------------------------------------------------------
\* The pipe never reports a death that Stop itself caused, nor the exit of an
\* owner that was told it may go (Watcher.Stop, handleConfigure's commit).
NoFalseEOF == died => owner = "died"

\* "a Stop+death race resolves to Stop": once Stop has returned, Died is not
\* closed retroactively, whatever the reader had seen (Watcher.Stop).
StopSettles == [][stop = "over" => UNCHANGED died]_vars

\* An alpha whose context was cancelled by the death of its owner logs that
\* death and not a signal: serveAlpha reads Fired after ctx.Done.
DeathIsNamed == cause = "death" => verdict # "signal"

\* The death of an owner that has not been answered ends the daemon, and so
\* does a stop, which never hangs in the join.
DeathEndsDaemon ==
  /\ owner = "died" /\ handler = "busy" ~> handler # "busy" \/ main = "gone"
  /\ handler = "releasing" \/ main = "returning" ~> stop = "over"

\* internal/daemon on Fired: "After Release on a clean handshake it stays false".
CleanExitIgnored == owner = "left" => ~tripped
==============================================================================
