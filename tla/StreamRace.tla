------------------------------ MODULE StreamRace ------------------------------
(***************************************************************************)
(* CatalogService.ResolveStream (internal/service/catalog.go): the race of *)
(* all enabled providers for a playable stream.                            *)
(*                                                                         *)
(* The main goroutine starts one worker per candidate and a closer, then   *)
(* ranges over the buffered channel `results`.  A worker calls its         *)
(* provider, records the outcome in the provider statistics, then sends    *)
(* the result or gives it up because raceCtx is done.  The closer waits    *)
(* for all workers on a sync.WaitGroup and closes the channel.  The first  *)
(* success received wins and cancels raceCtx; raceCtx is also done when    *)
(* the caller disconnects or its deadline passes.                          *)
(***************************************************************************)
EXTENDS Integers, Sequences, FiniteSets, Functions

CONSTANTS Candidates,  \* the enabled providers (providerCandidates)
          NoProvider   \* stands for "no winner"

(* providerCandidates returns an error, and no race is run, when no        *)
(* provider is enabled.                                                    *)
ASSUME CandidatesAssumption ==
  /\ IsFiniteSet(Candidates)
  /\ Candidates # {}
  /\ NoProvider \notin Candidates

VARIABLES
  main,              \* the goroutine that called ResolveStream
  closer,            \* the goroutine that closes the channel
  pc,                \* the worker of each candidate
  wg,                \* the counter of sync.WaitGroup
  outcome,           \* how the provider's call ended, "none" before it did
  recorded,          \* what recordProviderResult was told of it
  results,           \* the buffered channel: the candidates whose result is in it
  raceErr,           \* raceCtx.Err(): "none", or what ended raceCtx first
  lastErr, fullMissingCount, resultCount,   \* locals of the receiving loop
  heard,             \* history: the candidates whose result was received
  verdict, winner    \* what ResolveStream returned

vars == <<main, closer, pc, wg, outcome, recorded, results, raceErr,
          lastErr, fullMissingCount, resultCount, heard, verdict, winner>>

loopVars == <<lastErr, fullMissingCount, resultCount, heard>>

Errors    == {"nofull", "failed", "timeout", "canceled"}
Outcomes  == {"ok"} \cup Errors
Verdicts  == {"pending", "unstreamable"} \cup Outcomes
WorkerPCs == {"unspawned", "calling", "recording", "sending", "exiting", "exited"}

TypeOK ==
  /\ main \in {"spawning", "receiving", "returned"}
  /\ closer \in {"unspawned", "waiting", "closed"}
  /\ pc \in [Candidates -> WorkerPCs]
  /\ wg \in Nat
  /\ outcome \in [Candidates -> Outcomes \cup {"none"}]
  /\ recorded \in [Candidates -> {"none", "success", "failure"}]
  /\ results \in Seq(Candidates)
  /\ raceErr \in {"none", "returned", "canceled", "expired"}
  /\ lastErr \in {"nil"} \cup Errors
  /\ fullMissingCount \in Nat
  /\ resultCount \in Nat
  /\ heard \in SUBSET Candidates
  /\ verdict \in Verdicts
  /\ winner \in Candidates \cup {NoProvider}

Init ==
  /\ main = "spawning"
  /\ closer = "unspawned"
  /\ pc = [p \in Candidates |-> "unspawned"]
  /\ wg = 0
  /\ outcome = [p \in Candidates |-> "none"]
  /\ recorded = [p \in Candidates |-> "none"]
  /\ results = <<>>
  /\ raceErr = "none"
  /\ lastErr = "nil"
  /\ fullMissingCount = 0
  /\ resultCount = 0
  /\ heard = {}
  /\ verdict = "pending"
  /\ winner = NoProvider

-------------------------------------------------------------------------------
(* The channel, the context, the wait group and what the code tests of a  *)
(* result.  A definition named Mut... is a slip the code below could have  *)
(* made in the definition that follows it; the runs show that each breaks  *)
(* a property.                                                             *)

MutCapacityOneShort == Cardinality(Candidates) - 1
Capacity == Cardinality(Candidates)

RaceDone   == raceErr # "none"
CallerGone == raceErr \in {"canceled", "expired"}

(* A context keeps the first error it is given. *)
CancelRace == raceErr' = IF RaceDone THEN raceErr ELSE "returned"

(* The second case of a worker's select is ready. *)
MutMayAlwaysGiveUp == TRUE
MayGiveUp == RaceDone

(* wg.Wait() returns. *)
MutNoWait == TRUE
WaitReturns == wg = 0

(* The deferred wg.Done() of a worker. *)
MutDoneOnSuccess(p) == wg' = IF outcome[p] = "ok" THEN wg - 1 ELSE wg
MutDoneOnError(p) == wg' = IF outcome[p] = "ok" THEN wg ELSE wg - 1
Done(p) == wg' = wg - 1

MutUncheckedError(p) == TRUE
IsSuccess(p) == outcome[p] = "ok"

(* What the worker tells recordProviderResult, if it calls it at all. *)
MutBluntStatsEntry(p) == IF outcome[p] = "ok" THEN "success" ELSE "failure"
StatsEntry(p) ==
  IF outcome[p] = "ok" THEN "success"
  ELSE IF outcome[p] # "canceled" \/ ~RaceDone THEN "failure" ELSE "none"

(* The error returned once the channel is closed and empty. *)
MutDefeatMayBeNil ==
  IF resultCount > 0 /\ fullMissingCount = resultCount THEN "nofull" ELSE lastErr
DefeatVerdict ==
  IF resultCount > 0 /\ fullMissingCount = resultCount THEN "nofull"
  ELSE IF lastErr = "nil" THEN "unstreamable" ELSE lastErr

-------------------------------------------------------------------------------
(* The main goroutine.                                                     *)

(* wg.Add(1) and the go statement; the order of the candidates is the      *)
(* ranking's and any order is possible.                                    *)
Spawn(p) ==
  /\ main = "spawning"
  /\ pc[p] = "unspawned"
  /\ wg' = wg + 1
  /\ pc' = [pc EXCEPT ![p] = "calling"]
  /\ UNCHANGED <<main, closer, outcome, recorded, results, raceErr, loopVars,
                 verdict, winner>>

(* All workers are started: start the closer and enter the loop. *)
StartReceiving ==
  /\ main = "spawning"
  /\ \A p \in Candidates : pc[p] # "unspawned"
  /\ main' = "receiving"
  /\ closer' = "waiting"
  /\ UNCHANGED <<pc, wg, outcome, recorded, results, raceErr, loopVars,
                 verdict, winner>>

(* The loop receives a result without error: cancel the others, return it. *)
TakeSuccess ==
  /\ main = "receiving"
  /\ results # <<>>
  /\ IsSuccess(Head(results))
  /\ results' = Tail(results)
  /\ heard' = heard \cup {Head(results)}
  /\ resultCount' = resultCount + 1
  /\ CancelRace
  /\ verdict' = "ok"
  /\ winner' = Head(results)
  /\ main' = "returned"
  /\ UNCHANGED <<closer, pc, wg, outcome, recorded, lastErr, fullMissingCount>>

TakeError ==
  /\ main = "receiving"
  /\ results # <<>>
  /\ ~IsSuccess(Head(results))
  /\ results' = Tail(results)
  /\ heard' = heard \cup {Head(results)}
  /\ resultCount' = resultCount + 1
  /\ fullMissingCount' = IF outcome[Head(results)] = "nofull"
                         THEN fullMissingCount + 1 ELSE fullMissingCount
  /\ lastErr' = outcome[Head(results)]
  /\ UNCHANGED <<main, closer, pc, wg, outcome, recorded, raceErr, verdict, winner>>

ReturnDefeat ==
  /\ main = "receiving"
  /\ results = <<>>
  /\ closer = "closed"
  /\ verdict' = DefeatVerdict
  /\ CancelRace
  /\ main' = "returned"
  /\ UNCHANGED <<closer, pc, wg, outcome, recorded, results, loopVars, winner>>

-------------------------------------------------------------------------------
(* The workers.                                                            *)

(* provider.ResolveStream ends.  The attempt's own timer may end it at any *)
(* time; it ends with context.Canceled only after raceCtx was cancelled.   *)
CallEnds(p, o) ==
  /\ pc[p] = "calling"
  /\ o = "canceled" => raceErr \in {"returned", "canceled"}
  /\ outcome' = [outcome EXCEPT ![p] = o]
  /\ pc' = [pc EXCEPT ![p] = "recording"]
  /\ UNCHANGED <<main, closer, wg, recorded, results, raceErr, loopVars,
                 verdict, winner>>

Record(p) ==
  /\ pc[p] = "recording"
  /\ recorded' = [recorded EXCEPT ![p] = StatsEntry(p)]
  /\ pc' = [pc EXCEPT ![p] = "sending"]
  /\ UNCHANGED <<main, closer, wg, outcome, results, raceErr, loopVars,
                 verdict, winner>>

(* The two cases of the select; when both are ready either may be chosen.  *)
Send(p) ==
  /\ pc[p] = "sending"
  /\ Len(results) < Capacity
  /\ results' = Append(results, p)
  /\ pc' = [pc EXCEPT ![p] = "exiting"]
  /\ UNCHANGED <<main, closer, wg, outcome, recorded, raceErr, loopVars,
                 verdict, winner>>

Drop(p) ==
  /\ pc[p] = "sending"
  /\ MayGiveUp
  /\ pc' = [pc EXCEPT ![p] = "exiting"]
  /\ UNCHANGED <<main, closer, wg, outcome, recorded, results, raceErr, loopVars,
                 verdict, winner>>

Exit(p) ==
  /\ pc[p] = "exiting"
  /\ Done(p)
  /\ pc' = [pc EXCEPT ![p] = "exited"]
  /\ UNCHANGED <<main, closer, outcome, recorded, results, raceErr, loopVars,
                 verdict, winner>>

-------------------------------------------------------------------------------
(* wg.Wait(); close(results). *)
CloseResults ==
  /\ closer = "waiting"
  /\ WaitReturns
  /\ closer' = "closed"
  /\ UNCHANGED <<main, pc, wg, outcome, recorded, results, raceErr, loopVars,
                 verdict, winner>>

(* The context ResolveStream was given ends: the client disconnects, or    *)
(* the deadline set by the handler or by the star batch passes.            *)
CallerLeaves(cause) ==
  /\ main # "returned"
  /\ ~RaceDone
  /\ raceErr' = cause
  /\ UNCHANGED <<main, closer, pc, wg, outcome, recorded, results, loopVars,
                 verdict, winner>>

AllExited == \A p \in Candidates : pc[p] = "exited"

(* Every goroutine of the race is gone. *)
Finished ==
  /\ main = "returned" /\ closer = "closed" /\ AllExited
  /\ UNCHANGED vars

MainStep ==
  \/ \E p \in Candidates : Spawn(p)
  \/ StartReceiving \/ TakeSuccess \/ TakeError \/ ReturnDefeat

WorkerStep(p) ==
  \/ \E o \in Outcomes : CallEnds(p, o)
  \/ Record(p) \/ Send(p) \/ Drop(p) \/ Exit(p)

Next ==
  \/ MainStep
  \/ \E p \in Candidates : WorkerStep(p)
  \/ CloseResults
  \/ \E cause \in {"canceled", "expired"} : CallerLeaves(cause)
  \/ Finished

(* The Go scheduler runs every ready goroutine, and a provider call ends   *)
(* at the latest when the timer of providerCallCtx fires.  Nothing makes a *)
(* caller leave.                                                           *)
Fairness ==
  /\ WF_vars(MainStep)
  /\ \A p \in Candidates : WF_vars(WorkerStep(p))
  /\ WF_vars(CloseResults)

Spec == Init /\ [][Next]_vars
FairSpec == Spec /\ Fairness

-------------------------------------------------------------------------------
(* Properties.                                                             *)

(* Nobody can send on a closed channel, which would panic the server: when *)
(* the closer has closed results, every worker is past its select.         *)
NoSendAfterClose ==
  closer = "closed" => \A p \in Candidates : pc[p] \in {"exiting", "exited"}

(* A worker that is about to send finds room in the buffer: a loser never  *)
(* waits for a receiver that has already returned with another's stream.   *)
SendNeverBlocks ==
  \A p \in Candidates : pc[p] = "sending" => Len(results) < Capacity

(* ResolveStream gives up on a caller who is still waiting only after      *)
(* every provider has failed: no stream is lost between the worker that    *)
(* resolved it and the loop, whatever the order of sends, exits and close. *)
NoFalseDefeat ==
  verdict \notin {"pending", "ok"} /\ ~CallerGone =>
    \A p \in Candidates : outcome[p] \in Errors

(* The statistics the ranking uses get one entry per provider that matches *)
(* what the provider did; a call that the race or the caller cancelled is  *)
(* not held against the provider.                                          *)
StatsAreFair ==
  \A p \in Candidates :
    /\ recorded[p] = "success" => outcome[p] = "ok"
    /\ recorded[p] = "failure" => outcome[p] \in Errors \ {"canceled"}
    /\ pc[p] \in {"sending", "exiting", "exited"} /\ recorded[p] = "none"
         => outcome[p] = "canceled" /\ RaceDone

(* The reply "no FULL stream available" is the answer of every provider    *)
(* that was asked, not of one of them.                                     *)
NoFullIsUnanimous ==
  verdict = "nofull" /\ ~CallerGone =>
    \A p \in Candidates : outcome[p] = "nofull"

(* The race implements what ResolveStream promises. *)
Promise == INSTANCE StreamOutcome
             WITH caller <- IF CallerGone THEN "gone" ELSE "waiting"
KeepsPromise == Promise!Spec

(* The caller always gets an answer: every attempt is bounded.             *)
Answered == <>(main = "returned")

(* No goroutine of a race outlives it for ever: the losers, which nobody   *)
(* listens to any more, and the closer that waits for them all end.        *)
NoGoroutineLeaks == <>[](main = "returned" /\ AllExited /\ closer = "closed")
===============================================================================
