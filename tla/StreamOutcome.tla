---------------------------- MODULE StreamOutcome ----------------------------
(***************************************************************************)
(* What CatalogService.ResolveStream promises its caller, without the      *)
(* goroutines, the channel and the counters it uses to keep the promise.   *)
(*                                                                         *)
(* Every candidate provider is asked once and concludes with a stream or   *)
(* with an error.  The caller gets a stream that some provider really      *)
(* resolved, or an error.  As long as the caller is still waiting an error *)
(* is given only when no provider has a stream, and it is the error of one *)
(* of them.  A caller who left (disconnected, or ran out of its deadline)  *)
(* may be told anything but a stream nobody resolved.                      *)
(***************************************************************************)
CONSTANTS Candidates,  \* the providers that are raced
          NoProvider   \* no provider has won

(***************************************************************************)
(* How one provider.ResolveStream call ends: with a stream, with           *)
(* provider.ErrNoFullStream, with another error of the provider, or with   *)
(* an error that wraps context.DeadlineExceeded or context.Canceled.       *)
(***************************************************************************)
Errors   == {"nofull", "failed", "timeout", "canceled"}
Outcomes == {"ok"} \cup Errors

(* What ResolveStream returns: a stream, one of the errors, or the error   *)
(* "can't be streamed" when it heard no error at all.                      *)
Verdicts == {"pending", "unstreamable"} \cup Outcomes

VARIABLES outcome,  \* how each provider's call ended, "none" before it did
          caller,   \* "waiting" or "gone"
          verdict,  \* what the caller was told
          winner    \* the provider whose stream the caller was given

vars == <<outcome, caller, verdict, winner>>

Init ==
  /\ outcome = [p \in Candidates |-> "none"]
  /\ caller = "waiting"
  /\ verdict = "pending"
  /\ winner = NoProvider

(* A provider answers; those that lose the race may do so after it is won. *)
Conclude(p, o) ==
  /\ outcome[p] = "none"
  /\ outcome' = [outcome EXCEPT ![p] = o]
  /\ UNCHANGED <<caller, verdict, winner>>

Leave ==
  /\ caller = "waiting"
  /\ verdict = "pending"
  /\ caller' = "gone"
  /\ UNCHANGED <<outcome, verdict, winner>>

Succeed(p) ==
  /\ verdict = "pending"
  /\ outcome[p] = "ok"
  /\ verdict' = "ok"
  /\ winner' = p
  /\ UNCHANGED <<outcome, caller>>

(* No stream: every provider failed and the caller is told how one did. *)
Defeat(e) ==
  /\ verdict = "pending"
  /\ \A p \in Candidates : outcome[p] \in Errors
  /\ \E p \in Candidates : outcome[p] = e
  /\ verdict' = e
  /\ UNCHANGED <<outcome, caller, winner>>

(* The caller left: it is told an error that happened, or that it can't be *)
(* streamed.                                                               *)
Abandon(e) ==
  /\ verdict = "pending"
  /\ caller = "gone"
  /\ \/ e = "unstreamable"
     \/ e \in Errors /\ \E p \in Candidates : outcome[p] = e
  /\ verdict' = e
  /\ UNCHANGED <<outcome, caller, winner>>

Next ==
  \/ \E p \in Candidates, o \in Outcomes : Conclude(p, o)
  \/ Leave
  \/ \E p \in Candidates : Succeed(p)
  \/ \E e \in Errors : Defeat(e)
  \/ \E e \in Errors \cup {"unstreamable"} : Abandon(e)

Spec == Init /\ [][Next]_vars
=============================================================================
