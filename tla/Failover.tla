------------------------------- MODULE Failover -------------------------------
(***************************************************************************)
(* How CatalogService (internal/service/catalog.go) chooses providers and  *)
(* learns from them: the statistics, the ranking, the sequential failover  *)
(* loops of Search, GetAlbum, GetArtist, GetArtistAlbumsLive,              *)
(* GetAlbumTracksLive, GetTrack, GetLyrics and                             *)
(* hydrateTrackFromProviderSearch, and the latency prober.  ResolveStream  *)
(* races its providers instead (module StreamRace).                        *)
(*                                                                         *)
(* A caller is a goroutine that runs one of these loops.  It ranks the     *)
(* providers once, when it starts, and asks the best of them one after the *)
(* other; what it learns of each goes into the statistics all callers      *)
(* share.  Latencies are in milliseconds, rounded down.                    *)
(***************************************************************************)
EXTENDS Integers, Sequences, FiniteSets

CONSTANTS
  Enabled,              \* the providers in registry order; a provider is the
                        \* position of its name among all names
  MaxProviderAttempts,  \* how many of them a loop may ask
  Callers,              \* goroutines that run the loops
  Prober,               \* the goroutine of StartLatencyProber
  Latencies,            \* how long a successful call may take
  Natures,              \* what the providers may be like
  MaxSuccesses,         \* bound: answers counted for one provider
  MaxFailures           \* bound: failures counted for one provider

Providers  == {Enabled[i] : i \in 1..Len(Enabled)}
MaxAttemptTimeout == 30000  \* SetProviderAttemptTimeout allows no more
MaxLatency == CHOOSE l \in Latencies : \A k \in Latencies : k <= l

(* SetMaxProviderAttempts keeps 1 to 5; Register refuses a second provider *)
(* of a name.                                                              *)
ASSUME FailoverAssumption ==
  /\ Enabled \in Seq(Nat)
  /\ Cardinality(Providers) = Len(Enabled)
  /\ MaxProviderAttempts \in 1..5
  /\ Prober \in Callers
  /\ Latencies \subseteq 0..MaxAttemptTimeout /\ Latencies # {}
  /\ Natures \subseteq [Providers -> {"sick", "flaky", "reliable"}]

(* The loops: "first" takes the first provider that answers, "track" the   *)
(* first complete track but keeps an incomplete one, "hydrate" only a      *)
(* complete one; "lyrics" does not stop at the attempt limit; "probe" asks *)
(* everyone.                                                               *)
Requests == {"first", "track", "hydrate", "lyrics"}

VARIABLES
  nature,           \* what each provider does: "sick", "flaky" or "reliable"
  successes, failures, avgLatency,  \* the map `stats`
  streak,           \* history: how often a provider has failed since it last answered
  op,               \* what each caller runs, or "idle"
  plan,             \* the providers it has still to ask
  best,             \* GetTrack has an incomplete track
  gone,             \* its context is done: the client left or 30 s passed
  verdict,          \* what it returned
  answered,         \* history: the providers that answered it
  hopeful           \* history: it started when the ranking had learnt enough

stats  == <<successes, failures, avgLatency, streak>>
vars   == <<nature, successes, failures, avgLatency, streak, op, plan, best, gone, verdict,
            answered, hopeful>>

TypeOK ==
  /\ nature \in Natures
  /\ successes \in [Providers -> Nat]
  /\ failures \in [Providers -> Nat]
  /\ avgLatency \in [Providers -> Nat]
  /\ streak \in [Providers -> Nat]
  /\ op \in [Callers -> Requests \cup {"idle", "probe"}]
  /\ plan \in [Callers -> Seq(Providers)]
  /\ best \in [Callers -> BOOLEAN]
  /\ gone \in [Callers -> BOOLEAN]
  /\ verdict \in [Callers -> {"pending", "answer", "best", "none", "error"}]
  /\ answered \in [Callers -> SUBSET Providers]
  /\ hopeful \in [Callers -> BOOLEAN]

Init ==
  /\ nature \in Natures
  /\ successes = [p \in Providers |-> 0]
  /\ failures = [p \in Providers |-> 0]
  /\ avgLatency = [p \in Providers |-> 0]
  /\ streak = [p \in Providers |-> 0]
  /\ op = [c \in Callers |-> "idle"]
  /\ plan = [c \in Callers |-> <<>>]
  /\ best = [c \in Callers |-> FALSE]
  /\ gone = [c \in Callers |-> FALSE]
  /\ verdict = [c \in Callers |-> "pending"]
  /\ answered = [c \in Callers |-> {}]
  /\ hopeful = [c \in Callers |-> FALSE]

-------------------------------------------------------------------------------
(* Statistics and ranking.  A definition named Mut... is a slip the code   *)
(* could have made in the definition that follows it; the runs show that   *)
(* it breaks a property.                                                   *)

Known(p) == successes[p] + failures[p] > 0

Larger(a, b) == IF a < b THEN b ELSE a

(* The average after a success, and after a failure. *)
Smoothed(avg, latency) == IF avg = 0 THEN latency ELSE (7 * avg + 3 * latency) \div 10

MutFirstOnly(avg) == IF avg = 0 THEN 5000 ELSE avg
MutRewarded(avg) == IF avg = 0 THEN 5000 ELSE avg - 1500
Penalized(avg) == IF avg = 0 THEN 5000 ELSE avg + 1500

RecordSuccess(p, latency) ==
  /\ successes' = [successes EXCEPT ![p] = @ + 1]
  /\ avgLatency' = [avgLatency EXCEPT ![p] = Smoothed(@, latency)]
  /\ streak' = [streak EXCEPT ![p] = 0]
  /\ UNCHANGED failures

RecordFailure(p) ==
  /\ failures' = [failures EXCEPT ![p] = @ + 1]
  /\ avgLatency' = [avgLatency EXCEPT ![p] = Penalized(@)]
  /\ streak' = [streak EXCEPT ![p] = @ + 1]
  /\ UNCHANGED successes

(* providerRankScore. *)
MutUnknownNever(p) == IF ~Known(p) THEN 1000000 ELSE Larger(1, avgLatency[p])
Score(p) ==
  IF ~Known(p) THEN 10000
  ELSE Larger(1, avgLatency[p]) + 400 * Larger(0, failures[p] - successes[p])

(* The less function of rankProviders. *)
Before(p, q) == Score(p) < Score(q) \/ (Score(p) = Score(q) /\ p < q)

(* rankProviders: the providers in this order. *)
Ranked ==
  CHOOSE s \in [1..Len(Enabled) -> Providers] :
    \A i, j \in 1..Len(Enabled) : i < j => Before(s[i], s[j])

(* topCandidates. *)
TopCandidates(s) == IF Len(s) <= MaxProviderAttempts THEN s ELSE SubSeq(s, 1, MaxProviderAttempts)

(* The providers a loop is going to ask. *)
Candidates(o) ==
  CASE o = "probe"  -> Enabled
    [] o = "lyrics" -> Ranked
    [] OTHER        -> TopCandidates(Ranked)

-------------------------------------------------------------------------------
(* The loops.                                                              *)

Sick == {p \in Providers : nature[p] = "sick"}

(* Every sick provider has failed four times, one that is reliable and no  *)
(* slower than 10 s has never been charged a failure, and the flaky ones   *)
(* are too few to take all the attempts.                                   *)
HasLearnt ==
  /\ \A p \in Sick : failures[p] >= 4
  /\ \E q \in Providers : nature[q] = "reliable" /\ failures[q] = 0 /\ avgLatency[q] <= 10000
  /\ Cardinality({p \in Providers : nature[p] = "flaky"}) < MaxProviderAttempts

(* A request arrives, or the prober's ticker fires. *)
Start(c, o) ==
  /\ op[c] = "idle"
  /\ (c = Prober) = (o = "probe")
  /\ op' = [op EXCEPT ![c] = o]
  /\ plan' = [plan EXCEPT ![c] = Candidates(o)]
  /\ hopeful' = [hopeful EXCEPT ![c] = HasLearnt]
  /\ UNCHANGED <<nature, stats, best, gone, verdict, answered>>

Asking(c)  == plan[c] # <<>> /\ verdict[c] = "pending"
Nominee(c) == Head(plan[c])
Advance(c) == plan' = [plan EXCEPT ![c] = Tail(@)]

(* The call fails: by itself, or because the caller's context is done.     *)
(* Either way it is recorded as a failure of the provider, and the loop    *)
(* goes on to the next.                                                    *)
CallFails(c) ==
  /\ Asking(c)
  /\ gone[c] \/ nature[Nominee(c)] # "reliable"
  /\ RecordFailure(Nominee(c))
  /\ Advance(c)
  /\ UNCHANGED <<nature, op, best, gone, verdict, answered, hopeful>>

(* The provider answers with all the loop wants. *)
CallAnswers(c) ==
  /\ Asking(c)
  /\ op[c] # "probe"
  /\ ~gone[c] /\ nature[Nominee(c)] # "sick"
  /\ \E l \in Latencies : RecordSuccess(Nominee(c), l)
  /\ answered' = [answered EXCEPT ![c] = @ \cup {Nominee(c)}]
  /\ verdict' = [verdict EXCEPT ![c] = "answer"]
  /\ UNCHANGED <<nature, op, plan, best, gone, hopeful>>

(* The provider answers, and the loop goes on: GetTrack keeps the          *)
(* incomplete track, hydrate finds no complete one, the prober asks all.   *)
CallFallsShort(c) ==
  /\ Asking(c)
  /\ op[c] \in {"track", "hydrate", "probe"}
  /\ ~gone[c] /\ nature[Nominee(c)] # "sick"
  /\ \E l \in Latencies : RecordSuccess(Nominee(c), l)
  /\ answered' = [answered EXCEPT ![c] = @ \cup {Nominee(c)}]
  /\ best' = [best EXCEPT ![c] = op[c] = "track"]
  /\ Advance(c)
  /\ UNCHANGED <<nature, op, gone, verdict, hopeful>>

(* The loop is over: the best track, nothing, or the last error. *)
MutForgetsBest(c) == IF op[c] \in {"probe", "hydrate"} THEN "none" ELSE "error"
Outcome(c) ==
  IF op[c] \in {"probe", "hydrate"} THEN "none" ELSE IF best[c] THEN "best" ELSE "error"

GiveUp(c) ==
  /\ op[c] # "idle"
  /\ verdict[c] = "pending"
  /\ plan[c] = <<>>
  /\ verdict' = [verdict EXCEPT ![c] = Outcome(c)]
  /\ UNCHANGED <<nature, stats, op, plan, best, gone, answered, hopeful>>

Return(c) ==
  /\ verdict[c] # "pending"
  /\ op' = [op EXCEPT ![c] = "idle"]
  /\ plan' = [plan EXCEPT ![c] = <<>>]
  /\ best' = [best EXCEPT ![c] = FALSE]
  /\ gone' = [gone EXCEPT ![c] = FALSE]
  /\ verdict' = [verdict EXCEPT ![c] = "pending"]
  /\ answered' = [answered EXCEPT ![c] = {}]
  /\ hopeful' = [hopeful EXCEPT ![c] = FALSE]
  /\ UNCHANGED <<nature, stats>>

(* The client disconnects or the request's deadline passes; the prober has *)
(* no client.                                                              *)
Leave(c) ==
  /\ c # Prober
  /\ op[c] # "idle" /\ ~gone[c] /\ verdict[c] = "pending"
  /\ gone' = [gone EXCEPT ![c] = TRUE]
  /\ UNCHANGED <<nature, stats, op, plan, best, verdict, answered, hopeful>>

Bounded == \A p \in Providers : successes[p] <= MaxSuccesses /\ failures[p] <= MaxFailures

Next ==
  \/ \E c \in Callers :
       \/ \E o \in Requests \cup {"probe"} : Start(c, o)
       \/ CallFails(c) /\ Bounded'
       \/ (CallAnswers(c) \/ CallFallsShort(c)) /\ Bounded'
       \/ GiveUp(c) \/ Return(c) \/ Leave(c)

Spec == Init /\ [][Next]_vars

-------------------------------------------------------------------------------
(* Properties.                                                             *)

(* "Penalize failures so unstable providers are deprioritized quickly": a  *)
(* provider whose failures since its last answer cost it more than the     *)
(* slowest answer takes ranks behind every provider that has answered and  *)
(* never failed, however well it did before.                               *)
FailingFallsBehind ==
  \A p, q \in Providers :
    1500 * streak[p] > MaxLatency /\ successes[q] > 0 /\ failures[q] = 0 => Before(q, p)

(* A ranking that has learnt enough is of use: a request that starts then  *)
(* and whose client waits gets an answer, although it asks only the best   *)
(* MaxProviderAttempts providers.  It needs a sick provider to fall behind *)
(* the ones nobody has tried, which the constant 10000 allows after four   *)
(* failures.                                                               *)
LearntRankingServes ==
  \A c \in Callers :
    hopeful[c] /\ ~gone[c] => verdict[c] # "error"

(* A loop reports an error only when none of its providers answered:       *)
(* GetTrack does not lose an incomplete track to the error of the provider *)
(* it asks next.                                                           *)
NoAnswerIsLost == \A c \in Callers : verdict[c] = "error" => answered[c] = {}
===============================================================================
