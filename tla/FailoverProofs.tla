---------------------------- MODULE FailoverProofs ----------------------------
(***************************************************************************)
(* What TLAPS proves of Failover, for any providers, callers, latencies,   *)
(* natures and attempt limit that satisfy FailoverAssumption: the types,   *)
(* that the ranking is one, and the three safety properties.               *)
(***************************************************************************)
EXTENDS Failover, OrderLemmas

(* Register refuses a second provider of a name, so Enabled lists each     *)
(* provider once.                                                          *)
LEMMA ProvidersAreFinite ==
  /\ Enabled \in Seq(Providers) /\ Len(Enabled) \in Nat
  /\ Providers \subseteq Nat
  /\ IsFiniteSet(Providers)
<1>1. Enabled \in [1..Len(Enabled) -> Nat] /\ Len(Enabled) \in Nat
  BY FailoverAssumption
<1>2. Enabled \in [1..Len(Enabled) -> Providers]
  BY <1>1 DEF Providers
<1>3. Enabled \in Surjection(1..Len(Enabled), Providers)
  BY <1>2 DEF Surjection, Providers
<1>4. IsFiniteSet(Providers)
  BY <1>1, <1>3, FS_Interval, FS_Surjection
<1>5. Providers \subseteq Nat
  BY <1>1 DEF Providers
<1>6. Enabled \in Seq(Providers)
  BY <1>1, <1>2
<1>7. QED
  BY <1>1, <1>4, <1>5, <1>6

LEMMA MaxLatencyIsLargest ==
  /\ MaxLatency \in Latencies /\ \A l \in Latencies : l <= MaxLatency
  /\ MaxLatency \in Nat
<1>1. \E l \in Latencies : \A k \in Latencies : k <= l
  <2>1. MaxAttemptTimeout \in Nat
    BY DEF MaxAttemptTimeout
  <2>2. QED
    BY <2>1, GreatestNumber, FailoverAssumption
<1>2. MaxLatency \in Latencies /\ \A l \in Latencies : l <= MaxLatency
  BY <1>1 DEF MaxLatency
<1>3. QED
  BY <1>2, FailoverAssumption

-------------------------------------------------------------------------------
(* The ranking.                                                            *)

LEMMA ScoreType ==
  ASSUME TypeOK, NEW p \in Providers
  PROVE  Score(p) \in Nat
BY DEF TypeOK, Score, Larger, Known

Precedes == {r \in Providers \X Providers : Before(r[1], r[2])}

LEMMA BeforeIsTotal ==
  ASSUME TypeOK
  PROVE  StrictTotalOrder(Precedes, Providers)
<1>1. \A p, q \in Providers : <<p, q>> \in Precedes <=> Before(p, q)
  BY DEF Precedes
<1>2. \A p \in Providers : Score(p) \in Nat /\ p \in Nat
  BY ScoreType, ProvidersAreFinite
<1>3. QED
  BY <1>1, <1>2 DEF StrictTotalOrder, Before

(* Such an order exists, so the CHOOSE in Ranked finds it; and it lists    *)
(* every provider, because it lists as many as there are and none twice.   *)
LEMMA RankedIsSorted ==
  ASSUME TypeOK
  PROVE  /\ Ranked \in [1..Len(Enabled) -> Providers]
         /\ \A i, j \in 1..Len(Enabled) : i < j => Before(Ranked[i], Ranked[j])
<1> DEFINE n == Len(Enabled)
<1>1. Cardinality(Providers) = n /\ IsFiniteSet(Providers)
  BY FailoverAssumption, ProvidersAreFinite
<1>2. PICK s \in [1..n -> Providers] :
        \A i, j \in 1..n : i < j => <<s[i], s[j]>> \in Precedes
  BY <1>1, BeforeIsTotal, Sorting
<1>3. \A i, j \in 1..n : i < j => Before(s[i], s[j])
  BY <1>2 DEF Precedes
<1>4. QED
  BY <1>3 DEF Ranked

LEMMA RankedListsAll ==
  ASSUME TypeOK
  PROVE  /\ Ranked \in Seq(Providers) /\ Len(Ranked) = Len(Enabled)
         /\ \A i, j \in 1..Len(Ranked) : Ranked[i] = Ranked[j] => i = j
         /\ \A p \in Providers : \E i \in 1..Len(Ranked) : Ranked[i] = p
<1> DEFINE n == Len(Enabled)
<1>1. Ranked \in [1..n -> Providers] /\ n \in Nat
  BY RankedIsSorted, ProvidersAreFinite
<1>2. Ranked \in Seq(Providers) /\ Len(Ranked) = n
  BY <1>1
<1>3. ASSUME NEW i \in 1..n, NEW j \in 1..n, Ranked[i] = Ranked[j]
      PROVE  i = j
  <2>1. ~(i < j) /\ ~(j < i)
    <3>1. Score(Ranked[i]) \in Nat /\ Ranked[i] \in Nat
      BY <1>1, ScoreType, ProvidersAreFinite
    <3>2. ~Before(Ranked[i], Ranked[j]) /\ ~Before(Ranked[j], Ranked[i])
      BY <1>3, <3>1 DEF Before
    <3>3. QED
      BY <3>2, RankedIsSorted
  <2>2. QED
    BY <1>1, <2>1
<1>4. Ranked \in Injection(1..n, Providers)
  BY <1>1, <1>3 DEF Injection, IsInjective
<1>5. Ranked \in Surjection(1..n, Providers)
  <2>1. IsFiniteSet(1..n) /\ Cardinality(1..n) = n
    BY <1>1, InitialSegment
  <2>2. QED
    BY <1>4, <2>1, ProvidersAreFinite, FailoverAssumption, FS_Injection
<1>6. QED
  BY <1>2, <1>3, <1>5 DEF Surjection

LEMMA CandidatesAreProviders ==
  ASSUME TypeOK, NEW o
  PROVE  Candidates(o) \in Seq(Providers)
<1>1. Ranked \in Seq(Providers)
  BY RankedListsAll
<1>2. TopCandidates(Ranked) \in Seq(Providers)
  <2>1. CASE Len(Ranked) <= MaxProviderAttempts
    BY <1>1, <2>1 DEF TopCandidates
  <2>2. CASE ~(Len(Ranked) <= MaxProviderAttempts)
    <3>1. \A i \in 1..MaxProviderAttempts : Ranked[i] \in Providers
      BY <1>1, <2>2, FailoverAssumption
    <3>2. SubSeq(Ranked, 1, MaxProviderAttempts) \in Seq(Providers)
      BY <3>1, FailoverAssumption, SubSeqProperties
    <3>3. QED
      BY <2>2, <3>2 DEF TopCandidates
  <2>3. QED
    BY <2>1, <2>2
<1>3. QED
  BY <1>1, <1>2, ProvidersAreFinite DEF Candidates

-------------------------------------------------------------------------------
(* Types.                                                                  *)

LEMMA AskedIsProvider ==
  ASSUME TypeOK, NEW c \in Callers, Asking(c)
  PROVE  /\ Nominee(c) \in Providers
         /\ Tail(plan[c]) \in Seq(Providers)
BY HeadTailProperties DEF TypeOK, Asking, Nominee

LEMMA StatsKeepTypes ==
  ASSUME TypeOK, NEW p \in Providers,
         (\E l \in Latencies : RecordSuccess(p, l)) \/ RecordFailure(p)
  PROVE  /\ successes' \in [Providers -> Nat] /\ failures' \in [Providers -> Nat]
         /\ avgLatency' \in [Providers -> Nat] /\ streak' \in [Providers -> Nat]
<1>1. CASE RecordFailure(p)
  BY <1>1 DEF RecordFailure, TypeOK, Penalized
<1>2. ASSUME NEW l \in Latencies, RecordSuccess(p, l)
      PROVE  /\ successes' \in [Providers -> Nat] /\ failures' \in [Providers -> Nat]
             /\ avgLatency' \in [Providers -> Nat] /\ streak' \in [Providers -> Nat]
  <2>1. l \in Nat
    BY FailoverAssumption
  <2>2. Smoothed(avgLatency[p], l) \in Nat
    BY <2>1 DEF Smoothed, TypeOK
  <2>3. QED
    BY <1>2, <2>2 DEF RecordSuccess, TypeOK
<1>3. QED
  BY <1>1, <1>2

LEMMA StepKeepsTypes ==
  ASSUME TypeOK, [Next]_vars
  PROVE  TypeOK'
<1>1. CASE UNCHANGED vars
  BY <1>1 DEF TypeOK, vars
<1>2. ASSUME NEW c \in Callers, NEW o \in Requests \cup {"probe"}, Start(c, o)
      PROVE  TypeOK'
  <2>1. Candidates(o) \in Seq(Providers) /\ HasLearnt \in BOOLEAN
    BY CandidatesAreProviders DEF HasLearnt
  <2>2. QED
    BY <1>2, <2>1 DEF Start, TypeOK, stats
<1>3. ASSUME NEW c \in Callers, CallFails(c)
      PROVE  TypeOK'
  <2>1. Nominee(c) \in Providers /\ Tail(plan[c]) \in Seq(Providers)
    BY <1>3, AskedIsProvider DEF CallFails
  <2>2. /\ successes' \in [Providers -> Nat] /\ failures' \in [Providers -> Nat]
        /\ avgLatency' \in [Providers -> Nat] /\ streak' \in [Providers -> Nat]
    BY <1>3, <2>1, StatsKeepTypes DEF CallFails
  <2>3. QED
    BY <1>3, <2>1, <2>2 DEF CallFails, Advance, TypeOK
<1>4. ASSUME NEW c \in Callers, CallAnswers(c)
      PROVE  TypeOK'
  <2>1. Nominee(c) \in Providers
    BY <1>4, AskedIsProvider DEF CallAnswers
  <2>2. /\ successes' \in [Providers -> Nat] /\ failures' \in [Providers -> Nat]
        /\ avgLatency' \in [Providers -> Nat] /\ streak' \in [Providers -> Nat]
    BY <1>4, <2>1, StatsKeepTypes DEF CallAnswers
  <2>3. QED
    BY <1>4, <2>1, <2>2 DEF CallAnswers, TypeOK
<1>5. ASSUME NEW c \in Callers, CallFallsShort(c)
      PROVE  TypeOK'
  <2>1. Nominee(c) \in Providers /\ Tail(plan[c]) \in Seq(Providers)
    BY <1>5, AskedIsProvider DEF CallFallsShort
  <2>2. /\ successes' \in [Providers -> Nat] /\ failures' \in [Providers -> Nat]
        /\ avgLatency' \in [Providers -> Nat] /\ streak' \in [Providers -> Nat]
    BY <1>5, <2>1, StatsKeepTypes DEF CallFallsShort
  <2>3. QED
    BY <1>5, <2>1, <2>2 DEF CallFallsShort, Advance, TypeOK
<1>6. ASSUME NEW c \in Callers, GiveUp(c)
      PROVE  TypeOK'
  <2>1. Outcome(c) \in {"best", "none", "error"}
    BY DEF Outcome
  <2>2. QED
    BY <1>6, <2>1 DEF GiveUp, TypeOK, stats
<1>7. ASSUME NEW c \in Callers, Return(c)
      PROVE  TypeOK'
  BY <1>7 DEF Return, TypeOK, stats
<1>8. ASSUME NEW c \in Callers, Leave(c)
      PROVE  TypeOK'
  BY <1>8 DEF Leave, TypeOK, stats
<1>9. QED
  BY <1>1, <1>2, <1>3, <1>4, <1>5, <1>6, <1>7, <1>8 DEF Next

(* The statistics, plans and verdicts keep their types; above all, a plan  *)
(* is a list of providers, because the ranking exists in every state.      *)
THEOREM TypeCorrect == Spec => []TypeOK
<1>1. Init => TypeOK
  BY DEF Init, TypeOK
<1>2. TypeOK /\ [Next]_vars => TypeOK'
  BY StepKeepsTypes
<1>3. QED
  BY <1>1, <1>2, PTL DEF Spec

-------------------------------------------------------------------------------
(* What the statistics say of a provider.                                  *)

(* The inductive invariant behind the properties of the ranking: how far   *)
(* the average has moved for the failures it was charged.                  *)
Charged ==
  \A p \in Providers :
    /\ successes[p] + failures[p] = 0 => avgLatency[p] = 0
    /\ streak[p] <= failures[p]
    /\ 1500 * streak[p] <= avgLatency[p]
    /\ failures[p] = 0 => avgLatency[p] <= MaxLatency
    /\ nature[p] = "sick" => successes[p] = 0
    /\ nature[p] = "sick" /\ failures[p] > 0 => avgLatency[p] >= 3500 + 1500 * failures[p]

LEMMA FailureKeepsCharged ==
  ASSUME TypeOK, Charged, NEW p \in Providers, RecordFailure(p), UNCHANGED nature
  PROVE  Charged'
<1> SUFFICES ASSUME NEW q \in Providers
             PROVE  /\ successes'[q] + failures'[q] = 0 => avgLatency'[q] = 0
                    /\ streak'[q] <= failures'[q]
                    /\ 1500 * streak'[q] <= avgLatency'[q]
                    /\ failures'[q] = 0 => avgLatency'[q] <= MaxLatency
                    /\ nature'[q] = "sick" => successes'[q] = 0
                    /\ nature'[q] = "sick" /\ failures'[q] > 0
                         => avgLatency'[q] >= 3500 + 1500 * failures'[q]
  BY DEF Charged
<1>1. /\ successes[q] \in Nat /\ failures[q] \in Nat
      /\ avgLatency[q] \in Nat /\ streak[q] \in Nat
  BY DEF TypeOK
<1>2. CASE q = p
  <2>1. /\ successes'[q] = successes[q] /\ failures'[q] = failures[q] + 1
        /\ avgLatency'[q] = Penalized(avgLatency[q]) /\ streak'[q] = streak[q] + 1
    BY <1>2 DEF RecordFailure, TypeOK
  <2>2. QED
    BY <1>1, <2>1 DEF Charged, Penalized
<1>3. CASE q # p
  <2>1. /\ successes'[q] = successes[q] /\ failures'[q] = failures[q]
        /\ avgLatency'[q] = avgLatency[q] /\ streak'[q] = streak[q]
    BY <1>3 DEF RecordFailure, TypeOK
  <2>2. QED
    BY <2>1 DEF Charged
<1>4. QED
  BY <1>2, <1>3

LEMMA SuccessKeepsCharged ==
  ASSUME TypeOK, Charged, NEW p \in Providers, nature[p] # "sick", UNCHANGED nature,
         NEW l \in Latencies, RecordSuccess(p, l)
  PROVE  Charged'
<1> SUFFICES ASSUME NEW q \in Providers
             PROVE  /\ successes'[q] + failures'[q] = 0 => avgLatency'[q] = 0
                    /\ streak'[q] <= failures'[q]
                    /\ 1500 * streak'[q] <= avgLatency'[q]
                    /\ failures'[q] = 0 => avgLatency'[q] <= MaxLatency
                    /\ nature'[q] = "sick" => successes'[q] = 0
                    /\ nature'[q] = "sick" /\ failures'[q] > 0
                         => avgLatency'[q] >= 3500 + 1500 * failures'[q]
  BY DEF Charged
<1>1. /\ successes[q] \in Nat /\ failures[q] \in Nat
      /\ avgLatency[q] \in Nat /\ streak[q] \in Nat
  BY DEF TypeOK
<1>2. CASE q = p
  <2>1. /\ successes'[q] = successes[q] + 1 /\ failures'[q] = failures[q]
        /\ avgLatency'[q] = Smoothed(avgLatency[q], l) /\ streak'[q] = 0
    BY <1>2 DEF RecordSuccess, TypeOK
  <2>2. l \in Nat /\ l <= MaxLatency /\ MaxLatency \in Nat
    BY MaxLatencyIsLargest, FailoverAssumption
  <2>3. /\ Smoothed(avgLatency[q], l) \in Nat
        /\ avgLatency[q] <= MaxLatency => Smoothed(avgLatency[q], l) <= MaxLatency
    BY <1>1, <2>2 DEF Smoothed
  <2>4. failures[q] = 0 => avgLatency[q] <= MaxLatency
    BY DEF Charged
  <2>5. QED
    BY <1>1, <1>2, <2>1, <2>3, <2>4
<1>3. CASE q # p
  <2>1. /\ successes'[q] = successes[q] /\ failures'[q] = failures[q]
        /\ avgLatency'[q] = avgLatency[q] /\ streak'[q] = streak[q]
    BY <1>3 DEF RecordSuccess, TypeOK
  <2>2. QED
    BY <2>1 DEF Charged
<1>4. QED
  BY <1>2, <1>3

LEMMA StepKeepsCharged ==
  ASSUME TypeOK, Charged, [Next]_vars
  PROVE  Charged'
<1>1. CASE UNCHANGED <<nature, stats>>
  BY <1>1 DEF Charged, stats
<1>2. ASSUME NEW c \in Callers, CallFails(c)
      PROVE  Charged'
  BY <1>2, AskedIsProvider, FailureKeepsCharged DEF CallFails
<1>3. ASSUME NEW c \in Callers, CallAnswers(c) \/ CallFallsShort(c)
      PROVE  Charged'
  <2>1. Asking(c) /\ nature[Nominee(c)] # "sick" /\ UNCHANGED nature
    BY <1>3 DEF CallAnswers, CallFallsShort
  <2>2. PICK l \in Latencies : RecordSuccess(Nominee(c), l)
    BY <1>3 DEF CallAnswers, CallFallsShort
  <2>3. QED
    BY <2>1, <2>2, AskedIsProvider, SuccessKeepsCharged
<1>4. CASE UNCHANGED vars
  BY <1>1, <1>4 DEF vars, stats
<1>5. ASSUME NEW c \in Callers, NEW o \in Requests \cup {"probe"},
             Start(c, o) \/ GiveUp(c) \/ Return(c) \/ Leave(c)
      PROVE  Charged'
  BY <1>1, <1>5 DEF Start, GiveUp, Return, Leave
<1>6. QED
  BY <1>2, <1>3, <1>4, <1>5 DEF Next, Requests

(* With the average, the score has moved beyond any latency.               *)
LEMMA ChargedFallsBehind ==
  ASSUME TypeOK, Charged
  PROVE  FailingFallsBehind
<1> SUFFICES ASSUME NEW p \in Providers, NEW q \in Providers,
                    1500 * streak[p] > MaxLatency, successes[q] > 0, failures[q] = 0
             PROVE  Score(q) < Score(p)
  BY DEF FailingFallsBehind, Before
<1>1. \A r \in Providers : /\ successes[r] \in Nat /\ failures[r] \in Nat
                           /\ avgLatency[r] \in Nat /\ streak[r] \in Nat
  BY DEF TypeOK
<1>2. MaxLatency \in Nat
  BY MaxLatencyIsLargest
<1>3. Score(q) <= Larger(1, MaxLatency)
  <2>1. Known(q) /\ Larger(0, failures[q] - successes[q]) = 0
    BY <1>1 DEF Known, Larger
  <2>2. avgLatency[q] <= MaxLatency
    BY DEF Charged
  <2>3. QED
    BY <1>1, <1>2, <2>1, <2>2 DEF Score, Larger
<1>4. Score(p) >= 1500 * streak[p] /\ streak[p] >= 1
  <2>1. streak[p] >= 1 /\ streak[p] <= failures[p] /\ 1500 * streak[p] <= avgLatency[p]
    BY <1>1, <1>2 DEF Charged
  <2>2. Known(p)
    BY <1>1, <2>1 DEF Known
  <2>3. Larger(1, avgLatency[p]) >= avgLatency[p] /\ Larger(0, failures[p] - successes[p]) \in Nat
    BY <1>1 DEF Larger
  <2>4. QED
    BY <1>1, <2>1, <2>2, <2>3 DEF Score, Larger
<1>5. Score(p) \in Nat /\ Score(q) \in Nat
  BY ScoreType
<1>6. QED
  BY <1>1, <1>2, <1>3, <1>4, <1>5 DEF Larger

(* A provider that keeps failing ranks behind every one that never has,    *)
(* for any latencies and any history of recordProviderResult.              *)
THEOREM FailingProvidersFallBehind == Spec => []FailingFallsBehind
<1>1. Init => Charged
  BY MaxLatencyIsLargest DEF Init, Charged
<1>2. TypeOK /\ Charged /\ [Next]_vars => Charged'
  BY StepKeepsCharged
<1>3. TypeOK /\ Charged => FailingFallsBehind
  BY ChargedFallsBehind
<1>4. QED
  BY <1>1, <1>2, <1>3, TypeCorrect, PTL DEF Spec

-------------------------------------------------------------------------------
(* What a loop remembers.                                                  *)

(* A caller that runs no loop has nothing left of the last one.            *)
IdleIsClean ==
  \A c \in Callers :
    op[c] = "idle" => /\ plan[c] = <<>> /\ verdict[c] = "pending"
                      /\ answered[c] = {} /\ ~hopeful[c]

(* An answer that did not end the loop is the best track, or is of no use  *)
(* to the caller.                                                          *)
AnswersAreKept ==
  \A c \in Callers :
    /\ verdict[c] = "pending" /\ answered[c] # {} => best[c] \/ op[c] \in {"hydrate", "probe"}
    /\ verdict[c] = "error" => answered[c] = {}

LEMMA StepKeepsIdleClean ==
  ASSUME TypeOK, IdleIsClean, [Next]_vars
  PROVE  IdleIsClean'
<1>1. CASE UNCHANGED vars
  BY <1>1 DEF IdleIsClean, vars
<1>2. ASSUME NEW c \in Callers, NEW o \in Requests \cup {"probe"}, Start(c, o)
      PROVE  IdleIsClean'
  BY <1>2 DEF Start, IdleIsClean, TypeOK, Requests
<1>3. ASSUME NEW c \in Callers, CallFails(c) \/ CallAnswers(c) \/ CallFallsShort(c)
      PROVE  IdleIsClean'
  <2>1. op[c] # "idle" /\ op' = op /\ hopeful' = hopeful
    BY <1>3 DEF CallFails, CallAnswers, CallFallsShort, Asking, IdleIsClean
  <2>2. \A d \in Callers \ {c} : /\ plan'[d] = plan[d] /\ verdict'[d] = verdict[d]
                                 /\ answered'[d] = answered[d]
    BY <1>3 DEF CallFails, CallAnswers, CallFallsShort, Advance, TypeOK
  <2>3. QED
    BY <2>1, <2>2 DEF IdleIsClean
<1>4. ASSUME NEW c \in Callers, GiveUp(c)
      PROVE  IdleIsClean'
  BY <1>4 DEF GiveUp, IdleIsClean, TypeOK
<1>5. ASSUME NEW c \in Callers, Return(c)
      PROVE  IdleIsClean'
  BY <1>5 DEF Return, IdleIsClean, TypeOK
<1>6. ASSUME NEW c \in Callers, Leave(c)
      PROVE  IdleIsClean'
  BY <1>6 DEF Leave, IdleIsClean
<1>7. QED
  BY <1>1, <1>2, <1>3, <1>4, <1>5, <1>6 DEF Next

LEMMA StepKeepsAnswers ==
  ASSUME TypeOK, IdleIsClean, AnswersAreKept, [Next]_vars
  PROVE  AnswersAreKept'
<1>1. CASE UNCHANGED vars
  BY <1>1 DEF AnswersAreKept, vars
<1>2. ASSUME NEW c \in Callers, NEW o \in Requests \cup {"probe"}, Start(c, o)
      PROVE  AnswersAreKept'
  BY <1>2 DEF Start, IdleIsClean, AnswersAreKept, TypeOK
<1>3. ASSUME NEW c \in Callers, CallFails(c)
      PROVE  AnswersAreKept'
  BY <1>3 DEF CallFails, AnswersAreKept
<1>4. ASSUME NEW c \in Callers, CallAnswers(c)
      PROVE  AnswersAreKept'
  BY <1>4 DEF CallAnswers, AnswersAreKept, TypeOK
<1>5. ASSUME NEW c \in Callers, CallFallsShort(c)
      PROVE  AnswersAreKept'
  BY <1>5 DEF CallFallsShort, Asking, AnswersAreKept, TypeOK
<1>6. ASSUME NEW c \in Callers, GiveUp(c)
      PROVE  AnswersAreKept'
  BY <1>6 DEF GiveUp, Outcome, AnswersAreKept, TypeOK
<1>7. ASSUME NEW c \in Callers, Return(c)
      PROVE  AnswersAreKept'
  BY <1>7 DEF Return, AnswersAreKept, TypeOK
<1>8. ASSUME NEW c \in Callers, Leave(c)
      PROVE  AnswersAreKept'
  BY <1>8 DEF Leave, AnswersAreKept
<1>9. QED
  BY <1>1, <1>2, <1>3, <1>4, <1>5, <1>6, <1>7, <1>8 DEF Next

(* Sequential failover reports an error only when every provider it asked  *)
(* failed.                                                                 *)
THEOREM NoAnswerGetsLost == Spec => []NoAnswerIsLost
<1>1. Init => IdleIsClean /\ AnswersAreKept
  BY DEF Init, IdleIsClean, AnswersAreKept
<1>2. TypeOK /\ IdleIsClean /\ AnswersAreKept /\ [Next]_vars => (IdleIsClean /\ AnswersAreKept)'
  BY StepKeepsIdleClean, StepKeepsAnswers
<1>3. AnswersAreKept => NoAnswerIsLost
  BY DEF AnswersAreKept, NoAnswerIsLost
<1>4. QED
  BY <1>1, <1>2, <1>3, TypeCorrect, PTL DEF Spec

-------------------------------------------------------------------------------
(* What a ranking that has learnt enough is worth.                         *)

HasReliable(s) == \E i \in 1..Len(s) : nature[s[i]] = "reliable"

(* Four failures carry a sick provider past 10000, the score of a provider *)
(* nobody has tried.                                                       *)
LEMMA SickRanksLast ==
  ASSUME TypeOK, Charged, HasLearnt, NEW p \in Providers, nature[p] = "sick",
         NEW q \in Providers, failures[q] = 0, avgLatency[q] <= 10000
  PROVE  ~Before(p, q)
<1>1. \A r \in Providers : successes[r] \in Nat /\ failures[r] \in Nat /\ avgLatency[r] \in Nat
  BY DEF TypeOK
<1>2. Score(q) <= 10000
  BY <1>1 DEF Score, Known, Larger
<1>3. failures[p] >= 4 /\ successes[p] = 0 /\ avgLatency[p] >= 3500 + 1500 * failures[p]
  BY <1>1 DEF HasLearnt, Sick, Charged
<1>4. avgLatency[p] >= 9500 /\ failures[p] - successes[p] >= 4
  BY <1>1, <1>3
<1>5. Score(p) >= 11100
  BY <1>1, <1>3, <1>4 DEF Score, Known, Larger
<1>6. Score(p) \in Nat /\ Score(q) \in Nat
  BY ScoreType
<1>7. QED
  BY <1>2, <1>5, <1>6 DEF Before

(* So the providers before a reliable one are flaky ones, too few to take  *)
(* all the attempts.                                                       *)
LEMMA LearntRankingReachesReliable ==
  ASSUME TypeOK, Charged, HasLearnt, NEW o \in Requests
  PROVE  HasReliable(Candidates(o))
<1> DEFINE k == MaxProviderAttempts
           Flaky == {p \in Providers : nature[p] = "flaky"}
<1>1. /\ Ranked \in Seq(Providers) /\ Len(Ranked) \in Nat
      /\ \A i \in 1..Len(Ranked) : Ranked[i] \in Providers
  BY RankedListsAll
<1>2. PICK q \in Providers : nature[q] = "reliable" /\ failures[q] = 0 /\ avgLatency[q] <= 10000
  BY DEF HasLearnt
<1>3. PICK j \in 1..Len(Ranked) : Ranked[j] = q
  BY RankedListsAll
<1>4. HasReliable(Ranked)
  BY <1>2, <1>3 DEF HasReliable
<1>5. HasReliable(TopCandidates(Ranked))
  <2>1. CASE Len(Ranked) <= k
    BY <1>4, <2>1 DEF TopCandidates
  <2>2. CASE ~(Len(Ranked) <= k)
    <3>1. k \in Nat
      BY FailoverAssumption
    <3>2. /\ TopCandidates(Ranked) = SubSeq(Ranked, 1, k)
          /\ Len(SubSeq(Ranked, 1, k)) = k
          /\ \A i \in 1..k : SubSeq(Ranked, 1, k)[i] = Ranked[i]
      BY <1>1, <2>2, <3>1 DEF TopCandidates
    <3>3. SUFFICES ASSUME \A i \in 1..k : nature[Ranked[i]] # "reliable"
                   PROVE  FALSE
      BY <3>2 DEF HasReliable
    <3>4. j > k
      BY <1>2, <1>3, <3>1, <3>3
    <3>5. \A i \in 1..k : Before(Ranked[i], q)
      BY <1>1, <1>3, <2>2, <3>1, <3>4, RankedIsSorted, RankedListsAll
    <3>6. \A i \in 1..k : nature[Ranked[i]] # "sick"
      BY <1>1, <1>2, <2>2, <3>1, <3>5, SickRanksLast
    <3>7. \A p \in Providers : nature[p] \in {"sick", "flaky", "reliable"}
      BY FailoverAssumption DEF TypeOK
    <3>8. \A i \in 1..k : Ranked[i] \in Flaky
      BY <1>1, <2>2, <3>1, <3>3, <3>6, <3>7
    <3>9. [i \in 1..k |-> Ranked[i]] \in Injection(1..k, Flaky)
      <4>1. \A i \in 1..k : i \in 1..Len(Ranked)
        BY <1>1, <2>2, <3>1
      <4>2. \A i, m \in 1..k : Ranked[i] = Ranked[m] => i = m
        BY <4>1, RankedListsAll
      <4>3. QED
        BY <3>8, <4>2 DEF Injection, IsInjective
    <3>10. IsFiniteSet(Flaky) /\ Cardinality(Flaky) \in Nat
      BY ProvidersAreFinite, FS_Subset, FS_CardinalityType
    <3>11. Cardinality(1..k) = k /\ Cardinality(1..k) <= Cardinality(Flaky)
      BY <3>1, <3>9, <3>10, InitialSegment, FS_Injection
    <3>12. Cardinality(Flaky) < k
      BY DEF HasLearnt
    <3>13. QED
      BY <3>1, <3>10, <3>11, <3>12
  <2>3. QED
    BY <2>1, <2>2
<1>6. QED
  BY <1>4, <1>5 DEF Candidates, Requests

(* A hopeful loop whose client waits has a reliable provider still to ask, *)
(* or a track to return, until it has its answer.                          *)
HopeIsKept ==
  \A c \in Callers :
    hopeful[c] /\ ~gone[c] =>
      /\ verdict[c] # "error"
      /\ verdict[c] = "pending" /\ op[c] \notin {"probe", "hydrate"}
           => best[c] \/ HasReliable(plan[c])

LEMMA TailKeepsReliable ==
  ASSUME TypeOK, NEW c \in Callers, Asking(c), HasReliable(plan[c]),
         nature[Nominee(c)] # "reliable"
  PROVE  HasReliable(Tail(plan[c]))
<1>1. plan[c] \in Seq(Providers) /\ plan[c] # <<>>
  BY DEF TypeOK, Asking
<1>2. PICK i \in 1..Len(plan[c]) : nature[plan[c][i]] = "reliable"
  BY DEF HasReliable
<1>3. i # 1
  BY <1>1, <1>2 DEF Nominee
<1>4. i - 1 \in 1..Len(Tail(plan[c])) /\ Tail(plan[c])[i - 1] = plan[c][i]
  BY <1>1, <1>2, <1>3
<1>5. QED
  BY <1>2, <1>4 DEF HasReliable

LEMMA StepKeepsHope ==
  ASSUME TypeOK, Charged, IdleIsClean, HopeIsKept, [Next]_vars
  PROVE  HopeIsKept'
<1>1. CASE UNCHANGED vars
  BY <1>1 DEF HopeIsKept, HasReliable, vars
<1>2. ASSUME NEW c \in Callers, NEW o \in Requests \cup {"probe"}, Start(c, o)
      PROVE  HopeIsKept'
  <2>1. HasLearnt /\ o # "probe" => HasReliable(Candidates(o))
    BY LearntRankingReachesReliable
  <2>2. /\ op'[c] = o /\ plan'[c] = Candidates(o) /\ hopeful'[c] = HasLearnt
        /\ verdict'[c] = "pending"
    BY <1>2 DEF Start, IdleIsClean, TypeOK
  <2>3. \A d \in Callers \ {c} : /\ op'[d] = op[d] /\ plan'[d] = plan[d]
                                 /\ hopeful'[d] = hopeful[d]
    BY <1>2 DEF Start, TypeOK
  <2>4. UNCHANGED <<nature, best, gone, verdict>>
    BY <1>2 DEF Start
  <2>5. QED
    BY <2>1, <2>2, <2>3, <2>4 DEF HopeIsKept, HasReliable
<1>3. ASSUME NEW c \in Callers, CallFails(c)
      PROVE  HopeIsKept'
  <2>1. ~gone[c] /\ HasReliable(plan[c]) => HasReliable(Tail(plan[c]))
    BY <1>3, TailKeepsReliable DEF CallFails
  <2>2. plan'[c] = Tail(plan[c]) /\ \A d \in Callers \ {c} : plan'[d] = plan[d]
    BY <1>3 DEF CallFails, Advance, TypeOK
  <2>3. UNCHANGED <<nature, op, best, gone, verdict, hopeful>>
    BY <1>3 DEF CallFails
  <2>4. ASSUME NEW d \in Callers, HasReliable(plan[d]), ~gone[d]
        PROVE  \E i \in 1..Len(plan'[d]) : nature'[plan'[d][i]] = "reliable"
    <3>1. CASE d = c
      BY <2>1, <2>2, <2>3, <2>4, <3>1 DEF HasReliable
    <3>2. CASE d # c
      BY <2>2, <2>3, <2>4, <3>2 DEF HasReliable
    <3>3. QED
      BY <3>1, <3>2
  <2>5. ASSUME NEW d \in Callers, hopeful[d], ~gone[d]
        PROVE  /\ verdict[d] # "error"
               /\ verdict[d] = "pending" /\ op[d] \notin {"probe", "hydrate"}
                    => \/ best[d]
                       \/ \E i \in 1..Len(plan'[d]) : nature'[plan'[d][i]] = "reliable"
    BY <2>4, <2>5 DEF HopeIsKept
  <2>6. QED
    BY <2>3, <2>5 DEF HopeIsKept, HasReliable
<1>4. ASSUME NEW c \in Callers, CallAnswers(c)
      PROVE  HopeIsKept'
  <2>1. verdict'[c] = "answer" /\ \A d \in Callers \ {c} : verdict'[d] = verdict[d]
    BY <1>4 DEF CallAnswers, TypeOK
  <2>2. UNCHANGED <<nature, op, plan, best, gone, hopeful>>
    BY <1>4 DEF CallAnswers
  <2>3. QED
    BY <2>1, <2>2 DEF HopeIsKept, HasReliable
<1>5. ASSUME NEW c \in Callers, CallFallsShort(c)
      PROVE  HopeIsKept'
  <2>1. op[c] \in {"hydrate", "probe"} \/ best'[c]
    BY <1>5 DEF CallFallsShort, TypeOK
  <2>2. \A d \in Callers \ {c} : best'[d] = best[d] /\ plan'[d] = plan[d]
    BY <1>5 DEF CallFallsShort, Advance, TypeOK
  <2>3. UNCHANGED <<nature, op, gone, verdict, hopeful>>
    BY <1>5 DEF CallFallsShort
  <2>4. QED
    BY <2>1, <2>2, <2>3 DEF HopeIsKept, HasReliable
<1>6. ASSUME NEW c \in Callers, GiveUp(c)
      PROVE  HopeIsKept'
  <2>1. ~HasReliable(plan[c])
    BY <1>6 DEF GiveUp, HasReliable
  <2>2. /\ verdict[c] = "pending" /\ verdict'[c] = Outcome(c)
        /\ \A d \in Callers \ {c} : verdict'[d] = verdict[d]
    BY <1>6 DEF GiveUp, TypeOK
  <2>3. UNCHANGED <<nature, op, plan, best, gone, hopeful>>
    BY <1>6 DEF GiveUp
  <2>4. Outcome(c) # "pending" /\ (hopeful[c] /\ ~gone[c] => Outcome(c) # "error")
    BY <2>1, <2>2 DEF Outcome, HopeIsKept
  <2>5. QED
    BY <2>2, <2>3, <2>4 DEF HopeIsKept, HasReliable
<1>7. ASSUME NEW c \in Callers, Return(c)
      PROVE  HopeIsKept'
  <2>1. hopeful'[c] = FALSE
    BY <1>7 DEF Return, TypeOK
  <2>2. \A d \in Callers \ {c} :
          /\ op'[d] = op[d] /\ plan'[d] = plan[d] /\ best'[d] = best[d]
          /\ gone'[d] = gone[d] /\ verdict'[d] = verdict[d] /\ hopeful'[d] = hopeful[d]
    BY <1>7 DEF Return, TypeOK
  <2>3. UNCHANGED nature
    BY <1>7 DEF Return
  <2>4. QED
    BY <2>1, <2>2, <2>3 DEF HopeIsKept, HasReliable
<1>8. ASSUME NEW c \in Callers, Leave(c)
      PROVE  HopeIsKept'
  BY <1>8 DEF Leave, HopeIsKept, HasReliable, TypeOK
<1>9. QED
  BY <1>1, <1>2, <1>3, <1>4, <1>5, <1>6, <1>7, <1>8 DEF Next

(* The constants of recordProviderResult and providerRankScore are good    *)
(* enough for any number of providers and attempts: whoever starts when    *)
(* the ranking has learnt, and waits, is served.                           *)
THEOREM LearntRankingAnswers == Spec => []LearntRankingServes
<1>1. Init => Charged /\ IdleIsClean /\ HopeIsKept
  BY MaxLatencyIsLargest DEF Init, Charged, IdleIsClean, HopeIsKept
<1>2. /\ TypeOK /\ Charged /\ IdleIsClean /\ HopeIsKept /\ [Next]_vars
      => (Charged /\ IdleIsClean /\ HopeIsKept)'
  BY StepKeepsCharged, StepKeepsIdleClean, StepKeepsHope
<1>3. HopeIsKept => LearntRankingServes
  BY DEF HopeIsKept, LearntRankingServes
<1>4. QED
  BY <1>1, <1>2, <1>3, TypeCorrect, PTL DEF Spec
===============================================================================
