--------------------------- MODULE StreamRaceProofs ---------------------------
(***************************************************************************)
(* Proofs about StreamRace, for any finite set of candidates: its types,   *)
(* its safety properties, and that it implements StreamOutcome.            *)
(*                                                                         *)
(* The argument rests on one inductive invariant, IInv.  Its central part  *)
(* is NothingLost: while raceCtx is live, a worker past its select has put *)
(* its result where the loop has found it or will find it.                 *)
(***************************************************************************)
EXTENDS StreamRace, FiniteSetTheorems, SequenceTheorems, TLAPS

-------------------------------------------------------------------------------
(* The inductive invariant.                                                *)

Active    == {p \in Candidates : pc[p] \notin {"unspawned", "exited"}}
Delivered == heard \cup Range(results)

(* The wait group counts the workers that run. *)
WgCounts == wg = Cardinality(Active)

(* The closer is started after the last worker. *)
Started ==
  /\ main = "spawning" <=> closer = "unspawned"
  /\ main # "spawning" => \A p \in Candidates : pc[p] # "unspawned"

Closed == closer = "closed" => AllExited

(* A worker knows its outcome once the call ended, records it afterwards,  *)
(* and a cancelled call means that raceCtx is done.                        *)
WorkerData ==
  \A p \in Candidates :
    /\ pc[p] \in {"unspawned", "calling"} <=> outcome[p] = "none"
    /\ pc[p] \in {"unspawned", "calling", "recording"} => recorded[p] = "none"
    /\ outcome[p] = "canceled" => RaceDone

(* The channel holds each result once, and only what a worker has sent.    *)
Channel ==
  /\ IsInjective(results)
  /\ heard \cap Range(results) = {}
  /\ \A p \in Delivered : pc[p] \in {"exiting", "exited"}

NothingLost ==
  ~RaceDone =>
    \A p \in Candidates : pc[p] \in {"exiting", "exited"} => p \in Delivered

(* What the loop knows of the results it has received. *)
Loop ==
  verdict # "ok" =>
    /\ \A p \in heard : outcome[p] \in Errors
    /\ lastErr # "nil" => \E p \in heard : outcome[p] = lastErr
    /\ fullMissingCount > 0 => \E p \in heard : outcome[p] = "nofull"
    /\ heard # {} => lastErr # "nil"

Decided ==
  /\ main = "returned" <=> verdict # "pending"
  /\ main = "returned" <=> raceErr = "returned" \/ (CallerGone /\ verdict # "pending")
  /\ verdict = "ok" => winner \in Candidates /\ outcome[winner] = "ok"
  /\ verdict # "ok" => winner = NoProvider

IInv ==
  /\ TypeOK
  /\ WgCounts
  /\ Started
  /\ Closed
  /\ WorkerData
  /\ Channel
  /\ NothingLost
  /\ Loop
  /\ Decided
  /\ NoFalseDefeat
  /\ StatsAreFair

-------------------------------------------------------------------------------
(* Sequences without repetition.                                           *)

(* Sending a result adds it to those in the channel, and if it is new the  *)
(* channel still has no result twice.                                      *)
LEMMA AppendNew ==
  ASSUME NEW S, NEW s \in Seq(S), NEW e \in S
  PROVE  /\ Range(Append(s, e)) = Range(s) \cup {e}
         /\ IsInjective(s) /\ e \notin Range(s) => IsInjective(Append(s, e))
<1> DEFINE t == Append(s, e)
<1>1. /\ t \in Seq(S) /\ Len(t) = Len(s) + 1 /\ t[Len(s) + 1] = e
      /\ \A i \in 1 .. Len(s) : t[i] = s[i]
  BY AppendProperties
<1>2. /\ Len(s) \in Nat /\ DOMAIN s = 1 .. Len(s) /\ DOMAIN t = 1 .. Len(t)
  BY <1>1, LenProperties
<1> HIDE DEF t
<1>3. Range(t) = Range(s) \cup {e}
  BY <1>1, <1>2 DEF Range
<1>4. ASSUME IsInjective(s), e \notin Range(s)
      PROVE  IsInjective(t)
  BY <1>1, <1>2, <1>4 DEF IsInjective, Range
<1> QED
  BY <1>3, <1>4 DEF t

(* Receiving takes the head: what stays is the rest of the range.          *)
LEMMA TakeHead ==
  ASSUME NEW S, NEW s \in Seq(S), s # <<>>
  PROVE  /\ Head(s) \in S
         /\ Tail(s) \in Seq(S)
         /\ Range(s) = {Head(s)} \cup Range(Tail(s))
         /\ IsInjective(s) => IsInjective(Tail(s)) /\ Head(s) \notin Range(Tail(s))
<1> DEFINE t == Tail(s)
<1>1. /\ t \in Seq(S) /\ Len(t) = Len(s) - 1 /\ Head(s) \in S
      /\ \A i \in 1 .. Len(t) : t[i] = s[i + 1]
  BY HeadTailProperties
<1>2. /\ Len(s) \in Nat \ {0} /\ DOMAIN s = 1 .. Len(s) /\ DOMAIN t = 1 .. Len(t)
  BY <1>1, LenProperties, EmptySeq
<1>3. Head(s) = s[1]
  OBVIOUS
<1> HIDE DEF t
<1>4. Range(s) = {Head(s)} \cup Range(t)
  <2>1. ASSUME NEW i \in 1 .. Len(s)
        PROVE  s[i] = Head(s) \/ s[i] \in Range(t)
    <3>1. CASE i = 1
      BY <3>1, <1>3
    <3>2. CASE i # 1
      <4>1. i - 1 \in 1 .. Len(t) /\ t[i - 1] = s[i]
        BY <3>2, <1>1, <1>2
      <4> QED
        BY <4>1, <1>2 DEF Range
    <3> QED
      BY <3>1, <3>2
  <2>2. ASSUME NEW i \in 1 .. Len(t)
        PROVE  t[i] \in Range(s)
    <3>1. i + 1 \in 1 .. Len(s) /\ t[i] = s[i + 1]
      BY <1>1, <1>2
    <3> QED
      BY <3>1, <1>2 DEF Range
  <2>3. Head(s) \in Range(s)
    BY <1>2, <1>3 DEF Range
  <2> QED
    BY <2>1, <2>2, <2>3, <1>2 DEF Range
<1>5. ASSUME IsInjective(s)
      PROVE  IsInjective(t) /\ Head(s) \notin Range(t)
  <2>1. \A i \in 1 .. Len(t) : i + 1 \in 1 .. Len(s) /\ i + 1 # 1
    BY <1>1, <1>2
  <2>2. \A i, j \in 1 .. Len(s) : s[i] = s[j] => i = j
    BY <1>2, <1>5 DEF IsInjective
  <2>3. \A i, j \in 1 .. Len(t) : t[i] = t[j] => i = j
    BY <2>1, <2>2, <1>1, <1>2
  <2>4. \A i \in 1 .. Len(t) : t[i] # Head(s)
    BY <2>1, <2>2, <1>1, <1>2, <1>3
  <2> QED
    BY <2>3, <2>4, <1>2 DEF IsInjective, Range
<1> QED
  BY <1>1, <1>4, <1>5 DEF t

(* A sequence of distinct elements of a finite set is no longer than it.   *)
LEMMA DistinctFits ==
  ASSUME NEW S, IsFiniteSet(S), NEW s \in Seq(S), IsInjective(s)
  PROVE  Len(s) <= Cardinality(S)
<1>1. Len(s) \in Nat /\ s \in [1 .. Len(s) -> S]
  BY LenProperties
<1>2. s \in Injection(1 .. Len(s), S)
  BY <1>1 DEF Injection
<1>3. Cardinality(1 .. Len(s)) <= Cardinality(S)
  BY <1>2, FS_Injection
<1>4. Cardinality(1 .. Len(s)) = Len(s)
  BY <1>1, FS_Interval
<1> QED
  BY <1>3, <1>4

-------------------------------------------------------------------------------
(* Type correctness.                                                       *)

(* The workers that run are finitely many, so they can be counted.         *)
LEMMA CanBeCounted ==
  ASSUME NEW T \in SUBSET Candidates
  PROVE  IsFiniteSet(T) /\ Cardinality(T) \in Nat
<1>1. IsFiniteSet(T)
  BY CandidatesAssumption, FS_Subset
<1> QED
  BY <1>1, FS_CardinalityType

(* A worker that starts is counted once, and one that exits is uncounted.  *)
LEMMA WgStep ==
  ASSUME TypeOK, WgCounts, [Next]_vars
  PROVE  WgCounts'
<1> Active \in SUBSET Candidates
  BY DEF Active
<1>1. ASSUME NEW p \in Candidates, Spawn(p)
      PROVE  WgCounts'
  <2>1. Active' = Active \cup {p} /\ p \notin Active
    BY <1>1 DEF Spawn, Active, TypeOK, WorkerPCs
  <2>2. Cardinality(Active \cup {p}) = Cardinality(Active) + 1
    BY <2>1, CanBeCounted, FS_AddElement
  <2> QED
    BY <1>1, <2>1, <2>2 DEF Spawn, WgCounts
<1>2. ASSUME NEW p \in Candidates, Exit(p)
      PROVE  WgCounts'
  <2>1. Active' = Active \ {p} /\ p \in Active
    BY <1>2 DEF Exit, Active, TypeOK, WorkerPCs
  <2>2. Cardinality(Active \ {p}) = Cardinality(Active) - 1
    BY <2>1, CanBeCounted, FS_RemoveElement
  <2> QED
    BY <1>2, <2>1, <2>2 DEF Exit, Done, WgCounts
<1>3. ASSUME NEW p \in Candidates,
             (\E o \in Outcomes : CallEnds(p, o)) \/ Record(p) \/ Send(p) \/ Drop(p)
      PROVE  WgCounts'
  <2>1. Active' = Active /\ wg' = wg
    BY <1>3 DEF CallEnds, Record, Send, Drop, Active, TypeOK, WorkerPCs
  <2> QED
    BY <2>1 DEF WgCounts
<1>4. ASSUME \/ StartReceiving \/ TakeSuccess \/ TakeError \/ ReturnDefeat
             \/ CloseResults \/ Finished \/ UNCHANGED vars
             \/ \E cause \in {"canceled", "expired"} : CallerLeaves(cause)
      PROVE  WgCounts'
  <2>1. Active' = Active /\ wg' = wg
    BY <1>4 DEF StartReceiving, TakeSuccess, TakeError, ReturnDefeat, CloseResults,
                Finished, CallerLeaves, Active, vars
  <2> QED
    BY <2>1 DEF WgCounts
<1> QED
  BY <1>1, <1>2, <1>3, <1>4 DEF Next, MainStep, WorkerStep

(* A result that the loop finds in the channel comes from a call that has  *)
(* ended.                                                                  *)
LEMMA HeadIsKnown ==
  ASSUME TypeOK, WorkerData, Channel, results # <<>>
  PROVE  /\ Head(results) \in Candidates
         /\ Tail(results) \in Seq(Candidates)
         /\ Range(results) = {Head(results)} \cup Range(Tail(results))
         /\ IsInjective(Tail(results)) /\ Head(results) \notin Range(Tail(results))
         /\ pc[Head(results)] \in {"exiting", "exited"}
         /\ outcome[Head(results)] \in Outcomes
<1>1. results \in Seq(Candidates)
  BY DEF TypeOK
<1>2. /\ Head(results) \in Candidates
      /\ Tail(results) \in Seq(Candidates)
      /\ Range(results) = {Head(results)} \cup Range(Tail(results))
      /\ IsInjective(Tail(results)) /\ Head(results) \notin Range(Tail(results))
  BY <1>1, TakeHead DEF Channel
<1>3. pc[Head(results)] \in {"exiting", "exited"}
  BY <1>2 DEF Channel, Delivered
<1>4. outcome[Head(results)] # "none"
  BY <1>2, <1>3 DEF WorkerData
<1> QED
  BY <1>2, <1>3, <1>4 DEF TypeOK

(* A step keeps the types: the counter stays in Nat because it counts the  *)
(* workers, and lastErr is an error because only ended calls are received. *)
LEMMA TypeStep ==
  ASSUME TypeOK, WgCounts, WorkerData, Channel, [Next]_vars
  PROVE  TypeOK'
<1> USE DEF Errors, Outcomes, Verdicts, WorkerPCs, loopVars, CancelRace, RaceDone
<1>1. WgCounts'
  BY WgStep
<1>2. wg' \in Nat
  <2>1. Active' \in SUBSET Candidates
    BY DEF Active
  <2> QED
    BY <1>1, <2>1, CanBeCounted DEF WgCounts
<1>3. ASSUME NEW p \in Candidates, Spawn(p)
      PROVE  TypeOK'
  BY <1>2, <1>3 DEF Spawn, TypeOK
<1>4. CASE StartReceiving
  BY <1>4 DEF StartReceiving, TypeOK
<1>5. CASE TakeSuccess
  <2>1. Head(results) \in Candidates /\ Tail(results) \in Seq(Candidates)
    BY <1>5, HeadIsKnown DEF TakeSuccess
  <2> QED
    BY <1>5, <2>1 DEF TakeSuccess, TypeOK
<1>6. CASE TakeError
  <2>1. /\ Head(results) \in Candidates /\ Tail(results) \in Seq(Candidates)
        /\ outcome[Head(results)] \in Outcomes
    BY <1>6, HeadIsKnown DEF TakeError
  <2> QED
    BY <1>6, <2>1 DEF TakeError, TypeOK, IsSuccess
<1>7. CASE ReturnDefeat
  BY <1>7 DEF ReturnDefeat, DefeatVerdict, TypeOK
<1>8. ASSUME NEW p \in Candidates, NEW o \in Outcomes, CallEnds(p, o)
      PROVE  TypeOK'
  BY <1>8 DEF CallEnds, TypeOK
<1>9. ASSUME NEW p \in Candidates, Record(p)
      PROVE  TypeOK'
  BY <1>9 DEF Record, StatsEntry, TypeOK
<1>10. ASSUME NEW p \in Candidates, Send(p)
      PROVE  TypeOK'
  BY <1>10, AppendProperties DEF Send, TypeOK
<1>11. ASSUME NEW p \in Candidates, Drop(p) \/ Exit(p)
      PROVE  TypeOK'
  BY <1>2, <1>11 DEF Drop, Exit, TypeOK
<1>12. CASE CloseResults \/ \E cause \in {"canceled", "expired"} : CallerLeaves(cause)
  BY <1>12 DEF CloseResults, CallerLeaves, TypeOK
<1>13. CASE Finished \/ UNCHANGED vars
  BY <1>13 DEF Finished, vars, TypeOK
<1> QED
  BY <1>3, <1>4, <1>5, <1>6, <1>7, <1>8, <1>9, <1>10, <1>11, <1>12, <1>13
  DEF Next, MainStep, WorkerStep

-------------------------------------------------------------------------------
(* The invariant is inductive.                                             *)

LEMMA IInvInit == Init => IInv
<1> SUFFICES ASSUME Init
             PROVE  IInv
  OBVIOUS
<1> USE DEF Init
<1>1. TypeOK
  BY CandidatesAssumption DEF TypeOK, WorkerPCs, Outcomes, Verdicts, Errors
<1>2. WgCounts
  <2>1. Active = {}
    BY DEF Active
  <2> QED
    BY <2>1, FS_EmptySet DEF WgCounts
<1>3. Channel
  <2>1. Range(results) = {}
    BY DEF Range
  <2> QED
    BY <2>1 DEF Channel, Delivered, IsInjective
<1>4. Started /\ Closed /\ WorkerData /\ NothingLost
  BY DEF Started, Closed, WorkerData, NothingLost
<1>5. Loop /\ Decided /\ NoFalseDefeat /\ StatsAreFair
  BY DEF Loop, Decided, NoFalseDefeat, StatsAreFair, CallerGone
<1> QED
  BY <1>1, <1>2, <1>3, <1>4, <1>5 DEF IInv

(* What the actions of a worker preserve: all but the types and the count, *)
(* which have lemmas of their own.                                         *)
Rest ==
  /\ Started /\ Closed /\ WorkerData /\ Channel /\ NothingLost
  /\ Loop /\ Decided /\ NoFalseDefeat /\ StatsAreFair

LEMMA SpawnStep ==
  ASSUME IInv, NEW p \in Candidates, Spawn(p)
  PROVE  Rest'
<1> USE DEF Spawn, loopVars, IInv
<1>1. /\ pc' = [pc EXCEPT ![p] = "calling"]
      /\ pc[p] = "unspawned" /\ outcome[p] = "none" /\ recorded[p] = "none"
      /\ closer = "unspawned" /\ verdict = "pending" /\ ~ RaceDone = ~ RaceDone'
  BY DEF WorkerData, Started, Decided, RaceDone
<1>2. Started' /\ Closed'
  BY <1>1 DEF Started, Closed, TypeOK
<1>3. WorkerData'
  BY <1>1 DEF WorkerData, RaceDone, TypeOK
<1>4. Channel' /\ NothingLost'
  BY <1>1 DEF Channel, NothingLost, Delivered, RaceDone, TypeOK
<1>5. Loop' /\ Decided' /\ NoFalseDefeat'
  BY <1>1 DEF Loop, Decided, NoFalseDefeat, CallerGone
<1>6. StatsAreFair'
  BY <1>1 DEF StatsAreFair, RaceDone, TypeOK
<1> QED
  BY <1>2, <1>3, <1>4, <1>5, <1>6 DEF Rest

LEMMA CallEndsStep ==
  ASSUME IInv, NEW p \in Candidates, NEW o \in Outcomes, CallEnds(p, o)
  PROVE  Rest'
<1> USE DEF CallEnds, loopVars, IInv
<1>1. /\ pc' = [pc EXCEPT ![p] = "recording"] /\ outcome' = [outcome EXCEPT ![p] = o]
      /\ pc[p] = "calling" /\ outcome[p] = "none" /\ recorded[p] = "none"
      /\ o = "canceled" => RaceDone
      /\ p \notin Delivered
      /\ RaceDone' = RaceDone /\ CallerGone' = CallerGone
  BY DEF WorkerData, RaceDone, CallerGone, Channel
<1>2. Started' /\ Closed'
  BY <1>1 DEF Started, Closed, AllExited, TypeOK
<1>3. WorkerData'
  BY <1>1 DEF WorkerData, TypeOK, Outcomes, Errors
<1>4. Channel' /\ NothingLost'
  BY <1>1 DEF Channel, NothingLost, Delivered, TypeOK
<1>5. Loop'
  BY <1>1 DEF Loop, Delivered, TypeOK
<1>6. Decided' /\ NoFalseDefeat'
  BY <1>1 DEF Decided, NoFalseDefeat, TypeOK, Errors
<1>7. StatsAreFair'
  BY <1>1 DEF StatsAreFair, TypeOK
<1> QED
  BY <1>2, <1>3, <1>4, <1>5, <1>6, <1>7 DEF Rest

LEMMA RecordStep ==
  ASSUME IInv, NEW p \in Candidates, Record(p)
  PROVE  Rest'
<1> USE DEF Record, loopVars, IInv
<1>1. /\ pc' = [pc EXCEPT ![p] = "sending"]
      /\ recorded' = [recorded EXCEPT ![p] = StatsEntry(p)]
      /\ pc[p] = "recording" /\ outcome[p] \in Outcomes
      /\ RaceDone' = RaceDone /\ CallerGone' = CallerGone
  BY DEF WorkerData, RaceDone, CallerGone, TypeOK
<1>2. Started' /\ Closed'
  BY <1>1 DEF Started, Closed, AllExited, TypeOK
<1>3. WorkerData'
  BY <1>1 DEF WorkerData, TypeOK
<1>4. Channel' /\ NothingLost'
  BY <1>1 DEF Channel, NothingLost, Delivered, TypeOK
<1>5. Loop' /\ Decided' /\ NoFalseDefeat'
  BY <1>1 DEF Loop, Decided, NoFalseDefeat
<1>6. StatsAreFair'
  BY <1>1 DEF StatsAreFair, StatsEntry, WorkerData, TypeOK, Outcomes, Errors
<1> QED
  BY <1>2, <1>3, <1>4, <1>5, <1>6 DEF Rest

LEMMA SendStep ==
  ASSUME IInv, NEW p \in Candidates, Send(p)
  PROVE  Rest'
<1> USE DEF Send, loopVars, IInv
<1>1. /\ pc' = [pc EXCEPT ![p] = "exiting"]
      /\ pc[p] = "sending" /\ p \notin Delivered
      /\ RaceDone' = RaceDone /\ CallerGone' = CallerGone
  BY DEF Channel, RaceDone, CallerGone
<1>2. /\ Range(results') = Range(results) \cup {p}
      /\ IsInjective(results')
  BY <1>1, AppendNew DEF Channel, Delivered, TypeOK
<1>3. Started' /\ Closed'
  BY <1>1 DEF Started, Closed, AllExited, TypeOK
<1>4. WorkerData'
  BY <1>1 DEF WorkerData, TypeOK
<1>5. Channel' /\ NothingLost'
  BY <1>1, <1>2 DEF Channel, NothingLost, Delivered, TypeOK
<1>6. Loop' /\ Decided' /\ NoFalseDefeat'
  BY <1>1 DEF Loop, Decided, NoFalseDefeat
<1>7. StatsAreFair'
  BY <1>1 DEF StatsAreFair, TypeOK
<1> QED
  BY <1>3, <1>4, <1>5, <1>6, <1>7 DEF Rest

LEMMA DropStep ==
  ASSUME IInv, NEW p \in Candidates, Drop(p)
  PROVE  Rest'
<1> USE DEF Drop, loopVars, IInv
<1>1. /\ pc' = [pc EXCEPT ![p] = "exiting"]
      /\ pc[p] = "sending" /\ RaceDone /\ RaceDone' /\ CallerGone' = CallerGone
  BY DEF MayGiveUp, RaceDone, CallerGone
<1>2. Started' /\ Closed'
  BY <1>1 DEF Started, Closed, AllExited, TypeOK
<1>3. WorkerData'
  BY <1>1 DEF WorkerData, TypeOK
<1>4. Channel' /\ NothingLost'
  BY <1>1 DEF Channel, NothingLost, Delivered, TypeOK
<1>5. Loop' /\ Decided' /\ NoFalseDefeat'
  BY <1>1 DEF Loop, Decided, NoFalseDefeat
<1>6. StatsAreFair'
  BY <1>1 DEF StatsAreFair, TypeOK
<1> QED
  BY <1>2, <1>3, <1>4, <1>5, <1>6 DEF Rest

LEMMA ExitStep ==
  ASSUME IInv, NEW p \in Candidates, Exit(p)
  PROVE  Rest'
<1> USE DEF Exit, loopVars, IInv
<1>1. /\ pc' = [pc EXCEPT ![p] = "exited"]
      /\ pc[p] = "exiting" /\ RaceDone' = RaceDone /\ CallerGone' = CallerGone
  BY DEF RaceDone, CallerGone
<1>2. Started' /\ Closed'
  BY <1>1 DEF Started, Closed, AllExited, TypeOK
<1>3. WorkerData'
  BY <1>1 DEF WorkerData, TypeOK
<1>4. Channel' /\ NothingLost'
  BY <1>1 DEF Channel, NothingLost, Delivered, TypeOK
<1>5. Loop' /\ Decided' /\ NoFalseDefeat'
  BY <1>1 DEF Loop, Decided, NoFalseDefeat
<1>6. StatsAreFair'
  BY <1>1 DEF StatsAreFair, TypeOK
<1> QED
  BY <1>2, <1>3, <1>4, <1>5, <1>6 DEF Rest

LEMMA StartReceivingStep ==
  ASSUME IInv, StartReceiving
  PROVE  Rest'
<1> USE DEF StartReceiving, loopVars, IInv
<1>1. /\ main' = "receiving" /\ closer' = "waiting" /\ main = "spawning"
      /\ RaceDone' = RaceDone /\ CallerGone' = CallerGone /\ AllExited' = AllExited
  BY DEF RaceDone, CallerGone, AllExited
<1>2. Started' /\ Closed' /\ WorkerData'
  BY <1>1 DEF Started, Closed, WorkerData
<1>3. Channel' /\ NothingLost'
  BY <1>1 DEF Channel, NothingLost, Delivered
<1>4. Loop' /\ Decided' /\ NoFalseDefeat' /\ StatsAreFair'
  BY <1>1 DEF Loop, Decided, NoFalseDefeat, StatsAreFair
<1> QED
  BY <1>2, <1>3, <1>4 DEF Rest

LEMMA TakeSuccessStep ==
  ASSUME IInv, TakeSuccess
  PROVE  Rest'
<1> USE DEF TakeSuccess, loopVars, IInv
<1> DEFINE q == Head(results)
<1>1. /\ q \in Candidates
      /\ Range(results) = {q} \cup Range(results')
      /\ IsInjective(results') /\ q \notin Range(results')
      /\ outcome[q] = "ok"
  BY HeadIsKnown DEF IsSuccess
<1> HIDE DEF q
<1>2. /\ heard' = heard \cup {q} /\ winner' = q /\ verdict' = "ok"
      /\ main = "receiving" /\ main' = "returned" /\ raceErr # "returned"
      /\ raceErr' = IF RaceDone THEN raceErr ELSE "returned"
  BY DEF q, CancelRace, Decided
<1>3. RaceDone' /\ CallerGone' = CallerGone /\ AllExited' = AllExited
  BY <1>2 DEF RaceDone, CallerGone, AllExited
<1>4. Delivered' = Delivered
  BY <1>1, <1>2 DEF Delivered
<1>5. Started' /\ Closed' /\ WorkerData'
  BY <1>2, <1>3 DEF Started, Closed, WorkerData
<1>6. Channel' /\ NothingLost'
  BY <1>1, <1>2, <1>3, <1>4 DEF Channel, NothingLost
<1>7. Loop' /\ NoFalseDefeat' /\ StatsAreFair'
  BY <1>2, <1>3 DEF Loop, NoFalseDefeat, StatsAreFair
<1>8. Decided'
  BY <1>1, <1>2, <1>3 DEF Decided, RaceDone, CallerGone, TypeOK
<1> QED
  BY <1>5, <1>6, <1>7, <1>8 DEF Rest

LEMMA TakeErrorStep ==
  ASSUME IInv, TakeError
  PROVE  Rest'
<1> USE DEF TakeError, loopVars, IInv
<1> DEFINE q == Head(results)
<1>1. /\ q \in Candidates
      /\ Range(results) = {q} \cup Range(results')
      /\ IsInjective(results') /\ q \notin Range(results')
      /\ outcome[q] \in Errors
  BY HeadIsKnown DEF IsSuccess, Outcomes
<1> HIDE DEF q
<1>2. /\ heard' = heard \cup {q} /\ lastErr' = outcome[q]
      /\ fullMissingCount' = IF outcome[q] = "nofull"
                             THEN fullMissingCount + 1 ELSE fullMissingCount
  BY DEF q
<1>3. RaceDone' = RaceDone /\ CallerGone' = CallerGone /\ AllExited' = AllExited
  BY DEF RaceDone, CallerGone, AllExited
<1>4. Delivered' = Delivered
  BY <1>1, <1>2 DEF Delivered
<1>5. Started' /\ Closed' /\ WorkerData'
  BY <1>3 DEF Started, Closed, WorkerData
<1>6. Channel' /\ NothingLost'
  BY <1>1, <1>2, <1>3, <1>4 DEF Channel, NothingLost
<1>7. Loop'
  BY <1>1, <1>2 DEF Loop, Errors, TypeOK
<1>8. Decided' /\ NoFalseDefeat' /\ StatsAreFair'
  BY <1>3 DEF Decided, NoFalseDefeat, StatsAreFair
<1> QED
  BY <1>5, <1>6, <1>7, <1>8 DEF Rest

(* The loop ends on a closed, empty channel.  If the caller is still there *)
(* then nothing was lost, so every provider was heard, with an error.      *)
LEMMA AllHeard ==
  ASSUME IInv, ReturnDefeat
  PROVE  /\ DefeatVerdict \in Errors \cup {"unstreamable"}
         /\ DefeatVerdict \in Errors => \E p \in heard : outcome[p] = DefeatVerdict
         /\ raceErr # "returned" /\ verdict = "pending"
         /\ ~CallerGone => /\ \A p \in Candidates : outcome[p] \in Errors
                           /\ DefeatVerdict \in Errors
<1> USE DEF ReturnDefeat, IInv
<1>1. /\ DefeatVerdict \in Errors \cup {"unstreamable"}
      /\ DefeatVerdict \in Errors => \E p \in heard : outcome[p] = DefeatVerdict
  BY DEF DefeatVerdict, Loop, Decided, TypeOK, Errors
<1>2. raceErr # "returned" /\ verdict = "pending"
  BY DEF Decided
<1>3. ASSUME ~CallerGone
      PROVE  heard = Candidates
  <2>1. ~RaceDone
    BY <1>2, <1>3 DEF RaceDone, CallerGone, TypeOK
  <2>2. \A p \in Candidates : pc[p] = "exited"
    BY DEF Closed, AllExited
  <2>3. Range(results) = {}
    BY DEF Range
  <2> QED
    BY <2>1, <2>2, <2>3 DEF NothingLost, Delivered, TypeOK
<1>4. ASSUME ~CallerGone
      PROVE  /\ \A p \in Candidates : outcome[p] \in Errors
             /\ DefeatVerdict \in Errors
  BY <1>2, <1>3, <1>4, CandidatesAssumption DEF Loop, DefeatVerdict, TypeOK, Errors
<1> QED
  BY <1>1, <1>2, <1>4

LEMMA ReturnDefeatStep ==
  ASSUME IInv, ReturnDefeat
  PROVE  Rest'
<1> USE DEF ReturnDefeat, loopVars, IInv
<1>1. /\ main = "receiving" /\ main' = "returned" /\ verdict' = DefeatVerdict
      /\ raceErr' = IF RaceDone THEN raceErr ELSE "returned"
  BY DEF CancelRace
<1>2. RaceDone' /\ CallerGone' = CallerGone /\ AllExited' = AllExited
  BY <1>1 DEF RaceDone, CallerGone, AllExited
<1>3. DefeatVerdict \notin {"pending", "ok"}
  BY AllHeard DEF Errors
<1>4. Started' /\ Closed' /\ WorkerData'
  BY <1>1, <1>2 DEF Started, Closed, WorkerData
<1>5. Channel' /\ NothingLost'
  BY <1>2 DEF Channel, NothingLost, Delivered
<1>6. Loop' /\ StatsAreFair'
  BY <1>1, <1>2, AllHeard DEF Loop, StatsAreFair
<1>7. Decided'
  BY <1>1, <1>2, <1>3, AllHeard DEF Decided, RaceDone, CallerGone, TypeOK
<1>8. NoFalseDefeat'
  BY <1>1, <1>2, AllHeard DEF NoFalseDefeat
<1> QED
  BY <1>4, <1>5, <1>6, <1>7, <1>8 DEF Rest

LEMMA CloseResultsStep ==
  ASSUME IInv, CloseResults
  PROVE  Rest'
<1> USE DEF CloseResults, loopVars, IInv
<1>1. RaceDone' = RaceDone /\ CallerGone' = CallerGone /\ AllExited' = AllExited
  BY DEF RaceDone, CallerGone, AllExited
<1>2. Active = {}
  <2>1. Active \in SUBSET Candidates
    BY DEF Active
  <2>2. Cardinality(Active) = 0
    BY DEF WgCounts, WaitReturns
  <2> QED
    BY <2>1, <2>2, CanBeCounted, FS_EmptySet
<1>3. AllExited
  BY <1>2 DEF Active, AllExited, Started, TypeOK
<1>4. Started' /\ Closed' /\ WorkerData'
  BY <1>1, <1>3 DEF Started, Closed, WorkerData
<1>5. Channel' /\ NothingLost'
  BY <1>1 DEF Channel, NothingLost, Delivered
<1>6. Loop' /\ Decided' /\ NoFalseDefeat' /\ StatsAreFair'
  BY <1>1 DEF Loop, Decided, NoFalseDefeat, StatsAreFair
<1> QED
  BY <1>4, <1>5, <1>6 DEF Rest

LEMMA CallerLeavesStep ==
  ASSUME IInv, NEW cause \in {"canceled", "expired"}, CallerLeaves(cause)
  PROVE  Rest'
<1> USE DEF CallerLeaves, loopVars, IInv
<1>1. ~RaceDone /\ RaceDone' /\ CallerGone' /\ AllExited' = AllExited /\ main # "returned"
  BY DEF RaceDone, CallerGone, AllExited
<1>2. Started' /\ Closed' /\ WorkerData'
  BY <1>1 DEF Started, Closed, WorkerData
<1>3. Channel' /\ NothingLost'
  BY <1>1 DEF Channel, NothingLost, Delivered
<1>4. Loop' /\ NoFalseDefeat' /\ StatsAreFair'
  BY <1>1 DEF Loop, NoFalseDefeat, StatsAreFair
<1>5. Decided'
  BY <1>1 DEF Decided
<1> QED
  BY <1>2, <1>3, <1>4, <1>5 DEF Rest

LEMMA StutterStep ==
  ASSUME IInv, UNCHANGED vars
  PROVE  Rest'
<1> USE DEF vars, IInv
<1>1. RaceDone' = RaceDone /\ CallerGone' = CallerGone /\ AllExited' = AllExited
      /\ Delivered' = Delivered
  BY DEF RaceDone, CallerGone, AllExited, Delivered
<1> QED
  BY <1>1 DEF Rest, Started, Closed, WorkerData, Channel, NothingLost, Loop, Decided,
              NoFalseDefeat, StatsAreFair

LEMMA IInvStep == IInv /\ [Next]_vars => IInv'
<1> SUFFICES ASSUME IInv, [Next]_vars
             PROVE  IInv'
  OBVIOUS
<1>1. TypeOK' /\ WgCounts'
  BY WgStep, TypeStep DEF IInv
<1>2. Rest'
  <2>1. CASE MainStep
    BY <2>1, SpawnStep, StartReceivingStep, TakeSuccessStep, TakeErrorStep,
       ReturnDefeatStep DEF MainStep
  <2>2. ASSUME NEW p \in Candidates, WorkerStep(p)
        PROVE  Rest'
    BY <2>2, CallEndsStep, RecordStep, SendStep, DropStep, ExitStep DEF WorkerStep
  <2>3. CASE CloseResults \/ \E cause \in {"canceled", "expired"} : CallerLeaves(cause)
    BY <2>3, CloseResultsStep, CallerLeavesStep
  <2>4. CASE Finished \/ UNCHANGED vars
    BY <2>4, StutterStep DEF Finished
  <2> QED
    BY <2>1, <2>2, <2>3, <2>4 DEF Next
<1> QED
  BY <1>1, <1>2 DEF IInv, Rest

-------------------------------------------------------------------------------
(* The theorems.                                                           *)

LEMMA IInvAlways == Spec => []IInv
  BY IInvInit, IInvStep, PTL DEF Spec

(* The types of the race: among others its wait group is never negative    *)
(* and its error is never nil when it has no stream to return.             *)
THEOREM TypeCorrect == Spec => []TypeOK
<1>1. IInv => TypeOK
  BY DEF IInv
<1> QED
  BY <1>1, IInvAlways, PTL

(* A worker never sends on the closed channel.                             *)
THEOREM SendsBeforeClose == Spec => []NoSendAfterClose
<1>1. IInv => NoSendAfterClose
  BY DEF IInv, Closed, AllExited, NoSendAfterClose
<1> QED
  BY <1>1, IInvAlways, PTL

(* The channel has room for every worker that is about to send.            *)
THEOREM RoomForEveryResult == Spec => []SendNeverBlocks
<1>1. IInv => SendNeverBlocks
  <2> SUFFICES ASSUME IInv, NEW p \in Candidates, pc[p] = "sending"
               PROVE  Len(results) < Capacity
    BY DEF SendNeverBlocks
  <2>1. results \in Seq(Candidates) /\ IsInjective(results) /\ p \notin Range(results)
    BY DEF IInv, TypeOK, Channel, Delivered
  <2>2. /\ Append(results, p) \in Seq(Candidates)
        /\ IsInjective(Append(results, p))
        /\ Len(Append(results, p)) = Len(results) + 1
    BY <2>1, AppendNew, AppendProperties
  <2>3. Len(Append(results, p)) <= Cardinality(Candidates)
    BY <2>2, DistinctFits, CandidatesAssumption
  <2>4. Len(results) \in Nat /\ Cardinality(Candidates) \in Nat
    BY <2>1, LenProperties, CandidatesAssumption, FS_CardinalityType
  <2> QED
    BY <2>2, <2>3, <2>4 DEF Capacity
<1> QED
  BY <1>1, IInvAlways, PTL

(* A caller who waits is refused a stream only after every provider failed. *)
THEOREM DefeatIsTrue == Spec => []NoFalseDefeat
<1>1. IInv => NoFalseDefeat
  BY DEF IInv
<1> QED
  BY <1>1, IInvAlways, PTL

(* The statistics say of a provider what it did.                           *)
THEOREM StatsTellTheTruth == Spec => []StatsAreFair
<1>1. IInv => StatsAreFair
  BY DEF IInv
<1> QED
  BY <1>1, IInvAlways, PTL

-------------------------------------------------------------------------------
(* The race implements StreamOutcome: the end of a call is Conclude, the   *)
(* receipt of a stream Succeed, the end of the loop Defeat or Abandon, the *)
(* end of the caller's context Leave; every other step stutters.           *)

LEMMA PromiseInit == Init => Promise!Init
  BY DEF Init, Promise!Init, CallerGone

LEMMA PromiseStep == IInv /\ [Next]_vars => [Promise!Next]_(Promise!vars)
<1> SUFFICES ASSUME IInv, [Next]_vars
             PROVE  Promise!Next \/ UNCHANGED Promise!vars
  OBVIOUS
<1> DEFINE Same == /\ outcome' = outcome /\ CallerGone' = CallerGone
                   /\ verdict' = verdict /\ winner' = winner
<1>1. ASSUME Same
      PROVE  UNCHANGED Promise!vars
  BY <1>1 DEF Promise!vars
<1>2. ASSUME NEW p \in Candidates, NEW o \in Outcomes, CallEnds(p, o)
      PROVE  Promise!Next
  <2>1. outcome[p] = "none"
    BY <1>2 DEF CallEnds, IInv, WorkerData
  <2>2. Promise!Conclude(p, o)
    BY <1>2, <2>1 DEF CallEnds, Promise!Conclude, CallerGone
  <2> QED
    BY <2>2 DEF Promise!Next, Promise!Outcomes, Promise!Errors, Outcomes, Errors
<1>3. ASSUME NEW cause \in {"canceled", "expired"}, CallerLeaves(cause)
      PROVE  Promise!Next
  <2>1. ~CallerGone /\ CallerGone' /\ verdict = "pending"
    BY <1>3 DEF CallerLeaves, RaceDone, CallerGone, IInv, Decided
  <2>2. Promise!Leave
    BY <1>3, <2>1 DEF CallerLeaves, Promise!Leave
  <2> QED
    BY <2>2 DEF Promise!Next
<1>4. CASE TakeSuccess
  <2>1. Head(results) \in Candidates
    BY <1>4, HeadIsKnown DEF TakeSuccess, IInv
  <2>2. CallerGone' = CallerGone /\ verdict = "pending"
    BY <1>4 DEF TakeSuccess, CancelRace, CallerGone, RaceDone, IInv, Decided
  <2>3. Promise!Succeed(Head(results))
    BY <1>4, <2>1, <2>2 DEF TakeSuccess, IsSuccess, Promise!Succeed
  <2> QED
    BY <2>1, <2>3 DEF Promise!Next
<1>5. CASE ReturnDefeat
  <2>1. CallerGone' = CallerGone /\ verdict = "pending"
    BY <1>5, AllHeard DEF ReturnDefeat, CancelRace, CallerGone, RaceDone
  <2>2. heard \subseteq Candidates
    BY DEF IInv, TypeOK
  <2>3. /\ DefeatVerdict \in Errors \cup {"unstreamable"}
        /\ DefeatVerdict \in Errors => \E p \in Candidates : outcome[p] = DefeatVerdict
    BY <1>5, <2>2, AllHeard
  <2>4. CASE CallerGone
    <3>1. Promise!Abandon(DefeatVerdict)
      BY <1>5, <2>1, <2>3, <2>4
      DEF ReturnDefeat, Promise!Abandon, Promise!Errors, Errors
    <3> QED
      BY <2>3, <3>1 DEF Promise!Next, Promise!Errors, Errors
  <2>5. CASE ~CallerGone
    <3>1. /\ \A p \in Candidates : outcome[p] \in Errors
          /\ DefeatVerdict \in Errors
      BY <1>5, <2>5, AllHeard
    <3>2. Promise!Defeat(DefeatVerdict)
      BY <1>5, <2>1, <2>3, <3>1
      DEF ReturnDefeat, Promise!Defeat, Promise!Errors, Errors
    <3> QED
      BY <3>1, <3>2 DEF Promise!Next, Promise!Errors, Errors
  <2> QED
    BY <2>4, <2>5
<1>6. ASSUME NEW p \in Candidates,
             Spawn(p) \/ Record(p) \/ Send(p) \/ Drop(p) \/ Exit(p)
      PROVE  Same
  BY <1>6 DEF Spawn, Record, Send, Drop, Exit, CallerGone
<1>7. CASE StartReceiving \/ TakeError \/ CloseResults \/ Finished \/ UNCHANGED vars
  <2>1. Same
    BY <1>7 DEF StartReceiving, TakeError, CloseResults, Finished, vars, CallerGone
  <2> QED
    BY <1>1, <2>1
<1> QED
  BY <1>1, <1>2, <1>3, <1>4, <1>5, <1>6, <1>7 DEF Next, MainStep, WorkerStep

(* ResolveStream keeps its promise, whatever the interleaving of the       *)
(* workers, the closer, the loop and the caller's departure.               *)
THEOREM PromiseKept == Spec => KeepsPromise
<1>1. Init => Promise!Init
  BY PromiseInit
<1>2. IInv /\ [Next]_vars => [Promise!Next]_(Promise!vars)
  BY PromiseStep
<1> QED
  BY <1>1, <1>2, IInvAlways, PTL DEF Spec, KeepsPromise, Promise!Spec
===============================================================================
