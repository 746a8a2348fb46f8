------------------------------- MODULE Turn_proofs -------------------------------
(***************************************************************************)
(* What TLAPS proves about a chat turn: its loop for any limits, what the  *)
(* session owes between turns for any missions, and the run of a handoff   *)
(* for any handoffs and seeds.                                             *)
(***************************************************************************)
EXTENDS AgentLoop, PendingQuestions, ProductionRun, FiniteSetTheorems, TLAPS

(***************************************************************************)
(* The loop: inside it no reason to stop is set, and a turn that comes to  *)
(* its end without an answer has no reason yet or an error.                *)
(***************************************************************************)
EndInv ==
  /\ stop \in StopReason
  /\ loopAt \in {"top", "waiting", "text", "guards", "batch"} => stop = "none"
  /\ loopAt = "closing" /\ reply = "none" => stop \in {"none", "runtime_error"}
  /\ NeverSilent

LEMMA EndInitInv == LoopInit => EndInv
  BY DEF LoopInit, EndInv, NeverSilent, StopReason, Pauses

LEMMA EndStep == EndInv /\ [LoopNext]_loopVars => EndInv'
<1> SUFFICES ASSUME EndInv, [LoopNext]_loopVars PROVE EndInv'
  OBVIOUS
<1> USE DEF EndInv, NeverSilent, StopReason, Guards, Fuses, Pauses, Breakdowns, settings
<1>1. CASE PassDeadline
  BY <1>1 DEF PassDeadline
<1>2. CASE StopBudget
  BY <1>2 DEF StopBudget
<1>3. CASE ChooseCall \/ AskModel \/ FollowUp \/ GoOn \/ PassGuards \/ NextRound
  BY <1>3 DEF ChooseCall, AskModel, FollowUp, GoOn, PassGuards, NextRound, At
<1>4. CASE Receive
  BY <1>4 DEF Receive
<1>5. CASE ReceiveOutdated
  BY <1>5 DEF ReceiveOutdated, At
<1>6. CASE RaiseInLoop \/ RaiseAtGuard
  BY <1>6 DEF RaiseInLoop, RaiseAtGuard, At
<1>7. CASE AcceptText
  BY <1>7 DEF AcceptText
<1>8. ASSUME NEW reason \in Guards, StopAtGuard(reason) PROVE EndInv'
  BY <1>8 DEF StopAtGuard, At
<1>9. CASE SkipAbsentPath
  BY <1>9 DEF SkipAbsentPath
<1>10. ASSUME NEW result \in Result, Execute(result) PROVE EndInv'
  <2>1. stop' \in StopReason /\ loopAt' = (IF stop' = "none" THEN "batch" ELSE "stopping")
    BY <1>10 DEF Execute, StopsAfter, Fuse
  <2> QED BY <2>1
<1>11. CASE FinalizeExit
  BY <1>11 DEF FinalizeExit, At
<1>12. CASE Close
  <2>1. stop' \in StopReason
    BY <1>12 DEF Close, Overridden, Conclusions
  <2>2. reply = "none" => stop' \in {"cancelled", "empty_response", "runtime_error"}
    BY <1>12 DEF Close, Overridden, Conclusions, FastExit, At
  <2>3. loopAt' = "over" /\ reply' # "none"
    BY <1>12, <2>2 DEF Close, At
  <2> QED BY <2>1, <2>3
<1>13. CASE UNCHANGED loopVars
  BY <1>13 DEF loopVars
<1> QED
  BY <1>1, <1>2, <1>3, <1>4, <1>5, <1>6, <1>7, <1>8, <1>9, <1>10, <1>11, <1>12, <1>13
     DEF LoopNext, LoopStep

(* However a turn ends, and whatever its limits, it has an answer          *)
(* (finalize_exit_answer, _chat_turn).                                     *)
THEOREM TurnsAnswer == LoopSpec => []NeverSilent
<1>1. EndInv => NeverSilent
  BY DEF EndInv
<1> QED BY <1>1, EndInitInv, EndStep, PTL DEF LoopSpec

-----------------------------------------------------------------------------
(***************************************************************************)
(* The fuses: what the three counters say of the results.  Going back from *)
(* the last result, barren counts those since the last evidence, failures  *)
(* those that are the same failure as the last one, and stagnant is the    *)
(* number of results since the last evidence that repeat the one before.   *)
(***************************************************************************)
Stale == {i \in 1..Len(results) : Repeats(i) /\ SinceGain(i)}

SameAsLast(i) == results[i].failed /\ results[i].call = results[Len(results)].call

CountersExact ==
  /\ results \in Seq(Result)
  /\ counters \in [failures : Nat, stagnant : Nat, barren : Nat, last : Result \cup {NoResult}]
  /\ counters.last = IF Len(results) = 0 THEN NoResult ELSE results[Len(results)]
  /\ counters.barren <= Len(results)
  /\ \A i \in 1..Len(results) : i > Len(results) - counters.barren => ~ results[i].gain
  /\ counters.barren < Len(results) => results[Len(results) - counters.barren].gain
  /\ counters.failures <= Len(results)
  /\ \A i \in 1..Len(results) : i > Len(results) - counters.failures => SameAsLast(i)
  /\ counters.failures < Len(results) => ~ SameAsLast(Len(results) - counters.failures)
  /\ counters.stagnant = Cardinality(Stale)

LEMMA StaleFinite ==
  CountersExact => IsFiniteSet(Stale) /\ Cardinality(Stale) \in Nat
<1> SUFFICES ASSUME CountersExact PROVE IsFiniteSet(Stale) /\ Cardinality(Stale) \in Nat
  OBVIOUS
<1>1. Len(results) \in Nat
  BY DEF CountersExact
<1>2. IsFiniteSet(1..Len(results))
  BY <1>1, FS_Interval
<1>3. Stale \in SUBSET (1..Len(results))
  BY DEF Stale
<1> QED BY <1>2, <1>3, FS_Subset, FS_CardinalityType

(* An injection from 1..n into a part of a finite set is as much as n      *)
(* elements of the set.                                                    *)
LEMMA AtLeast ==
  ASSUME NEW S, IsFiniteSet(S), NEW n \in Nat
  PROVE  (\E T \in SUBSET S : \E f \in [1..n -> T] : \A i, j \in 1..n : f[i] = f[j] => i = j)
           <=> Cardinality(S) >= n
<1>0. Cardinality(S) \in Nat
  BY FS_CardinalityType
<1>1. ASSUME NEW T \in SUBSET S, NEW f \in [1..n -> T], \A i, j \in 1..n : f[i] = f[j] => i = j
      PROVE  Cardinality(S) >= n
  <2>1. f \in [1..n -> S]
    BY <1>1
  <2>2. f \in Injection(1..n, S)
    BY <1>1, <2>1 DEF Injection, IsInjective
  <2>3. IsFiniteSet(1..n) /\ Cardinality(1..n) = n
    BY FS_Interval
  <2>4. Cardinality(1..n) <= Cardinality(S)
    BY <2>2, FS_Injection
  <2> QED BY <1>0, <2>3, <2>4
<1>2. ASSUME Cardinality(S) >= n
      PROVE  \E f \in [1..n -> S] : \A i, j \in 1..n : f[i] = f[j] => i = j
  <2>1. PICK g \in [1..Cardinality(S) -> S] :
          \A i, j \in 1..Cardinality(S) : g[i] = g[j] => i = j
    BY FS_CardinalityType
       DEF ExistsBijection, Bijection, Injection, IsInjective
  <2>2. [i \in 1..n |-> g[i]] \in [1..n -> S]
    BY <1>0, <1>2
  <2>3. \A i, j \in 1..n : [k \in 1..n |-> g[k]][i] = [k \in 1..n |-> g[k]][j] => i = j
    BY <1>0, <1>2, <2>1
  <2> QED BY <2>2, <2>3
<1> QED BY <1>1, <1>2

(* The limits of the counters are those of the results.                    *)
LEMMA DueExact ==
  CountersExact =>
    (FuseDue <=> \/ counters.failures >= SameFailureLimit
                 \/ counters.stagnant >= StagnationLimit
                 \/ counters.barren >= NoEvidenceLimit)
<1> SUFFICES ASSUME CountersExact
             PROVE  FuseDue <=> \/ counters.failures >= SameFailureLimit
                                \/ counters.stagnant >= StagnationLimit
                                \/ counters.barren >= NoEvidenceLimit
  OBVIOUS
<1> DEFINE n == Len(results)
<1>0. n \in Nat /\ counters.failures \in Nat /\ counters.barren \in Nat
        /\ counters.failures <= n /\ counters.barren <= n
  BY DEF CountersExact
<1>1. counters.failures >= SameFailureLimit <=>
        /\ n >= SameFailureLimit
        /\ \A i, j \in Suffix(SameFailureLimit) : results[i].failed /\ results[i].call = results[j].call
  <2>1. ASSUME counters.failures >= SameFailureLimit,
               NEW i \in Suffix(SameFailureLimit), NEW j \in Suffix(SameFailureLimit)
        PROVE  results[i].failed /\ results[i].call = results[j].call
    BY <1>0, <2>1, LoopAssumption DEF CountersExact, Suffix, SameAsLast
  <2>2. ASSUME counters.failures < SameFailureLimit, n >= SameFailureLimit,
               \A i, j \in Suffix(SameFailureLimit) : results[i].failed /\ results[i].call = results[j].call
        PROVE  FALSE
    <3>1. n \in Suffix(SameFailureLimit) /\ n - counters.failures \in Suffix(SameFailureLimit)
      BY <1>0, <2>2, LoopAssumption DEF Suffix
    <3>2. SameAsLast(n - counters.failures)
      BY <2>2, <3>1 DEF SameAsLast
    <3> QED BY <1>0, <2>2, <3>2, LoopAssumption DEF CountersExact
  <2> QED BY <1>0, <2>1, <2>2, LoopAssumption
<1>2. counters.barren >= NoEvidenceLimit <=>
        n >= NoEvidenceLimit /\ \A i \in Suffix(NoEvidenceLimit) : ~ results[i].gain
  <2>1. ASSUME counters.barren >= NoEvidenceLimit, NEW i \in Suffix(NoEvidenceLimit)
        PROVE  ~ results[i].gain
    BY <1>0, <2>1, LoopAssumption DEF CountersExact, Suffix
  <2>2. ASSUME counters.barren < NoEvidenceLimit, n >= NoEvidenceLimit,
               \A i \in Suffix(NoEvidenceLimit) : ~ results[i].gain
        PROVE  FALSE
    <3>1. n - counters.barren \in Suffix(NoEvidenceLimit)
      BY <1>0, <2>2, LoopAssumption DEF Suffix
    <3> QED BY <1>0, <2>2, <3>1, LoopAssumption DEF CountersExact
  <2> QED BY <1>0, <2>1, <2>2, LoopAssumption
<1>3. counters.stagnant >= StagnationLimit <=>
        \E S \in SUBSET Stale :
          \E f \in [1..StagnationLimit -> S] : \A i, j \in 1..StagnationLimit : f[i] = f[j] => i = j
  <2>1. counters.stagnant = Cardinality(Stale) /\ IsFiniteSet(Stale) /\ StagnationLimit \in Nat
    BY StaleFinite, LoopAssumption DEF CountersExact
  <2>2. (\E T \in SUBSET Stale : \E f \in [1..StagnationLimit -> T] :
           \A i, j \in 1..StagnationLimit : f[i] = f[j] => i = j)
          <=> Cardinality(Stale) >= StagnationLimit
    BY <2>1, AtLeast, Zenon
  <2> QED BY <2>1, <2>2
<1> QED
  BY <1>1, <1>2, <1>3 DEF FuseDue, Stale

LEMMA CountersInit == LoopInit => CountersExact
<1> SUFFICES ASSUME LoopInit PROVE CountersExact
  OBVIOUS
<1>1. results = <<>> /\ Len(results) = 0 /\ results \in Seq(Result)
  BY DEF LoopInit
<1>2. Stale = {}
  BY <1>1 DEF Stale
<1>3. Cardinality(Stale) = 0
  BY <1>2, FS_EmptySet
<1> QED BY <1>1, <1>3 DEF LoopInit, CountersExact

LEMMA ResultKinds ==
  ASSUME NEW r \in Result
  PROVE  r # NoResult /\ r.failed \in BOOLEAN /\ r.gain \in BOOLEAN
<1>1. r \in [call : ToolCall, failed : BOOLEAN, gain : BOOLEAN]
  BY DEF Result
<1>2. DOMAIN r = {"call", "failed", "gain"}
  BY <1>1
<1>3. DOMAIN NoResult = {"call"}
  BY DEF NoResult
<1>4. "gain" \notin {"call"}
  OBVIOUS
<1> QED BY <1>1, <1>2, <1>3, <1>4

(* LoopCounters.observe keeps the counters exact.                          *)
LEMMA ObserveStep ==
  ASSUME CountersExact, NEW r \in Result,
         results' = Append(results, r), counters' = Observed(r)
  PROVE  CountersExact'
<1>0. PICK n \in Nat : n = Len(results)
  BY DEF CountersExact
<1>1. /\ n \in Nat /\ Len(results') = n + 1 /\ results' \in Seq(Result)
      /\ results'[n + 1] = r /\ \A i \in 1..n : results'[i] = results[i] /\ results[i] \in Result
  BY <1>0 DEF CountersExact
<1>2. Same(r) <=> n >= 1 /\ results[n].call = r.call /\ results[n].failed = r.failed
  <2>1. CASE n = 0
    BY <1>0, <2>1 DEF Same, CountersExact
  <2>2. CASE n >= 1
    <3>1. counters.last = results[n] /\ results[n] \in Result
      BY <1>0, <1>1, <2>2 DEF CountersExact
    <3> QED BY <2>2, <3>1, ResultKinds DEF Same
  <2> QED BY <1>0, <1>1, <2>1, <2>2
<1>3. Stale' = IF r.gain THEN {} ELSE IF Same(r) THEN Stale \cup {n + 1} ELSE Stale
  <2>1. CASE r.gain
    BY <1>0, <1>1, <2>1 DEF Stale, SinceGain
  <2>2. CASE ~ r.gain
    <3>1. ASSUME NEW i \in 1..n
          PROVE  /\ (Repeats(i))' <=> Repeats(i)
                 /\ (SinceGain(i))' <=> SinceGain(i)
      <4>1. (SinceGain(i))' <=> \A j \in i..n : ~ results'[j].gain
        BY <1>0, <1>1, <2>2, <3>1 DEF SinceGain
      <4>2. \A j \in i..n : results'[j] = results[j]
        BY <1>0, <1>1, <3>1
      <4> QED BY <1>0, <1>1, <3>1, <4>1, <4>2 DEF Repeats, SinceGain
    <3>2. (Repeats(n + 1))' <=> Same(r)
      <4>1. n + 1 - 1 = n /\ (n + 1 > 1 <=> n >= 1) /\ (n >= 1 => results'[n] = results[n])
        BY <1>0, <1>1
      <4>2. (Repeats(n + 1))' <=> n + 1 > 1 /\ r.call = results'[n].call /\ r.failed = results'[n].failed
        BY <1>0, <1>1, <2>2, <4>1 DEF Repeats
      <4> QED BY <1>2, <4>1, <4>2
    <3>3. (SinceGain(n + 1))'
      BY <1>0, <1>1, <2>2 DEF SinceGain
    <3>4. Stale' = {i \in 1..n + 1 : (Repeats(i) /\ SinceGain(i))'}
      BY <1>0, <1>1 DEF Stale
    <3>5. \A i : i \in 1..n + 1 <=> i \in 1..n \/ i = n + 1
      BY <1>0, <1>1
    <3>6. n + 1 \notin 1..n
      BY <1>0, <1>1
    <3>7. \A i : i \in Stale' <=> i \in Stale \/ (i = n + 1 /\ Same(r))
      BY <1>0, <3>1, <3>2, <3>3, <3>4, <3>5, <3>6 DEF Stale
    <3> QED BY <2>2, <3>7
  <2> QED BY <2>1, <2>2
<1>4. Cardinality(Stale)' = counters'.stagnant /\ counters'.stagnant \in Nat
  <2>1. n + 1 \notin Stale /\ IsFiniteSet(Stale) /\ Cardinality(Stale) \in Nat
    BY <1>0, <1>1, StaleFinite DEF Stale
  <2>2. Cardinality(Stale \cup {n + 1}) = Cardinality(Stale) + 1 /\ Cardinality({}) = 0
    BY <2>1, FS_AddElement, FS_EmptySet
  <2> QED BY <1>3, <2>1, <2>2 DEF Observed, CountersExact
<1>5. counters' \in [failures : Nat, stagnant : Nat, barren : Nat, last : Result \cup {NoResult}]
        /\ counters'.last = r
  BY <1>4 DEF Observed, CountersExact
<1>6. /\ counters'.barren <= n + 1
      /\ \A i \in 1..n + 1 : i > n + 1 - counters'.barren => ~ results'[i].gain
      /\ counters'.barren < n + 1 => results'[n + 1 - counters'.barren].gain
  <2>1. CASE r.gain
    <3>1. counters'.barren = 0
      BY <2>1 DEF Observed
    <3> QED BY <1>0, <1>1, <2>1, <3>1
  <2>2. CASE ~ r.gain
    <3>1. counters'.barren = counters.barren + 1 /\ counters.barren \in Nat /\ counters.barren <= n
      BY <1>0, <2>2 DEF Observed, CountersExact
    <3>2. ASSUME NEW i \in 1..n + 1, i > n - counters.barren PROVE ~ results'[i].gain
      BY <1>0, <1>1, <2>2, <3>1, <3>2 DEF CountersExact
    <3>3. counters.barren < n => results'[n - counters.barren].gain
      BY <1>0, <1>1, <3>1 DEF CountersExact
    <3> QED BY <1>0, <1>1, <3>1, <3>2, <3>3
  <2> QED BY <2>1, <2>2
<1>7. /\ counters'.failures <= n + 1
      /\ \A i \in 1..n + 1 : i > n + 1 - counters'.failures => (SameAsLast(i))'
      /\ counters'.failures < n + 1 => ~ (results'[n + 1 - counters'.failures].failed
                                          /\ results'[n + 1 - counters'.failures].call = results'[n + 1].call)
  <2>1. CASE ~ r.failed
    <3>1. counters'.failures = 0
      BY <2>1 DEF Observed
    <3> QED BY <1>0, <1>1, <2>1, <3>1
  <2>2. CASE r.failed /\ Same(r)
    <3>1. counters'.failures = counters.failures + 1 /\ counters.failures \in Nat /\ counters.failures <= n
      BY <1>0, <2>2 DEF Observed, CountersExact
    <3>2. ASSUME NEW i \in 1..n + 1, i > n - counters.failures PROVE (SameAsLast(i))'
      BY <1>0, <1>1, <1>2, <2>2, <3>1, <3>2 DEF CountersExact, SameAsLast
    <3>3. counters.failures < n =>
            ~ (results'[n - counters.failures].failed /\ results'[n - counters.failures].call = r.call)
      BY <1>0, <1>1, <1>2, <2>2, <3>1 DEF CountersExact, SameAsLast
    <3> QED BY <1>0, <1>1, <3>1, <3>2, <3>3
  <2>3. CASE r.failed /\ ~ Same(r)
    <3>1. counters'.failures = 1
      BY <2>3 DEF Observed
    <3>2. n >= 1 => results[n] \in Result /\ ~ (results[n].failed /\ results[n].call = r.call)
      <4> SUFFICES ASSUME n >= 1 PROVE results[n] \in Result /\ ~ (results[n].failed /\ results[n].call = r.call)
        OBVIOUS
      <4>1. results[n] \in Result
        BY <1>0, <1>1
      <4>2. results[n].failed \in BOOLEAN /\ r.failed \in BOOLEAN
        BY <4>1, ResultKinds
      <4>3. ~ (results[n].call = r.call /\ results[n].failed = r.failed)
        BY <1>2, <2>3
      <4> QED BY <2>3, <4>1, <4>2, <4>3
    <3> QED BY <1>0, <1>1, <2>3, <3>1, <3>2 DEF SameAsLast
  <2> QED BY <2>1, <2>2, <2>3
<1>8. counters'.last = IF Len(results') = 0 THEN NoResult ELSE results'[Len(results')]
  BY <1>0, <1>1, <1>5
<1>9. counters'.barren \in Nat /\ counters'.failures \in Nat
  BY <1>5
<1>10. (/\ counters.barren <= Len(results)
        /\ \A i \in 1..Len(results) : i > Len(results) - counters.barren => ~ results[i].gain
        /\ counters.barren < Len(results) => results[Len(results) - counters.barren].gain)'
  BY <1>1, <1>6, <1>9
<1>11. (/\ counters.failures <= Len(results)
        /\ \A i \in 1..Len(results) : i > Len(results) - counters.failures => SameAsLast(i))'
  BY <1>1, <1>7, <1>9
<1>12. (counters.failures < Len(results) => ~ SameAsLast(Len(results) - counters.failures))'
  <2>1. counters'.failures < n + 1 => ~ (results'[n + 1 - counters'.failures].failed
                                          /\ results'[n + 1 - counters'.failures].call = results'[n + 1].call)
    BY <1>7
  <2>2. Len(results') = n + 1
    BY <1>1
  <2> QED BY <2>1, <2>2, <1>9 DEF SameAsLast
<1>13. (/\ results \in Seq(Result)
        /\ counters \in [failures : Nat, stagnant : Nat, barren : Nat, last : Result \cup {NoResult}]
        /\ counters.last = IF Len(results) = 0 THEN NoResult ELSE results[Len(results)])'
  BY <1>1, <1>5, <1>8
<1>14. (counters.stagnant = Cardinality(Stale))'
  BY <1>4
<1> QED
  BY <1>10, <1>11, <1>12, <1>13, <1>14 DEF CountersExact

(* The reason to stop is a fuse from the result on that made it due.       *)
FuseInv ==
  /\ EndInv
  /\ CountersExact
  /\ cancelled => loopAt \in {"stopping", "closing", "over"} /\ stop \notin Fuses
  /\ FusesExact

LEMMA FuseInitInv == LoopInit => FuseInv
<1> SUFFICES ASSUME LoopInit PROVE FuseInv
  OBVIOUS
<1>1. EndInv /\ CountersExact
  BY EndInitInv, CountersInit
<1>2. stop \notin Fuses /\ ~ cancelled
  BY DEF LoopInit, Fuses
<1>3. ~ FuseDue
  BY <1>1, DueExact, LoopAssumption DEF LoopInit
<1> QED BY <1>1, <1>2, <1>3 DEF FuseInv, FusesExact

LEMMA FuseStep == FuseInv /\ [LoopNext]_loopVars => FuseInv'
<1> SUFFICES ASSUME FuseInv, [LoopNext]_loopVars PROVE FuseInv'
  OBVIOUS
<1>1. EndInv'
  BY EndStep DEF FuseInv
<1>2. (CountersExact =>
        (FuseDue <=> \/ counters.failures >= SameFailureLimit
                     \/ counters.stagnant >= StagnationLimit
                     \/ counters.barren >= NoEvidenceLimit))'
  BY DueExact, PTL
<1>3. ASSUME NEW r \in Result, Execute(r) PROVE FuseInv'
  <2>1. /\ results' = Append(results, r) /\ counters' = Observed(r) /\ stop' \in StopsAfter(Fuse(counters'))
        /\ loopAt = "batch" /\ UNCHANGED <<warnOnly, cancelled>>
    BY <1>3 DEF Execute, settings
  <2>2. CountersExact'
    BY <2>1, ObserveStep DEF FuseInv
  <2>3. (Fuse(counters') # "none" <=> FuseDue') /\ Fuse(counters') \in Fuses \cup {"none"}
    BY <1>2, <2>2, LoopAssumption DEF Fuse, Fuses, CountersExact
  <2>4. stop' \in Fuses <=> ~ warnOnly' /\ FuseDue'
    BY <2>1, <2>3 DEF StopsAfter, Fuses
  <2>5. ~ cancelled'
    BY <2>1 DEF FuseInv
  <2> QED BY <1>1, <2>2, <2>4, <2>5 DEF FuseInv, FusesExact
<1>4. ASSUME UNCHANGED <<results, counters, warnOnly>>, stop' \in Fuses <=> stop \in Fuses,
             cancelled' => loopAt' \in {"stopping", "closing", "over"} /\ stop' \notin Fuses
      PROVE  FuseInv'
  <2>1. CountersExact'
    BY <1>4 DEF FuseInv, CountersExact, Stale, Repeats, SinceGain, SameAsLast
  <2>2. FuseDue' <=> FuseDue
    BY <1>2, <1>4, <2>1, DueExact DEF FuseInv
  <2>3. FusesExact'
    BY <1>4, <2>2 DEF FuseInv, FusesExact
  <2> QED BY <1>1, <1>4, <2>1, <2>3 DEF FuseInv
<1> USE DEF EndInv, Fuses, settings
<1>5. CASE PassDeadline
  BY <1>4, <1>5 DEF PassDeadline, FuseInv
<1>6. CASE \/ StopBudget \/ ChooseCall \/ AskModel \/ Receive \/ ReceiveOutdated \/ RaiseInLoop
           \/ FollowUp \/ GoOn \/ PassGuards \/ RaiseAtGuard \/ SkipAbsentPath \/ NextRound
  <2>1. /\ stop = "none" /\ UNCHANGED <<results, counters, warnOnly>> /\ ~ cancelled
        /\ stop' \in {"none", "budget", "runtime_error"}
        /\ cancelled' => loopAt' = "closing"
    BY <1>6
       DEF FuseInv, StopBudget, ChooseCall, AskModel, Receive, ReceiveOutdated, RaiseInLoop, FollowUp, GoOn,
           PassGuards, RaiseAtGuard, SkipAbsentPath, NextRound, At
  <2> QED BY <1>4, <2>1
<1>7. CASE AcceptText
  BY <1>4, <1>7 DEF AcceptText, FuseInv
<1>8. ASSUME NEW reason \in Guards, StopAtGuard(reason) PROVE FuseInv'
  BY <1>4, <1>8 DEF StopAtGuard, FuseInv, Guards, At
<1>9. CASE FinalizeExit
  BY <1>4, <1>9 DEF FinalizeExit, FuseInv, At
<1>10. CASE Close
  <2>1. UNCHANGED <<results, counters, warnOnly, cancelled>> /\ loopAt' = "over"
    BY <1>10 DEF Close, At
  <2>2. CASE stop \in Fuses
    <3>1. ~ cancelled /\ stop' = stop
      BY <1>10, <2>2 DEF Close, Overridden, FastExit, FuseInv
    <3> QED BY <1>4, <2>1, <2>2, <3>1
  <2>3. CASE stop \notin Fuses
    <3>1. stop' \notin Fuses
      BY <1>10, <2>3 DEF Close, Overridden, Conclusions
    <3> QED BY <1>4, <2>1, <2>3, <3>1
  <2> QED BY <2>2, <2>3
<1>11. CASE UNCHANGED loopVars
  BY <1>4, <1>11 DEF loopVars, FuseInv
<1> QED
  BY <1>3, <1>5, <1>6, <1>7, <1>8, <1>9, <1>10, <1>11 DEF LoopNext, LoopStep

(* For all limits, a fuse stops a turn exactly when the results call for   *)
(* it, and no other step undoes or forges that (LoopCounters.observe,      *)
(* LoopCounters.stop_reason, resolve_actual_stop_reason).                  *)
THEOREM FusesAreExact == LoopSpec => []FusesExact
<1>1. FuseInv => FusesExact
  BY DEF FuseInv
<1> QED BY <1>1, FuseInitInv, FuseStep, PTL DEF LoopSpec

(* The other variables of the loop keep their types.                       *)
LEMMA LoopTypeInit == LoopInit => LoopTypeOK
<1> SUFFICES ASSUME LoopInit PROVE LoopTypeOK
  OBVIOUS
<1>1. CountersExact /\ stop \in StopReason
  BY CountersInit, EndInitInv DEF EndInv
<1>2. 0 \in 0..MaxBatch
  BY LoopAssumption
<1>3. loopAt \in {"top", "stopping"} /\ warnOnly \in BOOLEAN /\ oneCall \in BOOLEAN
  BY DEF LoopInit
<1> QED BY <1>1, <1>2, <1>3 DEF LoopInit, LoopTypeOK, CountersExact

LEMMA LoopTypeStep ==
  LoopTypeOK /\ FuseInv /\ FuseInv' /\ [LoopNext]_loopVars => LoopTypeOK'
<1> SUFFICES ASSUME LoopTypeOK, FuseInv, FuseInv', [LoopNext]_loopVars PROVE LoopTypeOK'
  OBVIOUS
<1>1. (/\ stop \in StopReason /\ results \in Seq(Result)
       /\ counters \in [failures : Nat, stagnant : Nat, barren : Nat, last : Result \cup {NoResult}])'
  BY DEF FuseInv, EndInv, CountersExact
<1> DEFINE Rest == /\ loopAt \in {"top", "waiting", "text", "guards", "batch", "stopping", "closing", "over"}
                   /\ text \in {"unset", "empty", "content"}
                   /\ batch \in 0..MaxBatch
                   /\ reply \in {"none", "model", "system"}
                   /\ cancelled \in BOOLEAN /\ error \in BOOLEAN
                   /\ warnOnly \in BOOLEAN /\ oneCall \in BOOLEAN /\ overBudget \in BOOLEAN
<1>2. SUFFICES Rest'
  BY <1>1 DEF LoopTypeOK
<1>3. Rest
  BY DEF LoopTypeOK
<1>b. 0 \in 0..MaxBatch /\ 1 \in 0..MaxBatch /\ \A n \in 0..MaxBatch : n > 0 => n - 1 \in 0..MaxBatch
  BY LoopAssumption
<1> USE DEF settings, At
<1>4. CASE PassDeadline \/ StopBudget \/ ChooseCall \/ AskModel
  BY <1>3, <1>4, <1>b DEF PassDeadline, StopBudget, ChooseCall, AskModel
<1>5. CASE Receive \/ ReceiveOutdated \/ RaiseInLoop
  BY <1>3, <1>5, <1>b DEF Receive, ReceiveOutdated, RaiseInLoop
<1>6. CASE FollowUp \/ GoOn \/ PassGuards \/ RaiseAtGuard \/ NextRound \/ SkipAbsentPath
  BY <1>3, <1>6, <1>b DEF FollowUp, GoOn, PassGuards, RaiseAtGuard, NextRound, SkipAbsentPath
<1>a. AcceptReply => reply' \in {"none", "model", "system"} /\ cancelled' \in BOOLEAN
  BY <1>3 DEF AcceptReply
<1>11. CASE AcceptText
  BY <1>3, <1>11, <1>a DEF AcceptText
<1>7. CASE FinalizeExit \/ Close
  BY <1>3, <1>7 DEF FinalizeExit, Close
<1>8. ASSUME NEW reason \in Guards, StopAtGuard(reason) PROVE Rest'
  BY <1>3, <1>8, <1>a, <1>b DEF StopAtGuard
<1>9. ASSUME NEW result \in Result, Execute(result) PROVE Rest'
  BY <1>3, <1>9, <1>b DEF Execute
<1>10. CASE UNCHANGED loopVars
  BY <1>3, <1>10 DEF loopVars
<1> QED
  BY <1>4, <1>5, <1>6, <1>7, <1>8, <1>9, <1>10, <1>11 DEF LoopNext, LoopStep

-----------------------------------------------------------------------------
(***************************************************************************)
(* The questions: that there is one at most is inductive as it stands.     *)
(***************************************************************************)
AskedInv ==
  /\ asked \in [Question -> Mission \cup {None}]
  /\ continuation \in Mission \cup {None}
  /\ OneQuestion

LEMMA AskedInitInv == QuestionInit => AskedInv
  BY DEF QuestionInit, AskedInv, OneQuestion

(* A question about one mission, or none, leaves one question.             *)
LEMMA AskingOne ==
  ASSUME NEW q \in Question, NEW m \in Mission \cup {None}, Ask({q}, m) \/ AskNothing
  PROVE  asked' \in [Question -> Mission \cup {None}] /\ OneQuestion'
  BY DEF Ask, AskNothing, OneQuestion

(* What FinishChat, Reroute and AskProduction leave.                       *)
LEMMA Asking ==
  ASSUME NEW m \in Mission \cup {None}, AskedInv, FinishChat(m) \/ Reroute(m) \/ AskProduction(m)
  PROVE  AskedInv'
<1> USE DEF AskedInv
<1>1. continuation' \in Mission \cup {None}
  BY DEF FinishChat, Reroute, AskProduction, SaveContinuation
<1>2. \E q \in Question : Ask({q}, m) \/ AskNothing
  <2>1. CASE FinishChat(m)
    BY <2>1 DEF FinishChat, DueQuestions, Question, Ask, AskNothing
  <2>2. CASE Reroute(m)
    BY <2>2 DEF Reroute, Question
  <2>3. CASE AskProduction(m)
    BY <2>3 DEF AskProduction, Question
  <2> QED BY <2>1, <2>2, <2>3
<1> QED BY <1>1, <1>2, AskingOne

LEMMA AskedStep == AskedInv /\ [QuestionNext]_questionVars => AskedInv'
<1> SUFFICES ASSUME AskedInv, [QuestionNext]_questionVars PROVE AskedInv'
  OBVIOUS
<1>0. \A q \in Question : asked[q] \in Mission \cup {None}
  BY DEF AskedInv
<1>1. CASE Help
  BY <1>1 DEF Help, AskedInv, OneQuestion
<1>2. CASE AskNothing /\ continuation' \in {continuation, None}
  BY <1>2 DEF AskNothing, Ask, AskedInv, OneQuestion
<1>3. ASSUME NEW q \in Question, NEW m \in Mission \cup {None}, Ask({q}, m), UNCHANGED continuation
      PROVE  AskedInv'
  BY <1>3, AskingOne DEF AskedInv
<1>4. ASSUME NEW m \in Mission \cup {None}, FinishChat(m) \/ Reroute(m) \/ AskProduction(m) PROVE AskedInv'
  BY <1>4, Asking
<1>5. "decision_change" \in Question /\ "boundary" \in Question /\ "grill" \in Question
        /\ "requirement" \in Question /\ "production" \in Question
  BY DEF Question
<1>6. CASE Command \/ HandOff \/ FailContinue \/ Clarify \/ ReplyCompletion \/ Chat
  BY <1>2, <1>4, <1>6 DEF Command, HandOff, FailContinue, Clarify, ReplyCompletion, Chat
<1>7. CASE Continue
  <2>1. continuation \in Mission \cup {None}
    BY DEF AskedInv
  <2> QED BY <1>2, <1>3, <1>4, <1>5, <1>7, <2>1 DEF Continue
<1>8. CASE ReplyDecision \/ ReplyBoundary
  BY <1>0, <1>3, <1>4, <1>5, <1>8 DEF ReplyDecision, ReplyBoundary
<1>9. CASE ReplyGrill \/ ReplyProduction
  BY <1>0, <1>4, <1>5, <1>9 DEF ReplyGrill, ReplyProduction
<1>10. CASE ReplyRequirement
  BY <1>0, <1>2, <1>3, <1>4, <1>5, <1>10 DEF ReplyRequirement
<1>11. CASE StartGoal
  BY <1>2, <1>3, <1>4, <1>5, <1>11 DEF StartGoal
<1>12. CASE UNCHANGED questionVars
  BY <1>12 DEF questionVars, AskedInv, OneQuestion
<1> QED
  BY <1>1, <1>6, <1>7, <1>8, <1>9, <1>10, <1>11, <1>12 DEF QuestionNext

(* However long the session and whatever its missions, it waits for one    *)
(* answer at most (run_chat_turn, _chat_turn).                             *)
THEOREM NeverTwoQuestions == QuestionSpec => []OneQuestion
<1>1. AskedInv => OneQuestion
  BY DEF AskedInv
<1> QED BY <1>1, AskedInitInv, AskedStep, PTL DEF QuestionSpec

(* A message that is no reply and none of the interruptions finds no       *)
(* question to displace.                                                   *)
LEMMA DispatchStep ==
  ASSUME AskedInv, [QuestionNext]_questionVars,
         NEW q \in Question, asked[q] # None, asked'[q] = None
  PROVE  turn' \in {q} \cup Interruption
<1>1. ASSUME NEW p \in Question, Reply(p) PROVE turn' = q
  BY <1>1 DEF Reply, Pending, AskedInv, OneQuestion
<1>2. CASE ReplyDecision \/ ReplyBoundary \/ ReplyGrill \/ ReplyCompletion \/ ReplyProduction \/ ReplyRequirement
  BY <1>1, <1>2
     DEF ReplyDecision, ReplyBoundary, ReplyGrill, ReplyCompletion, ReplyProduction, ReplyRequirement,
         Question
<1>3. CASE Help \/ Command \/ HandOff \/ FailContinue \/ Clarify
  BY <1>3 DEF Help, Command, HandOff, FailContinue, Clarify, Interruption
<1>4. CASE Continue \/ StartGoal \/ Chat
  BY <1>4 DEF Continue, Continues, StartGoal, Chat, NothingAsked, Pending, Question
<1>5. CASE UNCHANGED questionVars
  BY <1>5 DEF questionVars
<1> QED
  BY <1>2, <1>3, <1>4, <1>5 DEF QuestionNext

(* No ordinary chat turn takes a message in place of a pending question    *)
(* (the dispatch of run_chat_turn).                                        *)
THEOREM QuestionsKept == QuestionSpec => NotTalkedOver
<1>1. AskedInv /\ [QuestionNext]_questionVars
        => [\A q \in Question : asked[q] # None /\ asked'[q] = None
              => turn' \in {q} \cup Interruption]_questionVars
  BY DispatchStep
<1> QED BY <1>1, AskedInitInv, AskedStep, PTL DEF QuestionSpec, NotTalkedOver

LEMMA QuestionTypeStep ==
  AskedInv' /\ QuestionTypeOK /\ [QuestionNext]_questionVars => QuestionTypeOK'
<1> SUFFICES ASSUME AskedInv', QuestionTypeOK, [QuestionNext]_questionVars
             PROVE  (/\ issued \in BOOLEAN /\ started \in BOOLEAN
                     /\ turn \in Question \cup Interruption \cup {"none", "chat", "continue"})'
  BY DEF AskedInv, QuestionTypeOK
<1> USE DEF QuestionTypeOK, FinishChat, Reroute, AskProduction
<1>1. CASE Help \/ Command \/ HandOff \/ Continue \/ FailContinue \/ Clarify
  BY <1>1 DEF Help, Command, HandOff, Continue, FailContinue, Clarify, Interruption
<1>2. CASE ReplyDecision \/ ReplyBoundary \/ ReplyGrill
  BY <1>2 DEF ReplyDecision, ReplyBoundary, ReplyGrill, Reply, Question
<1>3. CASE ReplyCompletion \/ ReplyProduction \/ ReplyRequirement
  BY <1>3 DEF ReplyCompletion, ReplyProduction, ReplyRequirement, Reply, Question
<1>4. CASE StartGoal \/ Chat
  BY <1>4 DEF StartGoal, Chat
<1>5. CASE UNCHANGED questionVars
  BY <1>5 DEF questionVars
<1> QED BY <1>1, <1>2, <1>3, <1>4, <1>5 DEF QuestionNext

-----------------------------------------------------------------------------
(***************************************************************************)
(* The run of a handoff: evaluation and judgment are of one moment, and    *)
(* what the run saves on is of the handoff the session holds.  A verdict   *)
(* that leads to completion or to a verification finds the tasks done and  *)
(* no failure open; nothing but a verification works on it afterwards.     *)
(***************************************************************************)
JudgedTogether ==
  /\ judgment = Nothing => evaluation = Nothing
  /\ judgment # Nothing =>
       /\ evaluation = [of |-> judgment.of, verdict |-> judgment.verdict]
       /\ judgment.of = handoff /\ contract = handoff
       /\ snapshot # Nothing /\ snapshot.of = handoff
       /\ judgment.verdict \in {"eligible", "verify"} => AllDone(snapshot) /\ Ready(snapshot)
       /\ judgment.completed => judgment.verdict = "eligible" /\ snapshot.goalComplete

RunInv == RunTypeOK /\ JudgedTogether

LEMMA RunInitInv == RunInit => RunInv
  BY DEF RunInit, RunInv, RunTypeOK, JudgedTogether

LEMMA SnapshotStep ==
  ASSUME NEW s \in Snapshot, NEW t \in Stepped(s)
  PROVE  t \in Snapshot /\ t.of = s.of
<1>1. TaskDone(s) \in Snapshot /\ TaskDone(s).of = s.of
  BY SeedsAssumption DEF TaskDone, Snapshot
<1>2. ASSUME NEW v \in Snapshot, NEW f \in BOOLEAN, v.of = s.of
      PROVE  [v EXCEPT !.failed = f] \in Snapshot /\ [v EXCEPT !.failed = f].of = s.of
  BY <1>2 DEF Snapshot
<1>3. ASSUME NEW u \in Worked(s) PROVE u \in Snapshot /\ u.of = s.of
  <2>1. CASE u = s
    BY <2>1
  <2>2. CASE u = [s EXCEPT !.failed = TRUE]
    BY <1>2, <2>2
  <2>3. ASSUME NEW v \in {s, TaskDone(s)}, NEW f \in {s.failed, FALSE}, u = [v EXCEPT !.failed = f]
        PROVE  u \in Snapshot /\ u.of = s.of
    <3>1. f \in BOOLEAN
      BY DEF Snapshot
    <3> QED BY <1>1, <1>2, <2>3, <3>1
  <2> QED BY <2>1, <2>2, <2>3 DEF Worked
<1>4. PICK u \in Worked(s) : t \in {u, [u EXCEPT !.goalComplete = @ \/ AllDone(u)]}
  BY DEF Stepped
<1>5. u \in Snapshot /\ u.of = s.of
  BY <1>3
<1>6. (u.goalComplete \/ AllDone(u)) \in BOOLEAN
  BY DEF AllDone
<1>7. [u EXCEPT !.goalComplete = @ \/ AllDone(u)] \in Snapshot
        /\ [u EXCEPT !.goalComplete = @ \/ AllDone(u)].of = u.of
  BY <1>5, <1>6 DEF Snapshot
<1> QED BY <1>4, <1>5, <1>7

(* A judgment is sound when it is made: on a runtime of the handoff that   *)
(* is ready if the verdict can be eligible.                                *)
LEMMA Judging ==
  ASSUME NEW s \in Snapshot, handoff \in Handoff, handoff' = handoff, s.of = handoff, contract' = handoff,
         archived' \subseteq Handoff, bound' \in BOOLEAN, Ready(s), Judge(s)
  PROVE  RunInv'
<1>1. PICK verdict \in Verdicts(s) :
        /\ evaluation' = [of |-> handoff, verdict |-> verdict]
        /\ judgment' = [of |-> handoff, verdict |-> verdict, completed |-> Completes(verdict, s)]
        /\ snapshot' = [s EXCEPT !.goalComplete = @ \/ Completes(verdict, s)]
  BY DEF Judge
<1>2. verdict \in Verdict /\ (verdict \in {"eligible", "verify"} => AllDone(s))
  BY DEF Verdicts, Verdict
<1>3. Completes(verdict, s) \in BOOLEAN /\ (Completes(verdict, s) => verdict = "eligible")
  BY DEF Completes, AllDone
<1>4. /\ snapshot' \in Snapshot /\ snapshot'.of = s.of
      /\ snapshot'.seeds = s.seeds /\ snapshot'.gap = s.gap /\ snapshot'.failed = s.failed
      /\ Completes(verdict, s) => snapshot'.goalComplete
  BY <1>1, <1>3 DEF Snapshot
<1>5. evaluation' \in Evaluation /\ judgment' \in Judgment
  BY <1>1, <1>2, <1>3 DEF Evaluation, Judgment
<1>6. snapshot' # Nothing /\ evaluation' # Nothing /\ judgment' # Nothing
  BY <1>4, <1>5, NothingAssumption
<1>7. verdict \in {"eligible", "verify"} => AllDone(snapshot') /\ Ready(snapshot')
  BY <1>2, <1>4 DEF AllDone, Ready
<1>8. RunTypeOK'
  BY <1>4, <1>5 DEF RunTypeOK
<1>9. /\ evaluation' = [of |-> judgment'.of, verdict |-> judgment'.verdict]
      /\ judgment'.of = handoff' /\ judgment'.verdict = verdict
      /\ judgment'.completed => judgment'.verdict = "eligible" /\ snapshot'.goalComplete
  BY <1>1, <1>3, <1>4
<1> QED BY <1>4, <1>6, <1>7, <1>8, <1>9 DEF RunInv, JudgedTogether

(* A step that does not end in a judgment keeps the one there is, which    *)
(* was neither eligible nor to be verified.                                *)
LEMMA Stepping ==
  ASSUME NEW s \in Snapshot, handoff \in Handoff, handoff' = handoff, s.of = handoff, contract' = handoff,
         archived' \subseteq Handoff, bound' \in BOOLEAN, RunInv,
         judgment # Nothing => judgment.verdict \notin {"eligible", "verify"},
         ExecuteStep(s)
  PROVE  RunInv'
<1>1. PICK t \in Stepped(s) :
        \/ snapshot' = t /\ UNCHANGED <<evaluation, judgment>>
        \/ Ready(t) /\ Judge(t)
  BY DEF ExecuteStep
<1>2. t \in Snapshot /\ t.of = handoff
  BY SnapshotStep
<1>3. CASE Ready(t) /\ Judge(t)
  BY <1>2, <1>3, Judging
<1>4. CASE snapshot' = t /\ UNCHANGED <<evaluation, judgment>>
  <2>1. snapshot' # Nothing
    BY <1>2, <1>4, NothingAssumption
  <2> QED BY <1>2, <1>4, <2>1 DEF RunInv, RunTypeOK, JudgedTogether
<1> QED BY <1>1, <1>3, <1>4

LEMMA RunStep == RunInv /\ [RunNext]_runVars => RunInv'
<1> SUFFICES ASSUME RunInv, [RunNext]_runVars PROVE RunInv'
  OBVIOUS
<1>1. CASE ReplaceHandoff
  BY <1>1 DEF ReplaceHandoff, ArchiveFields, RunInv, RunTypeOK, JudgedTogether
<1>2. CASE ChatElsewhere
  BY <1>2 DEF ChatElsewhere, RunInv, RunTypeOK, JudgedTogether
<1>3. ASSUME MayRun
      PROVE  /\ handoff \in Handoff /\ handoff' = handoff /\ archived' \subseteq Handoff /\ bound' \in BOOLEAN
             /\ snapshot # Nothing => snapshot \in Snapshot /\ snapshot.of = handoff /\ contract = handoff
  BY <1>3 DEF MayRun, Refused, RunInv, RunTypeOK
<1>4. CASE Start
  <2>1. MayRun /\ judgment = Nothing
    BY <1>4 DEF Start, RunInv, RunTypeOK, JudgedTogether, Evaluation
  <2>2. CASE UNCHANGED <<snapshot, evaluation, judgment>>
    BY <1>3, <1>4, <2>1, <2>2 DEF Start, RunInv, RunTypeOK, JudgedTogether
  <2>3. ASSUME NEW n \in 1..MaxSeeds, ExecuteStep(Prepared(n)) PROVE RunInv'
    <3>1. Prepared(n) \in Snapshot /\ Prepared(n).of = handoff
      BY <1>3, <2>1, SeedsAssumption DEF Prepared, Snapshot
    <3>2. contract' = handoff
      BY <1>4 DEF Start
    <3> QED BY <1>3, <2>1, <2>3, <3>1, <3>2, Stepping
  <2> QED BY <1>4, <2>2, <2>3 DEF Start
<1>5. CASE Resume
  <2>1. MayRun /\ snapshot # Nothing /\ contract' = contract /\ ExecuteStep(snapshot)
    BY <1>5 DEF Resume
  <2>2. judgment # Nothing => judgment.verdict \notin {"eligible", "verify"}
    <3>1. ASSUME judgment # Nothing PROVE evaluation # Nothing
      <4>1. evaluation \in Evaluation
        BY <3>1 DEF RunInv, RunTypeOK, JudgedTogether, Evaluation, Judgment
      <4> QED BY <4>1, NothingAssumption
    <3> QED
      BY <1>5, <3>1 DEF Resume, RunInv, JudgedTogether, AllDone
  <2> QED BY <1>3, <2>1, <2>2, Stepping
<1>6. CASE OpenGap
  <2>1. MayRun /\ snapshot # Nothing /\ contract' = contract /\ judgment # Nothing /\ judgment.verdict = "gap"
    BY <1>6 DEF OpenGap, GapFound, RunInv, JudgedTogether
  <2>2. PICK s \in {[snapshot EXCEPT !.gap = "open"]} \cup {t \in {snapshot} : t.gap = "complete"} :
          ExecuteStep(s) \/ (snapshot' = s /\ UNCHANGED <<evaluation, judgment>>)
    BY <1>6 DEF OpenGap
  <2>3. s \in Snapshot /\ s.of = handoff
    BY <1>3, <2>1 DEF Snapshot
  <2>4. CASE ExecuteStep(s)
    BY <1>3, <2>1, <2>3, <2>4, Stepping
  <2>5. CASE snapshot' = s /\ UNCHANGED <<evaluation, judgment>>
    <3>1. snapshot' # Nothing
      BY <2>3, <2>5, NothingAssumption
    <3> QED
      BY <1>3, <2>1, <2>3, <2>5, <3>1 DEF RunInv, RunTypeOK, JudgedTogether
  <2> QED BY <2>2, <2>4, <2>5
<1>7. CASE Verify
  <2>1. /\ MayRun /\ snapshot # Nothing /\ contract' = contract /\ Judge(snapshot)
        /\ Ready(snapshot)
    BY <1>7 DEF Verify, RunInv, JudgedTogether
  <2> QED BY <1>3, <2>1, Judging
<1>8. CASE UNCHANGED runVars
  BY <1>8 DEF runVars, RunInv, RunTypeOK, JudgedTogether
<1> QED
  BY <1>1, <1>2, <1>4, <1>5, <1>6, <1>7, <1>8 DEF RunNext

(* The invariant from which the next theorem follows, and with it the      *)
(* types of a run.                                                         *)
THEOREM RunInvariant == RunSpec => []RunInv
<1> QED BY RunInitInv, RunStep, PTL DEF RunSpec

(* However many runs, gaps, verifications and handoffs there are, a run    *)
(* that reports its goal completed has an eligible evaluation of this      *)
(* handoff and a runtime whose tasks are complete                          *)
(* (_phase3a_command_result).                                              *)
THEOREM CompletionIsAccepted == RunSpec => []CompletedIsAccepted
<1>1. RunInv => CompletedIsAccepted
  BY DEF RunInv, JudgedTogether, CompletedIsAccepted
<1> QED BY <1>1, RunInvariant, PTL

=============================================================================
