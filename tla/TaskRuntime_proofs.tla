------------------------ MODULE TaskRuntime_proofs ------------------------
(***************************************************************************)
(* Proofs about TaskRuntime for any goals, tasks, conditions and evidence. *)
(*                                                                         *)
(* Completion rests on three facts that every handler keeps: an uncreated  *)
(* task carries no progress, evidence stored for a condition is            *)
(* authoritative, and a mark or a satisfied condition other than "answer   *)
(* produced" has evidence stored for it.                                   *)
(***************************************************************************)
EXTENDS TaskRuntime, TLAPS

Fresh ==
  \A t \in Task \ tasks :
    /\ taskStatus[t] = "pending"
    /\ marked[t] = {}
    /\ satisfied[t] = {}
    /\ \A c \in Condition : support[t][c] = {}

SupportAuthoritative ==
  \A t \in Task, c \in Condition : support[t][c] \subseteq authoritative

CompleteMarked ==
  \A t \in Task : taskStatus[t] = "complete" => AllMarked(t, marked[t])

CompletionInv ==
  TypeOK /\ Fresh /\ SupportAuthoritative /\ SatisfiedEvidenced /\ CompleteMarked

-----------------------------------------------------------------------------
(* Every step keeps the types.                                             *)
LEMMA TypeInit == Init => TypeOK
  BY RuntimeAssumption DEF Init, TypeOK, GoalStatus, TaskStatus

(* The record add_claim stores is a claim, whatever the caller passes.     *)
LEMMA RecordedType ==
  ASSUME NEW text \in ClaimText, NEW certainty \in Certainty,
         NEW E \in SUBSET Evidence, NEW verified \in BOOLEAN
  PROVE  Recorded(text, certainty, E, verified) \in Claim
  BY DEF Recorded, Claim

LEMMA GoalEvalType ==
  ASSUME NEW g, NEW met, NEW ts, NEW gs
  PROVE  GoalEval(g, met, ts, gs) \in GoalStatus
  BY DEF GoalEval, GoalStatus

LEMMA TaskEvalType ==
  ASSUME NEW t, NEW M
  PROVE  TaskEval(t, M) \in TaskStatus
  BY DEF TaskEval, TaskStatus

LEMMA TypeStep == TypeOK /\ [Next]_vars => TypeOK'
<1> SUFFICES ASSUME TypeOK, [Next]_vars PROVE TypeOK'
  OBVIOUS
<1> USE RuntimeAssumption
<1>1. ASSUME NEW g \in Goal, NEW p \in Goal \cup {NoGoal}, AddGoal(g, p)
      PROVE  TypeOK'
  BY <1>1 DEF AddGoal, TypeOK, taskVars, progressVars, evidenceVars
<1>2. ASSUME NEW t \in Task, NEW g \in Goal, NEW C \in SUBSET Condition, AddTask(t, g, C)
      PROVE  TypeOK'
  BY <1>2 DEF AddTask, TypeOK, goalVars, progressVars, evidenceVars
<1>3. ASSUME NEW t \in Task, RecordAction(t)
      PROVE  TypeOK'
  BY <1>3 DEF RecordAction, TypeOK, goalVars, taskVars, evidenceVars, TaskStatus
<1>4. ASSUME NEW e \in Evidence, NEW a \in BOOLEAN, NEW C \in SUBSET Condition,
             NEW T \in SUBSET Task, AddEvidence(e, a, C, T)
      PROVE  TypeOK'
  BY <1>4 DEF AddEvidence, Link, TypeOK, goalVars, progressVars
<1>5. ASSUME NEW e \in Evidence, NEW T \in SUBSET Task, LinkEvidence(e, T)
      PROVE  TypeOK'
  BY <1>5 DEF LinkEvidence, Link, TypeOK, goalVars, progressVars, evidenceVars
<1>6. ASSUME NEW t \in Task, NEW e \in Evidence, NEW C \in SUBSET Condition,
             SupportConditions(t, e, C)
      PROVE  TypeOK'
  <2>1. ASSUME NEW c \in C \cap conditions[t]
        PROVE  Recorded(c, "CONFIRMED", {e}, TRUE) \in Claim
    BY RecordedType DEF ClaimText, Certainty, TypeOK
  <2> DEFINE D == C \cap conditions[t]
             New == {Recorded(c, "CONFIRMED", {e}, TRUE) : c \in D}
  <2>2a. claims' = claims \cup New
    BY <1>6 DEF SupportConditions
  <2>2b. New \subseteq Claim
    BY <2>1
  <2>2. claims' \subseteq Claim
    BY <2>2a, <2>2b DEF TypeOK
  <2>3. e \in known
    BY <1>6 DEF SupportConditions, Rejected, TypeOK
  <2>4. /\ marked' \in [Task -> SUBSET Condition]
        /\ satisfied' \in [Task -> SUBSET Condition]
    BY <1>6 DEF SupportConditions, TypeOK
  <2>5. support' \in [Task -> [Condition -> SUBSET known]]
    BY <1>6, <2>3 DEF SupportConditions, TypeOK
  <2> QED
    BY <1>6, <2>2, <2>4, <2>5
    DEF SupportConditions, TypeOK, goalVars, taskVars, evidenceVars
<1>7. ASSUME NEW t \in Task, NEW S \in SUBSET Condition, t \in tasks, Evaluate(t, S)
      PROVE  /\ satisfied' \in [Task -> SUBSET Condition]
             /\ marked' \in [Task -> SUBSET Condition]
             /\ taskStatus' \in [Task -> TaskStatus]
             /\ support' = support
  BY <1>7, TaskEvalType DEF Evaluate, TypeOK
<1>8. ASSUME NEW t \in Task, EvaluateTask(t)
      PROVE  TypeOK'
  <2>1. satisfied[t] \in SUBSET Condition
    BY DEF TypeOK
  <2> QED
    BY <1>7, <1>8, <2>1 DEF EvaluateTask, TypeOK, goalVars, taskVars, evidenceVars
<1>9. ASSUME NEW t \in Task, EvaluateTaskFromEvidence(t)
      PROVE  TypeOK'
  BY <1>9, TaskEvalType
  DEF EvaluateTaskFromEvidence, TypeOK, goalVars, taskVars, evidenceVars
<1>10. ASSUME NEW g \in Goal, NEW met \in BOOLEAN, EvaluateGoal(g, met)
       PROVE  TypeOK'
  BY <1>10, GoalEvalType
  DEF EvaluateGoal, TypeOK, taskVars, progressVars, evidenceVars
<1>11. ASSUME NEW text \in ClaimText, NEW q \in Certainty, NEW E \in SUBSET Evidence,
              NEW v \in BOOLEAN, AddClaim(text, q, E, v)
       PROVE  TypeOK'
  BY <1>11, RecordedType
  DEF AddClaim, TypeOK, goalVars, taskVars, progressVars, evidenceVars
<1>12. ASSUME NEW answered \in BOOLEAN, NEW ready \in BOOLEAN, GateAnswer(answered, ready)
       PROVE  TypeOK'
  <2>1. /\ Recorded(AnswerText, "CONFIRMED", evidenceIds[ObservationTask], TRUE) \in Claim
        /\ Recorded(AnswerText, "UNVERIFIED", {}, FALSE) \in Claim
    BY RecordedType DEF ClaimText, Certainty, TypeOK
  <2> QED
    BY <1>12, <2>1
    DEF GateAnswer, TypeOK, goalVars, taskVars, progressVars, evidenceVars
<1>13. ASSUME NEW branch \in OwnText, NEW text \in FreeText, NEW answered \in BOOLEAN,
              GateOwnText(branch, text, answered)
       PROVE  TypeOK'
  <2>1. Recorded(text, "OBSERVED", evidenceIds[ObservationTask], branch # "boundary") \in Claim
    BY RecordedType DEF ClaimText, Certainty, TypeOK
  <2> QED
    BY <1>13, <2>1
    DEF GateOwnText, TypeOK, goalVars, taskVars, progressVars, evidenceVars
<1>14. ASSUME NEW t \in Task, NEW answered \in BOOLEAN
       PROVE  FinishConditions(t, answered) \in SUBSET Condition
  BY DEF FinishConditions, TypeOK
<1>15. ASSUME NEW t \in Task, NEW answered \in BOOLEAN, Finish(t, answered)
       PROVE  TypeOK'
  <2>1. goalStatus' \in [Goal -> GoalStatus]
    BY <1>15, GoalEvalType DEF Finish, TypeOK
  <2> QED
    BY <1>7, <1>14, <1>15, <2>1 DEF Finish, TypeOK, taskVars, evidenceVars
<1>16. ASSUME NEW t \in Task, NEW next \in Task, NEW answered \in BOOLEAN,
              FinishHandoff(t, answered, next)
       PROVE  TypeOK'
  <2>1. goalStatus' \in [Goal -> GoalStatus]
    BY <1>16, GoalEvalType DEF FinishHandoff, TypeOK
  <2>2. taskStatus' \in [Task -> TaskStatus]
    BY <1>16, TaskEvalType DEF FinishHandoff, TypeOK, TaskStatus
  <2>3. /\ satisfied' \in [Task -> SUBSET Condition]
        /\ marked' \in [Task -> SUBSET Condition]
    BY <1>14, <1>16 DEF FinishHandoff, TypeOK
  <2> QED
    BY <1>16, <2>1, <2>2, <2>3 DEF FinishHandoff, TypeOK, taskVars, evidenceVars
<1>17. CASE UNCHANGED vars
  BY <1>17
  DEF vars, goalVars, taskVars, progressVars, evidenceVars, TypeOK
<1> QED
  BY <1>1, <1>2, <1>3, <1>4, <1>5, <1>6, <1>8, <1>9, <1>10, <1>11, <1>12, <1>13,
     <1>15, <1>16, <1>17
  DEF Next, GraphStep, EvidenceStep, ClaimStep, GateStep, EvaluationStep

(* TypeOK holds of every behaviour of the runtime.                         *)
THEOREM TypeCorrect == Spec => []TypeOK
  BY TypeInit, TypeStep, PTL DEF Spec

-----------------------------------------------------------------------------
(* Completion.                                                             *)

LEMMA CompletionInit == Init => CompletionInv
  BY TypeInit
  DEF Init, CompletionInv, Fresh, SupportAuthoritative, SatisfiedEvidenced, CompleteMarked

(* A mark survives as long as the evidence stored for it: authority and    *)
(* stored evidence are never withdrawn.                                    *)
LEMMA EvidencedKept ==
  ASSUME NEW t \in Task, NEW c \in Condition, Evidenced(t, c),
         support[t][c] \subseteq support'[t][c], authoritative \subseteq authoritative'
  PROVE  Evidenced(t, c)'
  BY DEF Evidenced

LEMMA NothingWithdrawn ==
  ASSUME TypeOK, [Next]_vars
  PROVE  /\ authoritative \subseteq authoritative'
         /\ \A t \in Task, c \in Condition : support[t][c] \subseteq support'[t][c]
         /\ tasks \subseteq tasks'
<1> USE DEF goalVars, taskVars, progressVars, evidenceVars
<1>1. CASE UNCHANGED vars
  BY <1>1 DEF vars
<1>2. CASE GraphStep
  BY <1>2 DEF GraphStep, AddGoal, AddTask, RecordAction
<1>3. CASE EvidenceStep
  <2>1. ASSUME NEW t \in Task, NEW e \in Evidence, NEW C \in SUBSET Condition,
               SupportConditions(t, e, C), NEW u \in Task, NEW c \in Condition
        PROVE  support[u][c] \subseteq support'[u][c]
    BY <2>1 DEF SupportConditions, TypeOK
  <2> QED
    BY <1>3, <2>1 DEF EvidenceStep, AddEvidence, LinkEvidence, SupportConditions
<1>4. CASE ClaimStep
  BY <1>4 DEF ClaimStep, AddClaim, GateStep, GateAnswer, GateOwnText
<1>5. CASE EvaluationStep
  BY <1>5 DEF EvaluationStep, EvaluateTask, EvaluateTaskFromEvidence, EvaluateGoal,
              Finish, FinishHandoff, Evaluate
<1> QED
  BY <1>1, <1>2, <1>3, <1>4, <1>5 DEF Next

(* Marking, with evidence, more conditions of one task and evaluating it   *)
(* keeps the completion facts; every evaluator is of this form.            *)
LEMMA EvaluationKeeps ==
  ASSUME CompletionInv, NEW t \in tasks, NEW S \in SUBSET Condition,
         NEW M \in SUBSET Condition, TypeOK',
         UNCHANGED <<tasks, conditions, support, authoritative>>,
         satisfied' = [satisfied EXCEPT ![t] = S],
         marked' = [marked EXCEPT ![t] = M],
         \A c \in S \cup M : c = AnswerProduced \/ Evidenced(t, c),
         \A u \in Task \ tasks : taskStatus'[u] = taskStatus[u],
         taskStatus'[t] = "complete" => AllMarked(t, M),
         \A u \in Task \ {t} : taskStatus'[u] = "complete" => taskStatus[u] = "complete"
  PROVE  CompletionInv'
<1>1. /\ satisfied'[t] = S /\ marked'[t] = M
      /\ \A u \in Task \ {t} : satisfied'[u] = satisfied[u] /\ marked'[u] = marked[u]
  BY DEF CompletionInv, TypeOK
<1>3. t \in Task
  BY DEF CompletionInv, TypeOK
<1>4. Fresh'
  BY <1>1 DEF CompletionInv, Fresh
<1>5. SupportAuthoritative'
  BY DEF CompletionInv, SupportAuthoritative
<1>6. SatisfiedEvidenced'
  <2> SUFFICES ASSUME NEW u \in tasks, NEW c \in (satisfied[u] \cup marked[u])'
               PROVE  c = AnswerProduced \/ Evidenced(u, c)'
    BY DEF SatisfiedEvidenced
  <2>1. CASE u = t
    BY <1>1, <1>3, <2>1 DEF Evidenced
  <2>2. CASE u # t
    BY <1>1, <2>2 DEF CompletionInv, SatisfiedEvidenced, Evidenced, TypeOK
  <2> QED
    BY <2>1, <2>2
<1>7. CompleteMarked'
  <2> SUFFICES ASSUME NEW u \in Task, taskStatus'[u] = "complete"
               PROVE  conditions[u] # {} /\ conditions[u] \subseteq marked'[u]
    BY DEF CompleteMarked, AllMarked
  <2>1. CASE u = t
    BY <1>1, <2>1 DEF AllMarked
  <2>2. CASE u # t
    BY <1>1, <2>2 DEF CompletionInv, CompleteMarked, AllMarked
  <2> QED
    BY <2>1, <2>2
<1> QED
  BY <1>4, <1>5, <1>6, <1>7 DEF CompletionInv

LEMMA CompletionStep == CompletionInv /\ [Next]_vars => CompletionInv'
<1> SUFFICES ASSUME CompletionInv, [Next]_vars PROVE CompletionInv'
  OBVIOUS
<1> USE RuntimeAssumption
<1>0. TypeOK /\ TypeOK'
  BY TypeStep DEF CompletionInv
<1>a. /\ authoritative \subseteq authoritative'
      /\ \A t \in Task, c \in Condition : support[t][c] \subseteq support'[t][c]
      /\ tasks \subseteq tasks'
  BY <1>0, NothingWithdrawn
<1>1. ASSUME UNCHANGED <<tasks, conditions, progressVars>>, support' = support
      PROVE  CompletionInv'
  BY <1>0, <1>a, <1>1, EvidencedKept
  DEF CompletionInv, Fresh, SupportAuthoritative, SatisfiedEvidenced, CompleteMarked,
      AllMarked, Evidenced, TypeOK, progressVars
<1>2. ASSUME NEW t \in Task, NEW g \in Goal, NEW C \in SUBSET Condition, AddTask(t, g, C)
      PROVE  CompletionInv'
  <2>1. /\ t \notin tasks /\ tasks' = tasks \cup {t}
        /\ conditions' = [conditions EXCEPT ![t] = C]
        /\ UNCHANGED <<taskStatus, marked, satisfied, support, authoritative>>
    BY <1>2 DEF AddTask, progressVars, evidenceVars
  <2>2. taskStatus[t] = "pending" /\ marked[t] = {} /\ satisfied[t] = {}
    BY <2>1 DEF CompletionInv, Fresh
  <2>3. Fresh' /\ SupportAuthoritative'
    BY <2>1 DEF CompletionInv, Fresh, SupportAuthoritative
  <2>4. SatisfiedEvidenced'
    BY <2>1, <2>2 DEF CompletionInv, SatisfiedEvidenced, Evidenced
  <2>5. CompleteMarked'
    BY <1>0, <2>1, <2>2 DEF CompletionInv, CompleteMarked, AllMarked, TypeOK
  <2> QED
    BY <1>0, <2>3, <2>4, <2>5 DEF CompletionInv
<1>3. ASSUME NEW t \in Task, RecordAction(t)
      PROVE  CompletionInv'
  <2>1. /\ t \in tasks /\ taskStatus' = [taskStatus EXCEPT ![t] = "in_progress"]
        /\ UNCHANGED <<tasks, conditions, marked, satisfied, support, authoritative>>
    BY <1>3 DEF RecordAction, taskVars, evidenceVars
  <2>2. Fresh' /\ SupportAuthoritative' /\ SatisfiedEvidenced'
    BY <1>0, <2>1
    DEF CompletionInv, Fresh, SupportAuthoritative, SatisfiedEvidenced, Evidenced, TypeOK
  <2>3. CompleteMarked'
    BY <1>0, <2>1 DEF CompletionInv, CompleteMarked, AllMarked, TypeOK
  <2> QED
    BY <1>0, <2>2, <2>3 DEF CompletionInv
<1>4. ASSUME NEW t \in Task, NEW e \in Evidence, NEW C \in SUBSET Condition,
             SupportConditions(t, e, C)
      PROVE  CompletionInv'
  <2> DEFINE D == C \cap conditions[t]
  <2>1. /\ t \in tasks /\ e \in authoritative
        /\ marked' = [marked EXCEPT ![t] = @ \cup D]
        /\ satisfied' = [satisfied EXCEPT ![t] = @ \cup D]
        /\ support' = [support EXCEPT ![t] =
             [c \in Condition |-> IF c \in D THEN @[c] \cup {e} ELSE @[c]]]
        /\ UNCHANGED <<tasks, conditions, taskStatus, authoritative>>
    BY <1>4 DEF SupportConditions, Rejected, taskVars, evidenceVars
  <2>2. \A u \in Task, c \in Condition :
          support'[u][c] = IF u = t /\ c \in D THEN support[u][c] \cup {e} ELSE support[u][c]
    BY <1>0, <2>1 DEF TypeOK
  <2>3. \A u \in Task : u # t => marked'[u] = marked[u] /\ satisfied'[u] = satisfied[u]
    BY <1>0, <2>1 DEF TypeOK
  <2>4. marked'[t] = marked[t] \cup D /\ satisfied'[t] = satisfied[t] \cup D
    BY <1>0, <2>1 DEF TypeOK
  <2>5. Fresh'
    BY <2>1, <2>2, <2>3 DEF CompletionInv, Fresh
  <2>6. SupportAuthoritative'
    BY <2>1, <2>2 DEF CompletionInv, SupportAuthoritative
  <2>7. SatisfiedEvidenced'
    <3> SUFFICES ASSUME NEW u \in tasks, NEW c \in (satisfied[u] \cup marked[u])',
                        c # AnswerProduced
                 PROVE  Evidenced(u, c)'
      BY <2>1 DEF SatisfiedEvidenced
    <3>1. u \in Task /\ c \in Condition
      BY <1>0, <2>1 DEF TypeOK
    <3>2. CASE u = t /\ c \in D
      <4>1. e \in support'[u][c]
        BY <2>2, <3>1, <3>2
      <4> QED
        BY <2>1, <4>1 DEF Evidenced
    <3>3. CASE ~ (u = t /\ c \in D)
      BY <1>a, <2>3, <2>4, <3>1, <3>3, EvidencedKept DEF CompletionInv, SatisfiedEvidenced
    <3> QED
      BY <3>2, <3>3
  <2>8. CompleteMarked'
    BY <2>1, <2>3, <2>4 DEF CompletionInv, CompleteMarked, AllMarked
  <2> QED
    BY <1>0, <2>5, <2>6, <2>7, <2>8 DEF CompletionInv
<1>5. ASSUME NEW t \in Task, NEW answered \in BOOLEAN, t \in tasks,
             NEW S \in SUBSET Condition,
             S \subseteq satisfied[t] \cup {AnswerProduced}
      PROVE  \A c \in S \cup (marked[t] \cup (S \cap conditions[t])) :
               c = AnswerProduced \/ Evidenced(t, c)
  BY <1>5 DEF CompletionInv, SatisfiedEvidenced
(* taskStatus with the verdict of one evaluation.                          *)
<1>6. ASSUME NEW t \in Task, NEW M
      PROVE  LET ts == [taskStatus EXCEPT ![t] = TaskEval(t, M)]
             IN /\ ts \in [Task -> TaskStatus]
                /\ \A u \in Task \ {t} : ts[u] = taskStatus[u]
                /\ ts[t] = "complete" => AllMarked(t, M)
  BY <1>0, TaskEvalType DEF TypeOK, TaskEval
<1>7. ASSUME NEW t \in Task, t \in tasks, NEW S \in SUBSET Condition,
             S \subseteq satisfied[t] \cup {AnswerProduced}, Evaluate(t, S),
             UNCHANGED <<tasks, conditions, authoritative>>
      PROVE  CompletionInv'
  <2> DEFINE M == marked[t] \cup (S \cap conditions[t])
             ts == [taskStatus EXCEPT ![t] = TaskEval(t, M)]
  <2>1. M \in SUBSET Condition
    BY <1>0 DEF TypeOK
  <2>2. \A c \in S \cup M : c = AnswerProduced \/ Evidenced(t, c)
    BY <1>5, <1>7
  <2>3. /\ satisfied' = [satisfied EXCEPT ![t] = S]
        /\ marked' = [marked EXCEPT ![t] = M]
        /\ taskStatus' = ts /\ support' = support
    BY <1>7 DEF Evaluate
  <2>4. /\ \A u \in Task \ {t} : ts[u] = taskStatus[u]
        /\ ts[t] = "complete" => AllMarked(t, M)
    BY <1>6
  <2> HIDE DEF M, ts
  <2> QED
    BY <1>0, <1>7, <2>1, <2>2, <2>3, <2>4, EvaluationKeeps
<1>8. ASSUME NEW t \in Task, EvaluateTask(t)
      PROVE  CompletionInv'
  BY <1>0, <1>7, <1>8 DEF EvaluateTask, TypeOK, taskVars, evidenceVars
<1>9. ASSUME NEW t \in Task, EvaluateTaskFromEvidence(t)
      PROVE  CompletionInv'
  <2> DEFINE S == {c \in conditions[t] :
                     \E e \in support[t][c] \cap authoritative : c \in supports[e]}
             M == (marked[t] \ conditions[t]) \cup S
             ts == [taskStatus EXCEPT ![t] = TaskEval(t, S)]
  <2>1. S \in SUBSET Condition /\ M \in SUBSET Condition /\ t \in tasks
    BY <1>0, <1>9 DEF TypeOK, EvaluateTaskFromEvidence
  <2>2. \A c \in S \cup M : c = AnswerProduced \/ Evidenced(t, c)
    BY <2>1 DEF CompletionInv, SatisfiedEvidenced, Evidenced
  <2>3. /\ satisfied' = [satisfied EXCEPT ![t] = S]
        /\ marked' = [marked EXCEPT ![t] = M]
        /\ taskStatus' = ts
        /\ UNCHANGED <<tasks, conditions, support, authoritative>>
    BY <1>9 DEF EvaluateTaskFromEvidence, taskVars, evidenceVars
  <2>4. AllMarked(t, S) => AllMarked(t, M)
    BY DEF AllMarked
  <2>5. /\ \A u \in Task \ {t} : ts[u] = taskStatus[u]
        /\ ts[t] = "complete" => AllMarked(t, M)
    BY <1>6, <2>4
  <2> HIDE DEF S, M, ts
  <2> QED
    BY <1>0, <2>1, <2>2, <2>3, <2>5, EvaluationKeeps
<1>10. ASSUME NEW t \in Task, NEW answered \in BOOLEAN
       PROVE  /\ FinishConditions(t, answered) \in SUBSET Condition
              /\ FinishConditions(t, answered) \subseteq satisfied[t] \cup {AnswerProduced}
  BY <1>0 DEF FinishConditions, TypeOK
<1>11. ASSUME NEW t \in Task, NEW answered \in BOOLEAN, Finish(t, answered)
       PROVE  CompletionInv'
  BY <1>7, <1>10, <1>11 DEF Finish, taskVars, evidenceVars
<1>12. ASSUME NEW t \in Task, NEW next \in Task, NEW answered \in BOOLEAN,
              FinishHandoff(t, answered, next)
       PROVE  CompletionInv'
  <2> DEFINE S == FinishConditions(t, answered)
             M == marked[t] \cup (S \cap conditions[t])
             ts == [taskStatus EXCEPT ![t] = TaskEval(t, M)]
  <2>1. /\ S \in SUBSET Condition /\ M \in SUBSET Condition
        /\ t \in tasks /\ next \in tasks
    BY <1>0, <1>10, <1>12 DEF TypeOK, FinishHandoff
  <2>2. \A c \in S \cup M : c = AnswerProduced \/ Evidenced(t, c)
    BY <1>5, <1>10, <2>1
  <2>3. /\ satisfied' = [satisfied EXCEPT ![t] = S]
        /\ marked' = [marked EXCEPT ![t] = M]
        /\ UNCHANGED <<tasks, conditions, support, authoritative>>
    BY <1>12 DEF FinishHandoff, taskVars, evidenceVars
  <2>4. taskStatus' = IF next # t THEN [ts EXCEPT ![next] = "in_progress"] ELSE ts
    BY <1>12 DEF FinishHandoff
  <2>5. /\ ts \in [Task -> TaskStatus]
        /\ \A u \in Task \ {t} : ts[u] = taskStatus[u]
        /\ ts[t] = "complete" => AllMarked(t, M)
    BY <1>6
  <2> HIDE DEF S, M, ts
  <2>6. /\ \A u \in Task \ tasks : taskStatus'[u] = taskStatus[u]
        /\ taskStatus'[t] = "complete" => AllMarked(t, M)
        /\ \A u \in Task \ {t} : taskStatus'[u] = "complete" => taskStatus[u] = "complete"
    BY <2>1, <2>4, <2>5
  <2> QED
    BY <1>0, <2>1, <2>2, <2>3, <2>6, EvaluationKeeps
<1>13. CASE UNCHANGED vars
  BY <1>1, <1>13 DEF vars, taskVars, progressVars
<1>14. CASE GraphStep
  BY <1>1, <1>2, <1>3, <1>14 DEF GraphStep, AddGoal, taskVars, progressVars
<1>15. CASE EvidenceStep
  BY <1>1, <1>4, <1>15
  DEF EvidenceStep, AddEvidence, LinkEvidence, progressVars
<1>16. CASE ClaimStep
  BY <1>1, <1>16 DEF ClaimStep, AddClaim, GateStep, GateAnswer, GateOwnText, taskVars, progressVars
<1>17. CASE EvaluationStep
  BY <1>1, <1>8, <1>9, <1>11, <1>12, <1>17
  DEF EvaluationStep, EvaluateGoal, taskVars, progressVars
<1> QED
  BY <1>13, <1>14, <1>15, <1>16, <1>17 DEF Next

LEMMA CompletionInvariant == Spec => []CompletionInv
  BY CompletionInit, CompletionStep, PTL DEF Spec

(* For any graph and any evidence, a condition other than "answer          *)
(* produced" is satisfied or marked only with authoritative evidence.      *)
THEOREM SatisfiedIsEvidenced == Spec => []SatisfiedEvidenced
<1>1. CompletionInv => SatisfiedEvidenced
  BY DEF CompletionInv
<1> QED
  BY <1>1, CompletionInvariant, PTL

(* A COMPLETE task has conditions, all marked, each with authoritative     *)
(* evidence except "answer produced".                                      *)
THEOREM CompleteIsEvidenced == Spec => []CompleteTaskEvidenced
<1>1. CompletionInv => CompleteTaskEvidenced
  BY DEF CompletionInv, CompleteTaskEvidenced, SatisfiedEvidenced, CompleteMarked,
         AllMarked, TypeOK
<1> QED
  BY <1>1, CompletionInvariant, PTL

-----------------------------------------------------------------------------
(* Claims.                                                                 *)

(* The invariant behind EvidencedConditionClaimed: the CONFIRMED claim     *)
(* that support_completion_conditions records stays in the audit trail.    *)
SupportClaimed ==
  \A t \in Task, c \in Condition : support[t][c] # {} =>
    \E k \in claims : k.text = c /\ k.certainty = "CONFIRMED" /\ k.verified

ClaimInv == CompletionInv /\ VerifiedClaimsGrounded /\ SupportClaimed

LEMMA RecordedGrounded ==
  ASSUME NEW text, NEW certainty, NEW E, NEW verified,
         Recorded(text, certainty, E, verified).verified
  PROVE  /\ certainty \in AuthoritativeCertainty
         /\ E # {} /\ E \subseteq authoritative
         /\ Recorded(text, certainty, E, verified).evidence = E
         /\ Recorded(text, certainty, E, verified).certainty = certainty
  BY DEF Recorded

LEMMA ClaimStepKeeps == ClaimInv /\ [Next]_vars => ClaimInv'
<1> SUFFICES ASSUME ClaimInv, [Next]_vars PROVE ClaimInv'
  OBVIOUS
<1>1. CompletionInv' /\ TypeOK /\ authoritative \subseteq authoritative'
  BY CompletionStep, NothingWithdrawn DEF ClaimInv, CompletionInv
<1>2. ASSUME claims' = claims, support' = support
      PROVE  ClaimInv'
  BY <1>1, <1>2 DEF ClaimInv, VerifiedClaimsGrounded, SupportClaimed
<1>3. ASSUME NEW text, NEW q, NEW E, NEW v,
             claims' = claims \cup {Recorded(text, q, E, v)}, support' = support
      PROVE  ClaimInv'
  BY <1>1, <1>3, RecordedGrounded DEF ClaimInv, VerifiedClaimsGrounded, SupportClaimed
<1>4. ASSUME NEW t \in Task, NEW e \in Evidence, NEW C \in SUBSET Condition,
             SupportConditions(t, e, C)
      PROVE  ClaimInv'
  <2> DEFINE D == C \cap conditions[t]
             New == {Recorded(c, "CONFIRMED", {e}, TRUE) : c \in D}
  <2>1. claims' = claims \cup New /\ e \in authoritative
    BY <1>4 DEF SupportConditions, Rejected
  <2>2. ASSUME NEW k \in New, k.verified
        PROVE  /\ k.certainty \in AuthoritativeCertainty
               /\ k.evidence # {} /\ k.evidence \subseteq authoritative
    <3>1. PICK c \in D : k = Recorded(c, "CONFIRMED", {e}, TRUE)
      OBVIOUS
    <3> DEFINE R == Recorded(c, "CONFIRMED", {e}, TRUE)
    <3>2. R.verified
      BY <2>2, <3>1
    <3>3. /\ "CONFIRMED" \in AuthoritativeCertainty /\ {e} \subseteq authoritative
          /\ R.evidence = {e} /\ R.certainty = "CONFIRMED"
      BY <3>2 DEF Recorded
    <3> QED
      BY <3>1, <3>3
  <2>3. VerifiedClaimsGrounded'
    BY <1>1, <2>1, <2>2 DEF ClaimInv, VerifiedClaimsGrounded
  <2>4. \A u \in Task, c \in Condition : support'[u][c] # {} => support[u][c] # {} \/ c \in D
    BY <1>1, <1>4 DEF SupportConditions, TypeOK
  <2>5. \A c \in D : /\ Recorded(c, "CONFIRMED", {e}, TRUE).text = c
                     /\ Recorded(c, "CONFIRMED", {e}, TRUE).certainty = "CONFIRMED"
                     /\ Recorded(c, "CONFIRMED", {e}, TRUE).verified
    BY <2>1 DEF Recorded, AuthoritativeCertainty
  <2>6. SupportClaimed'
    <3> SUFFICES ASSUME NEW u \in Task, NEW c \in Condition, support'[u][c] # {}
                 PROVE  \E k \in claims' :
                          k.text = c /\ k.certainty = "CONFIRMED" /\ k.verified
      BY DEF SupportClaimed
    <3>1. CASE c \in D
      <4>1. Recorded(c, "CONFIRMED", {e}, TRUE) \in claims'
        BY <2>1, <3>1
      <4> QED
        BY <2>5, <3>1, <4>1
    <3>2. CASE support[u][c] # {}
      BY <2>1, <3>2 DEF ClaimInv, SupportClaimed
    <3> QED
      BY <2>4, <3>1, <3>2
  <2> QED
    BY <1>1, <2>3, <2>6 DEF ClaimInv
<1>5. CASE UNCHANGED vars
  BY <1>2, <1>5 DEF vars, progressVars
<1>6. CASE GraphStep
  BY <1>2, <1>6 DEF GraphStep, AddGoal, AddTask, RecordAction, progressVars
<1>7. CASE EvidenceStep
  BY <1>2, <1>4, <1>7 DEF EvidenceStep, AddEvidence, LinkEvidence, progressVars
<1>8. CASE ClaimStep
  <2>1. ASSUME NEW answered \in BOOLEAN, NEW ready \in BOOLEAN, GateAnswer(answered, ready)
        PROVE  ClaimInv'
    BY <1>3, <2>1 DEF GateAnswer, progressVars
  <2> QED
    BY <1>3, <1>8, <2>1 DEF ClaimStep, AddClaim, GateStep, GateOwnText, progressVars
<1>9. CASE EvaluationStep
  BY <1>2, <1>9 DEF EvaluationStep, EvaluateTask, EvaluateTaskFromEvidence, EvaluateGoal,
                    Finish, FinishHandoff, Evaluate, progressVars
<1> QED
  BY <1>5, <1>6, <1>7, <1>8, <1>9 DEF Next

LEMMA ClaimInvariant == Spec => []ClaimInv
<1>1. Init => ClaimInv
  BY CompletionInit DEF Init, ClaimInv, VerifiedClaimsGrounded, SupportClaimed
<1> QED
  BY <1>1, ClaimStepKeeps, PTL DEF Spec

(* A verified claim cites evidence, and all of it stays authoritative.     *)
THEOREM VerifiedIsGrounded == Spec => []VerifiedClaimsGrounded
<1>1. ClaimInv => VerifiedClaimsGrounded
  BY DEF ClaimInv
<1> QED
  BY <1>1, ClaimInvariant, PTL

(* CONFIRMED and verified is the top of the order of claims.               *)
LEMMA StrongestClaim ==
  ASSUME NEW k \in Claim, NEW d \in Claim,
         d.certainty = "CONFIRMED", d.verified, Strength(d) <= Strength(k)
  PROVE  k.certainty = "CONFIRMED" /\ k.verified
<1>1. Strength(d) = 7
  BY DEF Strength, Priority
<1>2. k.certainty # "CONFIRMED" => Priority(k.certainty) \in 0..2
  BY DEF Claim, Certainty, Priority
<1>3. k.certainty = "CONFIRMED" => Priority(k.certainty) = 3
  BY DEF Priority
<1>4. k.certainty # "CONFIRMED" => Strength(k) \in 0..5
  BY <1>2 DEF Strength
<1>5. ~ k.verified => Strength(k) \in 0..6
  BY <1>2, <1>3 DEF Strength
<1> QED
  BY <1>1, <1>4, <1>5

(* No later claim displaces the confirmed record of an evidenced condition. *)
THEOREM EvidencedStaysClaimed == Spec => []EvidencedConditionClaimed
<1>1. ClaimInv => EvidencedConditionClaimed
  <2> SUFFICES ASSUME ClaimInv, NEW t \in tasks, NEW c \in conditions[t],
                      support[t][c] # {}
               PROVE  /\ \E k \in claims : k.text = c
                      /\ \A k \in EffectiveClaims : k.text = c =>
                           k.certainty = "CONFIRMED" /\ k.verified
    BY DEF EvidencedConditionClaimed
  <2>1. t \in Task /\ c \in Condition /\ claims \subseteq Claim
    BY DEF ClaimInv, CompletionInv, TypeOK
  <2>2. PICK d \in claims : d.text = c /\ d.certainty = "CONFIRMED" /\ d.verified
    BY <2>1 DEF ClaimInv, SupportClaimed
  <2> QED
    BY <2>1, <2>2, StrongestClaim DEF EffectiveClaims
<1> QED
  BY <1>1, ClaimInvariant, PTL

-----------------------------------------------------------------------------
(* An answer leaves gate_answer by itself only over an observation task    *)
(* whose every condition is marked and has authoritative evidence, and     *)
(* then it is claimed as CONFIRMED and verified over the evidence linked   *)
(* to that task, all of it authoritative.                                  *)
THEOREM ConfirmedIsEvidenced == Spec => ConfirmedAnswerEvidenced
<1>1. CompletionInv /\ [Next]_vars => [ConfirmsEvidenced]_vars
  <2> DEFINE T == ObservationTask
             answer == [text |-> AnswerText, certainty |-> "CONFIRMED",
                        evidence |-> evidenceIds[T], verified |-> TRUE]
  <2> SUFFICES ASSUME CompletionInv, GateStep, gate' = "alone"
               PROVE  /\ conditions[T] # {}
                      /\ \A c \in conditions[T] : c \in marked[T] /\ Evidenced(T, c)
                      /\ evidenceIds[T] \subseteq authoritative
                      /\ answer \in claims'
    BY DEF ConfirmsEvidenced
  <2>1. PICK answered, ready \in BOOLEAN : GateAnswer(answered, ready)
    BY DEF GateStep, GateOwnText
  <2> DEFINE supported == /\ T \in tasks
                          /\ conditions[T] # {}
                          /\ Unevidenced(T) = {}
                          /\ ready
             confirmed == Recorded(AnswerText, "CONFIRMED", evidenceIds[T], TRUE)
  <2>2. ~ Recorded(AnswerText, "UNVERIFIED", {}, FALSE).verified
    BY DEF Recorded
  <2>3. supported /\ confirmed.verified /\ confirmed \in claims'
    BY <2>1, <2>2 DEF GateAnswer
  <2>4. evidenceIds[T] \subseteq authoritative /\ confirmed = answer
    BY <2>3 DEF Recorded, AuthoritativeCertainty
  <2>5. \A c \in conditions[T] : c \in marked[T] /\ support[T][c] # {}
    BY <2>3 DEF Unevidenced
  <2>6. \A c \in conditions[T] : Evidenced(T, c)
    <3> TAKE c \in conditions[T]
    <3>1. T \in Task /\ c \in Condition
      BY RuntimeAssumption DEF CompletionInv, TypeOK
    <3>2. support[T][c] # {} /\ support[T][c] \subseteq authoritative
      BY <2>5, <3>1 DEF CompletionInv, SupportAuthoritative
    <3> QED
      BY <3>2 DEF Evidenced
  <2> QED
    BY <2>3, <2>4, <2>5, <2>6
<1> QED
  BY <1>1, CompletionInvariant, PTL DEF Spec, ConfirmedAnswerEvidenced

-----------------------------------------------------------------------------
(* The root goal.                                                          *)

(* Only an evaluation changes the status of a goal.                        *)
LEMMA OnlyEvaluationsClose ==
  ASSUME Next, goalStatus' # goalStatus
  PROVE  EvaluationStep
  BY DEF Next, GraphStep, EvidenceStep, ClaimStep, AddGoal, AddTask, RecordAction,
         AddEvidence, LinkEvidence, SupportConditions, AddClaim, GateStep, GateAnswer, GateOwnText,
         goalVars

(* What a "complete" of evaluate_goal says of the tasks and the children.  *)
LEMMA GoalEvalComplete ==
  ASSUME NEW g, NEW met \in BOOLEAN, NEW ts, NEW gs, GoalEval(g, met, ts, gs) = "complete"
  PROVE  /\ \A h \in Children(g) : gs[h] = "complete"
         /\ \A t \in TasksOf(g) : ts[t] = "complete"
         /\ g \in Conditioned => met
  BY DEF GoalEval

(* On a handoff graph no sequence of turns closes a root goal that has     *)
(* conditions: only evaluate_goal with the verdict of the acceptance does, *)
(* over tasks and children that are all COMPLETE (the comment "Empty       *)
(* satisfied list cannot complete G1" in finish).                          *)
THEOREM HandoffRootNeedsAcceptance == Spec => RootClosedByAcceptance
<1>1. ASSUME TypeOK, Next, seeded, Root \in Conditioned,
             goalStatus[Root] # "complete", goalStatus'[Root] = "complete"
      PROVE  /\ EvaluateGoal(Root, TRUE)
             /\ \A t \in TasksOf(Root) : taskStatus[t] = "complete"
             /\ \A g \in Children(Root) : goalStatus[g] = "complete"
  <2>1. goalStatus \in [Goal -> GoalStatus] /\ Root \in Goal
    BY <1>1, RuntimeAssumption DEF TypeOK
  <2>2. EvaluationStep
    BY <1>1, OnlyEvaluationsClose
  <2>3. \A ts, gs : GoalEval(Root, FALSE, ts, gs) # "complete"
    BY <1>1, GoalEvalComplete
  <2>4. ASSUME NEW g \in Goal, NEW met \in BOOLEAN, EvaluateGoal(g, met)
        PROVE  g = Root /\ met = TRUE
    <3>1. goalStatus' = [goalStatus EXCEPT ![g] = GoalEval(g, met, taskStatus, goalStatus)]
      BY <2>4 DEF EvaluateGoal
    <3>2. g = Root
      BY <3>1, <2>1, <1>1
    <3> QED BY <3>1, <3>2, <2>1, <2>3, <1>1
  <2>5. ASSUME NEW t \in Task, NEW next \in Task, NEW answered \in BOOLEAN,
               FinishHandoff(t, answered, next)
        PROVE  FALSE
    <3>1. PICK ts : goalStatus' = [goalStatus EXCEPT ![taskGoal[t]] =
                                     GoalEval(taskGoal[t], FALSE, ts, goalStatus)]
      BY <2>5 DEF FinishHandoff
    <3>2. taskGoal[t] = Root
      BY <3>1, <2>1, <1>1
    <3> QED BY <3>1, <3>2, <2>1, <2>3, <1>1
  <2>6. ASSUME NEW t \in Task, NEW answered \in BOOLEAN, Finish(t, answered)
        PROVE  FALSE
    BY <2>6, <1>1 DEF Finish
  <2>7. ASSUME NEW t \in Task, EvaluateTask(t) \/ EvaluateTaskFromEvidence(t)
        PROVE  FALSE
    BY <2>7, <1>1 DEF EvaluateTask, EvaluateTaskFromEvidence, goalVars
  <2>8. EvaluateGoal(Root, TRUE)
    BY <2>2, <2>4, <2>5, <2>6, <2>7 DEF EvaluationStep
  <2>9. GoalEval(Root, TRUE, taskStatus, goalStatus) = "complete"
    BY <2>1, <2>8, <1>1 DEF EvaluateGoal
  <2> QED BY <2>8, <2>9, GoalEvalComplete
<1>2. TypeOK /\ [Next]_vars =>
        [seeded /\ Root \in Conditioned
         /\ goalStatus[Root] # "complete" /\ goalStatus'[Root] = "complete" =>
           /\ EvaluateGoal(Root, TRUE)
           /\ \A t \in TasksOf(Root) : taskStatus[t] = "complete"
           /\ \A g \in Children(Root) : goalStatus[g] = "complete"]_vars
  BY <1>1
<1> QED
  BY <1>2, TypeCorrect, PTL DEF Spec, RootClosedByAcceptance

(* A root goal with completion conditions, as every runtime gives G1, is   *)
(* left COMPLETE by finish only when all tasks of the runtime and all its  *)
(* children are, whatever the graph and the statuses before.               *)
THEOREM FinishClosesRootLast ==
  ASSUME Root \in Conditioned
  PROVE  Spec => FinishSound
<1>1. ASSUME TypeOK, NEW t \in Task, NEW answered \in BOOLEAN, Finish(t, answered),
             Root \in goals, goalStatus'[Root] = "complete"
      PROVE  /\ \A u \in tasks : taskStatus'[u] = "complete"
             /\ \A g \in Children(Root) : goalStatus'[g] = "complete"
  <2> DEFINE own    == [goalStatus EXCEPT ![taskGoal[t]] =
                          GoalEval(taskGoal[t], FALSE, taskStatus', goalStatus)]
             below  == [g \in Goal |-> IF g \in Children(Root)
                                       THEN GoalEval(g, FALSE, taskStatus', own)
                                       ELSE own[g]]
             all    == \A u \in tasks : taskStatus'[u] = "complete"
  <2>1. goalStatus' = [below EXCEPT ![Root] = GoalEval(Root, all, taskStatus', below)]
    BY <1>1 DEF Finish
  <2>2. Root \in Goal /\ Children(Root) \subseteq Goal /\ all \in BOOLEAN
    BY <1>1, RuntimeAssumption DEF TypeOK, Children
  <2>3. DOMAIN below = Goal
    OBVIOUS
  <2> HIDE DEF below, all
  <2>4. GoalEval(Root, all, taskStatus', below) = "complete"
    BY <1>1, <2>1, <2>2, <2>3
  <2>5. all /\ \A g \in Children(Root) : below[g] = "complete"
    BY <2>2, <2>4, GoalEvalComplete
  <2>6. \A g \in Children(Root) : goalStatus'[g] = "complete"
    BY <1>1, <2>1, <2>2, <2>3, <2>5
  <2> QED BY <2>5, <2>6 DEF all
<1>2. TypeOK /\ [Next]_vars =>
        [\A t \in Task, answered \in BOOLEAN :
           Finish(t, answered) /\ Root \in goals /\ goalStatus'[Root] = "complete" =>
             /\ \A u \in tasks : taskStatus'[u] = "complete"
             /\ \A g \in Children(Root) : goalStatus'[g] = "complete"]_vars
  BY <1>1
<1> QED
  BY <1>2, TypeCorrect, PTL DEF Spec, FinishSound

=============================================================================
