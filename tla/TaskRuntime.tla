---------------------------- MODULE TaskRuntime ----------------------------
(***************************************************************************)
(* AgentTaskRuntime (tools/ai/task_runtime.py): the goal tree, the tasks   *)
(* with their completion conditions, the evidence that supports them, and  *)
(* the claims recorded about them, together with the two handlers of       *)
(* ChatTaskOrchestrator that close a turn, gate_answer and finish.         *)
(*                                                                         *)
(* Actions, failures and progress marks, tool gaps and the files written   *)
(* by save are not part of this module.  A list whose order no operation   *)
(* reads is a set.                                                         *)
(***************************************************************************)
EXTENDS Naturals, FiniteSets

CONSTANTS
  Goal,             \* goal ids
  Root,             \* "G1"
  Conditioned,      \* goals whose own completion_conditions are not empty
  Task,             \* task ids
  ObservationTask,  \* "T1", the task gate_answer reads
  Condition,        \* completion conditions of tasks
  AnswerProduced,   \* "answer produced", the condition finish satisfies
  Evidence,         \* evidence ids
  FreeText,         \* claim texts that are not completion conditions
  AnswerText,       \* the text of the final answer, as a claim
  MaxClaims,        \* bound on the claims recorded by add_claim and gate_answer
  NoGoal

ASSUME RuntimeAssumption ==
  /\ Root \in Goal
  /\ NoGoal \notin Goal
  /\ Conditioned \subseteq Goal
  /\ ObservationTask \in Task
  /\ AnswerProduced \in Condition
  /\ AnswerText \in FreeText
  /\ FreeText \cap Condition = {}
  /\ MaxClaims \in Nat

VARIABLES
  seeded,         \* has a task the source "goal_handoff"
  parent,         \* parent_goal_id of a created goal, NoGoal otherwise
  goals,          \* goals created so far
  goalStatus,
  tasks,          \* tasks created so far
  taskGoal,       \* goal_id
  conditions,     \* completion_conditions
  taskStatus,
  marked,         \* conditions whose condition_status is SATISFIED
  satisfied,      \* satisfied_conditions
  support,        \* condition_evidence
  evidenceIds,    \* evidence_ids of a task
  known,          \* evidence recorded so far
  authoritative,  \* recorded evidence that is verified, CONFIRMED or OBSERVED
  supports,       \* supported_completion_conditions of recorded evidence
  claims,         \* recorded claims
  gate            \* how gate_answer handed out the model's last answer: "alone",
                  \* "noticed" as unconfirmed, "below" a text of its own, or not

goalVars     == <<goals, parent, goalStatus>>
taskVars     == <<tasks, taskGoal, conditions, evidenceIds>>
progressVars == <<taskStatus, marked, satisfied, support>>
evidenceVars == <<known, authoritative, supports>>
vars == <<goalVars, taskVars, progressVars, evidenceVars, claims, gate, seeded>>

GoalStatus == {"pending", "in_progress", "complete"}
TaskStatus == {"pending", "in_progress", "complete"}
Certainty  == {"CONFIRMED", "OBSERVED", "INFERRED", "HYPOTHESIS", "UNVERIFIED"}
AuthoritativeCertainty == {"CONFIRMED", "OBSERVED"}

ClaimText == Condition \cup FreeText
Claim == [text : ClaimText, certainty : Certainty,
          evidence : SUBSET Evidence, verified : BOOLEAN]

TypeOK ==
  /\ seeded \in BOOLEAN
  /\ goals \subseteq Goal
  /\ parent \in [Goal -> goals \cup {NoGoal}]
  /\ goalStatus \in [Goal -> GoalStatus]
  /\ tasks \subseteq Task
  /\ taskGoal \in [Task -> goals \cup {NoGoal}]
  /\ \A t \in tasks : taskGoal[t] \in goals
  /\ conditions \in [Task -> SUBSET Condition]
  /\ taskStatus \in [Task -> TaskStatus]
  /\ marked \in [Task -> SUBSET Condition]
  /\ satisfied \in [Task -> SUBSET Condition]
  /\ support \in [Task -> [Condition -> SUBSET known]]
  /\ evidenceIds \in [Task -> SUBSET known]
  /\ known \subseteq Evidence
  /\ authoritative \subseteq known
  /\ supports \in [Evidence -> SUBSET Condition]
  /\ claims \subseteq Claim
  /\ gate \in {"none", "below", "noticed", "alone"}

Init ==
  /\ seeded \in BOOLEAN
  /\ goals = {}
  /\ parent = [g \in Goal |-> NoGoal]
  /\ goalStatus = [g \in Goal |-> "pending"]
  /\ tasks = {}
  /\ taskGoal = [t \in Task |-> NoGoal]
  /\ conditions = [t \in Task |-> {}]
  /\ taskStatus = [t \in Task |-> "pending"]
  /\ marked = [t \in Task |-> {}]
  /\ satisfied = [t \in Task |-> {}]
  /\ support = [t \in Task |-> [c \in Condition |-> {}]]
  /\ evidenceIds = [t \in Task |-> {}]
  /\ known = {}
  /\ authoritative = {}
  /\ supports = [e \in Evidence |-> {}]
  /\ claims = {}
  /\ gate = "none"

-----------------------------------------------------------------------------
(* The goal and task graph.                                                *)

Children(g) == {h \in goals : parent[h] = g}
TasksOf(g)  == {t \in tasks : taskGoal[t] = g}

AddGoal(g, p) ==
  /\ g \notin goals
  /\ p \in goals \cup {NoGoal}
  /\ goals' = goals \cup {g}
  /\ parent' = [parent EXCEPT ![g] = p]
  /\ UNCHANGED <<goalStatus, taskVars, progressVars, evidenceVars, claims, gate, seeded>>

(* add_task, and replan_add_task, which adds to the scope goal the same way *)
(* whatever the status of that goal is.                                     *)
AddTask(t, g, C) ==
  /\ t \notin tasks
  /\ g \in goals
  /\ tasks' = tasks \cup {t}
  /\ taskGoal' = [taskGoal EXCEPT ![t] = g]
  /\ conditions' = [conditions EXCEPT ![t] = C]
  /\ UNCHANGED <<goalVars, progressVars, evidenceIds, evidenceVars, claims, gate, seeded>>

(* Any action of a task, a completed one too, puts it back IN_PROGRESS.    *)
RecordAction(t) ==
  /\ t \in tasks
  /\ taskStatus' = [taskStatus EXCEPT ![t] = "in_progress"]
  /\ UNCHANGED <<goalVars, taskVars, marked, satisfied, support, evidenceVars,
                 claims, gate, seeded>>

-----------------------------------------------------------------------------
(* Evidence.  Callers allocate a new id per record and add a recorded one  *)
(* again only to link it to more tasks.                                    *)

Link(e, T) == [t \in Task |-> IF t \in T THEN evidenceIds[t] \cup {e}
                                         ELSE evidenceIds[t]]

AddEvidence(e, isAuthoritative, C, T) ==
  /\ e \notin known
  /\ T \subseteq tasks
  /\ known' = known \cup {e}
  /\ authoritative' = IF isAuthoritative THEN authoritative \cup {e}
                                         ELSE authoritative
  /\ supports' = [supports EXCEPT ![e] = C]
  /\ evidenceIds' = Link(e, T)
  /\ UNCHANGED <<goalVars, tasks, taskGoal, conditions, progressVars, claims, gate, seeded>>

LinkEvidence(e, T) ==
  /\ e \in known
  /\ T \subseteq tasks
  /\ evidenceIds' = Link(e, T)
  /\ UNCHANGED <<goalVars, tasks, taskGoal, conditions, progressVars,
                 evidenceVars, claims, gate, seeded>>

-----------------------------------------------------------------------------
(* Claims.                                                                 *)

(* The record add_claim stores: "verified" survives only with an           *)
(* authoritative certainty and authoritative evidence; the certainty the   *)
(* caller gave is kept.                                                    *)
AnyGroundedRecorded(text, certainty, E, verified) ==  \* mutant: any for all
  [text |-> text, certainty |-> certainty, evidence |-> E,
   verified |-> /\ verified
                /\ certainty \in AuthoritativeCertainty
                /\ E \cap authoritative # {}]

Recorded(text, certainty, E, verified) ==
  [text |-> text, certainty |-> certainty, evidence |-> E,
   verified |-> /\ verified
                /\ certainty \in AuthoritativeCertainty
                /\ E # {}
                /\ E \subseteq authoritative]

(* record_local_review and the concept resolution; a fact of the local     *)
(* review may have the text of a completion condition.                     *)
AddClaim(text, certainty, E, verified) ==
  /\ claims' = claims \cup {Recorded(text, certainty, E, verified)}
  /\ UNCHANGED <<goalVars, taskVars, progressVars, evidenceVars, gate, seeded>>

Priority(certainty) ==
  CASE certainty = "CONFIRMED" -> 3
    [] certainty = "OBSERVED"  -> 2
    [] certainty = "INFERRED"  -> 1
    [] OTHER                   -> 0

(* The order of the pairs (CERTAINTY_PRIORITY, verified).                  *)
CertaintyOnlyStrength(c) == Priority(c.certainty)  \* mutant: verified ignored

Strength(c) == 2 * Priority(c.certainty) + (IF c.verified THEN 1 ELSE 0)

(* effective_claims: of the records of one text, a strongest one.          *)
EffectiveClaims ==
  {c \in claims : \A d \in claims : d.text = c.text => Strength(d) <= Strength(c)}

-----------------------------------------------------------------------------
(* Completion of tasks.                                                    *)

NeverRejected(e) == FALSE  \* mutant: the early return is missing

Rejected(e) == e \notin authoritative

SupportConditions(t, e, C) ==
  /\ t \in tasks
  /\ ~ Rejected(e)
  /\ LET D == C \cap conditions[t]
     IN /\ marked' = [marked EXCEPT ![t] = @ \cup D]
        /\ support' = [support EXCEPT ![t] =
             [c \in Condition |-> IF c \in D THEN @[c] \cup {e} ELSE @[c]]]
        /\ satisfied' = [satisfied EXCEPT ![t] = @ \cup D]
        /\ claims' = claims \cup {Recorded(c, "CONFIRMED", {e}, TRUE) : c \in D}
  /\ UNCHANGED <<goalVars, taskVars, taskStatus, evidenceVars, gate, seeded>>

AllMarkedVacuously(t, M) == conditions[t] \subseteq M  \* mutant: bool(...) dropped

AllMarked(t, M) == conditions[t] # {} /\ conditions[t] \subseteq M

TaskEval(t, M) == IF AllMarked(t, M) THEN "complete" ELSE "in_progress"

(* evaluate_task replaces satisfied_conditions by S and marks, but never   *)
(* unmarks, the conditions it names.                                       *)
Evaluate(t, S) ==
  LET M == marked[t] \cup (S \cap conditions[t])
  IN /\ satisfied' = [satisfied EXCEPT ![t] = S]
     /\ marked' = [marked EXCEPT ![t] = M]
     /\ taskStatus' = [taskStatus EXCEPT ![t] = TaskEval(t, M)]
     /\ UNCHANGED support

(* Callers outside finish pass the task's own satisfied_conditions.        *)
EvaluateTask(t) ==
  /\ t \in tasks
  /\ Evaluate(t, satisfied[t])
  /\ UNCHANGED <<goalVars, taskVars, evidenceVars, claims, gate, seeded>>

(* evaluate_task_from_evidence recomputes every condition from the         *)
(* evidence stored for it.                                                 *)
EvaluateTaskFromEvidence(t) ==
  /\ t \in tasks
  /\ LET S == {c \in conditions[t] :
                 \E e \in support[t][c] \cap authoritative : c \in supports[e]}
     IN /\ marked' = [marked EXCEPT ![t] = (@ \ conditions[t]) \cup S]
        /\ satisfied' = [satisfied EXCEPT ![t] = S]
        /\ taskStatus' = [taskStatus EXCEPT ![t] = TaskEval(t, S)]
  /\ UNCHANGED <<goalVars, taskVars, support, evidenceVars, claims, gate, seeded>>

-----------------------------------------------------------------------------
(* Completion of goals.                                                    *)

(* The status evaluate_goal gives g when the tasks have status ts, the     *)
(* goals have status gs, and met says whether the caller's list covers the *)
(* goal's own conditions.                                                  *)
OpenConditionsGoalEval(g, met, ts, gs) ==  \* mutant: conditions_done dropped
  IF /\ \A h \in Children(g) : gs[h] = "complete"
     /\ \A t \in TasksOf(g) : ts[t] = "complete"
  THEN "complete" ELSE "in_progress"

SlackGoalEval(g, met, ts, gs) ==  \* mutant: tasks_done or conditions_done
  IF /\ \A h \in Children(g) : gs[h] = "complete"
     /\ (\A t \in TasksOf(g) : ts[t] = "complete") \/ (g \in Conditioned => met)
  THEN "complete" ELSE "in_progress"

GoalEval(g, met, ts, gs) ==
  IF /\ \A h \in Children(g) : gs[h] = "complete"
     /\ \A t \in TasksOf(g) : ts[t] = "complete"
     /\ g \in Conditioned => met
  THEN "complete" ELSE "in_progress"

EvaluateGoal(g, met) ==
  /\ g \in goals
  /\ goalStatus' = [goalStatus EXCEPT ![g] = GoalEval(g, met, taskStatus, goalStatus)]
  /\ UNCHANGED <<goals, parent, taskVars, progressVars, evidenceVars, claims, gate, seeded>>

-----------------------------------------------------------------------------
(* The end of a turn.                                                      *)

Unmarked(t) == conditions[t] \ marked[t]  \* mutant: condition_evidence not read

Unevidenced(t) == {c \in conditions[t] : c \notin marked[t] \/ support[t][c] = {}}

(* gate_answer, its last part: the model's answer becomes a CONFIRMED      *)
(* claim only when the observation task is supported and the goal summary  *)
(* is ready, and an answer whose claim is not verified gets the notice     *)
(* that it is unconfirmed.  An empty answer is claimed too.                *)
GateAnswer(answered, goalReady) ==
  /\ LET supported == /\ ObservationTask \in tasks
                      /\ conditions[ObservationTask] # {}
                      /\ Unevidenced(ObservationTask) = {}
                      /\ goalReady
         claim == IF supported
                  THEN Recorded(AnswerText, "CONFIRMED", evidenceIds[ObservationTask], TRUE)
                  ELSE Recorded(AnswerText, "UNVERIFIED", {}, FALSE)
     IN /\ claims' = claims \cup {claim}
        /\ gate' = CASE ~ answered     -> "none"
                     [] claim.verified -> "alone"
                     [] OTHER          -> "noticed"
  /\ UNCHANGED <<goalVars, taskVars, progressVars, evidenceVars, seeded>>

(* The branches of gate_answer before its last part, in their order: the   *)
(* question of the grill, of the boundary and of the goal completion, the  *)
(* close of an unresolved goal, and a provisional selection whose summary  *)
(* is ready.                                                               *)
OwnText == {"grill", "boundary", "completion", "unresolved", "provisional"}

(* Such a branch answers with a text of its own and claims that text as    *)
(* OBSERVED over the evidence of the observation task, whose conditions it *)
(* does not look at; only the boundary question does not ask to be         *)
(* verified.  The model's answer goes out below the text without a notice, *)
(* except that the boundary and the completion question drop it.  Which    *)
(* branch is taken depends on goal_read_target, which is not modelled.     *)
GateOwnText(branch, text, answered) ==
  /\ claims' = claims \cup
       {Recorded(text, "OBSERVED", evidenceIds[ObservationTask], branch # "boundary")}
  /\ gate' = IF answered /\ branch \notin {"boundary", "completion"}
             THEN "below" ELSE "none"
  /\ UNCHANGED <<goalVars, taskVars, progressVars, evidenceVars, seeded>>

(* The conditions finish evaluates the current task with.                  *)
AnsweredFinishConditions(t, answered) ==  \* mutant: an answer satisfies them all
  satisfied[t] \cup (IF answered THEN conditions[t] ELSE {})

FinishConditions(t, answered) ==
  satisfied[t] \cup
    (IF answered /\ (AnswerProduced \in conditions[t] \/ taskStatus[t] = "complete")
     THEN {AnswerProduced} ELSE {})

(* finish on a chat graph: the current task, its goal, the children of the *)
(* root and then the root are evaluated, in this order.                    *)
Finish(t, answered) ==
  /\ ~ seeded
  /\ t \in tasks
  /\ Evaluate(t, FinishConditions(t, answered))
  /\ LET own    == [goalStatus EXCEPT ![taskGoal[t]] =
                      GoalEval(taskGoal[t], FALSE, taskStatus', goalStatus)]
         below  == [g \in Goal |-> IF g \in Children(Root)
                                   THEN GoalEval(g, FALSE, taskStatus', own)
                                   ELSE own[g]]
         all    == \A u \in tasks : taskStatus'[u] = "complete"
     IN goalStatus' = IF Root \in goals
                      THEN [below EXCEPT ![Root] = GoalEval(Root, all, taskStatus', below)]
                      ELSE below
  /\ UNCHANGED <<goals, parent, taskVars, evidenceVars, claims, gate, seeded>>

(* finish on a graph seeded from a handoff stops after the task's goal and *)
(* the start of the next runnable task, if the current one is complete.    *)
FinishHandoff(t, answered, next) ==
  /\ seeded
  /\ t \in tasks
  /\ next \in tasks
  /\ LET S  == FinishConditions(t, answered)
         M  == marked[t] \cup (S \cap conditions[t])
         ts == [taskStatus EXCEPT ![t] = TaskEval(t, M)]
     IN /\ next # t => ts[t] = "complete" /\ ts[next] # "complete"
        /\ satisfied' = [satisfied EXCEPT ![t] = S]
        /\ marked' = [marked EXCEPT ![t] = M]
        /\ taskStatus' = IF next # t THEN [ts EXCEPT ![next] = "in_progress"] ELSE ts
        /\ goalStatus' = [goalStatus EXCEPT ![taskGoal[t]] =
                            GoalEval(taskGoal[t], FALSE, ts, goalStatus)]
  /\ UNCHANGED <<goals, parent, taskVars, support, evidenceVars, claims, gate, seeded>>

-----------------------------------------------------------------------------
GraphStep ==
  \/ \E g \in Goal, p \in Goal \cup {NoGoal} : AddGoal(g, p)
  \/ \E t \in Task, g \in Goal, C \in SUBSET Condition : AddTask(t, g, C)
  \/ \E t \in Task : RecordAction(t)

EvidenceStep ==
  \/ \E e \in Evidence, a \in BOOLEAN, C \in SUBSET Condition, T \in SUBSET Task :
       AddEvidence(e, a, C, T)
  \/ \E e \in Evidence, T \in SUBSET Task : LinkEvidence(e, T)
  \/ \E t \in Task, e \in Evidence, C \in SUBSET Condition : SupportConditions(t, e, C)

GateStep ==
  \/ \E answered, ready \in BOOLEAN : GateAnswer(answered, ready)
  \/ \E branch \in OwnText, text \in FreeText, answered \in BOOLEAN :
       GateOwnText(branch, text, answered)

(* The claims MaxClaims bounds: those that no support records.             *)
CallerClaims ==
  {k \in claims : ~ /\ k.text \in Condition /\ k.certainty = "CONFIRMED" /\ k.verified
                    /\ Cardinality(k.evidence) = 1}

ClaimStep ==
  /\ Cardinality(CallerClaims) < MaxClaims
  /\ \/ GateStep
     \/ \E text \in ClaimText, q \in Certainty, E \in SUBSET Evidence, v \in BOOLEAN :
          AddClaim(text, q, E, v)

EvaluationStep ==
  \/ \E t \in Task : EvaluateTask(t) \/ EvaluateTaskFromEvidence(t)
  \/ \E g \in Goal, met \in BOOLEAN : EvaluateGoal(g, met)
  \/ \E t \in Task, answered \in BOOLEAN : Finish(t, answered)
  \/ \E t, next \in Task, answered \in BOOLEAN : FinishHandoff(t, answered, next)

Next == GraphStep \/ EvidenceStep \/ ClaimStep \/ EvaluationStep

Spec == Init /\ [][Next]_vars

-----------------------------------------------------------------------------
(* Properties.                                                             *)

Evidenced(t, c) == support[t][c] \cap authoritative # {}

(* A COMPLETE task has completion conditions, all of them SATISFIED, and   *)
(* each one except "answer produced" has authoritative evidence stored for *)
(* it (evaluate_task, evaluate_task_from_evidence, finish).                *)
CompleteTaskEvidenced ==
  \A t \in tasks : taskStatus[t] = "complete" =>
    /\ conditions[t] # {}
    /\ \A c \in conditions[t] :
         c \in marked[t] /\ (c = AnswerProduced \/ Evidenced(t, c))

(* Neither satisfied_conditions nor a SATISFIED mark, which evaluate_task  *)
(* copies into each other, ever names a condition without authoritative    *)
(* evidence other than "answer produced".                                  *)
SatisfiedEvidenced ==
  \A t \in tasks : \A c \in satisfied[t] \cup marked[t] :
    c = AnswerProduced \/ Evidenced(t, c)

(* A claim recorded as verified cites evidence, and all of it is recorded, *)
(* verified and authoritative, also long after the claim (add_claim).      *)
VerifiedClaimsGrounded ==
  \A c \in claims : c.verified =>
    /\ c.certainty \in AuthoritativeCertainty
    /\ c.evidence # {}
    /\ c.evidence \subseteq authoritative

(* Whatever is claimed later, the effective claim of a condition that a    *)
(* task holds evidence for is CONFIRMED and verified                       *)
(* (support_completion_conditions with effective_claims).                  *)
EvidencedConditionClaimed ==
  \A t \in tasks : \A c \in conditions[t] : support[t][c] # {} =>
    /\ \E k \in claims : k.text = c
    /\ \A k \in EffectiveClaims : k.text = c => k.certainty = "CONFIRMED" /\ k.verified

(* "An unverified LLM claim can coexist in the audit trail but can never   *)
(* override an observed or confirmed record" (effective_claims): where a   *)
(* text has a verified record, its effective record is verified.           *)
UnverifiedNeverOverrides ==
  \A k \in EffectiveClaims :
    (\E c \in claims : c.text = k.text /\ c.verified) => k.verified

(* "Keep an unsupported model answer out of the confirmed-fact channel":    *)
(* gate_answer hands the model's answer out by itself, with neither the    *)
(* notice nor a text of its own above it, only when each condition of the  *)
(* observation task is SATISFIED with authoritative evidence and nothing   *)
(* unverified is linked to that task; the answer is then claimed as        *)
(* CONFIRMED and verified over this evidence.  Of an answer that goes out  *)
(* below a question, a close or a provisional selection it says nothing.   *)
ConfirmsEvidenced ==
  gate' = "alone" /\ GateStep =>
    /\ conditions[ObservationTask] # {}
    /\ \A c \in conditions[ObservationTask] :
         c \in marked[ObservationTask] /\ Evidenced(ObservationTask, c)
    /\ evidenceIds[ObservationTask] \subseteq authoritative
    /\ [text |-> AnswerText, certainty |-> "CONFIRMED",
        evidence |-> evidenceIds[ObservationTask], verified |-> TRUE] \in claims'

ConfirmedAnswerEvidenced == [][ConfirmsEvidenced]_vars

(* On a graph seeded from a handoff only the acceptance verdict, never     *)
(* finish or the end of the last task, closes a root goal that has         *)
(* conditions, and then all its tasks and children are COMPLETE (the       *)
(* comment "Empty satisfied list cannot complete G1" in finish).           *)
RootClosedByAcceptance ==
  [][seeded /\ Root \in Conditioned
     /\ goalStatus[Root] # "complete" /\ goalStatus'[Root] = "complete" =>
       /\ EvaluateGoal(Root, TRUE)
       /\ \A t \in TasksOf(Root) : taskStatus[t] = "complete"
       /\ \A g \in Children(Root) : goalStatus[g] = "complete"]_vars

(* When finish leaves the root goal COMPLETE, every task of the runtime    *)
(* and every child of the root is COMPLETE at that moment, whatever was    *)
(* reopened or added since the goals were last evaluated.                  *)
FinishSound ==
  [][\A t \in Task, answered \in BOOLEAN :
       Finish(t, answered) /\ Root \in goals /\ goalStatus'[Root] = "complete" =>
         /\ \A u \in tasks : taskStatus'[u] = "complete"
         /\ \A g \in Children(Root) : goalStatus'[g] = "complete"]_vars

=============================================================================
