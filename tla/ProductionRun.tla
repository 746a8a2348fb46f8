------------------------------ MODULE ProductionRun ------------------------------
(***************************************************************************)
(* The run of a goal handoff (/run, _phase3a_command_result in             *)
(* ai_tool/chat_interface/agent_turn.py).  The session holds the handoff   *)
(* and what its run has saved: the contract, the snapshot of the task      *)
(* runtime, the acceptance evaluation and the judgment.  Every /run does   *)
(* one of: start, one step of a task, a verification, nothing.  A run that *)
(* is refused changes nothing and is not an action.                        *)
(***************************************************************************)
EXTENDS Naturals

CONSTANTS Handoff, Nothing, MaxSeeds

ASSUME HandoffAssumption == Nothing \notin Handoff
ASSUME SeedsAssumption == MaxSeeds \in Nat \ {0}

VARIABLES
  handoff,     \* production_handoff_packet
  archived,    \* the handoffs of production_run_generations
  bound,       \* last_mission_id is the mission of the handoff, its decisions as then
  contract,    \* production_run_contract: the handoff it was built for
  snapshot,    \* production_runtime_snapshot and its handoff integrity
  evaluation,  \* production_acceptance_evaluation
  judgment     \* production_goal_acceptance_judgment

runVars == <<handoff, archived, bound, contract, snapshot, evaluation, judgment>>

(* PASS with every meaning MATCH; PASS that a verification can mend; PASS  *)
(* that needs the human; FAIL that leaves a completion gap; any other FAIL.*)
Verdict == {"eligible", "verify", "human", "gap", "fail"}

Snapshot == [of : Handoff, seeds : 0..MaxSeeds, gap : {"none", "open", "complete"},
             failed : BOOLEAN, goalComplete : BOOLEAN]

Evaluation == [of : Handoff, verdict : Verdict]
Judgment   == [of : Handoff, verdict : Verdict, completed : BOOLEAN]

ASSUME NothingAssumption == Nothing \notin Snapshot \cup Evaluation \cup Judgment

RunTypeOK ==
  /\ handoff \in Handoff \cup {Nothing} /\ archived \subseteq Handoff
  /\ bound \in BOOLEAN
  /\ contract \in Handoff \cup {Nothing}
  /\ snapshot \in Snapshot \cup {Nothing}
  /\ evaluation \in Evaluation \cup {Nothing}
  /\ judgment \in Judgment \cup {Nothing}

RunInit ==
  /\ handoff = Nothing /\ archived = {} /\ bound = FALSE
  /\ contract = Nothing /\ snapshot = Nothing /\ evaluation = Nothing /\ judgment = Nothing

-----------------------------------------------------------------------------
(* The runtime of the handoff.                                             *)

(* prepare_orchestrator_from_handoff.                                      *)
Prepared(n) == [of |-> handoff, seeds |-> n, gap |-> "none", failed |-> FALSE, goalComplete |-> FALSE]

(* assess_handoff_acceptance_readiness asks nothing of a gap's task.       *)
Ready(s) == s.seeds = 0 /\ ~ s.failed

(* The tasks evaluate_goal counts.                                         *)
AllDone(s) == s.seeds = 0 /\ s.gap # "open"

(* A step completes the current task: a seed, then the gap's.              *)
TaskDone(s) ==
  IF s.seeds > 0 THEN [s EXCEPT !.seeds = @ - 1]
  ELSE IF s.gap = "open" THEN [s EXCEPT !.gap = "complete"] ELSE s

(* No tool is called, it fails, or it succeeds: a success may complete the *)
(* task and may resolve the failure, if that was the same tool's.          *)
Worked(s) ==
  {s, [s EXCEPT !.failed = TRUE]}
    \cup {[t EXCEPT !.failed = f] : t \in {s, TaskDone(s)}, f \in {s.failed, FALSE}}

(* One call of _chat_turn; resolve_mission_achievement completes the goal  *)
(* if the acceptance passes as it stands then.                             *)
Stepped(s) ==
  UNION {{t, [t EXCEPT !.goalComplete = @ \/ AllDone(t)]} : t \in Worked(s)}

(* evaluate_handoff_goal_acceptance passes no criterion with a task open;  *)
(* a completion gap's task counts for the criterion it is bound to.        *)
Verdicts(s) == IF AllDone(s) THEN Verdict ELSE {"gap", "fail"}

(* mutant: a PASS completes the goal, its meaning eligible or not          *)
PassCompletes(verdict, s) == verdict \in {"eligible", "verify", "human"} /\ AllDone(s)

(* apply_acceptance_pass_to_runtime_goal.                                  *)
Completes(verdict, s) == verdict = "eligible" /\ AllDone(s)

(* The evaluation, the judgment and the goal are saved together.           *)
Judge(s) ==
  \E verdict \in Verdicts(s) :
    /\ evaluation' = [of |-> handoff, verdict |-> verdict]
    /\ judgment' = [of |-> handoff, verdict |-> verdict, completed |-> Completes(verdict, s)]
    /\ snapshot' = [s EXCEPT !.goalComplete = @ \/ Completes(verdict, s)]

(* The step; its acceptance is evaluated unless it is not ready or the     *)
(* final answer fails.                                                     *)
ExecuteStep(s) ==
  \E t \in Stepped(s) :
    \/ snapshot' = t /\ UNCHANGED <<evaluation, judgment>>
    \/ Ready(t) /\ Judge(t)

-----------------------------------------------------------------------------
(* The session between the runs.                                           *)

(* _PRODUCTION_RUN_ACTIVE_FIELDS leave the session.                        *)
ArchiveFields ==
  contract' = Nothing /\ snapshot' = Nothing /\ evaluation' = Nothing /\ judgment' = Nothing

(* A new handoff archives the run of the old one.                          *)
ReplaceHandoff ==
  /\ \E h \in Handoff \ (archived \cup {handoff}) : handoff' = h
  /\ archived' = archived \cup ({handoff} \ {Nothing})
  /\ bound' = TRUE
  /\ ArchiveFields

(* A turn of another mission, or one that revises a decision.              *)
ChatElsewhere ==
  /\ bound' \in BOOLEAN
  /\ UNCHANGED <<handoff, archived, contract, snapshot, evaluation, judgment>>

-----------------------------------------------------------------------------
(* /run.                                                                   *)

Refused ==
  \/ handoff = Nothing \/ ~ bound
  \/ contract \notin {Nothing, handoff}
  \/ snapshot # Nothing /\ (contract = Nothing \/ snapshot.of # handoff)

MayRun == ~ Refused /\ UNCHANGED <<handoff, archived, bound>>

(* No runtime to resume.  The contract stays when the sandbox fails.       *)
Start ==
  /\ MayRun /\ snapshot = Nothing /\ evaluation = Nothing
  /\ contract' = handoff
  /\ \/ UNCHANGED <<snapshot, evaluation, judgment>>
     \/ \E n \in 1..MaxSeeds : ExecuteStep(Prepared(n))

(* A step of the tasks, until the acceptance is judged.                    *)
Resume ==
  /\ MayRun /\ snapshot # Nothing /\ (snapshot.gap = "open" \/ evaluation = Nothing)
  /\ ExecuteStep(snapshot)
  /\ UNCHANGED contract

(* discover_runtime_goal_completion_gaps on the saved facts.               *)
GapFound ==
  /\ snapshot # Nothing /\ snapshot.gap # "open" /\ Ready(snapshot)
  /\ evaluation # Nothing /\ evaluation.verdict = "gap"

(* create_runtime_goal_completion_gap_task: a new task, or the one of this *)
(* criterion that is already there; the step follows, or the runtime is    *)
(* not restored.                                                           *)
OpenGap ==
  /\ MayRun /\ GapFound
  /\ \E s \in {[snapshot EXCEPT !.gap = "open"]} \cup {t \in {snapshot} : t.gap = "complete"} :
       ExecuteStep(s) \/ (snapshot' = s /\ UNCHANGED <<evaluation, judgment>>)
  /\ UNCHANGED contract

(* execute_verification_only_reentry, the final answer, and a new judgment *)
(* of all of it; a verification that fails saves nothing.                  *)
Verify ==
  /\ MayRun /\ snapshot # Nothing /\ snapshot.gap # "open"
  /\ judgment # Nothing /\ judgment.verdict = "verify"
  /\ Judge(snapshot)
  /\ UNCHANGED contract

RunNext == ReplaceHandoff \/ ChatElsewhere \/ Start \/ Resume \/ OpenGap \/ Verify

RunSpec == RunInit /\ [][RunNext]_runVars

-----------------------------------------------------------------------------
(* Properties.                                                             *)

(* A run that says its goal is completed says it of the handoff the        *)
(* session holds, on an evaluation of that handoff whose meaning was       *)
(* eligible, with the goal's tasks complete, no failure open and the goal  *)
(* complete in the saved runtime, however many runs, gaps, verifications   *)
(* and handoffs came before or come after (_phase3a_command_result,        *)
(* _archive_active_production_run_for_new_handoff).                        *)
CompletedIsAccepted ==
  judgment # Nothing /\ judgment.completed =>
    /\ judgment.of = handoff /\ contract = handoff
    /\ evaluation = [of |-> handoff, verdict |-> "eligible"]
    /\ snapshot # Nothing /\ snapshot.of = handoff
    /\ AllDone(snapshot) /\ Ready(snapshot) /\ snapshot.goalComplete

=============================================================================
