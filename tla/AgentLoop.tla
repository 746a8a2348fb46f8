------------------------------- MODULE AgentLoop -------------------------------
(***************************************************************************)
(* The loop of one chat turn (_chat_turn in                                *)
(* ai_tool/chat_interface/agent_turn.py, with LoopCounters and             *)
(* agent_stop_control): model calls, tool calls chosen by the model or by  *)
(* the runtime, the execution guards, the fuses that count failures and    *)
(* missing evidence, the limits, and the answer the turn ends with.        *)
(* What the orchestrator decides from its graph is a choice.               *)
(***************************************************************************)
EXTENDS Naturals, Sequences

CONSTANTS
  ToolCall,           \* a tool with its arguments
  SameFailureLimit,   \* agent_same_failure_limit
  StagnationLimit,    \* agent_stagnation_limit
  NoEvidenceLimit,    \* agent_no_evidence_limit
  MaxBatch,           \* bound on the tool calls of one response
  MaxResults          \* bound on the tool calls of the turn

ASSUME LoopAssumption ==
  /\ SameFailureLimit \in Nat \ {0} /\ StagnationLimit \in Nat \ {0} /\ NoEvidenceLimit \in Nat \ {0}
  /\ MaxBatch \in Nat \ {0} /\ MaxResults \in Nat

VARIABLES
  loopAt,      \* where the turn is
  stop,        \* stop_reason
  text,        \* the content of response; "unset" before the first one
  batch,       \* the tool calls still to make before the next round
  counters,    \* LoopCounters
  reply,       \* answer
  cancelled,
  error,
  warnOnly,    \* semantic_warning_enabled
  oneCall,     \* max_tool_calls_this_turn = 1
  overBudget,  \* does check_budget raise
  results      \* the tool results the counters have observed

loopVars == <<loopAt, stop, text, batch, counters, reply, cancelled, error,
              warnOnly, oneCall, overBudget, results>>
settings == <<warnOnly, oneCall>>

Guards     == {"graph_guard", "premise_guard"}
Fuses      == {"same_failure", "stagnation", "no_evidence"}
Pauses     == {"human_grill", "goal_completion_human", "approval_required"}
Breakdowns == {"budget", "cancelled", "runtime_error", "empty_response"}
StopReason == {"none", "capability_gap", "incomplete", "completed"}
                \cup Guards \cup Fuses \cup Pauses \cup Breakdowns

(* _SYSTEM_FAST_EXIT_STOP_REASONS.                                         *)
FastExit == Fuses \cup Breakdowns

(* observe_tool takes no evidence from a failure.                          *)
Result == {r \in [call : ToolCall, failed : BOOLEAN, gain : BOOLEAN] : ~ (r.failed /\ r.gain)}
NoResult == [call |-> "none"]

LoopTypeOK ==
  /\ loopAt \in {"top", "waiting", "text", "guards", "batch", "stopping", "closing", "over"}
  /\ stop \in StopReason
  /\ text \in {"unset", "empty", "content"}
  /\ batch \in 0..MaxBatch
  /\ counters \in [failures : Nat, stagnant : Nat, barren : Nat, last : Result \cup {NoResult}]
  /\ reply \in {"none", "model", "system"}
  /\ cancelled \in BOOLEAN /\ error \in BOOLEAN
  /\ warnOnly \in BOOLEAN /\ oneCall \in BOOLEAN /\ overBudget \in BOOLEAN
  /\ results \in Seq(Result)

(* A turn that still waits for the human skips the loop, and one whose     *)
(* model cannot call tools does not enter it.                              *)
LoopInit ==
  /\ stop \in {"none", "human_grill", "capability_gap"}
  /\ loopAt = IF stop = "none" THEN "top" ELSE "stopping"
  /\ text = "unset" /\ batch = 0 /\ reply = "none"
  /\ counters = [failures |-> 0, stagnant |-> 0, barren |-> 0, last |-> NoResult]
  /\ cancelled = FALSE /\ error = FALSE /\ overBudget = FALSE
  /\ warnOnly \in BOOLEAN /\ oneCall \in BOOLEAN
  /\ results = <<>>

-----------------------------------------------------------------------------
(* The pipeline observer's deadline passes.                                *)
PassDeadline ==
  /\ ~ overBudget /\ overBudget' = TRUE
  /\ UNCHANGED <<loopAt, stop, text, batch, counters, reply, cancelled, error, settings, results>>

At(from, to) == loopAt = from /\ loopAt' = to

StopBudget ==
  /\ loopAt \in {"top", "batch"} /\ (loopAt = "batch" => batch > 0)
  /\ overBudget
  /\ loopAt' = "stopping" /\ stop' = "budget" /\ batch' = 0
  /\ UNCHANGED <<text, counters, reply, cancelled, error, settings, overBudget, results>>

(* mutant: the budget is checked before tool calls only                    *)
Unlimited == TRUE

WithinBudget == ~ overBudget

(* The file selected after a grill, a definition, or a continuation.       *)
ChooseCall ==
  /\ WithinBudget /\ At("top", "guards")
  /\ batch' = 1
  /\ UNCHANGED <<stop, text, counters, reply, cancelled, error, settings, overBudget, results>>

AskModel ==
  /\ WithinBudget /\ At("top", "waiting")
  /\ UNCHANGED <<stop, text, batch, counters, reply, cancelled, error, settings, overBudget, results>>

(* A response without tool calls can get one from                          *)
(* pending_capability_action.                                              *)
Receive ==
  /\ loopAt = "waiting"
  /\ text' \in {"empty", "content"}
  /\ batch' \in 0..MaxBatch
  /\ loopAt' = IF batch' = 0 THEN "text" ELSE "guards"
  /\ UNCHANGED <<stop, counters, reply, cancelled, error, settings, overBudget, results>>

(* response_is_current is false after the model call.                      *)
ReceiveOutdated ==
  /\ At("waiting", "closing")
  /\ cancelled' = TRUE
  /\ UNCHANGED <<stop, text, batch, counters, reply, error, settings, overBudget, results>>

(* The model, a tool or the audit of its result raises.                    *)
RaiseInLoop ==
  /\ loopAt \in {"waiting", "text", "batch"}
  /\ loopAt' = "closing" /\ error' = TRUE /\ stop' = "runtime_error" /\ reply' = "none"
  /\ batch' = 0
  /\ UNCHANGED <<text, counters, cancelled, settings, overBudget, results>>

-----------------------------------------------------------------------------
(* A response in text.                                                     *)

(* accept_semantic_followup found one read.                                *)
FollowUp ==
  /\ At("text", "guards")
  /\ batch' = 1
  /\ UNCHANGED <<stop, text, counters, reply, cancelled, error, settings, overBudget, results>>

(* A hint to state the follow-up again, review tasks, a replan, and the    *)
(* actions of incomplete_goal_bridge_before_break: calls is reset at the   *)
(* top of the loop, so those are not made but found again or lost.         *)
GoOn ==
  /\ At("text", "top")
  /\ UNCHANGED <<stop, text, batch, counters, reply, cancelled, error, settings, overBudget, results>>

(* accept_final_response checks once more that the response is current.    *)
AcceptReply ==
  \/ reply' = (IF text = "content" THEN "model" ELSE reply) /\ UNCHANGED cancelled
  \/ cancelled' = TRUE /\ UNCHANGED reply

(* The last text is the answer, also of an incomplete goal.                *)
AcceptText ==
  /\ loopAt = "text"
  /\ stop' \in {"none", "incomplete"}
  /\ loopAt' = IF stop' = "none" THEN "closing" ELSE "stopping"
  /\ AcceptReply
  /\ UNCHANGED <<text, batch, counters, error, settings, overBudget, results>>

-----------------------------------------------------------------------------
(* Tool calls.                                                             *)

PassGuards ==
  /\ At("guards", "batch")
  /\ UNCHANGED <<stop, text, batch, counters, reply, cancelled, error, settings, overBudget, results>>

(* The guard accepts the last response, from whatever round it is ...      *)
StopAtGuard(reason) ==
  /\ At("guards", "stopping") /\ text # "unset"
  /\ stop' = reason /\ batch' = 0
  /\ AcceptReply
  /\ UNCHANGED <<text, counters, error, settings, overBudget, results>>

(* ... and raises if the model has not been called in this turn yet: the   *)
(* response is None and request_started_at is not bound.                   *)
RaiseAtGuard ==
  /\ At("guards", "closing") /\ text = "unset"
  /\ error' = TRUE /\ stop' = "runtime_error" /\ batch' = 0
  /\ UNCHANGED <<text, counters, reply, cancelled, settings, overBudget, results>>

(* A path that a complete listing does not have is answered at once.       *)
SkipAbsentPath ==
  /\ loopAt = "batch" /\ batch > 0
  /\ batch' = batch - 1
  /\ UNCHANGED <<loopAt, stop, text, counters, reply, cancelled, error, settings, overBudget, results>>

Same(result) == counters.last # NoResult /\ counters.last.call = result.call /\ counters.last.failed = result.failed

(* mutant: every failure counts, whatever call it is of                    *)
AnyFailureObserved(result) ==
  [failures |-> IF result.failed THEN counters.failures + 1 ELSE 0,
   stagnant |-> IF result.gain THEN 0
                ELSE IF Same(result) THEN counters.stagnant + 1 ELSE counters.stagnant,
   barren   |-> IF result.gain THEN 0 ELSE counters.barren + 1,
   last     |-> result]

(* LoopCounters.observe; a signature is a call with its status.            *)
Observed(result) ==
  [failures |-> IF ~ result.failed THEN 0 ELSE IF Same(result) THEN counters.failures + 1 ELSE 1,
   stagnant |-> IF result.gain THEN 0
                ELSE IF Same(result) THEN counters.stagnant + 1 ELSE counters.stagnant,
   barren   |-> IF result.gain THEN 0 ELSE counters.barren + 1,
   last     |-> result]

(* LoopCounters.stop_reason.                                               *)
Fuse(c) ==
  CASE c.failures >= SameFailureLimit -> "same_failure"
    [] c.failures < SameFailureLimit /\ c.stagnant >= StagnationLimit -> "stagnation"
    [] c.failures < SameFailureLimit /\ c.stagnant < StagnationLimit /\ c.barren >= NoEvidenceLimit -> "no_evidence"
    [] OTHER -> "none"

(* resolve_actual_stop_reason, the boundary of a task step, and the        *)
(* questions for the human.                                                *)
StopsAfter(fuse) ==
  IF fuse # "none" /\ ~ warnOnly THEN {fuse}
  ELSE IF oneCall THEN {"incomplete"} ELSE {"none", "human_grill", "goal_completion_human"}

Execute(result) ==
  /\ loopAt = "batch" /\ batch > 0 /\ WithinBudget
  /\ Len(results) < MaxResults
  /\ results' = Append(results, result)
  /\ counters' = Observed(result)
  /\ stop' \in StopsAfter(Fuse(counters'))
  /\ batch' = IF stop' = "none" THEN batch - 1 ELSE 0
  /\ loopAt' = IF stop' = "none" THEN "batch" ELSE "stopping"
  /\ UNCHANGED <<text, reply, cancelled, error, settings, overBudget>>

NextRound ==
  /\ At("batch", "top") /\ batch = 0
  /\ UNCHANGED <<stop, text, batch, counters, reply, cancelled, error, settings, overBudget, results>>

-----------------------------------------------------------------------------
(* The end.  Every stop reason the loop can set excludes further model     *)
(* calls (should_skip_agent_llm_after_stop): finalize_exit_answer answers  *)
(* if the model has not.                                                   *)
FinalizeExit ==
  /\ At("stopping", "closing")
  /\ reply' = IF reply = "none" THEN "system" ELSE reply
  /\ UNCHANGED <<stop, text, batch, counters, cancelled, error, settings, overBudget, results>>

(* mutant: an empty response of the model completes the turn               *)
EmptyCompletes == {"completed", "incomplete", "goal_completion_human"}

(* LLM_EMPTY_RESPONSE, or what the answer gate and finish decide.          *)
Conclusions ==
  IF reply = "none" THEN {"empty_response"} ELSE {"completed", "incomplete", "goal_completion_human"}

(* Confirmed tool gaps replace the reason of a turn that does not leave by *)
(* the fast exit.                                                          *)
Overridden(reasons) ==
  reasons \cup (IF reasons \cap FastExit = {} THEN {"approval_required"} ELSE {})

(* The stop reason is final, and a status report is the answer if there is *)
(* none and the turn does not pause for a question.                        *)
Close ==
  /\ At("closing", "over")
  /\ stop' \in Overridden(IF cancelled THEN {"cancelled"} ELSE IF stop = "none" THEN Conclusions ELSE {stop})
  /\ reply' = IF reply = "none" /\ stop' \notin {"human_grill", "goal_completion_human", "completed"}
              THEN "system" ELSE reply
  /\ UNCHANGED <<text, batch, counters, cancelled, error, settings, overBudget, results>>

LoopStep ==
  \/ StopBudget \/ ChooseCall \/ AskModel \/ Receive \/ ReceiveOutdated \/ RaiseInLoop
  \/ FollowUp \/ GoOn \/ AcceptText \/ PassGuards \/ RaiseAtGuard \/ SkipAbsentPath
  \/ NextRound \/ FinalizeExit \/ Close
  \/ \E reason \in Guards : StopAtGuard(reason)
  \/ \E result \in Result : Execute(result)

LoopNext == PassDeadline \/ LoopStep

(* The thread of the turn runs, and model and tool calls return.           *)
LoopSpec == LoopInit /\ [][LoopNext]_loopVars /\ WF_loopVars(LoopStep)

-----------------------------------------------------------------------------
(* Properties.                                                             *)

Suffix(n) == {i \in 1..Len(results) : i > Len(results) - n}
Repeats(i) == i > 1 /\ ~ results[i].gain
                /\ results[i].call = results[i - 1].call /\ results[i].failed = results[i - 1].failed
SinceGain(i) == \A j \in i..Len(results) : ~ results[j].gain

(* What the fuses promise, said of the results: the last ones are the same *)
(* failure, or none of them gave evidence, or too many since the last      *)
(* evidence repeat the one before.                                         *)
FuseDue ==
  \/ /\ Len(results) >= SameFailureLimit
     /\ \A i, j \in Suffix(SameFailureLimit) : results[i].failed /\ results[i].call = results[j].call
  \/ /\ Len(results) >= NoEvidenceLimit
     /\ \A i \in Suffix(NoEvidenceLimit) : ~ results[i].gain
  \/ \E S \in SUBSET {i \in 1..Len(results) : Repeats(i) /\ SinceGain(i)} :
       \E f \in [1..StagnationLimit -> S] : \A i, j \in 1..StagnationLimit : f[i] = f[j] => i = j

(* A fuse stops the turn exactly when the results call for it, in the      *)
(* middle of a response with several calls and across rounds, unless fuses *)
(* only warn (LoopCounters.observe, resolve_actual_stop_reason).           *)
FusesExact == (stop \in Fuses) <=> (~ warnOnly /\ FuseDue)

(* However a turn ends, with an empty response, an outdated one, an error, *)
(* a fuse, a guard or a pause, it has an answer (finalize_exit_answer).    *)
NeverSilent == loopAt = "over" => reply # "none"

(* A turn whose deadline has passed ends, whatever the model, the reviews  *)
(* and the replans propose (_pipeline_budget_stop_reason).                 *)
BudgetEnds == overBudget ~> loopAt = "over"

=============================================================================
