------------------------------ MODULE CommandAgent ------------------------------
(***************************************************************************)
(* The tool loop of agent.py with the states of AgentRuntime               *)
(* (tools/ai/agent_runtime.py): model calls in rounds, the tools of a      *)
(* response one after the other, the recovery evaluation of a failure,     *)
(* the tool proposal with its own model call, and one correction of a      *)
(* proposal that does not validate.                                        *)
(***************************************************************************)
EXTENDS Naturals, Sequences

CONSTANTS
  MaxToolRounds,  \* MAX_TOOL_ROUNDS
  MaxCallsAtOnce  \* bound on the tool calls of a response

ASSUME AgentAssumption == MaxToolRounds \in Nat \ {0} /\ MaxCallsAtOnce \in Nat \ {0}

VARIABLES
  agentAt,       \* where the process is
  agentState,    \* AgentRuntime.current_state
  agentTool,     \* is AgentRuntime.current_tool set
  messages,      \* the conversation the model sees
  round,         \* the rounds begun
  callsLeft,     \* the tool calls of the response still to make
  proposal,      \* proposal_called
  recoveryStop   \* _agent_recovery_stop

agentVars == <<agentAt, agentState, agentTool, messages, round, callsLeft, proposal, recoveryStop>>

(* The states the process enters; a partial result counts as TOOL_SUCCESS. *)
AgentRuntimeState ==
  {"IDLE", "THINKING", "TOOL_CALL_REQUESTED", "TOOL_RUNNING", "TOOL_SUCCESS", "TOOL_FAILED",
   "OBSERVING", "COMPLETED", "ERROR"}
Message == [role : {"assistant", "tool", "user"}, calls : 0..MaxCallsAtOnce]

Assistant(calls) == [role |-> "assistant", calls |-> calls]
ToolResult == [role |-> "tool", calls |-> 0]
Instruction == [role |-> "user", calls |-> 0]

AgentTypeOK ==
  /\ agentAt \in {"round", "asking", "calls", "running", "observed", "proposing", "validating",
                  "correcting", "ended"}
  /\ agentState \in AgentRuntimeState
  /\ agentTool \in BOOLEAN
  /\ messages \in Seq(Message)
  /\ round \in 0..MaxToolRounds
  /\ callsLeft \in 0..MaxCallsAtOnce
  /\ proposal \in BOOLEAN /\ recoveryStop \in BOOLEAN

AgentInit ==
  /\ agentAt = "round" /\ agentState = "IDLE" /\ agentTool = FALSE
  /\ messages = <<Instruction>>
  /\ round = 0 /\ callsLeft = 0
  /\ proposal = FALSE /\ recoveryStop = FALSE

-----------------------------------------------------------------------------
Moves(from, to) == agentAt = from /\ agentAt' = to

(* AgentRuntime.transition.                                                *)
Transition(state) ==
  /\ agentState' = state
  /\ agentTool' = (state = "TOOL_RUNNING")

AskRound ==
  /\ round < MaxToolRounds /\ Moves("round", "asking")
  /\ round' = round + 1
  /\ Transition("THINKING")
  /\ UNCHANGED <<messages, callsLeft, proposal, recoveryStop>>

(* The rounds are used up: the last response is the answer, with tool      *)
(* calls or not.                                                           *)
RunOut ==
  /\ round = MaxToolRounds /\ Moves("round", "validating")
  /\ UNCHANGED <<agentState, agentTool, messages, round, callsLeft, proposal, recoveryStop>>

(* A response without tool calls is the answer; the recovery evaluation    *)
(* can say stop.                                                           *)
Answer ==
  /\ Moves("asking", "validating")
  /\ messages' = Append(messages, Assistant(0))
  /\ recoveryStop' \in BOOLEAN
  /\ UNCHANGED <<agentState, agentTool, round, callsLeft, proposal>>

RequestTools(n) ==
  /\ Moves("asking", "calls")
  /\ messages' = Append(messages, Assistant(n))
  /\ callsLeft' = n /\ proposal' = FALSE
  /\ Transition("TOOL_CALL_REQUESTED")
  /\ UNCHANGED <<round, recoveryStop>>

RunTool ==
  /\ callsLeft > 0 /\ Moves("calls", "running")
  /\ callsLeft' = callsLeft - 1
  /\ Transition("TOOL_RUNNING")
  /\ UNCHANGED <<messages, round, proposal, recoveryStop>>

(* mutant: only a result that succeeded goes to the model                  *)
ShownSuccess(state) == IF state = "TOOL_FAILED" THEN messages ELSE Append(messages, ToolResult)

Shown(state) == Append(messages, ToolResult)

(* A result, also of a tool that failed or was denied, goes to the model.  *)
ReturnTool ==
  /\ Moves("running", "observed")
  /\ \E state \in {"TOOL_SUCCESS", "TOOL_FAILED"} : messages' = Shown(state) /\ Transition(state)
  /\ UNCHANGED <<round, callsLeft, proposal, recoveryStop>>

(* The tool raises or is not registered, or the model does not answer:     *)
(* error_boundary notes it and the process ends.                           *)
RaiseInAgent ==
  /\ agentAt \in {"asking", "running", "proposing", "correcting"} /\ agentAt' = "ended"
  /\ Transition("ERROR")
  /\ UNCHANGED <<messages, round, callsLeft, proposal, recoveryStop>>

(* A failure that the recovery evaluation stops ends the loop, whatever    *)
(* calls of the response are left.                                         *)
StopRecovery ==
  /\ agentState = "TOOL_FAILED" /\ Moves("observed", "validating")
  /\ Transition("OBSERVING")
  /\ recoveryStop' = TRUE
  /\ UNCHANGED <<messages, round, callsLeft, proposal>>

Observe ==
  /\ Moves("observed", "calls")
  /\ Transition("OBSERVING")
  /\ proposal' \in {proposal, TRUE}
  /\ UNCHANGED <<messages, round, callsLeft, recoveryStop>>

EndCalls ==
  /\ callsLeft = 0 /\ ~ proposal /\ Moves("calls", "round")
  /\ UNCHANGED <<agentState, agentTool, messages, round, callsLeft, proposal, recoveryStop>>

(* create_tool_proposal was among the calls: instructions, one model call  *)
(* without tools, and the loop is over.                                    *)
AskProposal ==
  /\ callsLeft = 0 /\ proposal /\ Moves("calls", "proposing")
  /\ messages' = Append(messages, Instruction)
  /\ Transition("THINKING")
  /\ UNCHANGED <<round, callsLeft, proposal, recoveryStop>>

ReceiveProposal ==
  /\ Moves("proposing", "validating")
  /\ messages' = Append(messages, Assistant(0))
  /\ UNCHANGED <<agentState, agentTool, round, callsLeft, proposal, recoveryStop>>

(* validate_proposals rejects the JSON of the answer: it is asked for once *)
(* more, also after the recovery evaluation said stop.                     *)
AskCorrection ==
  /\ Moves("validating", "correcting")
  /\ messages' = Append(messages, Instruction)
  /\ Transition("THINKING")
  /\ UNCHANGED <<round, callsLeft, proposal, recoveryStop>>

EndAgent ==
  /\ agentAt' = "ended"
  /\ IF recoveryStop THEN UNCHANGED <<agentState, agentTool>> ELSE Transition("COMPLETED")
  /\ UNCHANGED <<round, callsLeft, proposal, recoveryStop>>

Accept == agentAt = "validating" /\ EndAgent /\ UNCHANGED messages

ReceiveCorrection ==
  agentAt = "correcting" /\ EndAgent /\ messages' = Append(messages, Assistant(0))

AgentNext ==
  \/ AskRound \/ RunOut \/ Answer \/ RunTool \/ ReturnTool \/ RaiseInAgent \/ StopRecovery
  \/ Observe \/ EndCalls \/ AskProposal \/ ReceiveProposal \/ AskCorrection
  \/ Accept \/ ReceiveCorrection
  \/ \E n \in 1..MaxCallsAtOnce : RequestTools(n)

AgentSpec == AgentInit /\ [][AgentNext]_agentVars

-----------------------------------------------------------------------------
(* Properties.                                                             *)

(* Whenever the model is asked, each tool call of its responses has its    *)
(* result right after it, failed or not, unless the recovery evaluation    *)
(* stopped a response half way (the loop of agent.py).                     *)
AnsweredBeforeAsking ==
  agentAt \in {"asking", "proposing", "correcting"} /\ ~ recoveryStop =>
    \A i \in 1..Len(messages) : \A k \in 1..messages[i].calls :
      i + k <= Len(messages) /\ messages[i + k] = ToolResult

=============================================================================
