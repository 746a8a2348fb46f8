----------------------------- MODULE MCTurnAndTools -----------------------------
(***************************************************************************)
(* A chat turn and what it works with, side by side: the loop of the turn, *)
(* what the session owes between turns, the run of a goal handoff and its  *)
(* sandbox, the command line agent, the promotion runner, the test batches *)
(* and the test plans of a turn.  They share no variable, so each is       *)
(* explored alone: part is the one that runs, and the fairness is that of  *)
(* its own threads.                                                        *)
(***************************************************************************)
EXTENDS AgentLoop, PendingQuestions, ProductionRun, SandboxSession, CommandAgent, PromotionRunner,
        TestBatches, TestPlanRun

VARIABLE part

Alone(name, action, others) == part = name /\ action /\ UNCHANGED <<others, part>>

ToolsInit ==
  /\ part \in {"turn", "questions", "run", "sandbox", "agent", "promotion", "batches",
              "plans"}
  /\ LoopInit /\ QuestionInit /\ RunInit /\ SandboxInit /\ AgentInit /\ PromotionInit /\ BatchInit
  /\ PlanInit
  /\ part # "turn" => stop = "none" /\ ~ warnOnly /\ ~ oneCall
  /\ part # "sandbox" => source = [f \in File |-> Absent] /\ tree = source
  /\ part # "promotion" =>
       /\ tip = [b \in Branch |-> "absent"]
       /\ config = [target |-> CHOOSE b \in Branch : TRUE, mode |-> "diff_apply"]
  /\ part # "plans" => dirty = {} /\ focus = CHOOSE t \in WorkTask : TRUE

Turn(action) ==
  Alone("turn", action, <<questionVars, runVars, sandboxVars, agentVars, promoteVars, batchVars,
          planVars>>)
Questions(action) ==
  Alone("questions", action, <<loopVars, runVars, sandboxVars, agentVars, promoteVars, batchVars,
          planVars>>)
Run(action) ==
  Alone("run", action, <<loopVars, questionVars, sandboxVars, agentVars, promoteVars, batchVars,
          planVars>>)
Sandbox(action) ==
  Alone("sandbox", action, <<loopVars, questionVars, runVars, agentVars, promoteVars, batchVars,
          planVars>>)
Agent(action) ==
  Alone("agent", action, <<loopVars, questionVars, runVars, sandboxVars, promoteVars, batchVars,
          planVars>>)
Promotion(action) ==
  Alone("promotion", action, <<loopVars, questionVars, runVars, sandboxVars, agentVars, batchVars,
          planVars>>)
Batches(action) ==
  Alone("batches", action, <<loopVars, questionVars, runVars, sandboxVars, agentVars, promoteVars,
          planVars>>)
Plans(action) ==
  Alone("plans", action, <<loopVars, questionVars, runVars, sandboxVars, agentVars, promoteVars,
          batchVars>>)

ToolsNext ==
  \/ Turn(LoopNext)
  \/ Questions(QuestionNext)
  \/ Run(RunNext)
  \/ Sandbox(SandboxNext)
  \/ Agent(AgentNext)
  \/ Promotion(PromotionNext)
  \/ Batches(BatchNext)
  \/ Plans(PlanNext)

toolsVars ==
  <<part, loopVars, questionVars, runVars, sandboxVars, agentVars, promoteVars, batchVars, planVars>>

ToolsSpec ==
  /\ ToolsInit /\ [][ToolsNext]_toolsVars
  /\ WF_toolsVars(Turn(LoopStep))
  /\ \A j \in Job : WF_toolsVars(Batches(WorkJob(j)))

(* Every variable of the eight parts has its type.                         *)
ToolsTypeOK ==
  /\ LoopTypeOK /\ QuestionTypeOK /\ RunTypeOK /\ SandboxTypeOK
  /\ AgentTypeOK /\ PromotionTypeOK /\ BatchTypeOK /\ PlanTypeOK

=============================================================================
