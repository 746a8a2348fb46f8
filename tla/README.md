# A verification development of the local AI agent

The repository is a local agent: a language model served by Ollama, a chat server
with a browser page, a runtime that records what a request needs, which evidence was
gathered and which tasks are complete, and programs beside the chat: a command line
agent, a promotion runner, sandboxes and gated test runs.  This directory holds TLA+
modules of the parts whose behaviour is hard to test, the TLC configurations that
check them on small instances, and the theorems TLAPS checks about them.

## The system

| Component | State | Operations | Interacts with |
|---|---|---|---|
| Task runtime (`tools/ai/task_runtime.py`) | goals, tasks, evidence, claims, actions, failures, tool gaps, event log; files written by `save` | `add_goal`, `add_task`, `record_action`, `add_evidence`, `add_claim`, `support_completion_conditions`, `evaluate_task`, `evaluate_task_from_evidence`, `evaluate_goal`, `replan_add_task`, `save`, `load` | called by the orchestrator |
| Task orchestrator (`chat_interface/task_orchestration.py`) | a runtime, the current task and goal, confirmed clarifications, the tool observations of the turn | `initialize`, tool observation handlers, `record_local_review`, `gate_answer`, `finish`, the execution guards | one per chat turn, restored from the completion snapshot of the previous one |
| Acceptance (`production_verification_acceptance.py`) | verdicts of acceptance criteria | advances to the next handoff task, closes the root goal | runtime |
| Decision premises (`human_decision_premise.py`, `decision_premise_revalidation.py`) | `decision_premises` and `revalidation` of every task | staleness, verdicts | a superseded decision starts it |
| Corrective and replacement tasks (`premise_corrective_replan.py`, `premise_pending_replacement.py`) | tasks added by a replan, `superseded_by_task_id`, `depends_on` | add a successor for a complete or a pending task | verdicts of the premises and of the waves |
| Change propagation (`task_upstream_supersession_revalidation.py`, `task_change_propagation_guard.py`, `task_execution_guard.py`) | a wave row per task, the guard of the graph | holds, verdicts, successors, waves until nothing changes | successors of the previous row |
| Goal continuation (`goal_continuation_resume.py`) | the continuation packet | restore, move to an open task, apply the chosen capability | runtime, guards |
| Chat turn (`chat_interface/agent_turn.py`) | messages of the turn, counters, the questions and packets of the session | dispatch of a message; one turn: model calls, tool calls, gates, finish, save; `/run` of a goal handoff | activity row, session file, orchestrator, mission memory |
| Boundary, requirement and production questions (`boundary_grill.py`, `requirement_resolution_grill.py`, `grill_me_loop.py`) | one packet each in the session | ask, classify a reply, reroute | chat turn |
| Goal handoff and completion gaps (`goal_handoff_runtime_bridge.py`, `runtime_goal_completion_gap_*.py`) | handoff, contract, saved runtime, evaluation, judgment of a run | prepare, restore, find a gap, open its task, archive | `/run`, acceptance |
| Turn activity (`activity_status.py`) | one row per session, under a lock | begin, update, cancel, snapshot, finish | written by turns, read by polling requests |
| Session file (`chat_session.py`) and server (`server.py`) | one JSON file per session | load, model change, save; one thread per request | turns |
| Mission memory (`mission_memory/`) | mission, evidence and execution files | bind, restore clarifications, `persist_chat_execution` | end of a turn |
| Test batches (`test_batches.py`, `agent_test_runner.py`) | jobs, under a lock | start, progress, poll | a worker thread per job |
| Test safety (`tools/test_safety/`) | nothing but the packets it writes | evaluate, gate, authorize, launch, compare git, close | the tool `run_test_plan` of the orchestrator |
| Sandbox (`tools/ai/sandbox_workspace.py`) | a worktree and its branch | create, discard | runtime of a handoff |
| Command line agent (`agent.py`, `tools/ai/agent_runtime.py`) | the messages and the state of `AgentRuntime` | rounds of model and tool calls, proposals, recovery evaluation | tools, context monitor |
| Promotion runner (`tools/promotion_runner/promote.py`) | branches and one worktree of the repository | `run_promote` | git |
| Not modelled | see the last but one section | capability matrix, spec proposals, policy, tool providers, git guard, context monitor, tool builder, file tools, experiments | |

The interactions that matter here: a chat request runs in a thread of its own and
calls `run_chat_turn`; the message is dispatched among the questions the session
waits for, a continuation, a handoff and a new goal; the turn restores or builds an
orchestrator with its runtime, loops over model calls and tool calls, and ends with
`gate_answer`, `finish`, `finish_turn`, `persist_chat_execution` and the save of the
session.  A turn in which the user confirms a changed decision runs, before its own
work, the revalidation of the premises, the correctives, the replacements and the
propagation waves on the same task graph.  Turns of one session in different requests
share the activity row and the session file; turns of one mission share its store.

### What is hard, and what makes each part correct

- Task runtime: five handlers write the same three fields of a task
  (`condition_status`, `satisfied_conditions`, `condition_evidence`), each from a
  different source, and completed tasks are reopened.  Correct means that COMPLETE
  always rests on authoritative evidence, that a goal is COMPLETE only over complete
  work when `finish` says so, and that a verified claim stays grounded.
- Premises, replans and waves: each handled decision adds tasks, redirects
  dependencies and judges tasks again, and the next decision finds the results.
  Correct means that the graph stays acyclic and free of dead ends, each task has one
  successor, every dependent is examined, the waves come to rest, and nothing runs on
  premises that are not validated.
- Turn activity: two turns of one session write one row.  Correct means that late
  answers of the older are dropped and nothing it does hurts the newer.
- Loop of a turn: the model, the runtime, reviews and replans all keep it going, and
  fuses, guards, pauses, errors and the deadline end it.  Correct means that a fuse
  fires exactly when the results call for it, that a turn past its deadline ends, and
  that every way out has an answer.
- Questions of a session: eight branches can ask, one block rewrites all flags.
  Correct means one question at a time, none lost to an ordinary turn, and no goal
  started for a reply.
- `/run`: contract, snapshot, evaluation and judgment are kept between commands while
  handoffs, missions and gaps change.  Correct means that "completed" is said only of
  the handoff the session holds, on an evaluation that allows it.
- Session file: requests load, work for minutes and write the whole file in place.
  Correct means that only overlap loses a change and only a crash the file.
- Mission store: one turn writes several files, without a lock and with one temporary
  name.  Correct means that a crash between any two steps keeps the mission readable,
  its decisions, its numbering and the citations of its evidence.
- Test batches: a poll shares a list with the worker.  Correct means one worker, a
  completed answer that shows all runs, and that a started batch ends.
- Test safety: calls, refused resumes, packets and the worktree come in any order.
  Correct means that a condition is supported only by a run that passed, had a packet
  for its action and plan and stayed inside its scope as far as that packet asks, and
  that the tests of an action run once.
- Sandbox, promotion, command line agent: they read or write something while it
  changes or after an earlier run was killed.  Correct means that what they hand out,
  report or show to the model is what they say it is.

## The modules

| Module | Models | State | Actions |
|---|---|---|---|
| `TaskRuntime` | `tools/ai/task_runtime.py`; `gate_answer`, `finish` and the claims of `task_orchestration.py`; `advance_runnable_handoff_task` | `parent`, `goals`, `goalStatus`; `tasks`, `taskGoal`, `conditions`, `taskStatus`; `marked` (`condition_status`), `satisfied` (`satisfied_conditions`), `support` (`condition_evidence`), `evidenceIds`; `known`, `authoritative`, `supports` of the evidence; `claims`; `gate`, how the last answer went out | one per method, plus `GateAnswer` (the last part of `gate_answer`), `GateOwnText` (its five branches before that), `Finish`, `FinishHandoff` |
| `DecisionPropagation` | the premise, replan, wave and guard modules and `advance_to_open_task` | the task graph (`deps`, `status`, `origin`, `source`, `supersededBy`), the premise row (`premises`, `unvalidated`, `verdict`), the wave row (`upstream`, `judged`, `waveVerdict`, `consumed`), `current`, `guard`, and the program counter and locals of the turn that handles a change (`pc`, `rows`, `fresh`, `run`) | `Execute`, `FinishTurn`, `Resume` between changes; `Supersede`; then `Revalidate`, `Correct`/`Corrected`, `Replace`/`Replaced`, `Wave`, `Consume`, `EndWave`, `StopRun` |
| `TurnActivity` | `activity_status.py` and the places of `agent_turn.py` that call it | `row`, the stage, answer and model calls of each turn | one per call of the row's functions and per way out of the loop |
| `AgentLoop` | `_chat_turn`, `LoopCounters`, `agent_stop_control.py` | where the turn is, `stop`, `text` (`response`), `batch` (`calls`), `counters`, `reply` (`answer`), the settings, `results` | one per branch of the loop: model call and its answers, calls chosen by the runtime, guards, each tool call, each way out, `Close` |
| `PendingQuestions` | the dispatch of `run_chat_turn` and the fields it rewrites | `asked`, `continuation`, `issued` | one per kind of message: command, handoff, continuation, reply to each question, new goal, chat |
| `ProductionRun` | `_phase3a_command_result` and the archive of a run | `handoff`, `archived`, `bound`, `contract`, `snapshot`, `evaluation`, `judgment` | `ReplaceHandoff`, `ChatElsewhere` between runs; `Start`, `Resume`, `OpenGap`, `Verify` |
| `SessionLog` | what a reader of a session expects of its file (abstract) | `log`, `readable` | `Record`, `End`, `Overlap`, `Overwrite` |
| `SessionFile` | `chat_session.py` and the requests of `server.py` that use it | `file`, `copy` and stage of each request, `open` | `LoadSession`, `PrepareSession`, `ShowSession`, `RecordTurn`, `ChangeModel`, `RefuseRequest`, `TruncateFile`, `FillFile`, `EndServer` |
| `MissionStore` | `mission_memory/store.py`, `validate.py`, `chat_persist.py`, `clarifications.py` | `inode`, `target`, `tmp`, `fd` of the mission file, `evidence`, `recorded`, and what each execution holds in memory | `BindExecution`, the eight steps of `persist_chat_execution` (`Persist`), `EndPersisting` |
| `TestBatches` | `test_batches.py` and `run_batch` | the job row (`jobStatus`, `jobCurrent`, `runStatuses`), `worker`, `pollAnswer` | `StartJob`, the steps of `WorkJob`, `CopyJob`, `SendJob` |
| `TestPlanRun` | `execute_test_plan_action` and its handlers in `task_orchestration.py`, with `tools/test_safety` | `records` (`ActionRecord`), `waiting` (`_run_test_plan_continuation`), `attempt`, `focus`, `dirty`, `support` | `CallAgain`, `CallNew`, `EndTests`, and around them `ChangeTask`, `ChangeFile` |
| `SandboxSession` | `create_dedicated_sandbox_session` | `source`, `head`, `tree` of the source worktree, `before`, `toCopy`, `copy` of the creation | the steps of the creation, and `EditSource`, `CommitSource` beside it |
| `CommandAgent` | the loop of `agent.py` and `AgentRuntime` | `agentState`, `agentTool`, `messages`, `round`, `callsLeft` | one per step of a round, of the proposal and of the correction |
| `PromotionRunner` | `run_promote` with `--apply` | `tip` of the branches, `worktree`, `config`, `report` | the steps of a run with their failures, `KillRun` |
| `MC...` | | instances, symmetry and the seeded graphs for TLC; compositions of modules that run side by side | |
| `..._proofs` | | theorems and their proofs; `Server_proofs` and `Tools_proofs` also those of the compositions | |

`MCServer` puts the four things that request threads share side by side
(`TurnActivity`, `SessionFile`, `TestBatches`, `MissionStore`), `MCTurnAndTools` the
turn and what it works with.  The parts of each share no variable, so every behaviour
of the whole is an interleaving of behaviours of the parts and no property of a part
depends on another; `part` selects the one TLC explores.  The parts that do meet in
one state are one module: the session requests and the model changes in
`SessionFile`, the handlers of one runtime in `TaskRuntime`, the steps of one handled
change in `DecisionPropagation`.

How the models abstract:

- Texts are model values; conditions, evidence, goals and decision keys are members
  of small sets.  The model's and the judge's answers are arbitrary: every verdict,
  certainty, choice of evidence and packet brought with a call is a nondeterministic
  choice, so nothing depends on a language model behaving well.  The same holds for git, for the tests that run
  and for the people who edit files.
- `DecisionPropagation` numbers tasks in the order of creation, because the code
  allocates ids from a counter and iterates in that order; the wave sorts ids as
  text, which is the same order for the ids below ten used here.  It keeps of a
  task's completion only the status; `Execute(TRUE)` and `FinishTurn(TRUE)` stand for
  an evaluation that finds it complete, so the two modules meet in
  `taskStatus`/`status`.  The steps of one handled change are separate actions, in
  the order of the code, although nothing interleaves with them: a turn handles a
  change alone.
- A superseding decision is new, so `unvalidated` holds the keys whose premises were
  validated against an older one.  The two outcomes that ask for a revision are one
  value because no operation tells them apart.
- `GateAnswer` and `GateOwnText` of `TaskRuntime` choose the branch of `gate_answer`
  and whether the goal summary is ready: both come from `goal_read_target`, which the
  selection of read targets keeps and the model does not have.
- `TurnActivity` has one session, the rows being independent.  A lookup and its use
  under one lock are one step; a check and a later update are two.  The statuses in
  which a turn goes on are one value, and so are those in which it ended normally.
- `AgentLoop` takes from the orchestrator only whether its guards stop, which calls
  it chooses and whether it asks the human.  A result is a call, whether it failed
  and whether it gave evidence, which is all the counters look at.
- `PendingQuestions` makes every message one step: the session is read once, and
  what the turn does meanwhile is in `AgentLoop`.  A packet is the mission it is of.
- `ProductionRun` keeps of a runtime how many seeded tasks are open, whether the task
  of a completion gap is, whether a failure is unresolved and whether the goal is
  complete.  A `/run` that is refused changes nothing and is no action.
- `SessionFile` keeps of a session which requests have recorded something in it.  A
  save is two steps, because the file is truncated and then filled.
- `MissionStore` names a mission file for the execution that created it, because a
  rename moves the file and a later open writes into whichever file the shared
  temporary name stands for.  Files behave as under POSIX: a rename replaces its
  target at once.
- `TestPlanRun`: a plan is its fingerprint with what the evaluation and the gate make
  of it.  A packet is what the code reads of one that says AUTHORIZED: its action, its
  plan and whether it requires the git check.  It comes with the arguments of a call,
  so every call may bring any packet; one that verifies takes the place of the gate's,
  for a new action, a blocked plan and a plan the gate would pass alike, and one that
  does not verify changes nothing.  A git that fails lists nothing, and the
  listing loses the first letter of its first path, so a path can be reported that is
  not new; both are choices of the model.
- `SandboxSession`: a file is a path git status can list; a commit takes all of them.
- `PromotionRunner`: a branch holds the base, the delta, or paths of the delta alone.

Definitions whose comment says "mutant" are not part of a specification: they state
what a plausible mistake would look like, for checking that a property notices it.
Variables called ghost or history record what a property speaks about (who had loaded
before a save, which edits came when); no guard reads them but to bound their growth.

## The runs

| Run | Instance | Checks | What it shows |
|---|---|---|---|
| `TaskCompletion.cfg` | 2 goals, 2 tasks, 2 conditions, 1 evidence, on the chat graph and on the handoff graph | `TypeOK`, `CompleteTaskEvidenced`, `FinishSound`, `RootClosedByAcceptance` | In every order of evidence, support, evaluation, reopening and finish, completion is evidenced, `finish` is right about the root, and on a handoff graph it moves on and never closes the root. Two tasks and a child goal are the least in which the order of evaluation in `finish` matters. |
| `TaskClaims.cfg` | 1 task, 2 evidence, 1 claim by callers beside those of support | `VerifiedClaimsGrounded`, `EvidencedConditionClaimed`, `ConfirmedAnswerEvidenced` | Claims by support, by review and by the gate compete for one text, before and after the support; two evidence records allow a mixed citation, and a doubtful one linked to an evidenced task. |
| `ChangePropagation.cfg` | all ordered graphs of 3 tasks and the reversed chain, 1 change, `max_waves` 2 | `DependenciesAcyclic`, `NoDependencyOnSuperseded`, `LineageSound`, `ConvergedExaminesDependents`, `HandlingEnds` | One change through every graph of three tasks, cut off by the wave limit in some. 9 task ids are never used up. |
| `ChangeTwice.cfg` | graphs of 2 tasks, 2 changes, `max_waves` 8 | `TypeOK`, `CurrentNotSuperseded`, `StaleTasksBlocked`, `PropagationConverges` | The second change meets replacements, correctives and holds of the first, and tasks worked on in between; no run has as many waves as there are seeded tasks, so the wave limit is never reached and convergence is the code's own. |
| `Server.cfg` | activity: 3 turns, 1 model call each; session: 2 chats, 1 open, 1 model change; batches: 2 jobs, 1 poll, 5 runs; mission: 3 executions | `ServerTypeOK`, `OutdatedDiscarded`, `DiscardedOnlyOutdated`, `EndedTurnSettled`, `LostOnlyToOverlap`, `OneWorker`, `CompletedShowsAllRuns`, `CreatorCites`, `SequencesInOrder`, `DecisionsKept`, `FileIsLog` | What request threads share, in every interleaving and with the server ending between any two steps. Three turns are a newest one, one that it replaced and one replaced before; three executions are two that collide and one that reads what they left. |
| `TurnAndTools.cfg` | see below | `ToolsTypeOK`, `FusesExact`, `NeverSilent`, `OneQuestion`, `NotTalkedOver`, `CompletedIsAccepted`, `SnapshotOfBase`, `AnsweredBeforeAsking`, `PassMeansPromoted`, `ClosedConditionEarned`, `ActionRunsOnce`, `BudgetEnds`, `StartedEnds` | The turn, the questions, the run of a handoff, the sandbox, the command line agent, the promotion runner, a batch and the test plans, each in every behaviour of its own. |
| `TaskClaimOverride.cfg` | 1 task, 2 claims | `UnverifiedNeverOverrides` (violated) | see Findings |
| `HeldWorkUncovered.cfg`, `HeldWorkForgotten.cfg` | 2 and 3 tasks, 2 changes | `GuardCoversBlockedWork`, `GuardKeepsHeldWork` (violated) | see Findings |
| `CancelLost.cfg` | 1 turn | `CancelHonoured` (violated) | see Findings |
| `PendingReplySeeds.cfg` | 2 missions | `ReplyStartsNoGoal` (violated) | see Findings |
| `BlockedActionResumed.cfg` | 3 plans, one that needs a human | `ResumeKeepsAction` (violated) | see Findings |

The instances of `TurnAndTools.cfg`:

- the turn: 2 tool calls with any results, limits 2, 2 and 4 for the same failure, for
  stagnation and for missing evidence, 2 calls in a response, 4 in the turn.  Four
  results are enough to reach every limit, to reset a counter and to reach it again;
- the questions: 2 missions, so that a packet can be of another mission than the turn;
- the run of a handoff: 3 handoffs, 2 seeded tasks: one is archived, one replaced
  while it runs, one new;
- the sandbox: 2 files with one content or none, 2 edits of each after the status was
  read, 1 commit: an edit that is undone, and a commit before, between and after the
  checks;
- the command line agent: 3 rounds, 2 calls in a response;
- the promotion runner: 2 branches, any number of runs;
- the batches: 1 job, 1 poll, 5 runs, one of the numbers the code allows (1, 5, 10);
  the interplay of two jobs is in `Server.cfg`;
- the test plans: 3 plans (one whose gate asks for a human, one that it blocks, one
  that it passes with the git check), any packet with each call, with the git check and
  without, 2 tasks, 2 files, one of them inside the scope, 2 actions.

Which starting states are explored: the settings of a turn, the contents of a sandbox
source, the branches of a promotion and the files that are dirty are arbitrary for the
part that runs and fixed for the others.  `TaskCompletion` is constrained to graphs
whose goals hang below the root, as the orchestrator builds them, and to tasks without
linked evidence ids, which completion never reads (`CompletionShape`); `TaskClaims` and
`TaskClaimOverride` to one task with at most one condition, no seeding, and evidence
that supports every condition or none (`ObservationGraph`).

Deadlock is not checked where everything may be over: all turns, requests, jobs and
executions of `Server`, the turn, the creation and the agent of `TurnAndTools`, and
their bounds; the single turn of `CancelLost`; and `PendingReplySeeds`.

Bounds: `MaxClaims` (claims that no support records), `MaxTasks` (task ids), `MaxChanges`
(superseded decisions), `MaxCalls` (model calls of a turn on its row), `MaxBatch` and
`MaxResults` (tool calls of a response and of a turn), `MaxCallsAtOnce` (the same for
the command line agent), `MaxSeeds` (tasks of a handoff), `MaxEdits` and `MaxCommits`
(what happens beside a sandbox), `MaxActions` (test plan actions of a turn) are bounds
of the model.  `MaxWaves` is the code's `max_waves`, 32 by default; `MaxToolRounds` its
`MAX_TOOL_ROUNDS`; `SameFailureLimit`, `StagnationLimit` and `NoEvidenceLimit` are
settings of the agent; `Runs` is
the number of runs of a batch.

Fairness:

- `HandlingEnds` (a change is handled) assumes weak fairness of the steps that handle
  it: they run in one thread, in sequence, without waiting for anything but the judge.
  An answer of the judge that cannot be used becomes the verdict `cannot_determine`; a
  call to the judge that raises ends the request with an error, and the model leaves
  that out, as it does a turn without a judge, which skips the judging.
- `BudgetEnds` (a turn past its deadline ends) assumes weak fairness of the steps of
  the turn's thread: a model call returns or raises within its hard timeout
  (`tools/system/llm.py`), and a tool is taken to return.  That the deadline passes is
  not assumed; a turn started without one has no such promise.
- `StartedEnds` (a started batch ends) assumes weak fairness of the worker of each job,
  a thread whose runs are chat turns with limits of their own.

When and whether users change decisions, send messages or poll is never assumed.

## Findings

1. `claim_override`: `effective_claims` says an unverified claim can never override an
   observed or confirmed record.  `add_claim` clears `verified` but keeps the
   certainty, and the ranking looks at the certainty first.
2. `held_work_uncovered`: the guard is said to be true while held work is unresolved.
   A replacement task that a wave finds outdated counts as already replaced, gets
   neither successor nor hold, and stays blocked with a resolved guard.
3. `held_work_forgotten`: the guard is called persistent, but a run for another change
   overwrites it.
4. `cancel_lost`: the test policy says that responses after a cancellation are
   rejected.  The cancellation is a status that the turn's next activity overwrites.
   `request_cancel` has no caller in the product today; there a turn is cancelled by
   a newer one, for which the theorems below hold.
5. `pending_reply_seeds`: `_blocks_new_goal_seed` says that the reply to a pending
   question must not start a goal.  It does not look at the packets of the boundary and
   the decision change questions, so the text of such a reply is decomposed into a goal
   of its own before the dispatch takes it as the answer.
6. `blocked_action_resumed`: the closure report of the human decision says that a
   resume continues the same action and makes no second record.  A resume without a
   valid packet, or a call with another plan in between, clears the continuation; the
   next call with the same plan is a second action.

What the models also show, and no document of the repository settles:

- Overlapping requests on a session lose the change saved first (`LostOnlyToOverlap`
  says that nothing else does), and overlapping executions of a mission can publish a
  half-written mission file or take one number twice.
- A guard that stops a turn whose first calls were chosen without the model raises,
  because there is no response to accept: the turn reports `RUNTIME_ERROR`
  (`RaiseAtGuard`).  An exception outside the loop leaves the activity row of the turn
  in a status that goes on.
- A job whose `Thread.start` raises stays `running`, and no batch can be started again.
- A `/run` refuses as soon as any chat has moved `last_mission_id`, and a run whose
  acceptance failed for another reason than a gap has no way to be judged again.  The
  sandbox of an archived run is not discarded.
- A promotion takes over a worktree that an earlier run left on another branch or
  without its files, and can exit with 0 then (`reused`).
- `gate_answer` hands the model's answer out without the "unconfirmed" notice in three
  branches that do not look at the conditions: below the question of the grill, below
  the close of an unresolved goal, and, when the summary is ready, below the note of a
  provisional selection.  What it then claims, as OBSERVED, is its own text, and the
  metadata it returns says verified even if `add_claim` has cleared that.
  `ConfirmedAnswerEvidenced` speaks of the answers that go out alone.
- The authorization packet of a test plan is taken from the arguments of the tool call
  (`extract_optional_authorization_packet`, which calls it resume-only, while a new
  action takes one too; the turn passes none of its own), and what is checked is that
  it says AUTHORIZED and names the action and the fingerprint.  It then stands in for
  the evaluation and the gate and says itself whether the git check is required.  So
  nothing here says that a human or the gate approved such a run, or that its worktree
  was compared: `ClosedConditionEarned` speaks of the packet that was used.
- A git that fails after the tests passes the git check, as does a path that was dirty
  before or one that was committed by the tests; a resumed action gives its evidence to
  the task that is current at the resume.
- `advance_to_open_task` does not read `depends_on`.

## The proofs

Each theorem is about every value of the constants.  The assumptions are the `ASSUME`s
of the modules, and a hypothesis of the theorem in three places, which are named below.

`TaskRuntime_proofs`, from `RuntimeAssumption` (the root is a goal, the observation task
a task, "answer produced" a condition):

- `TypeCorrect`.
- `SatisfiedIsEvidenced` and `CompleteIsEvidenced` from `CompletionInv`.
  `CompleteTaskEvidenced` is not inductive, because `evaluate_task` believes
  `satisfied_conditions`; the invariant adds that those and all marks are evidenced
  (`SatisfiedEvidenced`), that what is stored as support is authoritative, and that ids
  that are not in use are blank.  `NothingWithdrawn` shows that no step takes evidence
  away, `EvaluationKeeps` that an evaluation with evidenced conditions keeps the
  invariant.
- `VerifiedIsGrounded`, `EvidencedStaysClaimed`, `ConfirmedIsEvidenced` from `ClaimInv`,
  which adds that every support was claimed when it was stored; a CONFIRMED verified
  claim is strongest in the ranking (`StrongestClaim`), which is why nothing overrides
  it.  `ConfirmedIsEvidenced` speaks of the steps of `gate_answer` that hand an answer
  out alone: all evidence linked to the observation task is authoritative then, and
  the claim of the answer cites it.
- `HandoffRootNeedsAcceptance`: only evaluations change the status of a goal
  (`OnlyEvaluationsClose`), and of them only the one with the verdict of the acceptance
  makes a root with conditions COMPLETE, over COMPLETE tasks and children
  (`GoalEvalComplete`).
- `FinishClosesRootLast` says the same of `finish` on any graph.  Its hypothesis is that
  the root has completion conditions of its own (`Root \in Conditioned`).  Every place
  that makes a root gives it some: `initialize` (`task_orchestration.py`), the handoff
  bridge and the adoption of a domain graph.  A root without any would be COMPLETE over
  stale goals: `finish` evaluates the children again and not what is below them.

`DecisionPropagation_proofs`, from `PropagationAssumption` (the seeded graph is acyclic
and uses seeded tasks only):

- `DependenciesStayAcyclic`, `SupersededNotDependedOn`, `SupersessionOneToOne` and
  `CurrentStaysActive` from `GraphInv`.  The four need each other: the steps that
  change a status do not look at supersession, so `LineageSound` needs
  `CurrentNotSuperseded`, which needs that the replacement of the current task is new
  (`Blank`).  `TwinAcyclic` is the argument about redirection: the new task stands
  where the old one stood, so a set of tasks without a minimal element would give one
  in the old graph.
- `StalePremisesBlock` from `StaleInv`: a stale premise comes with a blocking verdict,
  except between the change and the revalidation, when it has none.
- `TypeCorrect` from these and `WaveInv`: a task is made from an earlier one, every
  change in the locals of a run leads from a task to a later one, and a successor
  noted in `consumed` was made from the task it is noted for.  That the active
  replacement of a task, which the code finds by following `superseded_by_task_id`, is
  defined and is a task that is not superseded is `ActiveSound`.
- `RunsComeToRest` by `RankInv`.  An acyclic graph can be ranked so that a task ranks
  above what it depends on (`AcyclicRanked`).  Successors take the rank of their source,
  so the ranks stay below the number of seeded tasks, however many tasks are added; a
  wave raises the ranks of what is ahead by one at least, and every change set that was
  processed has a change that ranks below all of that.  So no set comes back and the
  waves are fewer than the seeded tasks.  The code has a stop for each of the two
  cases and says of neither whether it can happen.
- `NoRunIsCutOff` and `DependentsAreExamined` (by `ExamInv`: a dependency on a successor
  is among the changes that are still to be handled or has been examined), with the
  hypothesis `MaxWaves >= BaseTasks`.  The code's 32 waves are enough for 32 seeded
  tasks.  The hypothesis is needed: with one wave, three tasks and two changes TLC finds
  a run that is cut off and a later one that converges and sets the guard, with
  dependents of the first that nobody examined.  A run without the hypothesis
  (`ChangePropagation`, two waves for three tasks) has one change, so that a run that was
  cut off stays the last.

`Active` and `Lineage` are recursive functions over task ids.  That they have the values
their equations say, and what follows from it, is proved by induction over the ids with a
set as the induction hypothesis (`AscendingInduction`, `DescendingInduction`, from the
well-foundedness of the natural numbers), which needs no operator as a parameter.

`Server_proofs`:

- of a session's row, for any number of turns: `LateResponsesDiscarded`,
  `NewestTurnShielded`, `EndedStaysSettled` from `ActivityInv`, which says whose the row
  is, that it shows a cancellation only of a turn that was asked to cancel or has its
  outcome, and that a turn is undecided while it is in its loop;
- of the server: a step of `MCServer` is a step of one part and a stutter of the others
  (`OnePartSteps`), so the invariants of the parts hold side by side (`ServerInv`),
  `ServerTypeCorrect` follows, and `ServerSafe` says that each part's properties, the
  refinement of the session file among them, hold of the whole.

`SessionFile_proofs`, from `RequestAssumption` (a request that only reads is no other),
for any number of requests:

- `SessionTypeCorrect`; `OnlyOverlapLoses` from `SessionInv`: the file, when it can be
  read, is the last one saved in full (`FileKept`), who wrote it wrote what it had seen
  (`WritesInOrder`), and a copy lacks only what was saved after it was loaded
  (`CopyLosesNothing`).
- `FileImplementsLog`: the refinement `FileIsLog`, step by step.  Until requests
  overlap one thread runs (`OneAtATime`), so a fill adds at most the change of its
  request to the log; a truncated file is readable to nobody and is not seen by
  anybody.  Once they overlap every step is an `Overwrite` or a stutter.

`TestBatches_proofs`, from `RunsAssumption` (`Runs` is positive): `NeverTwoWorkers` and
`CompletionShowsAll` from `BatchInv`, which ties the worker's place to its row: the
number of reported runs, and that a row of a worker still at work says `running`.

`MissionStore_proofs`, from `StoreAssumption` (finitely many executions, `None` is not
one): `EvidenceIsCited`, `DecisionsStay` from `MissionInv`, `NumberedInOrder` from that
and `NumberInv`.  Without overlap the temporary file belongs to the execution that is
running, and what it merged has every decision of the stored ones because it restored
them at its start; `CreatorCites` needs none of that, because an execution writes only
its own record and its own evidence.  `MissionTypeCorrect` adds that a number is at
most one more than there are records, however executions overlap (`NumbersBounded`).

`Turn_proofs`:

- `TurnsAnswer` from `EndInv`: which stop reasons a turn can have at each place, and
  that the fast exit has answered before `Close`.
- `FusesAreExact`, from `LoopAssumption` (the limits are positive), by `FuseInv`: the
  turn stops at the first result that calls for it.  `CountersExact` says what each
  counter counts (the length of the last stretch of one failure, the results since the
  last evidence, the repetitions among them), which the code never states.
- `NeverTwoQuestions` and `QuestionsKept`, from `MissionAssumption`, by `AskedInv`.
- `CompletionIsAccepted`, from `HandoffAssumption`, `SeedsAssumption` and
  `NothingAssumption` (`Nothing` is not a handoff, a snapshot or a judgment), by
  `RunInv`: a judgment comes with the evaluation it was reached on, is of the handoff
  and the contract of the session, and agrees with the saved runtime
  (`JudgedTogether`).

`Tools_proofs`:

- `SnapshotIsOfBase`, from `SandboxAssumption`, by `SnapshotInv`: a file that was not
  edited since the status is as it was, and one edited once is changed in the source,
  which the second status shows.
- `PassIsPromoted`, from `PromotionAssumption`, by `PromotionInv`: what the worktree
  holds at each place of a run that did not take over a foreign worktree.
- `CallsAnsweredBeforeAsking`, from `AgentAssumption`, by `AgentInv`: the calls still
  open are those of the last response.
- `ConditionsAreEarned` and `TestsRunOnce`, from `PlanAssumption`, by `PlanInv`: one
  execution at a time (`OneAttempt`), of an action that has not run (`NotYetRun`), with
  the plan the record shows (`Recorded`) and launched with a packet for this action and
  plan, the gate's or one that was brought (`Launched`); later records leave a run
  earned (`EarnedKept`), because only an action that has not run gets a new status.
- `ToolsTypeCorrect` and `ToolsSafe`: the same for `MCTurnAndTools` as for the server.

Only model-checked:

- liveness (`HandlingEnds`, `BudgetEnds`, `StartedEnds`), which needs fairness.  Of
  `HandlingEnds` the bound on the waves is proved (`RunsComeToRest`); that each step is
  taken is not;
- what the violated runs show.

## Not modelled

`PROJECT.json` lists every component with its reason.  In short:

- Data and pure functions, where no order of operations is promised anything: the
  capability matrix and the spec proposals (files that are only appended to; two
  proposals at a time get one version number), the policy tables, the git guard (one
  reading of git, one verdict), the ranking of recovery strategies in the context
  monitor, the evaluation of test records, the text gates of an answer.
- Input and output: tool providers, file tools, the web tools.
- Text by models: the tool builder, prompts, the classification of replies, the
  decomposition of a request.  Where their result steers something modelled, it is a
  choice.
- Scripts outside the product's paths: experiments, benchmarks, evaluations.
- Of modelled components: `save` and `load` of the runtime (several files without a
  rename, so a crash between them leaves files of different turns, which `load` reads
  without a check); tool gaps, whose ids are derived from their number; action progress,
  stagnation and the replan limits; failures of single steps while a change is handled
  (a judge that raises, a replacement that stops half way); the composition of runtime
  and propagation, in which a CANCELLED task never counts as COMPLETE; discarding a
  sandbox; the packets that test safety writes, whose names repeat in the next turn; the
  read-only views of the server.

The modelled code is the part of the repository that keeps state across steps of
several actors.  Most of the repository's lines are text, tables and evaluation
scripts, for which no definition stands.

## Plan

Done, in this order: the task runtime, the handling of a changed decision and the
activity row with their proofs; the session file with its abstract log, the batches and
the mission store; the loop of a turn, the questions of a session and the run of a
handoff; the programs beside the chat and the test plans; the proofs of all of them.

Left:

1. `save` and `load` of the runtime over several files, with a crash between two of
   them; tool gaps and their ids; action progress, stagnation and replan limits.
2. The task runtime composed with the propagation, with an abstract specification "a
   goal is open, then complete with evidence, and stays so until reopened" that the
   composition implements; and the failures of single steps of the propagation.
3. Proofs of what these add, and the refinement of 2 step by step.
