------------------------------ MODULE TestPlanRun ------------------------------
(***************************************************************************)
(* The tool run_test_plan of a chat turn: a test plan is evaluated and     *)
(* gated, its tests run once, git is compared with what it listed before,  *)
(* and the run becomes evidence for the condition "test_run_closed" of the *)
(* current task (execute_test_plan_action with tools/test_safety).  A plan *)
(* that needs a human leaves its action blocked; the same plan called      *)
(* again continues it.                                                     *)
(*                                                                         *)
(* A plan stands for its fingerprint and for what the evaluation and the   *)
(* gate make of it.  A call may bring an authorization packet among its    *)
(* arguments; the code checks that the packet says AUTHORIZED and names    *)
(* the action and the plan, then takes it in place of the gate's, and what *)
(* the packet requires after the tests with it.  So a packet that verifies *)
(* is an input of every call here, whoever wrote it.  While the tests run, *)
(* they and everybody else change the worktree.                            *)
(***************************************************************************)
EXTENDS Integers, Sequences, FiniteSets

CONSTANTS
  Plan,        \* the test plans the model proposes
  HumanPlan,   \* those whose gate asks for human approval
  BlockedPlan, \* those the gate blocks otherwise
  GitPlan,     \* those for which the gate requires the git check
  Path,        \* files git status can list
  Declared,    \* those inside the declared write scope
  WorkTask,    \* tasks with the condition "test_run_closed"
  MaxActions   \* bound: actions of one turn

ASSUME PlanAssumption ==
  /\ HumanPlan \subseteq Plan /\ BlockedPlan \subseteq Plan /\ GitPlan \subseteq Plan
  /\ HumanPlan \cap BlockedPlan = {}
  /\ Declared \subseteq Path
  /\ MaxActions \in Nat

VARIABLES
  actionIndex,  \* _action_index, which counts the actions of this tool here
  records,      \* the ActionRecord of each action
  waiting,      \* _run_test_plan_continuation: none or one
  attempt,      \* the execution under way: none or one
  focus,        \* current_task_id
  dirty,        \* the paths git status would list now
  runs,         \* history: the executions
  support       \* the runs that support "test_run_closed" of a task

planVars == <<actionIndex, records, waiting, attempt, focus, dirty, runs, support>>

(* An AUTHORIZED packet: what it is bound to, and whether it requires the   *)
(* git check.                                                              *)
Packet == [action : 1..MaxActions, plan : Plan, git : BOOLEAN]
Continuation == [action : 1..MaxActions, plan : Plan]
PlanRecord == [task : WorkTask, plan : Plan, status : {"blocked", "failure", "success"}]
PlanAttempt == [action : 1..MaxActions, plan : Plan, resumed : BOOLEAN,
                packet : Packet, brought : BOOLEAN,
                base : SUBSET Path, seen : SUBSET Path]
(* In the history of runs, listed says that git worked after the tests, and *)
(* inside that nothing outside the scope was then in the worktree that was *)
(* not there when they started.                                            *)
PlanRun == [action : 1..MaxActions, plan : Plan, packet : Packet, brought : BOOLEAN,
            passed : BOOLEAN, closed : BOOLEAN, listed : BOOLEAN, inside : BOOLEAN]

PlanTypeOK ==
  /\ actionIndex \in 0..MaxActions
  /\ records \in Seq(PlanRecord)
  /\ waiting \subseteq Continuation
  /\ attempt \subseteq PlanAttempt
  /\ focus \in WorkTask
  /\ dirty \subseteq Path
  /\ runs \in Seq(PlanRun)
  /\ support \in [WorkTask -> SUBSET Nat]

PlanInit ==
  /\ actionIndex = 0 /\ records = <<>>
  /\ waiting = {} /\ attempt = {}
  /\ focus \in WorkTask
  /\ dirty \in SUBSET Path
  /\ runs = <<>> /\ support = [t \in WorkTask |-> {}]

-----------------------------------------------------------------------------
(* git_worktree_snapshot: a failing git lists nothing.                     *)
Listings == {dirty, {}}

(* mutant: what the tests removed is compared, not what they added         *)
ClosuresRemoved(packet, base, now) ==
  IF ~ packet.git THEN {TRUE} ELSE {base \ now \subseteq Declared}

(* run_required_postflight and evaluate_run_closure: if the packet does    *)
(* not require the check, the run closes; else it closes unless git lists  *)
(* a path outside the scope that it did not list before.  The listing      *)
(* loses the first letter of its first path, so that a path may also be    *)
(* reported that is not new or not outside.                                *)
Closures(packet, base, now) ==
  IF ~ packet.git THEN {TRUE}
  ELSE IF ~ (now \ base \subseteq Declared) THEN {FALSE}
  ELSE IF now = {} THEN {TRUE} ELSE BOOLEAN

(* _observe_run_test_plan records a new action, and                        *)
(* _finalize_run_test_plan_continuation patches the blocked one.           *)
RecordRun(action, plan, resumed, status) ==
  records' = IF resumed THEN [records EXCEPT ![action].status = status]
             ELSE Append(records, [task |-> focus, plan |-> plan, status |-> status])

(* mutant: only a run that passed ends it                                  *)
StillWaitingUnlessPassed(action, plan, resumed, status) ==
  IF status = "blocked" /\ ~ resumed THEN {[action |-> action, plan |-> plan]}
  ELSE IF status = "success" THEN {} ELSE waiting

(* Only a new action that waits for a human can be continued by a later    *)
(* call; any other outcome ends the continuation.                          *)
StillWaiting(action, plan, resumed, status) ==
  IF status = "blocked" /\ ~ resumed THEN {[action |-> action, plan |-> plan]} ELSE {}

(* verify_authorization_for_execution, of a packet that says AUTHORIZED.   *)
PlanOnlyVerified(packet, action, plan) == packet.plan = plan  \* mutant: action_id not compared

Verified(packet, action, plan) == packet.action = action /\ packet.plan = plan

(* The packet the gate binds (bind_test_safety_authorization): one if it   *)
(* passes the plan.                                                        *)
GatePackets(action, plan) ==
  IF plan \in HumanPlan \cup BlockedPlan THEN {}
  ELSE {[action |-> action, plan |-> plan, git |-> plan \in GitPlan]}

(* resolve_test_safety: a packet among the arguments that verifies is used *)
(* without an evaluation, else the gate's; one that does not verify        *)
(* changes nothing.                                                        *)
Packets(brought, action, plan) ==
  IF brought THEN {p \in Packet : Verified(p, action, plan)} ELSE GatePackets(action, plan)

(* No test is run: the gate asks for a human, it blocks the plan, the      *)
(* evaluation raised, or the packet has no binding key.                    *)
Refuse(action, plan, resumed) ==
  /\ \/ plan \in HumanPlan /\ RecordRun(action, plan, resumed, "blocked")
     \/ RecordRun(action, plan, resumed, "failure")
  /\ waiting' = StillWaiting(action, plan, resumed, records'[action].status)
  /\ UNCHANGED <<attempt, focus, dirty, runs, support>>

(* execute_authorized_test_plan up to the call of the executor.            *)
Launch(action, plan, resumed) ==
  /\ \E brought \in BOOLEAN, base \in Listings :
     \E packet \in Packets(brought, action, plan) :
       attempt' = {[action |-> action, plan |-> plan, resumed |-> resumed,
                    packet |-> packet, brought |-> brought,
                    base |-> IF packet.git THEN base ELSE {}, seen |-> dirty]}
  /\ waiting' = IF resumed THEN waiting ELSE {}
  /\ UNCHANGED <<records, focus, dirty, runs, support>>

Continued(plan) == {c \in waiting : c.plan = plan}

(* A call of the tool with the plan that waits goes on with its action,    *)
CallAgain(plan) ==
  /\ attempt = {}
  /\ \E c \in Continued(plan) : Refuse(c.action, plan, TRUE) \/ Launch(c.action, plan, TRUE)
  /\ UNCHANGED actionIndex

(* and any other call is a new action.                                     *)
CallNew(plan) ==
  /\ attempt = {} /\ Continued(plan) = {}
  /\ actionIndex < MaxActions /\ actionIndex' = actionIndex + 1
  /\ Refuse(actionIndex', plan, FALSE) \/ Launch(actionIndex', plan, FALSE)

(* The tests end and the run is closed or not; a run that passed and       *)
(* closed supports the condition of the task that is current now.          *)
EndTests(passed) ==
  \E a \in attempt, now \in Listings : \E closed \in Closures(a.packet, a.base, now) :
    /\ runs' = Append(runs, [action |-> a.action, plan |-> a.plan, packet |-> a.packet,
                             brought |-> a.brought, passed |-> passed, closed |-> closed,
                             listed |-> (now = dirty),
                             inside |-> (dirty \ a.seen \subseteq Declared)])
    /\ support' = IF passed /\ closed
                  THEN [support EXCEPT ![focus] = @ \cup {Len(runs')}] ELSE support
    /\ RecordRun(a.action, a.plan, a.resumed, IF passed THEN "success" ELSE "failure")
    /\ waiting' = StillWaiting(a.action, a.plan, a.resumed, records'[a.action].status)
    /\ attempt' = {}
    /\ UNCHANGED <<actionIndex, focus, dirty>>

-----------------------------------------------------------------------------
(* The turn goes on with another task (record_local_review, replan).       *)
ChangeTask ==
  /\ attempt = {} /\ focus' \in WorkTask
  /\ UNCHANGED <<actionIndex, records, waiting, attempt, dirty, runs, support>>

(* The tests, another turn or a person edits, restores or commits a file.  *)
ChangeFile(f) ==
  /\ dirty' \in {dirty \cup {f}, dirty \ {f}}
  /\ UNCHANGED <<actionIndex, records, waiting, attempt, focus, runs, support>>

PlanNext ==
  \/ \E p \in Plan : CallAgain(p) \/ CallNew(p)
  \/ \E passed \in BOOLEAN : EndTests(passed)
  \/ ChangeTask
  \/ \E f \in Path : ChangeFile(f)

PlanSpec == PlanInit /\ [][PlanNext]_planVars

-----------------------------------------------------------------------------
(* Properties.                                                             *)

(* A condition "test_run_closed" is supported only by runs whose tests     *)
(* passed and whose action still shows the success, however it and others  *)
(* were continued.  Such a run had a packet for its own action and plan:   *)
(* one its call brought, or that of the gate, which then passes the plan   *)
(* and whose demand for the git check was kept.  If the packet asks for    *)
(* the check and git worked, the worktree had nothing new outside the      *)
(* scope when the tests had ended (_append_test_safety_evidence,           *)
(* verify_authorization_for_execution, compare_git_postflight).  Of a      *)
(* packet that was brought it is not said who wrote it, nor that it asks   *)
(* for the check as the gate would.                                        *)
ClosedConditionEarned ==
  \A t \in WorkTask : \A n \in support[t] :
    /\ n \in 1..Len(runs) /\ runs[n].passed /\ runs[n].closed
    /\ runs[n].action \in 1..Len(records) /\ records[runs[n].action].status = "success"
    /\ records[runs[n].action].plan = runs[n].plan
    /\ runs[n].packet.action = runs[n].action /\ runs[n].packet.plan = runs[n].plan
    /\ runs[n].brought \/ runs[n].packet \in GatePackets(runs[n].action, runs[n].plan)
    /\ runs[n].packet.git /\ runs[n].listed => runs[n].inside

(* The tests of an action run at most once within a turn, so a packet,     *)
(* which names the action, is used at most once there, whether the gate    *)
(* bound it or the call brought it, and although every call of the tool    *)
(* has a registry of consumed authorizations of its own ("exactly-once     *)
(* spawn", ConsumedAuthorizationRegistry).  Action ids start again in the  *)
(* next turn, which is another behaviour here.                             *)
ActionRunsOnce ==
  \A i, j \in 1..Len(runs) : runs[i].action = runs[j].action => i = j

(* "Resume = continuation of same action_id; no duplicate ActionRecord."   *)
(* While an action is blocked because its plan needs a human, a further    *)
(* call with that plan makes no second record.                             *)
ResumeKeepsAction ==
  \A i, j \in 1..Len(records) :
    i < j /\ records[i].plan = records[j].plan => records[i].status # "blocked"

=============================================================================
