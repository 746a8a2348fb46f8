---------------------------- MODULE PromotionRunner ----------------------------
(***************************************************************************)
(* The promotion runner (tools/promotion_runner/promote.py): run_promote   *)
(* with --apply puts a delta on a local branch through a worktree that it  *)
(* makes or finds, and reports with its exit code.  Runs follow each other *)
(* on one worktree path; a run can be killed, and git can fail, anywhere.  *)
(***************************************************************************)
CONSTANTS
  Branch,    \* target_branch of the configurations
  NoBranch

ASSUME PromotionAssumption == NoBranch \notin Branch

VARIABLES
  tip,        \* what each branch holds: the delta, the base without it, ...
  worktree,   \* the branch it is registered for and its files
  promoteAt,  \* where the run is
  config,     \* target_branch and mode of the run
  report,     \* errors, need_human and failed of the Result
  reused      \* ghost: the run took over a worktree in another state than it makes

promoteVars == <<tip, worktree, promoteAt, config, report, reused>>

(* "partial" has the paths of the delta and nothing else.                  *)
BranchContent == {"base", "delta", "partial"}
Report  == [errors : BOOLEAN, human : BOOLEAN, failed : BOOLEAN]
Clean   == [errors |-> FALSE, human |-> FALSE, failed |-> FALSE]

PromotionTypeOK ==
  /\ tip \in [Branch -> BranchContent \cup {"absent"}]
  /\ worktree \in [branch : Branch \cup {NoBranch}, files : BranchContent \cup {"none"}]
  /\ promoteAt \in {"idle", "checks", "branch", "worktree", "checkout", "apply", "guard",
                    "commit", "tests", "ended"}
  /\ config \in [target : Branch, mode : {"diff_apply", "path_checkout"}]
  /\ report \in Report
  /\ reused \in BOOLEAN

PromotionInit ==
  /\ tip \in [Branch -> {"absent", "base"}]
  /\ worktree = [branch |-> NoBranch, files |-> "none"]
  /\ promoteAt = "idle"
  /\ config \in [target : Branch, mode : {"diff_apply", "path_checkout"}]
  /\ report = Clean /\ reused = FALSE

-----------------------------------------------------------------------------
Add(field) == [report EXCEPT ![field] = TRUE]

(* Result.exit_code is 0.                                                  *)
Passed == report = Clean

Step(from, to) == promoteAt = from /\ promoteAt' = to /\ UNCHANGED config

StartPromotion ==
  /\ promoteAt \in {"idle", "ended"} /\ promoteAt' = "checks"
  /\ config' \in [target : Branch, mode : {"diff_apply", "path_checkout"}]
  /\ report' = Clean /\ reused' = FALSE
  /\ UNCHANGED <<tip, worktree>>

(* A missing ref, a path outside the policy, an overlap.                   *)
RefusePromotion ==
  /\ Step("checks", "ended")
  /\ report' \in {Add("errors"), Add("failed")}
  /\ UNCHANGED <<tip, worktree, reused>>

(* check_human_gates and the guard before apply.  A guard that fails is    *)
(* recorded and stops nothing; a human gate stops the run unless           *)
(* apply_even_if_need_human is set.                                        *)
CheckGates ==
  /\ promoteAt = "checks" /\ UNCHANGED config
  /\ report' \in {report, Add("failed"), Add("human"), [Add("human") EXCEPT !.failed = TRUE]}
  /\ promoteAt' \in IF report'.human THEN {"branch", "ended"} ELSE {"branch"}
  /\ UNCHANGED <<tip, worktree, reused>>

EnsureBranch ==
  /\ Step("branch", "worktree")
  /\ tip' = IF tip[config.target] = "absent" THEN [tip EXCEPT ![config.target] = "base"] ELSE tip
  /\ UNCHANGED <<worktree, report, reused>>

(* git branch or git worktree add fails, and nothing is made.              *)
FailBefore(stage) ==
  /\ Step(stage, "ended")
  /\ stage = "branch" => tip[config.target] = "absent"
  /\ stage = "worktree" => worktree.branch = NoBranch
  /\ report' = Add("errors")
  /\ UNCHANGED <<tip, worktree, reused>>

(* A registered worktree is taken as it is, whatever branch it is on and   *)
(* whether or not its files were ever checked out.                         *)
ReuseWorktree ==
  /\ Step("worktree", "apply") /\ worktree.branch # NoBranch
  /\ reused' = (worktree.branch # config.target \/ worktree.files \notin {"base", "delta"})
  /\ UNCHANGED <<tip, worktree, report>>

(* worktree add --no-checkout ...                                          *)
AddWorktree ==
  /\ Step("worktree", "checkout") /\ worktree.branch = NoBranch
  /\ worktree' = [branch |-> config.target, files |-> "none"]
  /\ UNCHANGED <<tip, report, reused>>

(* ... then sparse-checkout and checkout, which can fail and leave the     *)
(* worktree registered.                                                    *)
CheckOut ==
  /\ Step("checkout", "apply")
  /\ worktree' = [worktree EXCEPT !.files = tip[worktree.branch]]
  /\ reused' = (tip[worktree.branch] = "partial")
  /\ UNCHANGED <<tip, report>>

FailCheckOut ==
  /\ Step("checkout", "ended")
  /\ report' = Add("errors")
  /\ UNCHANGED <<tip, worktree, reused>>

(* git apply takes the patch on the base only; git checkout of the paths   *)
(* works on any files and on none.                                         *)
Applies == config.mode = "path_checkout" \/ worktree.files = "base"

Delta(files) == IF files \in {"base", "delta"} THEN "delta" ELSE "partial"

ApplyDelta ==
  /\ Step("apply", "guard") /\ Applies
  /\ worktree' = [worktree EXCEPT !.files = Delta(@)]
  /\ UNCHANGED <<tip, report, reused>>

(* mutant: a patch that does not apply is skipped                          *)
SkipConflict ==
  /\ Step("apply", "guard")
  /\ UNCHANGED <<tip, worktree, report, reused>>

(* A conflict is for the human, a failed git diff a failure.               *)
StopAtConflict ==
  /\ Step("apply", "ended")
  /\ report' \in {Add("human"), Add("failed")}
  /\ UNCHANGED <<tip, worktree, reused>>

(* The guard before commit is recorded, and the commit follows anyway.     *)
GuardCommit ==
  /\ Step("guard", "commit")
  /\ report' \in {report, Add("failed"), Add("human")}
  /\ UNCHANGED <<tip, worktree, reused>>

(* git add -A and git commit, on the branch of the worktree.               *)
Commit ==
  /\ Step("commit", "tests")
  /\ tip' = [tip EXCEPT ![worktree.branch] = worktree.files]
  /\ UNCHANGED <<worktree, report, reused>>

(* auto_commit is off, git status fails, or a hook refuses: the tests      *)
(* follow, and skip themselves.                                            *)
NoCommit ==
  /\ Step("commit", "tests")
  /\ report' \in {Add("human"), Add("errors")}
  /\ UNCHANGED <<tip, worktree, reused>>

(* required_tests run only with --run-tests and after a clean report.      *)
RunTests ==
  /\ Step("tests", "ended")
  /\ report' \in IF Passed THEN {report, Add("failed"), Add("errors")} ELSE {report}
  /\ UNCHANGED <<tip, worktree, reused>>

KillRun ==
  /\ promoteAt \notin {"idle", "ended"} /\ promoteAt' = "idle"
  /\ UNCHANGED <<tip, worktree, config, report, reused>>

PromotionNext ==
  \/ StartPromotion \/ RefusePromotion \/ CheckGates \/ EnsureBranch
  \/ ReuseWorktree \/ AddWorktree \/ CheckOut \/ FailCheckOut
  \/ ApplyDelta \/ StopAtConflict \/ GuardCommit \/ Commit \/ NoCommit \/ RunTests \/ KillRun
  \/ \E stage \in {"branch", "worktree"} : FailBefore(stage)

PromotionSpec == PromotionInit /\ [][PromotionNext]_promoteVars

-----------------------------------------------------------------------------
(* Properties.                                                             *)

(* A run that exits with 0 has its delta on its target branch, whatever    *)
(* earlier runs left behind when they were killed or stopped, unless it    *)
(* took over a worktree of another branch or one that was never checked    *)
(* out (run_promote, ensure_sparse_worktree, maybe_commit).                *)
PassMeansPromoted ==
  promoteAt = "ended" /\ Passed /\ ~ reused => tip[config.target] = "delta"

=============================================================================
