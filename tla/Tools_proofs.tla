------------------------------ MODULE Tools_proofs ------------------------------
(***************************************************************************)
(* What TLAPS proves about the tools a turn works with: the sandbox of a   *)
(* runtime for any files, edits and commits, the promotion runner for any  *)
(* branches and runs, the command line agent for any rounds, and the test  *)
(* plans of a turn for any plans, paths and actions; and about             *)
(* MCTurnAndTools, a turn and its tools side by side.                      *)
(***************************************************************************)
EXTENDS MCTurnAndTools, Turn_proofs, TestBatches_proofs, TLAPS

(***************************************************************************)
(* The sandbox: while HEAD is that of the start, a file that the status    *)
(* did not list equals its commit until it is edited, and differs from it  *)
(* after one edit; what was copied of it before any edit is the commit's.  *)
(***************************************************************************)
AfterStatus == {"add", "list", "copy", "check", "active", "refused", "stranded"}

SnapshotInv ==
  /\ SandboxTypeOK
  /\ baseHead <= head
  /\ sandboxAt \in {"identity", "status"} => edits = [f \in File |-> 0]
  /\ sandboxAt \in {"identity", "status", "add", "list"} => copy = [f \in File |-> Absent]
  /\ sandboxAt \in AfterStatus /\ head = baseHead =>
       \A f \in File \ before :
         /\ edits[f] = 0 => source[f] = tree[f]
         /\ edits[f] = 1 => source[f] # tree[f]
         /\ edits[f] = 0 /\ sandboxAt \in {"copy", "check", "active"} /\ f \notin toCopy => copy[f] = tree[f]
  /\ sandboxAt \in {"check", "active"} => toCopy = {}
  /\ SnapshotOfBase

LEMMA SandboxInitInv == SandboxInit => SnapshotInv
<1> SUFFICES ASSUME SandboxInit PROVE SnapshotInv
  OBVIOUS
<1>1. [f \in File |-> 0] \in [File -> 0..MaxEdits] /\ [f \in File |-> Absent] \in Files
  BY SandboxAssumption DEF Files
<1>2. SandboxTypeOK
  <2>1. 0 \in 0..MaxCommits
    BY SandboxAssumption
  <2>2. head \in 0..MaxCommits /\ baseHead \in 0..MaxCommits
    BY <2>1 DEF SandboxInit
  <2>3. source \in Files /\ tree \in Files /\ copy \in Files /\ edits \in [File -> 0..MaxEdits]
    BY <1>1 DEF SandboxInit
  <2> QED BY <2>2, <2>3 DEF SandboxInit, SandboxTypeOK
<1>3. sandboxAt = "identity" /\ baseHead <= head
  BY DEF SandboxInit
<1>4. edits = [f \in File |-> 0] /\ copy = [f \in File |-> Absent]
  BY DEF SandboxInit
<1> QED
  BY <1>2, <1>3, <1>4 DEF SnapshotInv, AfterStatus, SnapshotOfBase

LEMMA SandboxStep == SnapshotInv /\ [SandboxNext]_sandboxVars => SnapshotInv'
<1> SUFFICES ASSUME SnapshotInv, [SandboxNext]_sandboxVars PROVE SnapshotInv'
  OBVIOUS
<1> USE SandboxAssumption DEF SnapshotInv, SandboxTypeOK, Files, AfterStatus, creation, workspace
<1>1. CASE ReadIdentity
  BY <1>1 DEF ReadIdentity, SnapshotOfBase
<1>2. CASE ReadStatus
  BY <1>2 DEF ReadStatus, Status, SnapshotOfBase
<1>3. CASE AddSandbox
  BY <1>3 DEF AddSandbox, SnapshotOfBase
<1>12. CASE FailAddSandbox
  BY <1>12 DEF FailAddSandbox, SnapshotOfBase
<1>4. CASE ListFiles
  BY <1>4 DEF ListFiles, SnapshotOfBase
<1>5. CASE CheckIdentity
  BY <1>5 DEF CheckIdentity, SnapshotOfBase
<1>6. CASE Activate
  <2>1. ASSUME NEW f \in File \ before, edits[f] <= 1, head = baseHead PROVE copy[f] = tree[f]
    <3>1. source[f] = tree[f]
      BY <1>6 DEF Activate, SameStatus, Status
    <3>2. edits[f] = 0
      BY <1>6, <2>1, <3>1 DEF Activate
    <3> QED BY <1>6, <2>1, <3>2 DEF Activate
  <2> QED BY <1>6, <2>1 DEF Activate, SnapshotOfBase
<1>7. CASE Withdraw
  BY <1>7 DEF Withdraw, SnapshotOfBase
<1>8. CASE CommitSource
  BY <1>8 DEF CommitSource, SnapshotOfBase
<1>9. ASSUME NEW f \in File, EditSource(f) PROVE SnapshotInv'
  <2>1. PICK c \in (Content \cup {Absent}) \ {source[f]} : source' = [source EXCEPT ![f] = c]
    BY <1>9 DEF EditSource
  <2>2. source' \in Files
    BY <2>1
  <2>3. edits[f] \in 0..MaxEdits /\ edits[f] < MaxEdits
    BY <1>9 DEF EditSource
  <2>4. /\ sandboxAt \in {"identity", "status"} => edits' = edits
        /\ sandboxAt \notin {"identity", "status"} => edits' = [edits EXCEPT ![f] = @ + 1]
        /\ sandboxAt \in {"identity", "status"} => edits' = [g \in File |-> 0]
    BY <1>9 DEF EditSource
  <2>5. edits' \in [File -> 0..MaxEdits]
    BY <2>3, <2>4
  <2>6. UNCHANGED <<head, tree, sandboxAt, baseHead, before, toCopy, copy, sandbox>>
          /\ sandboxAt \notin {"active", "refused", "stranded"}
    BY <1>9 DEF EditSource
  <2>7. SandboxTypeOK'
    BY <2>2, <2>5, <2>6
  <2>8. ASSUME sandboxAt' \in AfterStatus, head' = baseHead', NEW g \in File \ before'
        PROVE  /\ edits'[g] = 0 => source'[g] = tree'[g]
               /\ edits'[g] = 1 => source'[g] # tree'[g]
               /\ edits'[g] = 0 /\ sandboxAt' \in {"copy", "check", "active"} /\ g \notin toCopy' => copy'[g] = tree'[g]
    <3>1. CASE g = f
      BY <2>1, <2>3, <2>4, <2>6, <2>8, <3>1
    <3>2. CASE g # f
      BY <2>1, <2>4, <2>6, <2>8, <3>2
    <3> QED BY <3>1, <3>2
  <2> QED BY <2>4, <2>6, <2>7, <2>8 DEF SnapshotOfBase
<1>10. ASSUME NEW f \in File, CopyFile(f) PROVE SnapshotInv'
  BY <1>10 DEF CopyFile, SnapshotOfBase
<1>11. CASE UNCHANGED sandboxVars
  BY <1>11 DEF sandboxVars, SnapshotOfBase
<1> QED
  BY <1>1, <1>2, <1>3, <1>4, <1>5, <1>6, <1>7, <1>8, <1>9, <1>10, <1>11, <1>12 DEF SandboxNext

(* For any number of files, edits and commits, the two comparisons let no  *)
(* sandbox pass that differs from its base in a file the status did not    *)
(* list and that was edited once at most                                   *)
(* (create_dedicated_sandbox_session).                                     *)
THEOREM SnapshotIsOfBase == SandboxSpec => []SnapshotOfBase
<1>1. SnapshotInv => SnapshotOfBase
  BY DEF SnapshotInv
<1> QED BY <1>1, SandboxInitInv, SandboxStep, PTL DEF SandboxSpec

(* The types of the sandbox, by the same invariant.                        *)
THEOREM SandboxTypeCorrect == SandboxSpec => []SandboxTypeOK
<1>1. SnapshotInv => SandboxTypeOK
  BY DEF SnapshotInv
<1> QED BY <1>1, SandboxInitInv, SandboxStep, PTL DEF SandboxSpec

-----------------------------------------------------------------------------
(***************************************************************************)
(* The promotion runner: a run that has not taken over a worktree works in *)
(* one of its target branch, with the base or the delta in it before the   *)
(* delta is applied and with the delta afterwards; a clean report at the   *)
(* tests means that the commit was made.                                   *)
(***************************************************************************)
PromotionInv ==
  /\ PromotionTypeOK
  /\ promoteAt \in {"worktree", "checkout"} => tip[config.target] # "absent"
  /\ promoteAt \in {"checkout", "apply", "guard", "commit"} => worktree.branch \in Branch
  /\ promoteAt = "checkout" => worktree.branch = config.target
  /\ promoteAt \in {"apply", "guard", "commit"} => worktree.files \in BranchContent \cup {"none"}
  /\ promoteAt \in {"guard", "commit"} => worktree.files \in BranchContent
  /\ promoteAt = "apply" /\ ~ reused =>
       worktree.branch = config.target /\ worktree.files \in {"base", "delta"}
  /\ promoteAt \in {"guard", "commit"} /\ ~ reused =>
       worktree.branch = config.target /\ worktree.files = "delta"
  /\ promoteAt = "tests" /\ Passed /\ ~ reused => tip[config.target] = "delta"
  /\ PassMeansPromoted

LEMMA Reports ==
  ASSUME report \in Report
  PROVE  /\ \A field \in {"errors", "human", "failed"} : Add(field) \in Report /\ Add(field) # Clean
         /\ [Add("human") EXCEPT !.failed = TRUE] \in Report
         /\ [Add("human") EXCEPT !.failed = TRUE] # Clean
         /\ [Add("human") EXCEPT !.failed = TRUE].human /\ Add("human").human
         /\ Clean \in Report /\ ~ Clean.human
  BY DEF Report, Clean, Add

LEMMA PromotionInitInv == PromotionInit => PromotionInv
<1> SUFFICES ASSUME PromotionInit PROVE PromotionInv
  OBVIOUS
<1> QED
  BY DEF PromotionInit, PromotionInv, PromotionTypeOK, BranchContent, Report, Clean, PassMeansPromoted

LEMMA PromotionStep == PromotionInv /\ [PromotionNext]_promoteVars => PromotionInv'
<1> SUFFICES ASSUME PromotionInv, [PromotionNext]_promoteVars PROVE PromotionInv'
  OBVIOUS
<1>0. /\ \A field \in {"errors", "human", "failed"} : Add(field) \in Report /\ Add(field) # Clean
      /\ [Add("human") EXCEPT !.failed = TRUE] \in Report
      /\ [Add("human") EXCEPT !.failed = TRUE] # Clean
      /\ Clean \in Report /\ ~ Clean.human
  BY Reports DEF PromotionInv, PromotionTypeOK
<1> USE <1>0, PromotionAssumption DEF PromotionInv, PromotionTypeOK, BranchContent, Passed, PassMeansPromoted, Step
<1>1. CASE StartPromotion
  BY <1>1 DEF StartPromotion
<1>2. CASE RefusePromotion \/ FailCheckOut \/ StopAtConflict
  BY <1>2 DEF RefusePromotion, FailCheckOut, StopAtConflict
<1>3. CASE CheckGates
  <2>1. report' \in Report /\ promoteAt' \in {"branch", "ended"} /\ (promoteAt' = "ended" => report'.human)
    <3>1. report' \in Report
      BY <1>3 DEF CheckGates
    <3>2. promoteAt' \in IF report'.human THEN {"branch", "ended"} ELSE {"branch"}
      BY <1>3 DEF CheckGates
    <3> QED BY <3>1, <3>2
  <2>2. promoteAt' = "ended" => report' # Clean
    BY <2>1
  <2>3. UNCHANGED <<config, tip, worktree, reused>> /\ promoteAt' \notin {"worktree", "checkout", "apply", "guard", "commit", "tests"}
    BY <1>3, <2>1 DEF CheckGates
  <2> QED BY <2>1, <2>2, <2>3
<1>4. CASE EnsureBranch
  BY <1>4 DEF EnsureBranch
<1>5. ASSUME NEW stage \in {"branch", "worktree"}, FailBefore(stage) PROVE PromotionInv'
  BY <1>5 DEF FailBefore
<1>6. CASE ReuseWorktree
  BY <1>6 DEF ReuseWorktree
<1>7. CASE AddWorktree
  BY <1>7 DEF AddWorktree
<1>8. CASE CheckOut
  BY <1>8 DEF CheckOut
<1>9. CASE ApplyDelta
  BY <1>9 DEF ApplyDelta, Delta
<1>10. CASE GuardCommit
  BY <1>10 DEF GuardCommit
<1>11. CASE Commit
  BY <1>11 DEF Commit
<1>12. CASE NoCommit
  BY <1>12 DEF NoCommit
<1>13. CASE RunTests
  BY <1>13 DEF RunTests
<1>14. CASE KillRun
  BY <1>14 DEF KillRun
<1>15. CASE UNCHANGED promoteVars
  BY <1>15 DEF promoteVars
<1> QED
  BY <1>1, <1>2, <1>3, <1>4, <1>5, <1>6, <1>7, <1>8, <1>9, <1>10, <1>11, <1>12, <1>13, <1>14, <1>15
     DEF PromotionNext

(* However many runs were killed or stopped on a worktree path before, a   *)
(* run that exits with 0 and took over no foreign or empty worktree has    *)
(* its delta on its target branch (run_promote).                           *)
THEOREM PassIsPromoted == PromotionSpec => []PassMeansPromoted
<1>1. PromotionInv => PassMeansPromoted
  BY DEF PromotionInv
<1> QED BY <1>1, PromotionInitInv, PromotionStep, PTL DEF PromotionSpec

-----------------------------------------------------------------------------
(***************************************************************************)
(* The command line agent: each call of the messages has its result, but   *)
(* for those of the last response that are still to be made.               *)
(***************************************************************************)
Unanswered ==
  CASE agentAt = "running" -> callsLeft + 1
    [] agentAt \in {"calls", "observed"} -> callsLeft
    [] OTHER -> 0

CallsAnswered ==
  \A i \in 1..Len(messages) : \A k \in 1..messages[i].calls :
    /\ i + k <= Len(messages) => messages[i + k] = ToolResult
    /\ i + k <= Len(messages) + Unanswered

Stopped == recoveryStop => agentAt \in {"validating", "correcting", "ended"}

AgentInv ==
  /\ AgentTypeOK
  /\ Stopped
  /\ agentAt = "running" => callsLeft < MaxCallsAtOnce
  /\ agentAt # "ended" /\ ~ recoveryStop => CallsAnswered

(* A message without calls can follow when nothing is unanswered, and a    *)
(* result answers the first call that is.                                  *)
LEMMA MessageStep ==
  ASSUME messages \in Seq(Message), NEW m \in Message, messages' = Append(messages, m),
         CallsAnswered, Unanswered \in Nat, Unanswered' \in Nat,
         \/ Unanswered = 0 /\ Unanswered' = m.calls
         \/ Unanswered > 0 /\ m = ToolResult /\ Unanswered' = Unanswered - 1
  PROVE  CallsAnswered'
<1>0. PICK n \in Nat : n = Len(messages)
  OBVIOUS
<1>1. /\ Len(messages') = n + 1 /\ messages'[n + 1] = m /\ m.calls \in Nat
      /\ \A i \in 1..n : messages'[i] = messages[i] /\ messages[i].calls \in Nat
  <2>1. \A x \in Message : x.calls \in Nat
    BY AgentAssumption DEF Message
  <2>2. Len(messages') = n + 1 /\ messages'[n + 1] = m /\ \A i \in 1..n : messages'[i] = messages[i]
    BY <1>0
  <2>3. \A i \in 1..n : messages[i] \in Message
    BY <1>0
  <2> QED BY <2>1, <2>2, <2>3
<1>2. ToolResult.calls = 0
  BY DEF ToolResult
<1>3. ASSUME NEW i \in 1..n + 1, NEW k \in 1..messages'[i].calls
      PROVE  /\ i + k <= n + 1 => messages'[i + k] = ToolResult
             /\ i + k <= n + 1 + Unanswered'
  <2>1. CASE i = n + 1
    BY <1>1, <1>2, <2>1
  <2>2. CASE i \in 1..n
    <3>1. k \in 1..messages[i].calls
      BY <1>1, <2>2
    <3>2. i + k <= n => messages[i + k] = ToolResult
      BY <1>0, <2>2, <3>1 DEF CallsAnswered
    <3>3. i + k <= n + Unanswered
      BY <1>0, <2>2, <3>1 DEF CallsAnswered
    <3>4. k \in Nat /\ k >= 1
      BY <1>1, <2>2, <3>1
    <3> HIDE DEF Unanswered
    <3>5. i + k <= n \/ (Unanswered > 0 /\ i + k <= n + Unanswered)
      BY <1>0, <2>2, <3>3, <3>4
    <3>6. i + k <= n => i + k \in 1..n
      BY <1>0, <2>2, <3>4
    <3>7. CASE i + k <= n
      <4>1. messages'[i + k] = ToolResult
        BY <1>1, <3>2, <3>6, <3>7
      <4>2. i + k <= n + 1 + Unanswered'
        BY <1>0, <2>2, <3>4, <3>7
      <4> QED BY <4>1, <4>2
    <3>8. CASE ~ (i + k <= n)
      <4>1. m = ToolResult /\ Unanswered' = Unanswered - 1
        BY <3>5, <3>8
      <4>2. i + k <= n + 1 + Unanswered'
        BY <1>0, <2>2, <3>3, <3>4, <4>1
      <4>3. i + k <= n + 1 => i + k = n + 1
        BY <1>0, <2>2, <3>4, <3>8
      <4> QED BY <1>1, <4>1, <4>2, <4>3
    <3> QED BY <3>7, <3>8
  <2>3. i = n + 1 \/ i \in 1..n
    BY <1>0
  <2> QED BY <2>1, <2>2, <2>3
<1> QED BY <1>1, <1>3 DEF CallsAnswered

LEMMA AgentInitInv == AgentInit => AgentInv
<1> SUFFICES ASSUME AgentInit PROVE AgentInv
  OBVIOUS
<1>1. Instruction \in Message /\ Instruction.calls = 0
  BY AgentAssumption DEF Instruction, Message
<1>2. messages \in Seq(Message) /\ Len(messages) = 1 /\ messages[1] = Instruction
  BY <1>1 DEF AgentInit
<1>3. AgentTypeOK
  <2>1. 0 \in 0..MaxToolRounds /\ 0 \in 0..MaxCallsAtOnce
    BY AgentAssumption
  <2> QED BY <1>2, <2>1 DEF AgentInit, AgentTypeOK, AgentRuntimeState
<1>4. CallsAnswered
  BY <1>1, <1>2 DEF CallsAnswered
<1> QED BY <1>3, <1>4 DEF AgentInv, AgentInit, Stopped

LEMMA AgentStep == AgentInv /\ [AgentNext]_agentVars => AgentInv'
<1> SUFFICES ASSUME AgentInv, [AgentNext]_agentVars PROVE AgentInv'
  OBVIOUS
<1> USE AgentAssumption DEF AgentTypeOK, AgentRuntimeState, Moves, Transition
<1>0. /\ \A n \in 0..MaxCallsAtOnce : Assistant(n) \in Message /\ Assistant(n).calls = n
      /\ Instruction \in Message /\ Instruction.calls = 0
      /\ ToolResult \in Message /\ ToolResult.calls = 0
      /\ \A m \in Message : Append(messages, m) \in Seq(Message)
  BY DEF AgentInv, Assistant, Instruction, ToolResult, Message
<1>1. callsLeft \in Nat /\ Unanswered \in Nat
  BY DEF AgentInv, Unanswered
<1>2. ASSUME AgentTypeOK', Stopped', agentAt' = "running" => callsLeft' < MaxCallsAtOnce,
             UNCHANGED messages,
             agentAt' # "ended" /\ ~ recoveryStop' => agentAt # "ended" /\ ~ recoveryStop /\ Unanswered' = Unanswered
      PROVE  AgentInv'
  BY <1>2 DEF AgentInv, CallsAnswered
<1>3. ASSUME AgentTypeOK', Stopped', agentAt' # "running",
             agentAt' # "ended" /\ ~ recoveryStop' =>
               /\ agentAt # "ended" /\ ~ recoveryStop /\ Unanswered' \in Nat
               /\ \E m \in Message :
                    /\ messages' = Append(messages, m)
                    /\ \/ Unanswered = 0 /\ Unanswered' = m.calls
                       \/ Unanswered > 0 /\ m = ToolResult /\ Unanswered' = Unanswered - 1
      PROVE  AgentInv'
  BY <1>1, <1>3, MessageStep DEF AgentInv
<1>4. CASE AskRound \/ RunOut \/ EndCalls \/ Accept
  <2>1. AgentTypeOK' /\ UNCHANGED messages /\ agentAt' # "running" /\ recoveryStop' = recoveryStop
          /\ agentAt # "ended"
    <3>1. CASE AskRound
      <4>1. round' \in 0..MaxToolRounds
        BY <3>1 DEF AskRound, AgentInv
      <4> QED BY <3>1, <4>1 DEF AskRound, AgentInv
    <3>2. CASE RunOut
      BY <3>2 DEF RunOut, AgentInv
    <3>3. CASE EndCalls
      BY <3>3 DEF EndCalls, AgentInv
    <3>4. CASE Accept
      BY <3>4 DEF Accept, EndAgent, AgentInv
    <3> QED BY <1>4, <3>1, <3>2, <3>3, <3>4
  <2>2. agentAt' # "ended" => Unanswered' = Unanswered
    BY <1>4 DEF AskRound, RunOut, EndCalls, Accept, EndAgent, Unanswered
  <2>3. Stopped'
    BY <1>4 DEF AskRound, RunOut, EndCalls, Accept, EndAgent, AgentInv, Stopped
  <2> QED BY <1>2, <2>1, <2>2, <2>3
<1>5. CASE RunTool \/ Observe
  <2>1. AgentTypeOK' /\ UNCHANGED messages /\ (agentAt' = "running" => callsLeft' < MaxCallsAtOnce)
          /\ recoveryStop' = recoveryStop /\ agentAt # "ended"
    <3>1. CASE RunTool
      <4>1. callsLeft' \in 0..MaxCallsAtOnce /\ callsLeft' < MaxCallsAtOnce
        BY <3>1 DEF RunTool, AgentInv
      <4> QED BY <3>1, <4>1 DEF RunTool, AgentInv
    <3>2. CASE Observe
      BY <3>2 DEF Observe, AgentInv
    <3> QED BY <1>5, <3>1, <3>2
  <2>2. Unanswered' = Unanswered
    <3>1. CASE RunTool
      <4>1. agentAt = "calls" /\ agentAt' = "running" /\ callsLeft' = callsLeft - 1
        BY <3>1 DEF RunTool
      <4>2. callsLeft' + 1 = callsLeft
        BY <1>1, <4>1
      <4> QED BY <4>1, <4>2 DEF Unanswered
    <3>2. CASE Observe
      BY <3>2 DEF Observe, Unanswered
    <3> QED BY <1>5, <3>1, <3>2
  <2>3. Stopped'
    BY <1>5 DEF RunTool, Observe, AgentInv, Stopped
  <2> QED BY <1>2, <2>1, <2>2, <2>3
<1>6. CASE RaiseInAgent \/ StopRecovery
  <2>1. AgentTypeOK' /\ UNCHANGED messages /\ agentAt' # "running" /\ (agentAt' = "ended" \/ recoveryStop')
    BY <1>6 DEF RaiseInAgent, StopRecovery, AgentInv
  <2>2. Stopped'
    BY <1>6 DEF RaiseInAgent, StopRecovery, AgentInv, Stopped
  <2> QED BY <1>2, <2>1, <2>2
<1>7. CASE Answer \/ AskProposal \/ ReceiveProposal \/ AskCorrection \/ ReceiveCorrection
  <2>1. PICK m \in {Assistant(0), Instruction} : messages' = Append(messages, m)
    BY <1>7 DEF Answer, AskProposal, ReceiveProposal, AskCorrection, ReceiveCorrection
  <2>2. AgentTypeOK' /\ agentAt' # "running" /\ (~ recoveryStop' => ~ recoveryStop) /\ agentAt # "ended"
    <3>1. messages' \in Seq(Message)
      <4>1. m \in Message
        BY <1>0
      <4> QED BY <1>0, <2>1, <4>1
    <3>2. CASE Answer
      <4>1. recoveryStop' \in BOOLEAN /\ agentAt = "asking" /\ agentAt' = "validating"
        BY <3>2 DEF Answer
      <4>2. UNCHANGED <<agentState, agentTool, round, callsLeft, proposal>>
        BY <3>2 DEF Answer
      <4>3. ~ recoveryStop' => ~ recoveryStop
        BY <3>2 DEF Answer, AgentInv, Stopped
      <4> QED BY <3>1, <4>1, <4>2, <4>3 DEF AgentInv
    <3>3. CASE AskProposal
      BY <3>1, <3>3 DEF AskProposal, AgentInv
    <3>4. CASE ReceiveProposal
      BY <3>1, <3>4 DEF ReceiveProposal, AgentInv
    <3>5. CASE AskCorrection
      BY <3>1, <3>5 DEF AskCorrection, AgentInv
    <3>6. CASE ReceiveCorrection
      BY <3>1, <3>6 DEF ReceiveCorrection, EndAgent, AgentInv
    <3> QED BY <1>7, <3>2, <3>3, <3>4, <3>5, <3>6
  <2>3. Unanswered = 0 /\ Unanswered' = 0
    BY <1>7 DEF Answer, AskProposal, ReceiveProposal, AskCorrection, ReceiveCorrection, EndAgent, Unanswered
  <2>4. m \in Message /\ m.calls = 0
    BY <1>0
  <2>5. Stopped'
    BY <1>7 DEF Answer, AskProposal, ReceiveProposal, AskCorrection, ReceiveCorrection, EndAgent, AgentInv, Stopped
  <2> QED BY <1>3, <2>1, <2>2, <2>3, <2>4, <2>5
<1>8. ASSUME NEW n \in 1..MaxCallsAtOnce, RequestTools(n) PROVE AgentInv'
  <2>1. messages' = Append(messages, Assistant(n)) /\ Assistant(n) \in Message /\ Assistant(n).calls = n
    BY <1>0, <1>8 DEF RequestTools
  <2>2. AgentTypeOK' /\ agentAt' # "running" /\ recoveryStop' = recoveryStop /\ agentAt # "ended"
    <3>1. messages' \in Seq(Message) /\ n \in 0..MaxCallsAtOnce
      BY <1>0, <2>1
    <3> QED BY <1>8, <3>1 DEF RequestTools, AgentInv
  <2>3. Unanswered = 0 /\ Unanswered' = n
    BY <1>8 DEF RequestTools, Unanswered
  <2>4. Stopped'
    BY <1>8 DEF RequestTools, AgentInv, Stopped
  <2> QED BY <1>3, <2>1, <2>2, <2>3, <2>4
<1>9. CASE ReturnTool
  <2>1. messages' = Append(messages, ToolResult) /\ ToolResult \in Message
    BY <1>0, <1>9 DEF ReturnTool, Shown
  <2>2. AgentTypeOK' /\ agentAt' # "running" /\ recoveryStop' = recoveryStop /\ agentAt # "ended"
    BY <1>9, <2>1 DEF ReturnTool, AgentInv
  <2>3. Unanswered = callsLeft + 1 /\ Unanswered' = callsLeft
    BY <1>9 DEF ReturnTool, Unanswered
  <2>4. Stopped'
    BY <1>9 DEF ReturnTool, AgentInv, Stopped
  <2> QED BY <1>1, <1>3, <2>1, <2>2, <2>3, <2>4
<1>10. CASE UNCHANGED agentVars
  BY <1>10 DEF agentVars, AgentInv, CallsAnswered, Unanswered, Stopped
<1> QED
  BY <1>4, <1>5, <1>6, <1>7, <1>8, <1>9, <1>10 DEF AgentNext

(* However many rounds and calls there are, the model is asked with every  *)
(* call answered, unless the recovery evaluation cut a response off        *)
(* (the loop of agent.py).                                                 *)
THEOREM CallsAnsweredBeforeAsking == AgentSpec => []AnsweredBeforeAsking
<1>1. AgentInv => AnsweredBeforeAsking
  <2> SUFFICES ASSUME AgentInv, agentAt \in {"asking", "proposing", "correcting"}, ~ recoveryStop,
                      NEW i \in 1..Len(messages), NEW k \in 1..messages[i].calls
               PROVE  i + k <= Len(messages) /\ messages[i + k] = ToolResult
    BY DEF AnsweredBeforeAsking
  <2>1. CallsAnswered /\ Unanswered = 0 /\ Len(messages) \in Nat
    BY DEF AgentInv, AgentTypeOK, Unanswered
  <2>2. i + k <= Len(messages) + 0
    BY <2>1 DEF CallsAnswered
  <2>3. i \in Nat /\ k \in Nat
    BY <2>1 DEF AgentInv, AgentTypeOK, Message
  <2> QED BY <2>1, <2>2, <2>3 DEF CallsAnswered
<1> QED BY <1>1, AgentInitInv, AgentStep, PTL DEF AgentSpec

-----------------------------------------------------------------------------
(***************************************************************************)
(* The test plans: an action has its record once it is blocked or ended,   *)
(* with the plan it continues, a waiting action and the one under way have *)
(* not run, the one under way was launched with a packet for its action    *)
(* and plan, and git listed only what was there at the launch.             *)
(***************************************************************************)
OneAttempt == \A a, b \in attempt : a = b

Recorded ==
  /\ attempt = {} => Len(records) = actionIndex
  /\ \A a \in attempt :
       IF a.resumed
       THEN /\ Len(records) = actionIndex /\ a.action \in 1..Len(records)
            /\ records[a.action].plan = a.plan
       ELSE Len(records) = actionIndex - 1 /\ a.action = actionIndex /\ waiting = {}
  /\ \A c \in waiting : c.action \in 1..Len(records) /\ records[c.action].plan = c.plan

NotYetRun ==
  \A n \in 1..Len(runs) :
    /\ runs[n].action <= actionIndex
    /\ \A a \in attempt : runs[n].action # a.action
    /\ \A c \in waiting : runs[n].action # c.action

Launched ==
  \A a \in attempt :
    /\ a.packet.action = a.action /\ a.packet.plan = a.plan
    /\ a.brought \/ a.packet \in GatePackets(a.action, a.plan)
    /\ a.packet.git => a.base \subseteq a.seen

(* What ClosedConditionEarned says of one run.                             *)
Earned(n) ==
  /\ runs[n].passed /\ runs[n].closed
  /\ runs[n].action \in 1..Len(records) /\ records[runs[n].action].status = "success"
  /\ records[runs[n].action].plan = runs[n].plan
  /\ runs[n].packet.action = runs[n].action /\ runs[n].packet.plan = runs[n].plan
  /\ runs[n].brought \/ runs[n].packet \in GatePackets(runs[n].action, runs[n].plan)
  /\ runs[n].packet.git /\ runs[n].listed => runs[n].inside

LEMMA EarnedMeans ==
  ClosedConditionEarned <=> \A t \in WorkTask : \A n \in support[t] : n \in 1..Len(runs) /\ Earned(n)
  BY DEF ClosedConditionEarned, Earned

PlanInv ==
  PlanTypeOK /\ OneAttempt /\ Recorded /\ NotYetRun /\ Launched
    /\ ClosedConditionEarned /\ ActionRunsOnce

LEMMA PlanInitInv == PlanInit => PlanInv
<1> SUFFICES ASSUME PlanInit PROVE PlanInv
  OBVIOUS
<1>1. [t \in WorkTask |-> {}] \in [WorkTask -> SUBSET Nat] /\ 0 \in 0..MaxActions
  BY PlanAssumption
<1>2. <<>> \in Seq(PlanRecord) /\ <<>> \in Seq(PlanRun) /\ Len(<<>>) = 0
  OBVIOUS
<1>3. PlanTypeOK
  BY <1>1, <1>2 DEF PlanInit, PlanTypeOK
<1>4. Recorded /\ NotYetRun /\ ActionRunsOnce
  BY <1>2 DEF PlanInit, Recorded, NotYetRun, ActionRunsOnce
<1>5. ClosedConditionEarned
  BY DEF PlanInit, ClosedConditionEarned
<1>6. OneAttempt /\ Launched
  BY DEF PlanInit, OneAttempt, Launched
<1> QED
  BY <1>3, <1>4, <1>5, <1>6 DEF PlanInv

(* What appending does to a sequence.                                      *)
LEMMA Appended ==
  ASSUME NEW S, NEW s \in Seq(S), NEW e \in S
  PROVE  /\ Append(s, e) \in Seq(S) /\ Len(s) \in Nat /\ Len(Append(s, e)) = Len(s) + 1
         /\ Append(s, e)[Len(s) + 1] = e
         /\ \A n \in 1..Len(s) : Append(s, e)[n] = s[n]
OBVIOUS

(* The record of an action carries the status it was given and keeps its   *)
(* plan, and the other records stay.                                       *)
LEMMA Records ==
  ASSUME PlanTypeOK, NEW action \in 1..MaxActions, NEW plan \in Plan, NEW resumed \in BOOLEAN,
         NEW status \in {"blocked", "failure", "success"},
         RecordRun(action, plan, resumed, status),
         IF resumed THEN action \in 1..Len(records) ELSE action = Len(records) + 1
  PROVE  /\ records' \in Seq(PlanRecord) /\ records'[action].status = status
         /\ Len(records') = IF resumed THEN Len(records) ELSE Len(records) + 1
         /\ records'[action].plan = IF resumed THEN records[action].plan ELSE plan
         /\ \A k \in 1..Len(records) : k # action => records'[k] = records[k]
<1>1. CASE resumed
  <2>1. records' = [records EXCEPT ![action].status = status] /\ action \in 1..Len(records)
    BY <1>1 DEF RecordRun
  <2>2. records \in Seq(PlanRecord)
    BY DEF PlanTypeOK
  <2>3. records[action] \in PlanRecord
    BY <2>1, <2>2
  <2>4. [records[action] EXCEPT !.status = status] \in PlanRecord
    BY <2>3 DEF PlanRecord
  <2>5. records' \in Seq(PlanRecord) /\ Len(records') = Len(records)
    BY <2>1, <2>2, <2>4
  <2>6. /\ records'[action] = [records[action] EXCEPT !.status = status]
        /\ \A k \in 1..Len(records) : k # action => records'[k] = records[k]
    BY <2>1, <2>2
  <2>7. records'[action].status = status /\ records'[action].plan = records[action].plan
    BY <2>3, <2>6 DEF PlanRecord
  <2> QED
    BY <1>1, <2>5, <2>6, <2>7
<1>2. CASE ~ resumed
  <2>1. records' = Append(records, [task |-> focus, plan |-> plan, status |-> status])
    BY <1>2 DEF RecordRun
  <2>2. records \in Seq(PlanRecord) /\ [task |-> focus, plan |-> plan, status |-> status] \in PlanRecord
    BY DEF PlanTypeOK, PlanRecord
  <2> QED
    BY <1>2, <2>1, <2>2, Appended
<1> QED
  BY <1>1, <1>2

(* The actions that have run are numbers up to the index, none of which    *)
(* waits.                                                                  *)
LEMMA RunActions ==
  ASSUME PlanInv, NEW n \in 1..Len(runs)
  PROVE  /\ runs[n] \in PlanRun /\ runs[n].action \in Int /\ runs[n].action <= actionIndex
         /\ \A a \in attempt : runs[n].action # a.action
         /\ \A c \in waiting : runs[n].action # c.action
<1>1. runs \in Seq(PlanRun)
  BY DEF PlanInv, PlanTypeOK
<1>2. runs[n] \in PlanRun
  BY <1>1
<1>3. runs[n].action \in 1..MaxActions
  BY <1>2 DEF PlanRun
<1> QED
  BY <1>2, <1>3, PlanAssumption DEF PlanInv, NotYetRun

(* A run stays earned while the record of its action stays.                *)
LEMMA EarnedKept ==
  ASSUME NEW n, Earned(n), runs'[n] = runs[n], Len(records) \in Nat, Len(records') \in Nat,
         Len(records) <= Len(records'),
         records'[runs[n].action] = records[runs[n].action]
  PROVE  Earned(n)'
<1>1. runs[n].action \in 1..Len(records')
  BY DEF Earned
<1>2. GatePackets(runs[n].action, runs[n].plan)' = GatePackets(runs'[n].action, runs'[n].plan)
  BY DEF GatePackets
<1> QED
  BY <1>1, <1>2 DEF Earned

(* A refusal keeps the invariant.                                          *)
LEMMA RefuseStep ==
  ASSUME PlanInv, attempt = {}, NEW action \in 1..MaxActions, NEW plan \in Plan, NEW resumed \in BOOLEAN,
         Refuse(action, plan, resumed), actionIndex' \in 0..MaxActions,
         IF resumed
           THEN actionIndex' = actionIndex /\ [action |-> action, plan |-> plan] \in waiting
           ELSE actionIndex' = actionIndex + 1 /\ action = actionIndex'
  PROVE  PlanInv'
<1>1. PICK status \in {"blocked", "failure"} : RecordRun(action, plan, resumed, status)
  BY DEF Refuse
<1>2. PlanTypeOK /\ Len(records) = actionIndex /\ Len(records) \in Nat
  BY DEF PlanInv, Recorded, PlanTypeOK
<1>3. IF resumed THEN action \in 1..Len(records) ELSE action = Len(records) + 1
  BY <1>2 DEF PlanInv, Recorded
<1>4. /\ records' \in Seq(PlanRecord) /\ Len(records') = actionIndex'
      /\ ~ resumed => records'[action].plan = plan
      /\ \A k \in 1..Len(records) : k # action => records'[k] = records[k]
  BY <1>1, <1>2, <1>3, Records
<1>5. waiting' \subseteq {[action |-> action, plan |-> plan]} /\ (resumed => waiting' = {})
  BY DEF Refuse, StillWaiting
<1>6. UNCHANGED <<attempt, focus, dirty, runs, support>>
  BY DEF Refuse
<1>7. PlanTypeOK'
  BY <1>2, <1>4, <1>5, <1>6 DEF PlanTypeOK, Continuation
<1>8. Recorded'
  BY <1>2, <1>3, <1>4, <1>5, <1>6 DEF Recorded
<1>9. NotYetRun'
  <2> SUFFICES ASSUME NEW n \in 1..Len(runs)
               PROVE  /\ runs[n].action <= actionIndex'
                      /\ \A c \in waiting' : runs[n].action # c.action
    BY <1>6 DEF NotYetRun
  <2> QED
    BY <1>2, <1>5, RunActions
<1>10. OneAttempt' /\ Launched'
  BY <1>6 DEF OneAttempt, Launched
<1>11. ClosedConditionEarned'
  <2> SUFFICES ASSUME NEW t \in WorkTask, NEW n \in support[t]
               PROVE  n \in 1..Len(runs) /\ Earned(n)'
    BY <1>6 DEF ClosedConditionEarned, Earned
  <2>1. n \in 1..Len(runs) /\ Earned(n)
    BY EarnedMeans DEF PlanInv
  <2>2. runs[n].action # action /\ runs[n].action \in 1..Len(records)
    BY <1>2, <2>1, RunActions DEF Earned
  <2> QED
    BY <1>2, <1>4, <1>6, <2>1, <2>2, EarnedKept
<1>12. ActionRunsOnce'
  BY <1>6 DEF PlanInv, ActionRunsOnce
<1> QED
  BY <1>12, <1>7, <1>8, <1>9, <1>10, <1>11 DEF PlanInv

(* So does a launch, of an action that has not run.                        *)
LEMMA LaunchStep ==
  ASSUME PlanInv, attempt = {}, NEW action \in 1..MaxActions, NEW plan \in Plan, NEW resumed \in BOOLEAN,
         Launch(action, plan, resumed), actionIndex' \in 0..MaxActions,
         IF resumed
           THEN actionIndex' = actionIndex /\ [action |-> action, plan |-> plan] \in waiting
           ELSE actionIndex' = actionIndex + 1 /\ action = actionIndex'
  PROVE  PlanInv'
<1>1. PICK brought \in BOOLEAN, base \in Listings,
           packet \in Packet \cup GatePackets(action, plan) :
        /\ packet \in Packets(brought, action, plan)
        /\ attempt' = {[action |-> action, plan |-> plan, resumed |-> resumed,
                        packet |-> packet, brought |-> brought,
                        base |-> IF packet.git THEN base ELSE {}, seen |-> dirty]}
  BY DEF Launch, Packets
<1>p. /\ packet \in Packet /\ packet.action = action /\ packet.plan = plan
      /\ brought \/ packet \in GatePackets(action, plan)
  <2>1. CASE brought
    BY <1>1, <2>1 DEF Packets, Packet, Verified
  <2>2. CASE ~ brought
    <3>1. packet \in GatePackets(action, plan)
      BY <1>1, <2>2 DEF Packets
    <3>2. packet = [action |-> action, plan |-> plan, git |-> plan \in GitPlan]
      BY <3>1 DEF GatePackets
    <3>3. (plan \in GitPlan) \in BOOLEAN
      OBVIOUS
    <3>4. packet \in Packet
      BY <3>2, <3>3, Zenon DEF Packet
    <3>5. packet.action = action /\ packet.plan = plan
      BY <3>2
    <3> QED
      BY <3>1, <3>4, <3>5
  <2> QED
    BY <2>1, <2>2
<1>2. PlanTypeOK /\ Len(records) = actionIndex /\ Len(records) \in Nat
  BY DEF PlanInv, Recorded, PlanTypeOK
<1>3. base \subseteq dirty /\ dirty \subseteq Path
  BY <1>2 DEF Listings, PlanTypeOK
<1>4. UNCHANGED <<records, focus, dirty, runs, support>>
      /\ waiting' = IF resumed THEN waiting ELSE {}
  BY DEF Launch
<1>5. attempt' \subseteq PlanAttempt
  BY <1>1, <1>3, <1>p DEF PlanAttempt
<1>6. PlanTypeOK'
  BY <1>2, <1>4, <1>5 DEF PlanTypeOK
<1>7. OneAttempt'
  BY <1>1 DEF OneAttempt
<1>8. Recorded'
  <2>1. \A c \in waiting : c.action \in 1..Len(records) /\ records[c.action].plan = c.plan
    BY DEF PlanInv, Recorded
  <2>2. resumed => action \in 1..Len(records) /\ records[action].plan = plan
    BY <2>1
  <2>3. \A a \in attempt' : a.resumed = resumed /\ a.action = action /\ a.plan = plan
    BY <1>1
  <2>4. attempt' # {} /\ records' = records
    BY <1>1, <1>4
  <2>5. IF resumed THEN /\ Len(records) = actionIndex' /\ action \in 1..Len(records)
                        /\ records[action].plan = plan /\ waiting' = waiting
        ELSE Len(records) = actionIndex' - 1 /\ action = actionIndex' /\ waiting' = {}
    BY <1>2, <1>4, <2>2
  <2> QED
    BY <2>1, <2>3, <2>4, <2>5 DEF Recorded
<1>9. Launched'
  BY <1>1, <1>3, <1>p DEF Launched, GatePackets
<1>10. NotYetRun'
  <2> SUFFICES ASSUME NEW n \in 1..Len(runs)
               PROVE  /\ runs[n].action <= actionIndex' /\ runs[n].action # action
                      /\ \A c \in waiting' : runs[n].action # c.action
    BY <1>1, <1>4 DEF NotYetRun
  <2> QED
    BY <1>2, <1>4, RunActions
<1>11. ClosedConditionEarned' /\ ActionRunsOnce'
  BY <1>4 DEF PlanInv, ClosedConditionEarned, ActionRunsOnce, GatePackets
<1> QED
  BY <1>6, <1>7, <1>8, <1>9, <1>10, <1>11 DEF PlanInv

(* The end of the tests uses up the action.                                *)
LEMMA EndTestsStep ==
  ASSUME PlanInv, NEW passed \in BOOLEAN, EndTests(passed)
  PROVE  PlanInv'
<1> DEFINE Ends(a, now, closed) ==
        /\ runs' = Append(runs, [action |-> a.action, plan |-> a.plan, packet |-> a.packet,
                                 brought |-> a.brought, passed |-> passed, closed |-> closed,
                                 listed |-> (now = dirty),
                                 inside |-> (dirty \ a.seen \subseteq Declared)])
        /\ support' = IF passed /\ closed
                      THEN [support EXCEPT ![focus] = @ \cup {Len(runs')}] ELSE support
        /\ RecordRun(a.action, a.plan, a.resumed, IF passed THEN "success" ELSE "failure")
        /\ waiting' = StillWaiting(a.action, a.plan, a.resumed, records'[a.action].status)
        /\ attempt' = {}
        /\ UNCHANGED <<actionIndex, focus, dirty>>
<1>1. PICK a \in attempt, now \in Listings, closed \in BOOLEAN :
        closed \in Closures(a.packet, a.base, now) /\ Ends(a, now, closed)
  <2>1. \E a \in attempt, now \in Listings : \E closed \in Closures(a.packet, a.base, now) :
          Ends(a, now, closed)
    BY Zenon DEF EndTests
  <2>2. \A packet, base, now : Closures(packet, base, now) \subseteq BOOLEAN
    BY DEF Closures
  <2> HIDE DEF Ends
  <2> QED
    BY <2>1, <2>2
<1> DEFINE run == [action |-> a.action, plan |-> a.plan, packet |-> a.packet,
                   brought |-> a.brought, passed |-> passed, closed |-> closed,
                   listed |-> (now = dirty), inside |-> (dirty \ a.seen \subseteq Declared)]
<1>2. PlanTypeOK /\ a \in PlanAttempt /\ closed \in BOOLEAN /\ actionIndex \in Nat /\ Len(records) \in Nat
  <2>1. PlanTypeOK
    BY DEF PlanInv
  <2>2. a \in PlanAttempt /\ actionIndex \in Nat /\ Len(records) \in Nat
    BY <2>1, PlanAssumption DEF PlanTypeOK
  <2>3. closed \in BOOLEAN
    BY DEF Closures
  <2> QED
    BY <2>1, <2>2, <2>3
<1>3. /\ a.action \in 1..MaxActions /\ a.plan \in Plan /\ a.resumed \in BOOLEAN
      /\ IF a.resumed THEN /\ a.action \in 1..Len(records) /\ Len(records) = actionIndex
                           /\ records[a.action].plan = a.plan
         ELSE a.action = Len(records) + 1 /\ a.action = actionIndex
  BY <1>2 DEF PlanAttempt, PlanInv, Recorded
<1>4. /\ records' \in Seq(PlanRecord) /\ Len(records') = actionIndex
      /\ records'[a.action].status = (IF passed THEN "success" ELSE "failure")
      /\ records'[a.action].plan = a.plan
      /\ \A k \in 1..Len(records) : k # a.action => records'[k] = records[k]
  <2>1. (IF passed THEN "success" ELSE "failure") \in {"blocked", "failure", "success"}
    OBVIOUS
  <2> QED
    BY <1>1, <1>2, <1>3, <2>1, Records
<1>5. waiting' = {}
  BY <1>1, <1>4 DEF StillWaiting
<1>6. runs \in Seq(PlanRun) /\ run \in PlanRun
  BY <1>2, <1>3 DEF PlanTypeOK, PlanRun, PlanAttempt
<1>7. /\ runs' \in Seq(PlanRun) /\ Len(runs) \in Nat /\ Len(runs') = Len(runs) + 1
      /\ runs'[Len(runs) + 1] = run /\ \A n \in 1..Len(runs) : runs'[n] = runs[n]
  BY <1>1, <1>6, Appended
<1>8. PlanTypeOK'
  BY <1>1, <1>2, <1>4, <1>5, <1>7 DEF PlanTypeOK
<1>9. OneAttempt' /\ Recorded' /\ Launched'
  BY <1>1, <1>4, <1>5 DEF OneAttempt, Recorded, Launched
<1>10. run.action = a.action /\ run.action <= actionIndex /\ run.action \in Int
  BY <1>2, <1>3
<1>11. NotYetRun'
  <2> SUFFICES ASSUME NEW n \in 1..Len(runs') PROVE runs'[n].action <= actionIndex
    BY <1>1, <1>5 DEF NotYetRun
  <2>1. CASE n \in 1..Len(runs)
    BY <1>7, <2>1, RunActions
  <2>2. CASE n = Len(runs) + 1
    BY <1>7, <1>10, <2>2
  <2> QED
    BY <1>7, <2>1, <2>2
<1>12. ActionRunsOnce'
  <2> SUFFICES ASSUME NEW i \in 1..Len(runs'), NEW j \in 1..Len(runs'),
                      runs'[i].action = runs'[j].action
               PROVE  i = j
    BY DEF ActionRunsOnce
  <2>1. \A n \in 1..Len(runs) : runs'[n].action # run.action
    BY <1>7, <1>10, RunActions
  <2>2. CASE i \in 1..Len(runs) /\ j \in 1..Len(runs)
    BY <1>7, <2>2 DEF PlanInv, ActionRunsOnce
  <2> QED
    BY <1>7, <2>1, <2>2
<1>13. ClosedConditionEarned'
  <2> SUFFICES ASSUME NEW t \in WorkTask, NEW n \in support'[t]
               PROVE  n \in 1..Len(runs') /\ Earned(n)'
    BY <1>1 DEF ClosedConditionEarned, Earned
  <2>1. CASE n \in support[t]
    <3>1. n \in 1..Len(runs) /\ Earned(n)
      BY <2>1, EarnedMeans DEF PlanInv
    <3>2. runs[n].action # a.action /\ runs[n].action \in 1..Len(records)
      BY <3>1, RunActions DEF Earned
    <3>3. runs'[n] = runs[n] /\ n \in 1..Len(runs')
      BY <1>7, <3>1
    <3>4. Len(records') \in Nat /\ Len(records) <= Len(records')
      BY <1>2, <1>3, <1>4
    <3> QED
      BY <1>2, <1>4, <3>1, <3>2, <3>3, <3>4, EarnedKept
  <2>2. CASE passed /\ closed /\ n = Len(runs')
    <3>1. runs'[n] = run /\ n \in 1..Len(runs')
      BY <1>7, <2>2
    <3>2. /\ run.packet.action = run.action /\ run.packet.plan = run.plan
          /\ run.brought \/ run.packet \in GatePackets(run.action, run.plan)
          /\ run.packet.git => a.base \subseteq a.seen
      BY DEF PlanInv, Launched
    <3>3. run.packet.git /\ run.listed => run.inside
      BY <1>1, <2>2, <3>2 DEF Closures
    <3>4. /\ run.action \in 1..Len(records') /\ records'[run.action].status = "success"
          /\ records'[run.action].plan = run.plan
      BY <1>2, <1>3, <1>4, <2>2
    <3>5. run.passed /\ run.closed
      BY <2>2
    <3> HIDE DEF run
    <3>6. GatePackets(run.action, run.plan) = GatePackets(runs'[n].action, runs'[n].plan)
      BY <3>1
    <3> QED
      BY <3>1, <3>2, <3>3, <3>4, <3>5, <3>6 DEF Earned, GatePackets
  <2> QED
    BY <1>1, <1>2, <2>1, <2>2 DEF PlanTypeOK
<1> QED
  BY <1>8, <1>9, <1>11, <1>12, <1>13 DEF PlanInv

LEMMA PlanStep == PlanInv /\ [PlanNext]_planVars => PlanInv'
<1> SUFFICES ASSUME PlanInv, [PlanNext]_planVars PROVE PlanInv'
  OBVIOUS
<1>0. PlanTypeOK /\ Recorded
  BY DEF PlanInv
<1>1. ASSUME NEW p \in Plan, CallAgain(p) PROVE PlanInv'
  <2>1. PICK c \in waiting : c.plan = p /\ (Refuse(c.action, p, TRUE) \/ Launch(c.action, p, TRUE))
    BY <1>1 DEF CallAgain, Continued
  <2>2. c \in Continuation
    BY <1>0 DEF PlanTypeOK
  <2>3. c.action \in 1..MaxActions /\ [action |-> c.action, plan |-> p] = c
    BY <2>1, <2>2 DEF Continuation
  <2>4. attempt = {} /\ actionIndex' = actionIndex /\ actionIndex' \in 0..MaxActions
    BY <1>0, <1>1 DEF CallAgain, PlanTypeOK
  <2> QED
    BY <2>1, <2>3, <2>4, RefuseStep, LaunchStep
<1>2. ASSUME NEW p \in Plan, CallNew(p) PROVE PlanInv'
  <2>1. actionIndex' = actionIndex + 1 /\ actionIndex' \in 1..MaxActions /\ actionIndex' \in 0..MaxActions
    BY <1>0, <1>2, PlanAssumption DEF CallNew, PlanTypeOK
  <2>2. attempt = {} /\ (Refuse(actionIndex', p, FALSE) \/ Launch(actionIndex', p, FALSE))
    BY <1>2 DEF CallNew
  <2> QED
    BY <2>1, <2>2, RefuseStep, LaunchStep
<1>3. ASSUME NEW passed \in BOOLEAN, EndTests(passed) PROVE PlanInv'
  BY <1>3, EndTestsStep
<1>a. ASSUME UNCHANGED <<actionIndex, records, waiting, attempt, runs, support>>, PlanTypeOK'
      PROVE  PlanInv'
  <2>1. OneAttempt' /\ Recorded' /\ NotYetRun' /\ ActionRunsOnce'
    BY <1>a DEF PlanInv, OneAttempt, Recorded, NotYetRun, ActionRunsOnce
  <2>2. ClosedConditionEarned'
    BY <1>a DEF PlanInv, ClosedConditionEarned, GatePackets
  <2>3. Launched'
    BY <1>a DEF PlanInv, Launched, GatePackets
  <2> QED
    BY <1>a, <2>1, <2>2, <2>3 DEF PlanInv
<1>4. ASSUME ChangeTask PROVE PlanInv'
  BY <1>0, <1>4, <1>a DEF ChangeTask, PlanTypeOK
<1>5. ASSUME NEW f \in Path, ChangeFile(f) PROVE PlanInv'
  BY <1>0, <1>5, <1>a DEF ChangeFile, PlanTypeOK
<1>6. ASSUME UNCHANGED planVars PROVE PlanInv'
  BY <1>0, <1>6, <1>a DEF planVars, PlanTypeOK
<1> QED
  BY <1>1, <1>2, <1>3, <1>4, <1>5, <1>6 DEF PlanNext

(* For any plans, paths and packets, and any sequence of calls: a          *)
(* condition "test_run_closed" is supported only by runs that passed, had  *)
(* a packet for their action and plan (the gate's, or one that was         *)
(* brought), left nothing new outside the scope where that packet asks for *)
(* the check and git worked, and whose action still shows the success      *)
(* (_append_test_safety_evidence).                                         *)
THEOREM ConditionsAreEarned == PlanSpec => []ClosedConditionEarned
<1>1. PlanInv => ClosedConditionEarned
  BY DEF PlanInv
<1> QED
  BY <1>1, PlanInitInv, PlanStep, PTL DEF PlanSpec

(* The tests of an action run at most once (execute_test_plan_action).     *)
THEOREM TestsRunOnce == PlanSpec => []ActionRunsOnce
<1>1. PlanInv => ActionRunsOnce
  BY DEF PlanInv
<1> QED
  BY <1>1, PlanInitInv, PlanStep, PTL DEF PlanSpec

(* Every variable of a test plan run keeps its type.                       *)
THEOREM PlanTypeCorrect == PlanSpec => []PlanTypeOK
<1>1. PlanInv => PlanTypeOK
  BY DEF PlanInv
<1> QED
  BY <1>1, PlanInitInv, PlanStep, PTL DEF PlanSpec

-----------------------------------------------------------------------------
(***************************************************************************)
(* Side by side: a step is one of the part that runs and a stutter of the  *)
(* others.  Fairness, which the turn and the batches have, plays no role   *)
(* in an invariant.                                                        *)
(***************************************************************************)
LEMMA OnePartSteps ==
  [ToolsNext]_toolsVars =>
    /\ [LoopNext]_loopVars /\ [QuestionNext]_questionVars /\ [RunNext]_runVars
    /\ [SandboxNext]_sandboxVars /\ [AgentNext]_agentVars /\ [PromotionNext]_promoteVars
    /\ [BatchNext]_batchVars /\ [PlanNext]_planVars
  BY DEF ToolsNext, toolsVars, Alone, Turn, Questions, Run, Sandbox, Agent, Promotion, Batches, Plans

ToolsInv ==
  /\ FuseInv /\ LoopTypeOK /\ AskedInv /\ QuestionTypeOK /\ RunInv /\ SnapshotInv
  /\ AgentInv /\ PromotionInv /\ BatchInv /\ PlanInv

(* The invariants of the parts hold side by side.                          *)
THEOREM ToolsInvariant == ToolsSpec => []ToolsInv
<1>1. ToolsInit => ToolsInv
  <2>1. QuestionInit => QuestionTypeOK
    BY DEF QuestionInit, QuestionTypeOK
  <2> QED
    BY <2>1, FuseInitInv, LoopTypeInit, AskedInitInv, RunInitInv, SandboxInitInv, AgentInitInv,
       PromotionInitInv, BatchInitInv, PlanInitInv DEF ToolsInit, ToolsInv
<1>2. ToolsInv /\ [ToolsNext]_toolsVars => ToolsInv'
  <2> SUFFICES ASSUME ToolsInv, [ToolsNext]_toolsVars PROVE ToolsInv'
    OBVIOUS
  <2>1. FuseInv' /\ AskedInv' /\ RunInv' /\ SnapshotInv'
    BY OnePartSteps, FuseStep, AskedStep, RunStep, SandboxStep DEF ToolsInv
  <2>2. AgentInv' /\ PromotionInv' /\ BatchInv' /\ PlanInv'
    BY OnePartSteps, AgentStep, PromotionStep, BatchStep, PlanStep DEF ToolsInv
  <2>3. LoopTypeOK' /\ QuestionTypeOK'
    BY <2>1, OnePartSteps, LoopTypeStep, QuestionTypeStep DEF ToolsInv
  <2> QED BY <2>1, <2>2, <2>3 DEF ToolsInv
<1> QED BY <1>1, <1>2, PTL DEF ToolsSpec

(* Every variable of the turn and its tools keeps its type, for all limits *)
(* of the loop and any missions, handoffs, files, branches, rounds, jobs   *)
(* and plans.                                                              *)
THEOREM ToolsTypeCorrect == ToolsSpec => []ToolsTypeOK
<1>1. ToolsInv => ToolsTypeOK
  BY DEF ToolsInv, ToolsTypeOK, RunInv, SnapshotInv, AgentInv, PromotionInv, BatchInv, PlanInv
<1> QED BY <1>1, ToolsInvariant, PTL

(* What is proved of a part alone holds of it beside the others.           *)
THEOREM ToolsSafe ==
  ToolsSpec =>
    /\ [](FusesExact /\ NeverSilent)
    /\ []OneQuestion /\ NotTalkedOver
    /\ [](CompletedIsAccepted /\ SnapshotOfBase /\ AnsweredBeforeAsking /\ PassMeansPromoted)
    /\ [](ClosedConditionEarned /\ ActionRunsOnce)
<1>1. ToolsSpec => QuestionSpec /\ RunSpec /\ SandboxSpec /\ AgentSpec /\ PromotionSpec /\ PlanSpec
  <2>1. ToolsInit => QuestionInit /\ RunInit /\ SandboxInit /\ AgentInit /\ PromotionInit /\ PlanInit
    BY DEF ToolsInit
  <2> QED
    BY <2>1, OnePartSteps, PTL
       DEF ToolsSpec, QuestionSpec, RunSpec, SandboxSpec, AgentSpec, PromotionSpec, PlanSpec
<1>2. ToolsInv => FusesExact /\ NeverSilent
  BY DEF ToolsInv, FuseInv, EndInv
<1> QED
  BY <1>1, <1>2, ToolsInvariant, NeverTwoQuestions, QuestionsKept, CompletionIsAccepted,
     SnapshotIsOfBase, CallsAnsweredBeforeAsking, PassIsPromoted, ConditionsAreEarned,
     TestsRunOnce, PTL

=============================================================================
