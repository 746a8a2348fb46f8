--------------------------- MODULE TestBatches_proofs ---------------------------
(***************************************************************************)
(* What TLAPS proves about TestBatches for any number of requests, polls   *)
(* and runs of a batch.                                                    *)
(***************************************************************************)
EXTENDS TestBatches, TLAPS

Alive(j) == worker[j] \in {"between", "executing", "reporting"}

(* A worker runs only while its job is registered as running, and there is *)
(* one running job at most.                                                *)
OneRunning ==
  /\ \A j \in Job : Alive(j) => jobStatus[j] = "running"
  /\ \A j \in Job : jobStatus[j] = "none" => worker[j] = "none"
  /\ \A j, o \in Job : jobStatus[j] = "running" /\ jobStatus[o] = "running" => j = o

(* The list of run statuses lags the counter by the run that is going on,  *)
(* and it is complete when the job is.                                     *)
RunsReported ==
  /\ \A j \in Job : worker[j] = "none" => jobCurrent[j] = 0 /\ runStatuses[j] = 0
  /\ \A j \in Job : worker[j] = "between" => runStatuses[j] = jobCurrent[j]
  /\ \A j \in Job : worker[j] \in {"executing", "reporting"} => runStatuses[j] + 1 = jobCurrent[j]
  /\ \A j \in Job : jobStatus[j] = "completed" => runStatuses[j] = Runs

(* A completed job stays as it was copied.                                 *)
PollsOfCompleted ==
  \A p \in Poll, j \in Job : pollAnswer[p][j].status = "completed" => jobStatus[j] = "completed"

BatchInv ==
  BatchTypeOK /\ OneRunning /\ RunsReported /\ PollsOfCompleted /\ CompletedShowsAllRuns

LEMMA BatchInitInv == BatchInit => BatchInv
<1> SUFFICES ASSUME BatchInit PROVE BatchInv
  OBVIOUS
<1>1. BatchTypeOK
  BY RunsAssumption
     DEF BatchInit, BatchTypeOK, JobStatus, WorkerStage, NoPollAnswer, Unsent
<1>2. OneRunning /\ RunsReported /\ PollsOfCompleted /\ CompletedShowsAllRuns
  BY DEF BatchInit, OneRunning, Alive, RunsReported, PollsOfCompleted, CompletedShowsAllRuns,
         NoPollAnswer
<1> QED BY <1>1, <1>2 DEF BatchInv

-----------------------------------------------------------------------------
LEMMA BatchStep == BatchInv /\ [BatchNext]_batchVars => BatchInv'
<1> SUFFICES ASSUME BatchInv, [BatchNext]_batchVars PROVE BatchInv'
  OBVIOUS
<1> USE RunsAssumption DEF BatchInv, JobStatus, WorkerStage, Alive
<1>1. ASSUME NEW j \in Job, StartJob(j) PROVE BatchInv'
  <2>1. (BatchTypeOK /\ OneRunning)'
    BY <1>1 DEF StartJob, NoneRunning, BatchTypeOK, OneRunning
  <2>2. RunsReported'
    BY <1>1 DEF StartJob, BatchTypeOK, OneRunning, RunsReported
  <2>3. (PollsOfCompleted /\ CompletedShowsAllRuns)'
    BY <1>1 DEF StartJob, BatchTypeOK, PollsOfCompleted, CompletedShowsAllRuns
  <2> QED BY <2>1, <2>2, <2>3
<1>2. ASSUME NEW j \in Job, BeginRun(j) \/ ExecuteRun(j) \/ ReportRun(j) PROVE BatchInv'
  <2>1. jobStatus[j] = "running" /\ jobCurrent[j] \in 0..Runs /\ runStatuses[j] \in 0..Runs
    BY <1>2 DEF BeginRun, ExecuteRun, ReportRun, BatchTypeOK, OneRunning
  <2>2. OneRunning'
    BY <1>2 DEF BeginRun, ExecuteRun, ReportRun, BatchTypeOK, OneRunning
  <2>3. (PollsOfCompleted /\ CompletedShowsAllRuns)'
    BY <1>2 DEF BeginRun, ExecuteRun, ReportRun, BatchTypeOK, PollsOfCompleted, CompletedShowsAllRuns
  <2>4. CASE BeginRun(j)
    <3>1. jobCurrent[j] + 1 \in 0..Runs /\ runStatuses[j] = jobCurrent[j]
      BY <2>1, <2>4 DEF BeginRun, RunsLeft, RunsReported
    <3>2. BatchTypeOK'
      BY <2>4, <3>1 DEF BeginRun, BatchTypeOK
    <3>3. RunsReported'
      BY <2>1, <2>4, <3>1 DEF BeginRun, BatchTypeOK, RunsReported
    <3> QED BY <2>2, <2>3, <3>2, <3>3
  <2>5. CASE ExecuteRun(j)
    <3>1. (BatchTypeOK /\ RunsReported)'
      BY <2>5 DEF ExecuteRun, BatchTypeOK, RunsReported
    <3> QED BY <2>2, <2>3, <3>1
  <2>6. CASE ReportRun(j)
    <3>1. runStatuses[j] + 1 \in 0..Runs /\ runStatuses[j] + 1 = jobCurrent[j]
      BY <2>1, <2>6 DEF ReportRun, RunsReported
    <3>2. BatchTypeOK'
      BY <2>6, <3>1 DEF ReportRun, BatchTypeOK
    <3>3. RunsReported'
      BY <2>1, <2>6, <3>1 DEF ReportRun, BatchTypeOK, RunsReported
    <3> QED BY <2>2, <2>3, <3>2, <3>3
  <2> QED BY <1>2, <2>4, <2>5, <2>6
<1>3. ASSUME NEW j \in Job, CompleteJob(j) \/ FailBatch(j) PROVE BatchInv'
  <2>1. /\ Alive(j) /\ worker' = [worker EXCEPT ![j] = "ended"]
        /\ \/ jobStatus' = [jobStatus EXCEPT ![j] = "failed"]
           \/ /\ jobStatus' = [jobStatus EXCEPT ![j] = "completed"]
              /\ runStatuses[j] = Runs
        /\ UNCHANGED <<jobCurrent, runStatuses, pollAnswer>>
    BY <1>3 DEF CompleteJob, FailBatch, AllReported, EndBatch, RunsReported, BatchTypeOK
  <2>2. (BatchTypeOK /\ OneRunning)'
    BY <2>1 DEF BatchTypeOK, OneRunning
  <2>3. RunsReported'
    BY <2>1 DEF BatchTypeOK, RunsReported
  <2>4. (PollsOfCompleted /\ CompletedShowsAllRuns)'
    BY <2>1 DEF BatchTypeOK, OneRunning, PollsOfCompleted, CompletedShowsAllRuns
  <2> QED BY <2>2, <2>3, <2>4
<1>4. ASSUME NEW p \in Poll, NEW j \in Job, CopyJob(p, j) PROVE BatchInv'
  <2> DEFINE answer == [pollAnswer[p][j] EXCEPT !.status = jobStatus[j]]
  <2>1. /\ answer \in [status : JobStatus, runs : 0..Unsent]
        /\ answer.status = jobStatus[j] /\ answer.runs = Unsent
        /\ pollAnswer' = [pollAnswer EXCEPT ![p] = [pollAnswer[p] EXCEPT ![j] = answer]]
        /\ UNCHANGED <<jobStatus, jobCurrent, runStatuses, worker>>
    <3>1. pollAnswer[p] \in [Job -> [status : JobStatus, runs : 0..Unsent]]
      BY DEF BatchTypeOK
    <3>2. pollAnswer[p][j] \in [status : JobStatus, runs : 0..Unsent]
      BY <3>1
    <3>3. jobStatus[j] \in JobStatus /\ runStatuses[j] \in 0..Unsent /\ Unsent \in 0..Unsent
      BY DEF BatchTypeOK, Unsent
    <3> QED
      BY <1>4, <3>2, <3>3 DEF CopyJob, NoPollAnswer
  <2> HIDE DEF answer
  <2>2. (BatchTypeOK /\ OneRunning /\ RunsReported)'
    BY <2>1 DEF BatchTypeOK, OneRunning, RunsReported
  <2>3. (PollsOfCompleted /\ CompletedShowsAllRuns)'
    BY <2>1 DEF BatchTypeOK, PollsOfCompleted, CompletedShowsAllRuns
  <2> QED BY <2>2, <2>3
<1>5. ASSUME NEW p \in Poll, NEW j \in Job, SendJob(p, j) PROVE BatchInv'
  <2> DEFINE answer == [pollAnswer[p][j] EXCEPT !.runs = runStatuses[j]]
  <2>1. /\ answer \in [status : JobStatus, runs : 0..Unsent]
        /\ answer.status = pollAnswer[p][j].status /\ answer.runs = runStatuses[j]
        /\ pollAnswer' = [pollAnswer EXCEPT ![p] = [pollAnswer[p] EXCEPT ![j] = answer]]
        /\ UNCHANGED <<jobStatus, jobCurrent, runStatuses, worker>>
    <3>1. pollAnswer[p] \in [Job -> [status : JobStatus, runs : 0..Unsent]]
      BY DEF BatchTypeOK
    <3>2. pollAnswer[p][j] \in [status : JobStatus, runs : 0..Unsent]
      BY <3>1
    <3>3. jobStatus[j] \in JobStatus /\ runStatuses[j] \in 0..Unsent /\ Unsent \in 0..Unsent
      BY DEF BatchTypeOK, Unsent
    <3> QED
      BY <1>5, <3>2, <3>3 DEF SendJob, NoPollAnswer
  <2> HIDE DEF answer
  <2>2. (BatchTypeOK /\ OneRunning /\ RunsReported)'
    BY <2>1 DEF BatchTypeOK, OneRunning, RunsReported
  <2>3. (PollsOfCompleted /\ CompletedShowsAllRuns)'
    BY <2>1 DEF BatchTypeOK, RunsReported, PollsOfCompleted, CompletedShowsAllRuns
  <2> QED BY <2>2, <2>3
<1>6. CASE UNCHANGED batchVars
  BY <1>6
     DEF batchVars, BatchTypeOK, OneRunning, RunsReported, PollsOfCompleted, CompletedShowsAllRuns
<1> QED
  BY <1>1, <1>2, <1>3, <1>4, <1>5, <1>6 DEF BatchNext, WorkJob

-----------------------------------------------------------------------------
(* The invariant from which the theorems follow, and with it the types.    *)
THEOREM BatchInvariant == BatchSpec => []BatchInv
<1> QED BY BatchInitInv, BatchStep, PTL DEF BatchSpec

(* However many requests start batches, one worker runs at a time, because *)
(* the check and the registration hold the lock (start_batch_job).         *)
THEOREM NeverTwoWorkers == BatchSpec => []OneWorker
<1>1. BatchInv => OneWorker
  BY DEF BatchInv, BatchTypeOK, OneRunning, Alive, WorkerStage, OneWorker
<1> QED BY <1>1, BatchInvariant, PTL

(* A poll that reports completion shows every run, whatever the number of  *)
(* runs and polls, although it reads the row and its list at different     *)
(* times (batch_job).                                                      *)
THEOREM CompletionShowsAll == BatchSpec => []CompletedShowsAllRuns
<1>1. BatchInv => CompletedShowsAllRuns
  BY DEF BatchInv
<1> QED BY <1>1, BatchInvariant, PTL

=============================================================================
