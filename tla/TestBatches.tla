------------------------------ MODULE TestBatches ------------------------------
(***************************************************************************)
(* The test batch jobs of the chat server                                  *)
(* (ai_tool/chat_interface/test_batches with run_batch of                  *)
(* ai_tool/agent_test_runner).  A request registers a job under the lock   *)
(* and starts its worker thread; the worker reports every run under the    *)
(* lock; other requests poll the job.  A poll copies the row under the     *)
(* lock, but the copy shares the list of run statuses with the row.        *)
(***************************************************************************)
EXTENDS Naturals

CONSTANTS
  Job,   \* the requests that start a batch
  Poll,  \* the requests that poll one
  Runs   \* the runs of a batch

ASSUME RunsAssumption == Runs \in Nat \ {0}

VARIABLES
  jobStatus,    \* _JOBS[job]["status"], "none" before the job is registered
  jobCurrent,   \* _JOBS[job]["current"]
  runStatuses,  \* the length of _JOBS[job]["run_statuses"]
  worker,       \* the worker thread of each job
  pollAnswer    \* what each poll has copied and sent

batchVars == <<jobStatus, jobCurrent, runStatuses, worker, pollAnswer>>

JobStatus == {"none", "running", "completed", "failed"}
WorkerStage == {"none", "between", "executing", "reporting", "ended"}
Unsent == Runs + 1  \* no number of run statuses

NoPollAnswer == [status |-> "none", runs |-> Unsent]

BatchTypeOK ==
  /\ jobStatus \in [Job -> JobStatus]
  /\ jobCurrent \in [Job -> 0..Runs]
  /\ runStatuses \in [Job -> 0..Runs]
  /\ worker \in [Job -> WorkerStage]
  /\ pollAnswer \in [Poll -> [Job -> [status : JobStatus, runs : 0..Unsent]]]

BatchInit ==
  /\ jobStatus = [j \in Job |-> "none"]
  /\ jobCurrent = [j \in Job |-> 0]
  /\ runStatuses = [j \in Job |-> 0]
  /\ worker = [j \in Job |-> "none"]
  /\ pollAnswer = [p \in Poll |-> [j \in Job |-> NoPollAnswer]]

-----------------------------------------------------------------------------
(* mutant: the check looks at the worker threads that have begun a run     *)
NoneExecuting == \A o \in Job : worker[o] # "executing"

NoneRunning == \A o \in Job : jobStatus[o] # "running"

(* start_batch_job: check and registration hold the lock, Thread.start     *)
(* follows.  If it raises, the job stays registered without a worker.      *)
StartJob(j) ==
  /\ jobStatus[j] = "none" /\ NoneRunning
  /\ jobStatus' = [jobStatus EXCEPT ![j] = "running"]
  /\ worker' \in {worker, [worker EXCEPT ![j] = "between"]}
  /\ UNCHANGED <<jobCurrent, runStatuses, pollAnswer>>

OneMoreRun(j) == jobCurrent[j] <= Runs  \* mutant: range(1, runs + 2)

RunsLeft(j) == jobCurrent[j] < Runs

(* update() before a run.                                                  *)
BeginRun(j) ==
  /\ worker[j] = "between" /\ RunsLeft(j)
  /\ worker' = [worker EXCEPT ![j] = "executing"]
  /\ jobCurrent' = [jobCurrent EXCEPT ![j] = @ + 1]
  /\ UNCHANGED <<jobStatus, runStatuses, pollAnswer>>

(* execute: a run that raises is recorded like any other.                  *)
ExecuteRun(j) ==
  /\ worker[j] = "executing"
  /\ worker' = [worker EXCEPT ![j] = "reporting"]
  /\ UNCHANGED <<jobStatus, jobCurrent, runStatuses, pollAnswer>>

(* update() after a run.                                                   *)
ReportRun(j) ==
  /\ worker[j] = "reporting"
  /\ worker' = [worker EXCEPT ![j] = "between"]
  /\ runStatuses' = [runStatuses EXCEPT ![j] = @ + 1]
  /\ UNCHANGED <<jobStatus, jobCurrent, pollAnswer>>

LastStarted(j) == jobCurrent[j] = Runs  \* mutant: the batch is over when the last run begins

AllReported(j) == worker[j] = "between" /\ jobCurrent[j] = Runs

EndBatch(j, result) ==
  /\ worker' = [worker EXCEPT ![j] = "ended"]
  /\ jobStatus' = [jobStatus EXCEPT ![j] = result]
  /\ UNCHANGED <<jobCurrent, runStatuses, pollAnswer>>

CompleteJob(j) ==
  /\ worker[j] \notin {"none", "ended"} /\ AllReported(j)
  /\ EndBatch(j, "completed")

(* mutant: the worker's exception is not caught                            *)
DieRunning(j) ==
  /\ worker[j] \in {"between", "reporting"}
  /\ EndBatch(j, "running")

(* A report or a directory that cannot be written ends the batch.          *)
FailBatch(j) ==
  /\ worker[j] \in {"between", "reporting"}
  /\ EndBatch(j, "failed")

(* batch_job copies the row under the lock ...                             *)
CopyJob(p, j) ==
  /\ jobStatus[j] # "none" /\ pollAnswer[p][j] = NoPollAnswer
  /\ pollAnswer' = [pollAnswer EXCEPT ![p][j].status = jobStatus[j]]
  /\ UNCHANGED <<jobStatus, jobCurrent, runStatuses, worker>>

(* ... and the list of run statuses is read when the answer is written.    *)
SendJob(p, j) ==
  /\ pollAnswer[p][j].status # "none" /\ pollAnswer[p][j].runs = Unsent
  /\ pollAnswer' = [pollAnswer EXCEPT ![p][j].runs = runStatuses[j]]
  /\ UNCHANGED <<jobStatus, jobCurrent, runStatuses, worker>>

WorkJob(j) == BeginRun(j) \/ ExecuteRun(j) \/ ReportRun(j) \/ CompleteJob(j) \/ FailBatch(j)

BatchNext ==
  \/ \E j \in Job : StartJob(j) \/ WorkJob(j)
  \/ \E p \in Poll, j \in Job : CopyJob(p, j) \/ SendJob(p, j)

(* The threads run, and a run ends: a turn has limits of its own.          *)
BatchSpec == BatchInit /\ [][BatchNext]_batchVars /\ \A j \in Job : WF_batchVars(WorkJob(j))

-----------------------------------------------------------------------------
(* Properties.                                                             *)

(* Two batches never run at once, also when a batch ends while another     *)
(* request asks for one (start_batch_job).                                 *)
OneWorker ==
  \A j, o \in Job : worker[j] \notin {"none", "ended"} /\ worker[o] \notin {"none", "ended"} => j = o

(* A poll that reports a completed batch shows the status of all its runs, *)
(* although the row and its list are read at different times (batch_job).  *)
CompletedShowsAllRuns ==
  \A p \in Poll, j \in Job :
    pollAnswer[p][j].status = "completed" /\ pollAnswer[p][j].runs # Unsent
      => pollAnswer[p][j].runs = Runs

(* A batch whose worker has started comes to an end, whatever its runs do, *)
(* so it never blocks later batches for good (worker).                     *)
StartedEnds == \A j \in Job : worker[j] = "between" ~> jobStatus[j] \in {"completed", "failed"}

=============================================================================
