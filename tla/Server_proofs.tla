------------------------------ MODULE Server_proofs ------------------------------
(***************************************************************************)
(* What TLAPS proves about the chat server: about TurnActivity for any     *)
(* number of turns on a session and any bound on their model calls, and    *)
(* about MCServer, the parts of the server side by side, from what is      *)
(* proved of each of them.                                                 *)
(***************************************************************************)
EXTENDS MCServer, SessionFile_proofs, TestBatches_proofs, MissionStore_proofs, TLAPS

(* The row belongs to a turn that has begun; its status is a cancellation  *)
(* only if its turn was asked to cancel or has its outcome; a turn is      *)
(* undecided until its thread leaves the loop, and one whose response came *)
(* late has left it cancelled.                                             *)
ActivityInv ==
  /\ TypeOK
  /\ row.turn \in Turn => stage[row.turn] # "idle"
  /\ row.turn = NoTurn => row.status = "settled"
  /\ row.status \in Cancelled => row.turn \in asked \/ outcome[row.turn] # "none"
  /\ \A t \in Turn : stage[t] \notin {"cancelling", "closing", "ended", "raised"}
                       => outcome[t] = "none"
  /\ \A t \in Turn : stage[t] = "cancelling" => outcome[t] = "cancelled"
  /\ \A t \in late : outcome[t] = "cancelled"
  /\ DiscardedOnlyOutdated
  /\ EndedTurnSettled

LEMMA ActivityInit == Init => ActivityInv
  BY TurnAssumption
     DEF Init, ActivityInv, TypeOK, Status, Stage, Outcome, Cancelled, Terminal,
         DiscardedOnlyOutdated, EndedTurnSettled

(* One step per action; the lock makes each of them atomic.                *)
LEMMA ActivityStep == ActivityInv /\ [Next]_vars => ActivityInv'
<1> SUFFICES ASSUME ActivityInv, [Next]_vars PROVE ActivityInv'
  OBVIOUS
<1> USE TurnAssumption DEF Status, Terminal, Cancelled, Stage, Outcome
<1>1. ASSUME NEW t \in Turn, RequestCancel(t) PROVE ActivityInv'
  BY <1>1 DEF RequestCancel, Update, ActivityInv, TypeOK, DiscardedOnlyOutdated,
            EndedTurnSettled
<1>2. ASSUME NEW t \in Turn, Begin(t) PROVE ActivityInv'
  BY <1>2 DEF Begin, Move, Update, ActivityInv, TypeOK, DiscardedOnlyOutdated,
            EndedTurnSettled
<1>3. ASSUME NEW t \in Turn, Plan(t) PROVE ActivityInv'
  BY <1>3 DEF Plan, Update, ActivityInv, TypeOK, DiscardedOnlyOutdated,
            EndedTurnSettled
<1>4. ASSUME NEW t \in Turn, Withhold(t) PROVE ActivityInv'
  BY <1>4 DEF Withhold, Move, Update, ActivityInv, TypeOK, DiscardedOnlyOutdated,
            EndedTurnSettled
<1>5. ASSUME NEW t \in Turn, Call(t) PROVE ActivityInv'
  BY <1>5 DEF Call, CallsLeft, Move, Update, ActivityInv, TypeOK, DiscardedOnlyOutdated,
            EndedTurnSettled
<1>6. ASSUME NEW t \in Turn, Respond(t) PROVE ActivityInv'
  BY <1>6 DEF Respond, Accepted, Current, Move, Update, ActivityInv, TypeOK, DiscardedOnlyOutdated,
            EndedTurnSettled
<1>7. ASSUME NEW t \in Turn, ShowCancelled(t) PROVE ActivityInv'
  BY <1>7 DEF ShowCancelled, Move, Update, ActivityInv, TypeOK, DiscardedOnlyOutdated,
            EndedTurnSettled
<1>8. ASSUME NEW t \in Turn, Accept(t) PROVE ActivityInv'
  BY <1>8 DEF Accept, Accepted, Current, Move, Update, ActivityInv, TypeOK, DiscardedOnlyOutdated,
            EndedTurnSettled
<1>9. ASSUME NEW t \in Turn, Act(t) PROVE ActivityInv'
  BY <1>9 DEF Act, Move, Update, ActivityInv, TypeOK, DiscardedOnlyOutdated,
            EndedTurnSettled
<1>10. ASSUME NEW t \in Turn, Fail(t) PROVE ActivityInv'
  BY <1>10 DEF Fail, Move, Update, ActivityInv, TypeOK, DiscardedOnlyOutdated,
            EndedTurnSettled
<1>11. ASSUME NEW t \in Turn, Gate(t) PROVE ActivityInv'
  BY <1>11 DEF Gate, Update, ActivityInv, TypeOK, DiscardedOnlyOutdated,
            EndedTurnSettled
<1>12. ASSUME NEW t \in Turn, Finish(t) PROVE ActivityInv'
  BY <1>12 DEF Finish, Move, Update, ActivityInv, TypeOK, DiscardedOnlyOutdated,
            EndedTurnSettled
<1>13. ASSUME NEW t \in Turn, Raise(t) PROVE ActivityInv'
  BY <1>13 DEF Raise, Move, Update, ActivityInv, TypeOK, DiscardedOnlyOutdated,
            EndedTurnSettled
<1>14. CASE UNCHANGED vars
  BY <1>14 DEF vars, ActivityInv, TypeOK, DiscardedOnlyOutdated, EndedTurnSettled
<1> QED
  BY <1>1, <1>2, <1>3, <1>4, <1>5, <1>6, <1>7, <1>8, <1>9, <1>10, <1>11, <1>12, <1>13, <1>14
     DEF Next, Step

-----------------------------------------------------------------------------
(* The invariant from which the next three theorems follow.                *)
THEOREM ActivityInvariant == Spec => []ActivityInv
<1> QED BY ActivityInit, ActivityStep, PTL DEF Spec

(* However many turns share a session, a response that comes after a newer *)
(* turn has begun is not used (accept_final_response).                     *)
THEOREM LateResponsesDiscarded == Spec => []OutdatedDiscarded
<1>1. ActivityInv => OutdatedDiscarded
  BY DEF ActivityInv, OutdatedDiscarded
<1> QED BY <1>1, ActivityInvariant, PTL

(* The turn that owns the row loses its answer only to a cancellation of   *)
(* its own: the comparison of turn ids shields it from every older turn    *)
(* (update_activity).                                                      *)
THEOREM NewestTurnShielded == Spec => []DiscardedOnlyOutdated
<1>1. ActivityInv => DiscardedOnlyOutdated
  BY DEF ActivityInv
<1> QED BY <1>1, ActivityInvariant, PTL

(* The row of a turn that ended stays terminal until the next turn begins  *)
(* (finish_turn).                                                          *)
THEOREM EndedStaysSettled == Spec => []EndedTurnSettled
<1>1. ActivityInv => EndedTurnSettled
  BY DEF ActivityInv
<1> QED BY <1>1, ActivityInvariant, PTL

-----------------------------------------------------------------------------
(* A step of the server is a step of the part that runs and a stutter of   *)
(* the others.                                                             *)
serverVars == <<part, vars, sessionVars, batchVars, missionVars>>

LEMMA OnePartSteps ==
  [ServerNext]_serverVars =>
    /\ [Next]_vars /\ [SessionNext]_sessionVars
    /\ [BatchNext]_batchVars /\ [MissionNext]_missionVars
  BY DEF ServerNext, Alone, serverVars

ServerInv == ActivityInv /\ SessionInv /\ BatchInv /\ MissionInv /\ NumberInv /\ NumbersBounded

(* The invariants of the parts hold side by side.                          *)
THEOREM ServerInvariant == ServerSpec => []ServerInv
<1>1. ServerInit => ServerInv
  BY ActivityInit, SessionInitInv, BatchInitInv, MissionInitInv, NumberInit, BoundInit
     DEF ServerInit, ServerInv
<1>2. ServerInv /\ [ServerNext]_serverVars => ServerInv'
  BY OnePartSteps, ActivityStep, SessionStep, BatchStep, MissionStep, NumberStep, BoundStep
     DEF ServerInv
<1> QED BY <1>1, <1>2, PTL DEF ServerSpec, serverVars

(* Every variable of the server keeps its type, for any number of turns,   *)
(* requests, jobs, polls and executions (activity_status, the session      *)
(* file, start_batch_job, persist_chat_execution).                         *)
THEOREM ServerTypeCorrect == ServerSpec => []ServerTypeOK
<1>1. ServerInv => ServerTypeOK
  BY DEF ServerInv, ServerTypeOK, ActivityInv, SessionInv, BatchInv, MissionInv, StoreTypes,
         NumbersBounded, MissionTypeOK
<1> QED BY <1>1, ServerInvariant, PTL

(* What is proved of a part alone holds of it in the server: its           *)
(* behaviours there are behaviours of its own specification.  Fairness,    *)
(* which only the batches have, plays no role in their invariants.         *)
THEOREM ServerSafe ==
  ServerSpec =>
    /\ [](OutdatedDiscarded /\ DiscardedOnlyOutdated /\ EndedTurnSettled)
    /\ []LostOnlyToOverlap /\ FileIsLog
    /\ [](OneWorker /\ CompletedShowsAllRuns)
    /\ [](CreatorCites /\ SequencesInOrder /\ DecisionsKept)
<1>1. ServerSpec => Spec /\ SessionSpec /\ MissionSpec
  <2>1. ServerInit => Init /\ SessionInit /\ MissionInit
    BY DEF ServerInit
  <2> QED
    BY <2>1, OnePartSteps, PTL DEF ServerSpec, serverVars, Spec, SessionSpec, MissionSpec
<1>2. BatchInv => OneWorker /\ CompletedShowsAllRuns
  BY DEF BatchInv, BatchTypeOK, OneRunning, Alive, WorkerStage, OneWorker
<1>3. ServerInv => BatchInv
  BY DEF ServerInv
<1> QED
  BY <1>1, <1>2, <1>3, ServerInvariant, LateResponsesDiscarded, NewestTurnShielded,
     EndedStaysSettled, OnlyOverlapLoses, FileImplementsLog, EvidenceIsCited,
     NumberedInOrder, DecisionsStay, PTL
=============================================================================
