----------------------------- MODULE TurnActivity -----------------------------
(***************************************************************************)
(* The activity row of a chat session and the turns that share it          *)
(* (ai_tool/chat_interface/activity_status with run_chat_turn and          *)
(* _chat_turn).  The server runs every request in its own thread: a second *)
(* request on the session takes the row over, and the row decides whether  *)
(* the answer that the older turn still waits for is used.                 *)
(***************************************************************************)
EXTENDS Naturals

CONSTANTS
  Turn,      \* correlation ids of the turns of one session
  NoTurn,    \* the owner of the row before the first turn
  MaxCalls   \* bound on the model calls of a turn

ASSUME TurnAssumption == NoTurn \notin Turn /\ MaxCalls \in Nat

VARIABLES
  row,       \* _ACTIVE[session_id]: the turn that owns it and its status
  stage,     \* where the thread of each turn is
  outcome,   \* what became of its answer: the locals answer, cancelled, error
  calls,     \* its model calls
  asked,     \* turns that request_cancel reached before their outcome
  late       \* turns whose response came after a newer turn had begun

vars == <<row, stage, outcome, calls, asked, late>>

(* "working" and "settled" stand for the statuses in which a turn goes on  *)
(* and for COMPLETED, BLOCKED, FAILED and AWAITING_USER.                   *)
Status    == {"working", "cancel_requested", "cancelled", "settled"}
Terminal  == {"cancel_requested", "cancelled", "settled"}
Cancelled == {"cancel_requested", "cancelled"}
Stage     == {"idle", "planning", "calling", "received", "acting", "observed",
              "synthesizing", "cancelling", "closing", "ended", "raised"}
Outcome   == {"none", "answered", "cancelled", "failed", "withheld"}

TypeOK ==
  /\ row \in [turn : Turn \cup {NoTurn}, status : Status]
  /\ stage \in [Turn -> Stage]
  /\ outcome \in [Turn -> Outcome]
  /\ calls \in [Turn -> 0..MaxCalls]
  /\ asked \subseteq Turn
  /\ late \subseteq Turn

Init ==
  /\ row = [turn |-> NoTurn, status |-> "settled"]
  /\ stage = [t \in Turn |-> "idle"]
  /\ outcome = [t \in Turn |-> "none"]
  /\ calls = [t \in Turn |-> 0]
  /\ asked = {}
  /\ late = {}

-----------------------------------------------------------------------------
(* activity_status: each operation holds the lock.                         *)

BlindUpdate(t, status) ==  \* mutant: the row is taken without comparing turn_id
  row' = IF row.turn # NoTurn THEN [row EXCEPT !.status = status] ELSE row

Update(t, status) ==
  row' = IF row.turn = t THEN [row EXCEPT !.status = status] ELSE row

Current(t) == row.turn = t /\ row.status \notin Cancelled

AnyAccepted(t) == "answered"  \* mutant: the response is not checked again

(* accept_final_response.                                                  *)
Accepted(t) == IF Current(t) THEN "answered" ELSE "cancelled"

Move(t, from, to) == stage[t] \in from /\ stage' = [stage EXCEPT ![t] = to]

(* A cancellation can come at any time, also for a turn that is over.      *)
RequestCancel(t) ==
  /\ row.turn = t
  /\ Update(t, "cancel_requested")
  /\ asked' = IF outcome[t] = "none" THEN asked \cup {t} ELSE asked
  /\ UNCHANGED <<stage, outcome, calls, late>>

-----------------------------------------------------------------------------
(* The steps of a turn.                                                    *)

Begin(t) ==
  /\ Move(t, {"idle"}, "planning")
  /\ row' = [turn |-> t, status |-> "working"]
  /\ UNCHANGED <<outcome, calls, asked, late>>

(* GOAL_CREATING, TASK_RUNNING or AWAITING_USER before the loop.           *)
Plan(t) ==
  /\ stage[t] = "planning"
  /\ \E status \in {"working", "settled"} : Update(t, status)
  /\ UNCHANGED <<stage, outcome, calls, asked, late>>

(* A turn without the loop, a turn whose loop is skipped, and a stop that  *)
(* allows no further model call.                                           *)
Withhold(t) ==
  /\ Move(t, {"planning", "observed"}, "closing")
  /\ outcome' = [outcome EXCEPT ![t] = "withheld"]
  /\ UNCHANGED <<row, calls, asked, late>>

OneMoreCall(t) == calls[t] <= MaxCalls  \* mutant

(* The limits that end the loop, as a bound on model calls.                *)
CallsLeft(t) == calls[t] < MaxCalls

(* The next model call of the loop, or the one that the tool limit allows. *)
Call(t) ==
  /\ CallsLeft(t)
  /\ \/ Move(t, {"planning", "observed"}, "calling")
     \/ Move(t, {"observed"}, "synthesizing")
  /\ Update(t, "working")
  /\ calls' = [calls EXCEPT ![t] = @ + 1]
  /\ UNCHANGED <<outcome, asked, late>>

Respond(t) ==
  /\ \/ Current(t) /\ Move(t, {"calling"}, "received") /\ UNCHANGED outcome
     \/ /\ ~ Current(t) /\ Move(t, {"calling"}, "cancelling")
        /\ outcome' = [outcome EXCEPT ![t] = "cancelled"]
     \/ /\ Move(t, {"synthesizing"}, "closing")
        /\ outcome' = [outcome EXCEPT ![t] = Accepted(t)]
  /\ late' = IF row.turn # t THEN late \cup {t} ELSE late
  /\ UNCHANGED <<row, calls, asked>>

(* activity(CANCELLED) of a turn that found its response outdated.         *)
ShowCancelled(t) ==
  /\ Move(t, {"cancelling"}, "closing")
  /\ Update(t, "cancelled")
  /\ UNCHANGED <<outcome, calls, asked, late>>

Accept(t) ==
  /\ Move(t, {"received"}, "closing")
  /\ outcome' = [outcome EXCEPT ![t] = Accepted(t)]
  /\ UNCHANGED <<row, calls, asked, late>>

(* A tool call, from the response or chosen without the model, and the     *)
(* audit of its result; a replan goes on without a tool.                   *)
Act(t) ==
  /\ \/ Move(t, {"planning", "received", "observed"}, "acting")
     \/ Move(t, {"received", "acting"}, "observed")
  /\ Update(t, "working")
  /\ UNCHANGED <<outcome, calls, asked, late>>

(* An exception inside the loop.                                           *)
Fail(t) ==
  /\ Move(t, {"calling", "received", "acting", "observed", "synthesizing"}, "closing")
  /\ outcome' = [outcome EXCEPT ![t] = "failed"]
  /\ UNCHANGED <<row, calls, asked, late>>

(* FINAL_SYNTHESIS while the answer is gated; cancelled and failed turns   *)
(* leave before.                                                           *)
Gate(t) ==
  /\ stage[t] = "closing" /\ outcome[t] \in {"answered", "withheld"}
  /\ Update(t, "working")
  /\ UNCHANGED <<stage, outcome, calls, asked, late>>

Finish(t) ==
  /\ Move(t, {"closing"}, "ended")
  /\ Update(t, IF outcome[t] = "cancelled" THEN "cancelled" ELSE "settled")
  /\ UNCHANGED <<outcome, calls, asked, late>>

(* An exception outside the loop, which the request handler reports.       *)
Raise(t) ==
  /\ Move(t, {"planning", "closing"}, "raised")
  /\ UNCHANGED <<row, outcome, calls, asked, late>>

Step(t) ==
  \/ RequestCancel(t) \/ Begin(t) \/ Plan(t) \/ Withhold(t) \/ Call(t) \/ Respond(t)
  \/ ShowCancelled(t) \/ Accept(t) \/ Act(t) \/ Fail(t) \/ Gate(t) \/ Finish(t) \/ Raise(t)

Next == \E t \in Turn : Step(t)

Spec == Init /\ [][Next]_vars

-----------------------------------------------------------------------------
(* Properties.                                                             *)

(* A response that arrives after a newer turn has begun is never the       *)
(* answer (response_is_current, accept_final_response).                    *)
OutdatedDiscarded == \A t \in late : outcome[t] # "answered"

(* A response is thrown away only if its own turn was cancelled or a newer *)
(* turn has begun: no older turn, however late it notices, cancels the     *)
(* turn that replaced it (update_activity, finish_turn).                   *)
DiscardedOnlyOutdated ==
  \A t \in Turn : outcome[t] = "cancelled" => t \in asked \/ row.turn # t

(* When the turn that owns the row has ended, the row says so and no older *)
(* turn that is still running makes the session look busy again            *)
(* (update_activity, finish_turn).                                         *)
EndedTurnSettled ==
  \A t \in Turn : stage[t] = "ended" /\ row.turn = t => row.status \in Terminal

(* "Rejection of responses that arrive after a cancellation": a turn that  *)
(* was cancelled before its response was accepted is not answered by it.   *)
CancelHonoured == \A t \in asked : outcome[t] # "answered"

=============================================================================
